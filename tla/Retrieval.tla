------------------------------ MODULE Retrieval ------------------------------
(***************************************************************************)
(* What a chat request reads (apps/documents/retrieval.py and the reading  *)
(* half of vector_store.py), while the documents are processed, cleaned    *)
(* and edited.  A request reads the active generations of its user, then   *)
(* searches Chroma with them as a filter, then checks every chunk that     *)
(* comes back against what it read; neither store waits for the other.     *)
(*                                                                         *)
(* A chunk is known by its key, a generation of a document: its metadata   *)
(* are those it was written with.  Ranking and k only choose among the     *)
(* chunks, so any of them may come back.                                   *)
(***************************************************************************)
EXTENDS IngestionAdmin

CONSTANTS
    Readers,       \* chat requests
    Users,
    Owner,         \* Document.owner, the user_id in the chunks' metadata
    ChromaFaults   \* "filter": the filter is not applied; "store": calls raise

ASSUME RetrievalAssumption ==
    /\ Owner \in [Docs -> Users]
    /\ ChromaFaults \subseteq {"filter", "store"}

VARIABLE reader   \* each request: its user, the pairs it read, its answer

retrievalVars == <<adminVars, reader>>

ReaderStates ==
    [at     : {"idle", "searching", "answered", "failed"},
     user   : Users,
     pairs  : SUBSET Keys,
     answer : SUBSET Keys]

RetrievalInit ==
    /\ AdminInit
    /\ reader \in [Readers -> [at : {"idle"}, user : Users, pairs : {{}}, answer : {{}}]]

ActivePairs(u) == {<<d, active[d]>> : d \in {e \in Docs : Owner[e] = u /\ active[e] # None}}

Read(r, state) == reader' = [reader EXCEPT ![r] = state]

\* The query for the active pairs; without any the answer is empty at once.
ReadPairs(r) ==
    LET pairs == ActivePairs(reader[r].user)
    IN  /\ reader[r].at = "idle"
        /\ Read(r, [reader[r] EXCEPT !.pairs = pairs,
                      !.at = IF pairs = {} THEN "answered" ELSE "searching"])
        /\ UNCHANGED adminVars

\* build_search_kwargs_for_user: owner and generation, both required.
Filter(r) == {k \in reader[r].pairs : Owner[k[1]] = reader[r].user}

Stored == {k \in Keys : vectors[k] # "none"}

Searched(r) == IF "filter" \in ChromaFaults THEN Stored ELSE Stored \cap Filter(r)

\* The check of the caller: the document had this generation in the snapshot.
\* A generation is a UUID, so the store, which compares generations alone with
\* those of the snapshot, asks the same.
InSnapshot(r, k) == k \in reader[r].pairs

\* Mutant of Untrusted: the generation is not compared.
ForeignOnly(r, k) == Owner[k[1]] # reader[r].user

\* _result_metadata_is_untrusted, with the check of the caller.
Untrusted(r, k) == Owner[k[1]] # reader[r].user \/ ~InSnapshot(r, k)

\* Chroma answers, and the chunks are checked: one bad chunk fails the call.
Search(r) ==
    /\ reader[r].at = "searching"
    /\ \E found \in SUBSET Searched(r) :
         Read(r, IF \E k \in found : Untrusted(r, k)
                   THEN [reader[r] EXCEPT !.at = "failed"]
                   ELSE [reader[r] EXCEPT !.at = "answered", !.answer = found])
    /\ UNCHANGED adminVars

\* The store cannot be built, or Chroma raises: VectorRetrievalError.
SearchRaises(r) ==
    /\ "store" \in ChromaFaults
    /\ reader[r].at = "searching"
    /\ Read(r, [reader[r] EXCEPT !.at = "failed"])
    /\ UNCHANGED adminVars

\* The request is over; the user asks again.
AskAgain(r) ==
    /\ reader[r].at \in {"answered", "failed"}
    /\ Read(r, [reader[r] EXCEPT !.at = "idle", !.pairs = {}, !.answer = {}])
    /\ UNCHANGED adminVars

RetrievalNext ==
    \/ \E r \in Readers : ReadPairs(r) \/ Search(r) \/ SearchRaises(r) \/ AskAgain(r)
    \/ AdminNext /\ UNCHANGED reader

RetrievalSpec == RetrievalInit /\ [][RetrievalNext]_retrievalVars

-----------------------------------------------------------------------------
(* Properties *)

\* What a request searches stays whole while it searches: a generation that
\* was active when the request read it is not cleaned under it, although the
\* cleanup knows nothing of requests and an operator's form may have taken the
\* pointer away in between.
SearchedStaysWhole ==
    \A r \in Readers : reader[r].at = "searching" =>
      \A k \in reader[r].pairs : vectors[k] = "full"

\* An answer draws only on documents of the user who asked, and only on
\* generations that were verified and activated: not on partial, failed or
\* unfinished ones, even from a Chroma that does not apply the filter.
AnswerIsVerified ==
    \A r \in Readers : reader[r].at = "answered" =>
      \A k \in reader[r].answer :
        Owner[k[1]] = reader[r].user /\ manifest[k].status = "ACTIVE"

=============================================================================
