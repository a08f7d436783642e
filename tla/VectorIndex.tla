----------------------------- MODULE VectorIndex -----------------------------
(***************************************************************************)
(* The Chroma collection as the ingestion code uses it                     *)
(* (apps/documents/vector_store.py).  A key is a (document, generation)    *)
(* pair; what matters about the chunks stored under it is whether none,    *)
(* some or all of those the pipeline produced are there.  Chroma promises  *)
(* no atomicity: a call that raises, or even one that returns, may have    *)
(* stored or removed part of the batch.                                    *)
(***************************************************************************)
EXTENDS Naturals

CONSTANT Keys

VARIABLE vectors   \* what the collection holds for each key

Contents == {"none", "partial", "full"}

VectorsTypeOK == vectors \in [Keys -> Contents]

VectorsInit == vectors = [k \in Keys |-> "none"]

Store(k, v) == vectors' = [vectors EXCEPT ![k] = v]

\* add_texts that returned: the readback exists because this does not prove
\* that every chunk is there.
AddTexts(k) == \E v \in {"partial", "full"} : Store(k, v)

\* add_texts that raised: the batch may have gone in, in part or in full.
AddTextsRaises(k) == \E v \in {vectors[k], "partial", "full"} : Store(k, v)

\* Mutant of ReadbackMatches: whatever is found is taken for the batch.
ReadbackSkipped(k) == vectors[k] \in Contents

\* The exact readback of write_document_generation: every id, and no other.
ReadbackMatches(k) == vectors[k] = "full"

\* delete_document_generation looks the ids up, then deletes the ids found,
\* in two calls; `seen` is what the lookup found.
LookupCovers(seen, k) == seen = "full" \/ vectors[k] \in {"none", seen}

\* Mutant of AfterDelete: the lookup returns only a first page of the ids.
AfterFirstPage(seen, k) == IF vectors[k] = "full" THEN "partial" ELSE "none"

AfterDelete(seen, k) ==
    IF seen = "none" THEN vectors[k]
    ELSE IF LookupCovers(seen, k) THEN "none" ELSE "partial"

DeleteIds(seen, k) == Store(k, AfterDelete(seen, k))

DeleteIdsRaises(seen, k) ==
    \E v \in {vectors[k], AfterDelete(seen, k)}
               \cup (IF seen # "none" /\ vectors[k] # "none" THEN {"partial"} ELSE {}) :
      Store(k, v)

=============================================================================
