---------------------------- MODULE OutboxProofs ----------------------------
(***************************************************************************)
(* Proofs about DispatchOutbox for any set of rows and publishers, any     *)
(* limits and any faults.                                                  *)
(*                                                                         *)
(* The bound on attempts is not inductive by itself.  A failing publisher  *)
(* decides between PENDING and DEAD by the attempts it read when it        *)
(* claimed, not by those in the row; the two agree because a row in        *)
(* PUBLISHING carries the token of its last claim.  And a row in line must *)
(* have an attempt left.  RowInv says both.                                *)
(***************************************************************************)
EXTENDS DispatchOutbox, TLAPS

-----------------------------------------------------------------------------
(* Type correctness: first the rows, then the publishers *)

\* A step that gives a set of rows, or one of them, new row values and
\* touches nothing else.
LEMMA RowWritersKeepType ==
    ASSUME OutboxTypeOK,
           row' \in [Intents -> Rows],
           UNCHANGED <<publisher, queue, accepted>>
    PROVE  OutboxTypeOK'
BY DEF OutboxTypeOK

LEMMA AbsentIsRow == AbsentRow \in Rows
<1>1. 0 \in 0..MaxRetries
  BY OutboxAssumption
<1> QED
  BY <1>1 DEF AbsentRow, Rows, NoToken

LEMMA CreateKeepsType ==
    ASSUME OutboxTypeOK, NEW i \in Intents, CreateDispatches({i})
    PROVE  OutboxTypeOK'
<1>1. [AbsentRow EXCEPT !.status = "PENDING", !.due = TRUE] \in Rows
  BY AbsentIsRow DEF Rows
<1>2. row' \in [Intents -> Rows]
  BY <1>1 DEF OutboxTypeOK, CreateDispatches
<1> QED
  BY <1>2, RowWritersKeepType DEF CreateDispatches

LEMMA RetryKeepsType ==
    ASSUME OutboxTypeOK, NEW i \in Intents, RetryDispatch(i)
    PROVE  OutboxTypeOK'
<1>1. row[i] \in Rows
  BY DEF OutboxTypeOK
<1>2. row[i].retries + 1 \in 0..MaxRetries
  BY <1>1, OutboxAssumption DEF RetryDispatch, Rows
<1>3. [row[i] EXCEPT !.status = "PENDING", !.token = NoToken, !.due = TRUE,
                     !.expired = FALSE, !.retries = @ + 1] \in Rows
  BY <1>1, <1>2 DEF Rows, NoToken
<1>4. row' = [row EXCEPT ![i] =
                [row[i] EXCEPT !.status = "PENDING", !.token = NoToken, !.due = TRUE,
                               !.expired = FALSE, !.retries = @ + 1]]
  BY <1>1 DEF RetryDispatch, OutboxTypeOK, Rows
<1>5. row' \in [Intents -> Rows]
  BY <1>3, <1>4 DEF OutboxTypeOK
<1> QED
  BY <1>5, RowWritersKeepType DEF RetryDispatch

LEMMA ClocksKeepType ==
    ASSUME OutboxTypeOK, NEW i \in Intents, BecomesAvailable(i) \/ ClaimExpires(i)
    PROVE  OutboxTypeOK'
<1>1. row[i] \in Rows
  BY DEF OutboxTypeOK
<1>2. [row[i] EXCEPT !.due = TRUE] \in Rows /\ [row[i] EXCEPT !.expired = TRUE] \in Rows
  BY <1>1 DEF Rows
<1>3. row' \in [Intents -> Rows]
  BY <1>1, <1>2 DEF OutboxTypeOK, BecomesAvailable, ClaimExpires
<1> QED
  BY <1>3, RowWritersKeepType DEF BecomesAvailable, ClaimExpires

LEMMA ResetsKeepType ==
    ASSUME OutboxTypeOK, BuryExpiredClaims \/ ReleaseExpiredClaims
    PROVE  OutboxTypeOK'
<1>1. CASE BuryExpiredClaims
  BY <1>1 DEF OutboxTypeOK, BuryExpiredClaims, Rows, NoToken
<1>2. CASE ReleaseExpiredClaims
  BY <1>2 DEF OutboxTypeOK, ReleaseExpiredClaims, Rows, NoToken
<1> QED
  BY <1>1, <1>2

LEMMA ClaimKeepsType ==
    ASSUME OutboxTypeOK, NEW p \in Publishers, NEW S \in SUBSET Intents, ClaimDue(p, S)
    PROVE  OutboxTypeOK'
<1>1. ASSUME NEW i \in S
      PROVE  row[i].attempts + 1 \in Nat \ {0} /\ ClaimedRow(row[i]) \in Rows
  <2>1. row[i] \in Rows
    BY DEF OutboxTypeOK
  <2>2. row[i].attempts \in Nat /\ row[i].attempts + 1 \in Nat \ {0}
    BY <2>1 DEF Rows
  <2> QED
    BY <2>1, <2>2 DEF ClaimedRow, Rows
<1>2. row' \in [Intents -> Rows]
  BY <1>1 DEF OutboxTypeOK, ClaimDue
<1>3. {[intent |-> i, attempt |-> row[i].attempts + 1, outcome |-> "todo"] : i \in S}
        \in SUBSET Claims
  BY <1>1 DEF Claims
<1>4. publisher' \in [Publishers -> SUBSET Claims]
  BY <1>3 DEF OutboxTypeOK, ClaimDue
<1> QED
  BY <1>2, <1>4 DEF OutboxTypeOK, ClaimDue

LEMMA EnqueueKeepsType ==
    ASSUME OutboxTypeOK, NEW p \in Publishers, NEW c \in publisher[p], Enqueue(p, c)
    PROVE  OutboxTypeOK'
<1>1. c \in Claims
  BY DEF OutboxTypeOK
<1>2. PICK taken \in BOOLEAN, raised \in BOOLEAN :
        /\ queue' = IF taken THEN queue \cup {c.intent} ELSE queue
        /\ accepted' = IF taken
                         THEN [accepted EXCEPT ![c.intent] = @ \cup {c.attempt}]
                         ELSE accepted
        /\ publisher' =
             [publisher EXCEPT ![p] =
                (@ \ {c}) \cup
                {[c EXCEPT !.outcome = IF raised THEN "failed" ELSE "sent"]}]
  BY DEF Enqueue
<1>3. [c EXCEPT !.outcome = IF raised THEN "failed" ELSE "sent"] \in Claims
  BY <1>1 DEF Claims
<1>4. publisher' \in [Publishers -> SUBSET Claims]
  BY <1>2, <1>3 DEF OutboxTypeOK
<1>5. accepted' \in [Intents -> SUBSET (Nat \ {0})]
  BY <1>1, <1>2 DEF OutboxTypeOK, Claims
<1>6. queue' \subseteq Intents
  BY <1>1, <1>2 DEF OutboxTypeOK, Claims
<1> QED
  BY <1>4, <1>5, <1>6 DEF OutboxTypeOK, Enqueue

LEMMA MarksKeepType ==
    ASSUME OutboxTypeOK, NEW p \in Publishers, NEW c \in publisher[p],
           MarkPublished(p, c) \/ MarkFailed(p, c)
    PROVE  OutboxTypeOK'
<1>1. c.intent \in Intents /\ row[c.intent] \in Rows
  BY DEF OutboxTypeOK, Claims
<1>2. row' \in [Intents -> Rows]
  <2>1. CASE MarkPublished(p, c)
    BY <1>1, <2>1 DEF OutboxTypeOK, MarkPublished, Rows, NoToken
  <2>2. CASE MarkFailed(p, c)
    <3>1. StatusAfterFailure(c.attempt) \in {"PENDING", "DEAD"}
      BY DEF StatusAfterFailure
    <3> QED
      BY <1>1, <2>2, <3>1 DEF OutboxTypeOK, MarkFailed, Rows, NoToken
  <2> QED
    BY <2>1, <2>2
<1>3. publisher' \in [Publishers -> SUBSET Claims]
  BY DEF OutboxTypeOK, MarkPublished, MarkFailed, Forget
<1> QED
  BY <1>2, <1>3 DEF OutboxTypeOK, MarkPublished, MarkFailed

LEMMA OthersKeepType ==
    ASSUME OutboxTypeOK,
           \/ \E p \in Publishers : PublisherCrash(p)
           \/ \E i \in Intents : TakeMessage(i)
    PROVE  OutboxTypeOK'
BY DEF OutboxTypeOK, PublisherCrash, TakeMessage

\* Every value the module gives its variables is well typed.
THEOREM OutboxTypeCorrect == OutboxSafety => []OutboxTypeOK
<1>1. OutboxInit => OutboxTypeOK
  BY AbsentIsRow DEF OutboxInit, OutboxTypeOK
<1>2. OutboxTypeOK /\ [OutboxNext]_outboxVars => OutboxTypeOK'
  <2> SUFFICES ASSUME OutboxTypeOK, [OutboxNext]_outboxVars
               PROVE  OutboxTypeOK'
    OBVIOUS
  <2>1. CASE \E i \in Intents : row[i].status = "ABSENT" /\ CreateDispatches({i})
    BY <2>1, CreateKeepsType
  <2>2. CASE \E i \in Intents : TakeMessage(i)
    BY <2>2, OthersKeepType
  <2>3. CASE \E p \in Publishers : PublisherStep(p)
    BY <2>3, ClaimKeepsType, EnqueueKeepsType, MarksKeepType, OthersKeepType
       DEF PublisherStep
  <2>4. CASE BuryExpiredClaims \/ ReleaseExpiredClaims
    BY <2>4, ResetsKeepType
  <2>5. CASE \E i \in Intents :
               RetryDispatch(i) \/ BecomesAvailable(i) \/ ClaimExpires(i) \/ LoseMessage(i)
    BY <2>5, RetryKeepsType, ClocksKeepType, OthersKeepType DEF LoseMessage
  <2>6. CASE UNCHANGED outboxVars
    BY <2>6 DEF OutboxTypeOK, outboxVars
  <2> QED
    BY <2>1, <2>2, <2>3, <2>4, <2>5, <2>6 DEF OutboxNext, OutboxInternal
<1> QED
  BY <1>1, <1>2, PTL DEF OutboxSafety

-----------------------------------------------------------------------------
(* The bound on attempts *)

\* What a step must leave true of every row for the bound to be inductive.
RowInv(r) ==
    /\ r.status = "PUBLISHING" => r.token = r.attempts
    /\ r.status = "PENDING" => r.attempts < PublishMax + r.retries
    /\ r.attempts <= PublishMax + r.retries

RowsInv == \A i \in Intents : RowInv(row[i])

LEMMA MarksKeepRows ==
    ASSUME OutboxTypeOK, RowsInv, NEW p \in Publishers, NEW c \in publisher[p],
           MarkPublished(p, c) \/ MarkFailed(p, c)
    PROVE  RowsInv'
<1> DEFINE r == row[c.intent]
<1>1. c \in Claims /\ r \in Rows
  BY DEF OutboxTypeOK, Claims
<1>2. CASE ~HoldsClaim(c)
  BY <1>2 DEF RowsInv, MarkPublished, MarkFailed
<1>3. CASE HoldsClaim(c)
  \* The row is still in the claim, so its attempts are those of the claim.
  <2>1. r.attempts = c.attempt /\ r.attempts <= PublishMax + r.retries
    BY <1>1, <1>3 DEF HoldsClaim, RowsInv, RowInv, Claims
  <2>2. RowInv(row'[c.intent])
    <3>1. CASE MarkPublished(p, c)
      BY <1>1, <1>3, <2>1, <3>1 DEF MarkPublished, OutboxTypeOK, Rows, RowInv, Claims
    <3>2. CASE MarkFailed(p, c) /\ c.attempt >= PublishMax
      BY <1>1, <1>3, <2>1, <3>2
         DEF MarkFailed, StatusAfterFailure, OutboxTypeOK, Rows, RowInv, Claims
    <3>3. CASE MarkFailed(p, c) /\ ~(c.attempt >= PublishMax)
      <4>1. c.attempt < PublishMax + r.retries
        BY <1>1, <3>3, OutboxAssumption DEF Claims, Rows
      <4> QED
        BY <1>1, <1>3, <2>1, <3>3, <4>1
           DEF MarkFailed, StatusAfterFailure, OutboxTypeOK, Rows, RowInv, Claims
    <3> QED
      BY <3>1, <3>2, <3>3
  <2>3. \A i \in Intents : i # c.intent => row'[i] = row[i]
    BY <1>1 DEF MarkPublished, MarkFailed, OutboxTypeOK, Claims
  <2> QED
    BY <2>2, <2>3 DEF RowsInv
<1> QED
  BY <1>2, <1>3

LEMMA ResetsKeepRows ==
    ASSUME OutboxTypeOK, RowsInv, BuryExpiredClaims \/ ReleaseExpiredClaims
    PROVE  RowsInv'
<1> SUFFICES ASSUME NEW i \in Intents PROVE RowInv(row'[i])
  BY DEF RowsInv
<1>1. row[i] \in Rows /\ RowInv(row[i])
  BY DEF OutboxTypeOK, RowsInv
<1>2. CASE BuryExpiredClaims
  BY <1>1, <1>2 DEF BuryExpiredClaims, RowInv, Rows
<1>3. CASE ReleaseExpiredClaims
  <2>1. row[i].attempts < PublishMax => row[i].attempts < PublishMax + row[i].retries
    BY <1>1, OutboxAssumption DEF Rows
  <2> QED
    BY <1>1, <1>3, <2>1 DEF ReleaseExpiredClaims, RowInv, Rows
<1> QED
  BY <1>2, <1>3

LEMMA ClaimKeepsRows ==
    ASSUME OutboxTypeOK, RowsInv, NEW p \in Publishers, NEW S \in SUBSET Intents,
           ClaimDue(p, S)
    PROVE  RowsInv'
<1> SUFFICES ASSUME NEW i \in Intents PROVE RowInv(row'[i])
  BY DEF RowsInv
<1>1. row[i] \in Rows /\ RowInv(row[i])
  BY DEF OutboxTypeOK, RowsInv
<1>2. CASE i \in S
  <2>1. row'[i] = ClaimedRow(row[i]) /\ row[i].status = "PENDING"
    BY <1>2 DEF ClaimDue, Due
  <2>2. row[i].attempts + 1 <= PublishMax + row[i].retries
    BY <1>1, <2>1, OutboxAssumption DEF RowInv, Rows
  <2> QED
    BY <1>1, <2>1, <2>2 DEF ClaimedRow, RowInv, Rows
<1>3. CASE i \notin S
  BY <1>1, <1>3 DEF ClaimDue
<1> QED
  BY <1>2, <1>3

LEMMA SingleRowWritersKeepRows ==
    ASSUME OutboxTypeOK, RowsInv, NEW j \in Intents,
           \/ row[j].status = "ABSENT" /\ CreateDispatches({j})
           \/ RetryDispatch(j)
           \/ BecomesAvailable(j)
           \/ ClaimExpires(j)
    PROVE  RowsInv'
<1> SUFFICES ASSUME NEW i \in Intents PROVE RowInv(row'[i])
  BY DEF RowsInv
<1>1. row[i] \in Rows /\ RowInv(row[i])
  BY DEF OutboxTypeOK, RowsInv
<1>2. CASE CreateDispatches({j})
  BY <1>1, <1>2, OutboxAssumption DEF CreateDispatches, AbsentRow, RowInv
<1>3. CASE RetryDispatch(j)
  <2>1. row[i].attempts < PublishMax + (row[i].retries + 1)
    BY <1>1, OutboxAssumption DEF RowInv, Rows
  <2>2. CASE i = j
    <3>1. /\ row'[i].status = "PENDING"
          /\ row'[i].attempts = row[i].attempts
          /\ row'[i].retries = row[i].retries + 1
      BY <1>1, <1>3, <2>2 DEF RetryDispatch, OutboxTypeOK, Rows
    <3> QED
      BY <1>1, <2>1, <3>1, OutboxAssumption DEF RowInv, Rows
  <2> QED
    BY <1>1, <1>3, <2>2 DEF RetryDispatch, OutboxTypeOK
<1>4. CASE BecomesAvailable(j) \/ ClaimExpires(j)
  BY <1>1, <1>4 DEF BecomesAvailable, ClaimExpires, OutboxTypeOK, RowInv, Rows
<1> QED
  BY <1>2, <1>3, <1>4

THEOREM RowsInvariant == OutboxSafety => []RowsInv
<1>1. OutboxInit => RowsInv
  BY OutboxAssumption DEF OutboxInit, AbsentRow, RowsInv, RowInv
<1>2. OutboxTypeOK /\ RowsInv /\ [OutboxNext]_outboxVars => RowsInv'
  <2> SUFFICES ASSUME OutboxTypeOK, RowsInv, [OutboxNext]_outboxVars
               PROVE  RowsInv'
    OBVIOUS
  <2>1. CASE \E i \in Intents : row[i].status = "ABSENT" /\ CreateDispatches({i})
    BY <2>1, SingleRowWritersKeepRows
  <2>2. CASE UNCHANGED row
    BY <2>2 DEF RowsInv
  <2>3. CASE \E p \in Publishers : PublisherStep(p)
    <3>1. CASE \E p \in Publishers, S \in SUBSET Intents : ClaimDue(p, S)
      BY <3>1, ClaimKeepsRows
    <3>2. CASE \E p \in Publishers : \E c \in publisher[p] :
                 MarkPublished(p, c) \/ MarkFailed(p, c)
      BY <3>2, MarksKeepRows
    <3>3. CASE UNCHANGED row
      BY <3>3, <2>2
    <3> QED
      BY <2>3, <3>1, <3>2, <3>3 DEF PublisherStep, Enqueue, PublisherCrash
  <2>4. CASE BuryExpiredClaims \/ ReleaseExpiredClaims
    BY <2>4, ResetsKeepRows
  <2>5. CASE \E i \in Intents : RetryDispatch(i) \/ BecomesAvailable(i) \/ ClaimExpires(i)
    BY <2>5, SingleRowWritersKeepRows
  <2> QED
    BY <2>1, <2>2, <2>3, <2>4, <2>5
       DEF OutboxNext, OutboxInternal, TakeMessage, LoseMessage, outboxVars
<1> QED
  BY <1>1, <1>2, OutboxTypeCorrect, PTL DEF OutboxSafety

\* The broker is tried at most PublishMax times for a row, and once more for
\* every retry, however publishers, resets and crashes interleave.
THEOREM AttemptsAreBounded == OutboxSafety => []AttemptsBounded
<1>1. RowsInv => AttemptsBounded
  BY DEF RowsInv, RowInv, AttemptsBounded
<1> QED
  BY <1>1, RowsInvariant, PTL

-----------------------------------------------------------------------------
(* What a publisher may write late *)

\* A publisher that believes its message was sent is right.
SentIsAccepted ==
    \A p \in Publishers : \A c \in publisher[p] :
      c.outcome = "sent" => c.attempt \in accepted[c.intent]

LEMMA EnqueueKeepsSent ==
    ASSUME OutboxTypeOK, SentIsAccepted,
           NEW p \in Publishers, NEW c \in publisher[p], Enqueue(p, c)
    PROVE  SentIsAccepted'
<1>1. c \in Claims
  BY DEF OutboxTypeOK
<1>2. PICK taken \in BOOLEAN, raised \in BOOLEAN :
        /\ taken \/ raised
        /\ accepted' = IF taken
                         THEN [accepted EXCEPT ![c.intent] = @ \cup {c.attempt}]
                         ELSE accepted
        /\ publisher' =
             [publisher EXCEPT ![p] =
                (@ \ {c}) \cup
                {[c EXCEPT !.outcome = IF raised THEN "failed" ELSE "sent"]}]
  BY DEF Enqueue
<1> DEFINE marked == [c EXCEPT !.outcome = IF raised THEN "failed" ELSE "sent"]
<1>3. \A i \in Intents : accepted[i] \subseteq accepted'[i]
  BY <1>1, <1>2 DEF OutboxTypeOK, Claims
<1>4. marked.outcome = "sent" => marked.attempt \in accepted'[marked.intent]
  <2> SUFFICES ASSUME marked.outcome = "sent"
               PROVE  marked.attempt \in accepted'[marked.intent]
    OBVIOUS
  <2>1. ~raised
    BY <1>1 DEF Claims
  <2>2. accepted' = [accepted EXCEPT ![c.intent] = @ \cup {c.attempt}]
    BY <1>2, <2>1
  <2>3. marked.attempt = c.attempt /\ marked.intent = c.intent
    BY <1>1 DEF Claims
  <2>4. c.intent \in Intents
    BY <1>1 DEF Claims
  <2> QED
    BY <2>2, <2>3, <2>4 DEF OutboxTypeOK
<1>5. ASSUME NEW q \in Publishers, NEW d \in publisher'[q], d.outcome = "sent"
      PROVE  d.attempt \in accepted'[d.intent]
  <2>1. CASE d \in publisher[q]
    <3>1. d.attempt \in accepted[d.intent] /\ d.intent \in Intents
      BY <1>5, <2>1 DEF SentIsAccepted, OutboxTypeOK, Claims
    <3> QED
      BY <1>3, <3>1
  <2>2. CASE d \notin publisher[q]
    <3>1. d = marked
      BY <1>2, <1>5, <2>2 DEF OutboxTypeOK
    <3> QED
      BY <1>4, <1>5, <3>1
  <2> QED
    BY <2>1, <2>2
<1> QED
  BY <1>5 DEF SentIsAccepted

THEOREM SentInvariant == OutboxSafety => []SentIsAccepted
<1>1. OutboxInit => SentIsAccepted
  BY DEF OutboxInit, SentIsAccepted
<1>2. OutboxTypeOK /\ SentIsAccepted /\ [OutboxNext]_outboxVars => SentIsAccepted'
  <2> SUFFICES ASSUME OutboxTypeOK, SentIsAccepted, [OutboxNext]_outboxVars
               PROVE  SentIsAccepted'
    OBVIOUS
  \* Most steps take claims away from publishers, or leave them alone.
  <2>1. ASSUME accepted' = accepted, \A p \in Publishers : publisher'[p] \subseteq publisher[p]
        PROVE  SentIsAccepted'
    BY <2>1 DEF SentIsAccepted
  <2>2. CASE UNCHANGED <<publisher, accepted>>
    BY <2>1, <2>2
  <2>3. CASE \E p \in Publishers : PublisherStep(p)
    <3>1. CASE \E p \in Publishers, S \in SUBSET Intents : ClaimDue(p, S)
      BY <3>1 DEF ClaimDue, SentIsAccepted, OutboxTypeOK
    <3>2. CASE \E p \in Publishers : \E c \in publisher[p] :
                 MarkPublished(p, c) \/ MarkFailed(p, c)
      BY <2>1, <3>2 DEF MarkPublished, MarkFailed, Forget, OutboxTypeOK
    <3>3. CASE \E p \in Publishers : \E c \in publisher[p] : Enqueue(p, c)
      BY <3>3, EnqueueKeepsSent
    <3>4. CASE \E p \in Publishers : PublisherCrash(p)
      BY <2>1, <3>4 DEF PublisherCrash, OutboxTypeOK
    <3> QED
      BY <2>3, <3>1, <3>2, <3>3, <3>4 DEF PublisherStep
  <2> QED
    BY <2>2, <2>3
       DEF OutboxNext, OutboxInternal, CreateDispatches, TakeMessage, LoseMessage,
           BuryExpiredClaims, ReleaseExpiredClaims, RetryDispatch, BecomesAvailable,
           ClaimExpires, outboxVars
<1> QED
  BY <1>1, <1>2, OutboxTypeCorrect, PTL DEF OutboxSafety

\* Only the update of the claim the row is in can set PUBLISHED.
LEMMA PublishedStep ==
    ASSUME OutboxTypeOK, SentIsAccepted, OutboxNext, NEW i \in Intents,
           row[i].status = "PUBLISHING", row'[i].status = "PUBLISHED"
    PROVE  row[i].token \in accepted[i]
<1>1. row[i] \in Rows
  BY DEF OutboxTypeOK
<1>2. CASE \E p \in Publishers : \E c \in publisher[p] : MarkPublished(p, c)
  <2>1. PICK p \in Publishers : \E c \in publisher[p] : MarkPublished(p, c)
    BY <1>2
  <2>2. PICK c \in publisher[p] : MarkPublished(p, c)
    BY <2>1
  <2>3. c.intent = i /\ row[i].token = c.attempt
    BY <2>2 DEF MarkPublished, HoldsClaim, OutboxTypeOK, Claims
  <2> QED
    BY <2>2, <2>3 DEF MarkPublished, SentIsAccepted
<1>3. CASE \E p \in Publishers : \E c \in publisher[p] : MarkFailed(p, c)
  BY <1>1, <1>3 DEF MarkFailed, StatusAfterFailure, OutboxTypeOK, Rows, Claims
<1>4. CASE \E p \in Publishers, S \in SUBSET Intents : ClaimDue(p, S)
  BY <1>4 DEF ClaimDue, Due
<1>5. CASE BuryExpiredClaims \/ ReleaseExpiredClaims
  <2>1. \/ row'[i] = row[i]
        \/ row'[i] = [row[i] EXCEPT !.status = "DEAD", !.token = NoToken,
                                    !.expired = FALSE]
        \/ row'[i] = [row[i] EXCEPT !.status = "PENDING", !.token = NoToken,
                                    !.due = TRUE, !.expired = FALSE]
    BY <1>5 DEF BuryExpiredClaims, ReleaseExpiredClaims
  <2> QED
    BY <1>1, <2>1 DEF Rows
<1>6. CASE \E j \in Intents : RetryDispatch(j) \/ BecomesAvailable(j) \/ ClaimExpires(j)
  BY <1>1, <1>6 DEF RetryDispatch, BecomesAvailable, ClaimExpires, OutboxTypeOK, Rows
<1>7. CASE \E j \in Intents : row[j].status = "ABSENT" /\ CreateDispatches({j})
  BY <1>1, <1>7 DEF CreateDispatches, AbsentRow
<1> QED
  BY <1>2, <1>3, <1>4, <1>5, <1>6, <1>7
     DEF OutboxNext, OutboxInternal, PublisherStep, Enqueue, PublisherCrash,
         TakeMessage, LoseMessage

\* A row becomes PUBLISHED only when the broker took the message of the claim
\* it is in: no publisher speaks for its successor.
THEOREM PublishedIsAccepted == OutboxSafety => PublishedByItsClaim
<1>1. OutboxTypeOK /\ SentIsAccepted /\ [OutboxNext]_outboxVars
        => [\A i \in Intents :
              row[i].status = "PUBLISHING" /\ row'[i].status = "PUBLISHED"
                => row[i].token \in accepted[i]]_outboxVars
  BY PublishedStep
<1> QED
  BY <1>1, OutboxTypeCorrect, SentInvariant, PTL DEF OutboxSafety, PublishedByItsClaim

LEMMA SettledStep ==
    ASSUME OutboxTypeOK, OutboxNext, NEW i \in Intents,
           row[i].status \in {"PUBLISHED", "DEAD"}
    PROVE  row'[i].status = row[i].status \/ row'[i].retries > row[i].retries
<1>1. row[i] \in Rows
  BY DEF OutboxTypeOK
<1>2. CASE \E j \in Intents : RetryDispatch(j)
  BY <1>1, <1>2 DEF RetryDispatch, OutboxTypeOK, Rows
<1>3. CASE \E p \in Publishers : \E c \in publisher[p] :
             MarkPublished(p, c) \/ MarkFailed(p, c)
  BY <1>1, <1>3 DEF MarkPublished, MarkFailed, HoldsClaim, OutboxTypeOK, Rows, Claims
<1>4. CASE \E p \in Publishers, S \in SUBSET Intents : ClaimDue(p, S)
  BY <1>1, <1>4 DEF ClaimDue, Due
<1>5. CASE BuryExpiredClaims \/ ReleaseExpiredClaims
  <2>1. i \notin ExpiredClaims
    BY DEF ExpiredClaims
  <2> QED
    BY <1>5, <2>1 DEF BuryExpiredClaims, ReleaseExpiredClaims
<1>6. CASE \E j \in Intents : BecomesAvailable(j) \/ ClaimExpires(j)
  BY <1>1, <1>6 DEF BecomesAvailable, ClaimExpires, OutboxTypeOK, Rows
<1>7. CASE \E j \in Intents : row[j].status = "ABSENT" /\ CreateDispatches({j})
  BY <1>1, <1>7 DEF CreateDispatches
<1> QED
  BY <1>2, <1>3, <1>4, <1>5, <1>6, <1>7
     DEF OutboxNext, OutboxInternal, PublisherStep, Enqueue, PublisherCrash,
         TakeMessage, LoseMessage

\* Nothing but retry_dispatch reopens a row that is PUBLISHED or DEAD.
THEOREM SettledStaysSettled == OutboxSafety => SettledUnlessRetried
<1>1. OutboxTypeOK /\ [OutboxNext]_outboxVars
        => [\A i \in Intents :
              row[i].status \in {"PUBLISHED", "DEAD"}
                => row'[i].status = row[i].status
                     \/ row'[i].retries > row[i].retries]_outboxVars
  BY SettledStep
<1> QED
  BY <1>1, OutboxTypeCorrect, PTL DEF OutboxSafety, SettledUnlessRetried

=============================================================================
