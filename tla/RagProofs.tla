------------------------------ MODULE RagProofs ------------------------------
(***************************************************************************)
(* Proofs about Quota and RagQuery for any number of requests, days,       *)
(* amounts and any faults.                                                 *)
(*                                                                         *)
(* Of the quota: types, that its transactions implement DailyBudget, and   *)
(* that the usage of a day is the sum of its charges.  A reservation       *)
(* decides by what it read some steps before it writes.  The two agree     *)
(* because what it read is still true: the limit under the lock of the     *)
(* subscription, which at most one call holds (LockInv), the usage under   *)
(* the lock of the row, and the zero of a row it inserted because nobody   *)
(* else inserted it (CallInv).                                             *)
(*                                                                         *)
(* Of the chat service: it uses the quota as Quota asks (each reservation  *)
(* is settled at most once), so what is proved of Quota holds of it; no    *)
(* handler forgets a reservation; an answer reports what was charged; the  *)
(* usage stays within the limit.                                           *)
(***************************************************************************)
EXTENDS RagQuery, FoldProofs


LockInv ==
    \A s, t \in Tickets : InTransaction(s) /\ InTransaction(t) => s = t

CallInv(t) ==
    /\ tx[t].at # "idle" => tx[t].day \in Days /\ tx[t].cost > 0
    /\ InTransaction(t) => /\ subscription.active
                           /\ tx[t].limit = subscription.limit
    /\ tx[t].at \in {"missing", "conflict"} => tx[t].seen = 0
    /\ tx[t].at = "found" => tx[t].seen = used[tx[t].day]

EntryInv(t) ==
    /\ ledger[t].status # "none" => /\ tx[t].at \in {"granted", "raised"}
                                    /\ ledger[t].day \in rows
    /\ ledger[t].status = "open" => ledger[t].charged = ledger[t].reserved

QuotaInv ==
    /\ QuotaTypeOK
    /\ LockInv
    /\ \A t \in Tickets : CallInv(t) /\ EntryInv(t)

\* The amounts are numbers.
LEMMA AmountsAreNumbers == Amounts \cup {0} \subseteq Nat
BY QuotaAssumption

LEMMA QuotaInitInv == QuotaInit => QuotaInv
<1> SUFFICES ASSUME QuotaInit PROVE QuotaInv
  OBVIOUS
<1>1. QuotaTypeOK
  BY QuotaAssumption
  DEF QuotaInit, QuotaTypeOK, NoCall, NoEntry, Calls, Entries, Days
<1>2. LockInv
  BY DEF QuotaInit, LockInv, InTransaction, NoCall
<1>3. \A t \in Tickets : CallInv(t) /\ EntryInv(t)
  BY DEF QuotaInit, CallInv, EntryInv, InTransaction, NoCall, NoEntry
<1> QED
  BY <1>1, <1>2, <1>3 DEF QuotaInv

-----------------------------------------------------------------------------
(* The steps *)

\* A step that changes one call and nothing else keeps the invariant if it
\* keeps it for that call, and takes the subscription's lock only when free.
LEMMA CallStep ==
    ASSUME QuotaInv, NEW t \in Tickets, NEW c \in Calls,
           tx' = [tx EXCEPT ![t] = c],
           UNCHANGED <<today, subscription, rows, used, ledger, overwritten>>,
           c.at \in {"open", "missing", "conflict", "found"}
             => InTransaction(t) \/ SubscriptionFree,
           ledger[t].status = "none",
           CallInv(t)'
    PROVE  QuotaInv'
<1>1. QuotaTypeOK'
  BY DEF QuotaInv, QuotaTypeOK
<1>2. \A s \in Tickets : s # t => tx'[s] = tx[s]
  BY DEF QuotaInv, QuotaTypeOK
<1>3. tx'[t] = c
  BY DEF QuotaInv, QuotaTypeOK
<1>4. LockInv'
  BY <1>2, <1>3 DEF QuotaInv, LockInv, InTransaction, SubscriptionFree
<1>5. \A s \in Tickets : CallInv(s)'
  BY <1>2 DEF QuotaInv, CallInv, InTransaction
<1>6. \A s \in Tickets : EntryInv(s)'
  BY <1>2 DEF QuotaInv, EntryInv
<1> QED
  BY <1>1, <1>4, <1>5, <1>6 DEF QuotaInv

LEMMA OpenKeeps ==
    ASSUME QuotaInv, NEW t \in Tickets, NEW n \in Amounts, Open(t, n)
    PROVE  QuotaInv'
<1> DEFINE c == [at |-> IF subscription.active THEN "open" ELSE "refused",
                 cost |-> n, day |-> today, limit |-> subscription.limit,
                 seen |-> 0]
<1>1. c \in Calls
  BY QuotaAssumption DEF QuotaInv, QuotaTypeOK, Calls, Subscriptions
<1>2. tx' = [tx EXCEPT ![t] = c] /\ tx'[t] = c
  BY DEF Open, QuotaInv, QuotaTypeOK
<1>3. ledger[t].status = "none"
  BY DEF Open, QuotaInv, EntryInv
<1>4. CallInv(t)'
  BY <1>2 DEF Open, CallInv, InTransaction, QuotaInv, QuotaTypeOK
<1> QED
  BY <1>1, <1>2, <1>3, <1>4, CallStep DEF Open

LEMMA FindKeeps ==
    ASSUME QuotaInv, NEW t \in Tickets, FindUsage(t)
    PROVE  QuotaInv'
<1> DEFINE c == [tx[t] EXCEPT !.at = IF tx[t].day \in rows THEN "found" ELSE "missing",
                              !.seen = used[tx[t].day]]
<1>1. tx[t] \in Calls /\ tx[t].day \in Days /\ used[tx[t].day] \in Nat
  BY DEF FindUsage, QuotaInv, CallInv, QuotaTypeOK
<1>2. c \in Calls
  BY <1>1 DEF Calls
<1>3. tx' = [tx EXCEPT ![t] = c] /\ tx'[t] = c
  BY DEF FindUsage, QuotaInv, QuotaTypeOK
<1>4. ledger[t].status = "none" /\ InTransaction(t)
  BY DEF FindUsage, QuotaInv, EntryInv, InTransaction
<1>5. CallInv(t)'
  BY <1>1, <1>3, <1>4
  DEF FindUsage, CallInv, InTransaction, QuotaInv, QuotaTypeOK, Calls
<1> QED
  BY <1>2, <1>3, <1>4, <1>5, CallStep DEF FindUsage

LEMMA CreateKeeps ==
    ASSUME QuotaInv, NEW t \in Tickets, CreateUsage(t)
    PROVE  QuotaInv'
<1> DEFINE c == [tx[t] EXCEPT !.at = IF tx[t].day \in rows THEN "conflict" ELSE "found"]
<1>1. tx[t] \in Calls /\ tx[t].day \in Days
  BY DEF CreateUsage, QuotaInv, CallInv, QuotaTypeOK
<1>2. c \in Calls
  BY <1>1 DEF Calls
<1>3. tx' = [tx EXCEPT ![t] = c] /\ tx'[t] = c
  BY DEF CreateUsage, QuotaInv, QuotaTypeOK
<1>4. ledger[t].status = "none" /\ InTransaction(t)
  BY DEF CreateUsage, QuotaInv, EntryInv, InTransaction
<1>5. CallInv(t)'
  BY <1>1, <1>3, <1>4
  DEF CreateUsage, CallInv, InTransaction, QuotaInv, QuotaTypeOK, Calls
<1> QED
  BY <1>2, <1>3, <1>4, <1>5, CallStep DEF CreateUsage

LEMMA ConflictKeeps ==
    ASSUME QuotaInv, NEW t \in Tickets, FindAfterConflict(t)
    PROVE  QuotaInv'
<1> DEFINE c == [tx[t] EXCEPT !.at = "found", !.seen = used[tx[t].day]]
<1>1. tx[t] \in Calls /\ tx[t].day \in Days /\ used[tx[t].day] \in Nat
  BY DEF FindAfterConflict, QuotaInv, CallInv, QuotaTypeOK
<1>2. c \in Calls
  BY <1>1 DEF Calls
<1>3. tx' = [tx EXCEPT ![t] = c] /\ tx'[t] = c
  BY DEF FindAfterConflict, QuotaInv, QuotaTypeOK
<1>4. ledger[t].status = "none" /\ InTransaction(t)
  BY DEF FindAfterConflict, QuotaInv, EntryInv, InTransaction
<1>5. CallInv(t)'
  BY <1>1, <1>3, <1>4
  DEF FindAfterConflict, CallInv, InTransaction, QuotaInv, QuotaTypeOK, Calls
<1> QED
  BY <1>2, <1>3, <1>4, <1>5, CallStep DEF FindAfterConflict

\* The ends without a commit.
LEMMA LeaveKeeps ==
    ASSUME QuotaInv, NEW t \in Tickets, Refuse(t) \/ RollBack(t)
    PROVE  QuotaInv'
<1>1. PICK how \in {"refused", "raised"} :
        /\ Leave(t, how) /\ InTransaction(t)
        /\ UNCHANGED <<today, subscription, rows, used, ledger, overwritten>>
  BY DEF Refuse, RollBack, InTransaction
<1> DEFINE c == [tx[t] EXCEPT !.at = how]
<1>2. tx[t] \in Calls /\ tx[t].at # "idle"
  BY <1>1 DEF InTransaction, QuotaInv, QuotaTypeOK
<1>3. c \in Calls
  BY <1>2 DEF Calls
<1>4. tx' = [tx EXCEPT ![t] = c] /\ tx'[t] = c
  BY <1>1 DEF Leave, QuotaInv, QuotaTypeOK
<1>5. ledger[t].status = "none"
  BY <1>1 DEF InTransaction, QuotaInv, EntryInv
<1>6. CallInv(t)'
  BY <1>1, <1>2, <1>4 DEF CallInv, InTransaction, QuotaInv, Calls
<1> QED
  BY <1>1, <1>3, <1>4, <1>5, <1>6, CallStep

\* The commit of a reservation, whether its answer arrives or not.
LEMMA CommitKeeps ==
    ASSUME QuotaInv, NEW t \in Tickets, Admit(t) \/ AnswerLost(t)
    PROVE  QuotaInv'
<1> DEFINE d == tx[t].day
           n == tx[t].cost
           e == [status |-> "open", day |-> d, reserved |-> n, charged |-> n]
<1>1. PICK how \in {"granted", "raised"} : Commit(t) /\ Leave(t, how)
  BY DEF Admit, AnswerLost
<1>2. tx[t] \in Calls /\ d \in Days /\ n \in Nat /\ used[d] \in Nat
  <2>1. tx[t] \in Calls /\ tx[t].at = "found"
    BY <1>1 DEF Commit, QuotaInv, QuotaTypeOK
  <2>2. d \in Days
    BY <2>1 DEF QuotaInv, CallInv
  <2>3. n \in Nat
    BY <2>1, AmountsAreNumbers DEF Calls
  <2> QED
    BY <2>1, <2>2, <2>3 DEF QuotaInv, QuotaTypeOK
<1>3. InTransaction(t) /\ tx[t].at = "found"
  BY <1>1 DEF Commit, InTransaction
<1>4. tx'[t] = [tx[t] EXCEPT !.at = how] /\ \A s \in Tickets \ {t} : tx'[s] = tx[s]
  BY <1>1 DEF Leave, QuotaInv, QuotaTypeOK
<1>5. ledger'[t] = e /\ \A s \in Tickets \ {t} : ledger'[s] = ledger[s]
  BY <1>1 DEF Commit, QuotaInv, QuotaTypeOK
<1>6. QuotaTypeOK'
  <2>1. tx' \in [Tickets -> Calls]
    BY <1>1, <1>2 DEF Leave, QuotaInv, QuotaTypeOK, Calls
  <2>2. e \in Entries
    BY <1>2 DEF QuotaInv, QuotaTypeOK, Calls, Entries
  <2>3. ledger' \in [Tickets -> Entries]
    BY <1>1, <2>2 DEF Commit, QuotaInv, QuotaTypeOK
  <2>4. used' \in [Days -> Nat] /\ \A x \in Days \ rows' : used'[x] = 0
    BY <1>1, <1>2 DEF Commit, QuotaInv, QuotaTypeOK
  <2> QED
    BY <1>1, <1>2, <2>1, <2>3, <2>4 DEF Commit, QuotaInv, QuotaTypeOK
<1>7. LockInv'
  <2>1. ~InTransaction(t)'
    BY <1>2, <1>4 DEF InTransaction, Calls
  <2>2. \A s \in Tickets \ {t} : InTransaction(s)' => InTransaction(s)
    BY <1>4 DEF InTransaction
  <2> QED
    BY <2>1, <2>2 DEF QuotaInv, LockInv
<1>8. \A s \in Tickets : CallInv(s)'
  <2> SUFFICES ASSUME NEW s \in Tickets PROVE CallInv(s)'
    OBVIOUS
  <2>1. CASE s = t
    BY <1>1, <1>2, <1>4, <2>1 DEF CallInv, InTransaction, Calls, QuotaInv, Commit
  <2>2. CASE s # t
    <3>1. ~InTransaction(s)
      BY <1>3, <2>2 DEF QuotaInv, LockInv
    <3> QED
      BY <1>4, <2>2, <3>1 DEF CallInv, InTransaction, QuotaInv
  <2> QED
    BY <2>1, <2>2
<1>9. \A s \in Tickets : EntryInv(s)'
  BY <1>1, <1>4, <1>5, <1>2 DEF EntryInv, QuotaInv, Commit, Calls
<1> QED
  BY <1>6, <1>7, <1>8, <1>9 DEF QuotaInv

LEMMA SettleKeeps ==
    ASSUME QuotaInv, NEW t \in Tickets, NEW n \in Amounts \cup {0}, Settle(t, n),
           ledger[t].status = "open"
    PROVE  QuotaInv'
<1> DEFINE d == ledger[t].day
           delta == n - ledger[t].reserved
           u == IF delta >= 0 THEN used[d] + delta ELSE Reduced(used[d], -delta)
<1>1. ledger[t] \in Entries /\ d \in rows /\ d \in Days
  BY DEF QuotaInv, EntryInv, QuotaTypeOK
<1>2. n \in Int /\ delta \in Int /\ used[d] \in Nat
  <2>1. n \in Nat /\ ledger[t].reserved \in Nat
    BY <1>1, AmountsAreNumbers DEF Entries
  <2> QED
    BY <1>1, <2>1 DEF QuotaInv, QuotaTypeOK
<1>3. u \in Nat
  BY <1>2 DEF Reduced
<1>4. used' = [used EXCEPT ![d] = u] /\ UsageFree(d)
  BY DEF Settle, SettledRow
<1>5. /\ ledger' = [ledger EXCEPT ![t] = [ledger[t] EXCEPT
                                             !.status = "settled", !.charged = @ + delta]]
      /\ UNCHANGED <<today, subscription, rows, tx, overwritten>>
  BY DEF Settle, SettledRow
<1>6. /\ ledger'[t] = [ledger[t] EXCEPT !.status = "settled", !.charged = @ + delta]
      /\ \A s \in Tickets \ {t} : ledger'[s] = ledger[s]
  BY <1>5 DEF QuotaInv, QuotaTypeOK
<1>7. QuotaTypeOK'
  <2>1. [ledger[t] EXCEPT !.status = "settled", !.charged = @ + delta] \in Entries
    <3>1. ledger[t].charged + delta \in Int
      BY <1>1, <1>2 DEF Entries
    <3> QED
      BY <1>1, <3>1 DEF Entries
  <2>3. ledger' \in [Tickets -> Entries]
    BY <1>5, <2>1 DEF QuotaInv, QuotaTypeOK
  <2>4. used' \in [Days -> Nat] /\ \A x \in Days \ rows' : used'[x] = 0
    BY <1>1, <1>3, <1>4, <1>5 DEF QuotaInv, QuotaTypeOK
  <2> QED
    BY <1>5, <2>3, <2>4 DEF QuotaInv, QuotaTypeOK
<1>8. LockInv'
  BY <1>5 DEF QuotaInv, LockInv, InTransaction
<1>9. \A s \in Tickets : CallInv(s)'
  BY <1>4, <1>5 DEF QuotaInv, CallInv, InTransaction, UsageFree, QuotaTypeOK
<1>10. \A s \in Tickets : EntryInv(s)'
  <2>1. ledger'[t].status = "settled" /\ ledger'[t].day = ledger[t].day
    BY <1>1, <1>6 DEF Entries
  <2>3. EntryInv(t)'
    BY <1>5, <2>1 DEF QuotaInv, EntryInv
  <2>2. \A s \in Tickets \ {t} : EntryInv(s)'
    BY <1>5, <1>6 DEF QuotaInv, EntryInv
  <2> QED
    BY <2>2, <2>3
<1> QED
  BY <1>7, <1>8, <1>9, <1>10 DEF QuotaInv


LEMMA SubscriptionKeeps ==
    ASSUME QuotaInv, NEW s \in Subscriptions, SaveSubscription(s)
    PROVE  QuotaInv'
<1>1. QuotaTypeOK'
  BY DEF SaveSubscription, QuotaInv, QuotaTypeOK
<1>2. LockInv' /\ \A t \in Tickets : CallInv(t)' /\ EntryInv(t)'
  BY DEF SaveSubscription, SubscriptionFree, QuotaInv, LockInv, CallInv,
         EntryInv, InTransaction
<1> QED
  BY <1>1, <1>2 DEF QuotaInv

\* Whoever overwrites the usage of a day waits for the row's lock.
LEMMA OverwriteKeeps ==
    ASSUME QuotaInv, NEW d \in Days, NEW n \in Amounts, SaveUsage(d, n)
    PROVE  QuotaInv'
<1>1. QuotaTypeOK'
  BY QuotaAssumption DEF SaveUsage, QuotaInv, QuotaTypeOK
<1>2. LockInv' /\ \A t \in Tickets : CallInv(t)' /\ EntryInv(t)'
  BY DEF SaveUsage, UsageFree, QuotaInv, QuotaTypeOK, LockInv, CallInv, EntryInv,
         InTransaction
<1> QED
  BY <1>1, <1>2 DEF QuotaInv

LEMMA SeedKeeps ==
    ASSUME QuotaInv, NEW s \in Subscriptions, NEW n \in Amounts, SeedAccount(s, n)
    PROVE  QuotaInv'
<1>1. QuotaTypeOK'
  BY QuotaAssumption DEF SeedAccount, QuotaInv, QuotaTypeOK
<1>2. LockInv' /\ \A t \in Tickets : CallInv(t)' /\ EntryInv(t)'
  BY DEF SeedAccount, SubscriptionFree, UsageFree, QuotaInv, QuotaTypeOK, LockInv,
         CallInv, EntryInv, InTransaction
<1> QED
  BY <1>1, <1>2 DEF QuotaInv

LEMMA OperateKeeps == ASSUME QuotaInv, Operate PROVE QuotaInv'
BY SubscriptionKeeps, OverwriteKeeps, SeedKeeps DEF Operate

LEMMA MidnightKeeps == ASSUME QuotaInv, Midnight PROVE QuotaInv'
<1>1. QuotaTypeOK'
  BY QuotaAssumption DEF Midnight, QuotaInv, QuotaTypeOK, Days
<1>2. LockInv' /\ \A t \in Tickets : CallInv(t)' /\ EntryInv(t)'
  BY DEF Midnight, QuotaInv, LockInv, CallInv, EntryInv, InTransaction
<1> QED
  BY <1>1, <1>2 DEF QuotaInv

LEMMA QuotaStepKeeps == ASSUME QuotaInv, [QuotaNext]_quotaVars PROVE QuotaInv'
<1>1. ASSUME NEW t \in Tickets,
             \/ \E n \in Amounts : Open(t, n)
             \/ ReserveStep(t)
             \/ DatabaseFault(t) \/ CallerDies(t)
             \/ \E n \in Amounts \cup {0} : ledger[t].status = "open" /\ Settle(t, n)
      PROVE  QuotaInv'
  <2>1. CASE \E n \in Amounts : Open(t, n)
    BY <2>1, OpenKeeps
  <2>2. CASE ReserveStep(t)
    BY <2>2, FindKeeps, CreateKeeps, ConflictKeeps, CommitKeeps, LeaveKeeps
    DEF ReserveStep
  <2>3. CASE DatabaseFault(t) \/ CallerDies(t)
    BY <2>3, CommitKeeps, LeaveKeeps DEF DatabaseFault, CallerDies
  <2>4. CASE \E n \in Amounts \cup {0} : ledger[t].status = "open" /\ Settle(t, n)
    BY <2>4, SettleKeeps
  <2> QED
    BY <1>1, <2>1, <2>2, <2>3, <2>4
<1>2. CASE Operate
  BY <1>2, OperateKeeps
<1>3. CASE Midnight
  BY <1>3, MidnightKeeps
<1>4. CASE UNCHANGED quotaVars
  <2>1. UNCHANGED <<today, subscription, rows, used, tx, ledger, overwritten>>
    BY <1>4 DEF quotaVars
  <2>2. QuotaTypeOK'
    BY <2>1 DEF QuotaInv, QuotaTypeOK
  <2>3. LockInv' /\ \A t \in Tickets : CallInv(t)' /\ EntryInv(t)'
    BY <2>1 DEF QuotaInv, LockInv, CallInv, EntryInv, InTransaction
  <2> QED
    BY <2>2, <2>3 DEF QuotaInv
<1> QED
  BY <1>1, <1>2, <1>3, <1>4 DEF QuotaNext

LEMMA QuotaInvariant == QuotaSafety => []QuotaInv
BY QuotaInitInv, QuotaStepKeeps, PTL DEF QuotaSafety

\* Every variable of the quota keeps its type; in particular usage is never
\* negative, whatever operators wrote before a settlement (_reduce_usage).
THEOREM QuotaTypeCorrect == QuotaSafety => []QuotaTypeOK
<1>1. QuotaInv => QuotaTypeOK
  BY DEF QuotaInv
<1> QED
  BY <1>1, QuotaInvariant, PTL


-----------------------------------------------------------------------------
(* Refinement: each step is a step of the budget, or shows nothing *)

\* A commit is the reservation of the budget: what the call read is still so.
LEMMA CommitReserves ==
    ASSUME QuotaInv, NEW t \in Tickets, Commit(t)
    PROVE  Budget!BudgetNext
<1> DEFINE d == tx[t].day
           n == tx[t].cost
<1>1. tx[t] \in Calls /\ tx[t].at = "found"
  BY DEF Commit, QuotaInv, QuotaTypeOK
<1>2. d \in Days /\ n \in Amounts \cup {0} /\ n > 0
  BY <1>1 DEF QuotaInv, CallInv, Calls
<1>3. subscription.active /\ tx[t].limit = subscription.limit /\ tx[t].seen = used[d]
  BY <1>1 DEF QuotaInv, CallInv, InTransaction
<1>4. ledger[t].status = "none"
  <2>1. ledger[t] \in Entries
    BY DEF QuotaInv, QuotaTypeOK
  <2> QED
    BY <1>1, <2>1 DEF QuotaInv, EntryInv
<1>5. Budget!Reserve(t, d, n)
  BY <1>3, <1>4 DEF Commit, Fits, Budget!Reserve
<1> QED
  BY <1>2, <1>5 DEF Budget!BudgetNext

LEMMA SettleSettles ==
    ASSUME QuotaInv, NEW t \in Tickets, NEW n \in Amounts \cup {0},
           ledger[t].status = "open", Settle(t, n)
    PROVE  Budget!BudgetNext
<1> DEFINE d == ledger[t].day
           m == ledger[t].reserved
<1>1. ledger[t] \in Entries /\ d \in Days /\ ledger[t].charged = m
  BY DEF QuotaInv, EntryInv, QuotaTypeOK
<1>2. n \in Nat /\ m \in Nat /\ used[d] \in Nat
  BY <1>1, AmountsAreNumbers DEF Entries, QuotaInv, QuotaTypeOK
<1>3. (IF n - m >= 0 THEN used[d] + (n - m) ELSE Reduced(used[d], -(n - m)))
        = Budget!AtLeastZero(used[d] + n - m)
  BY <1>2 DEF Reduced, Budget!AtLeastZero
<1>4. m + (n - m) = n
  BY <1>2
<1>5. used' = [used EXCEPT ![d] = Budget!AtLeastZero(used[d] + n - m)]
  BY <1>3 DEF Settle, SettledRow
<1>6. ledger' = [ledger EXCEPT ![t].status = "settled", ![t].charged = n]
  <2>1. ledger' = [ledger EXCEPT ![t] = [ledger[t] EXCEPT
                                     !.status = "settled", !.charged = @ + (n - m)]]
    BY DEF Settle, SettledRow
  <2>2. [ledger[t] EXCEPT !.status = "settled", !.charged = @ + (n - m)]
          = [ledger[t] EXCEPT !.status = "settled", !.charged = n]
    BY <1>1, <1>4 DEF Entries
  <2> QED
    BY <2>1, <2>2
<1>7. Budget!SettleOnce(t, n)
  BY <1>5, <1>6 DEF Settle, SettledRow, Budget!SettleOnce
<1> QED
  BY <1>7 DEF Budget!BudgetNext

LEMMA OperateManages == ASSUME QuotaInv, Operate PROVE Budget!BudgetNext
<1>1. ASSUME NEW s \in Subscriptions, SaveSubscription(s)
      PROVE  Budget!BudgetNext
  BY <1>1 DEF SaveSubscription, Subscriptions, Budget!ManageSubscription,
              Budget!BudgetNext
<1>2. ASSUME NEW d \in Days, NEW n \in Amounts, SaveUsage(d, n)
      PROVE  Budget!BudgetNext
  <2>1. Budget!Manage(d)
    BY <1>2 DEF SaveUsage, QuotaInv, QuotaTypeOK, Subscriptions, Budget!Manage
  <2> QED
    BY <2>1 DEF Budget!BudgetNext
<1>3. ASSUME NEW s \in Subscriptions, NEW n \in Amounts, SeedAccount(s, n)
      PROVE  Budget!BudgetNext
  <2>1. today \in Days
    BY DEF QuotaInv, QuotaTypeOK
  <2>2. Budget!Manage(today)
    BY <1>3 DEF SeedAccount, Subscriptions, Budget!Manage
  <2> QED
    BY <2>1, <2>2 DEF Budget!BudgetNext
<1> QED
  BY <1>1, <1>2, <1>3 DEF Operate

LEMMA QuotaStepMaps ==
    ASSUME QuotaInv, [QuotaNext]_quotaVars
    PROVE  [Budget!BudgetNext]_(Budget!budget)
<1> USE DEF Budget!budget
<1>1. ASSUME NEW t \in Tickets,
             \/ \E n \in Amounts : Open(t, n)
             \/ ReserveStep(t)
             \/ DatabaseFault(t) \/ CallerDies(t)
             \/ \E n \in Amounts \cup {0} : ledger[t].status = "open" /\ Settle(t, n)
      PROVE  [Budget!BudgetNext]_(Budget!budget)
  <2>1. CASE \E n \in Amounts : Open(t, n)
    BY <2>1 DEF Open
  <2>2. CASE ReserveStep(t) \/ DatabaseFault(t) \/ CallerDies(t)
    <3>1. CASE Commit(t)
      BY <3>1, CommitReserves
    <3>2. CASE ~Commit(t)
      BY <2>2, <3>2
      DEF ReserveStep, DatabaseFault, CallerDies, FindUsage, CreateUsage,
          FindAfterConflict, Admit, Refuse, RollBack, AnswerLost
    <3> QED
      BY <3>1, <3>2
  <2>3. CASE \E n \in Amounts \cup {0} : ledger[t].status = "open" /\ Settle(t, n)
    BY <2>3, SettleSettles
  <2> QED
    BY <1>1, <2>1, <2>2, <2>3
<1>2. CASE Operate
  BY <1>2, OperateManages
<1>3. CASE Midnight
  BY <1>3 DEF Midnight
<1>4. CASE UNCHANGED quotaVars
  BY <1>4 DEF quotaVars
<1> QED
  BY <1>1, <1>2, <1>3, <1>4 DEF QuotaNext

\* The transactions of entitlements.py behave as single steps: admitted
\* against the limit and usage of one moment, settled once, whatever other
\* requests, operators and the database do in between.
THEOREM QuotaImplementsBudget == QuotaSafety => ImplementsBudget
<1>1. QuotaInit => Budget!BudgetInit
  BY DEF QuotaInit, Subscriptions, NoEntry, Budget!BudgetInit
<1> QED
  BY <1>1, QuotaStepMaps, QuotaInvariant, PTL
  DEF QuotaSafety, ImplementsBudget, Budget!BudgetSpec

-----------------------------------------------------------------------------
(* The sum of the charges *)

\* Operators aside, each step of the budget changes the usage of one day as it
\* changes the charge of one of its entries; the clamp never bites, because
\* the day holds at least the charge that is settled.
SumInv ==
    /\ \A d \in Days : IsFiniteSet(EntriesOf(d))
    /\ \A t \in Tickets : ledger[t].charged \in Nat
    /\ \A t \in Tickets : ledger[t].status = "none" => ledger[t].day = 0
    /\ UsageIsExplained

LEMMA ReserveAdds ==
    ASSUME QuotaInv, SumInv, NEW t \in Tickets, NEW d \in Days, NEW n \in Nat,
           Budget!Reserve(t, d, n)
    PROVE  SumInv'
<1> DEFINE E == EntriesOf(d)
<1>1. /\ ledger'[t].day = d /\ ledger'[t].charged = n /\ ledger'[t].status = "open"
      /\ \A s \in Tickets \ {t} : ledger'[s] = ledger[s]
  BY DEF QuotaInv, QuotaTypeOK, Budget!Reserve
<1>2. t \notin E /\ ledger[t].day = 0
  BY DEF SumInv, Budget!Reserve, EntriesOf, Days
<1>3. EntriesOf(d)' = E \cup {t} /\ \A x \in Days \ {d} : EntriesOf(x)' = EntriesOf(x)
  BY <1>1, <1>2 DEF EntriesOf, Days
<1>4. \A s \in Tickets : ledger'[s].charged \in Nat
  BY <1>1 DEF SumInv
<1>5. \A x \in Days : IsFiniteSet(EntriesOf(x)')
  BY <1>3, FS_AddElement DEF SumInv
<1>6. ASSUME NEW x \in Days \ overwritten
      PROVE  used'[x] = Sum(Charged', EntriesOf(x)')
  <2>1. used[x] = Sum(Charged, EntriesOf(x))
    BY DEF SumInv, UsageIsExplained, Sum
  <2>2. CASE x = d
    <3>1. used'[d] = used[d] + n
      BY DEF QuotaInv, QuotaTypeOK, Budget!Reserve
    <3>2. Sum(Charged', E \cup {t}) = n + Sum(Charged, E)
          /\ Sum(Charged, E) \in Nat
      <4>1. IsFiniteSet(E \cup {t}) /\ (E \cup {t}) \ {t} = E
        BY <1>2, FS_AddElement DEF SumInv
      <4>2. \A s \in E \cup {t} : Charged'[s] \in Nat
        BY <1>4 DEF Charged, EntriesOf
      <4>3. \A s \in (E \cup {t}) \ {t} : Charged'[s] = Charged[s]
        BY <1>1 DEF Charged, EntriesOf
      <4>4. Charged'[t] = n
        BY <1>1 DEF Charged
      <4> HIDE DEF E
      <4>5. t \in E \cup {t}
        OBVIOUS
      <4>6. /\ Sum(Charged', E \cup {t}) = Charged'[t] + Sum(Charged, (E \cup {t}) \ {t})
            /\ Sum(Charged, (E \cup {t}) \ {t}) \in Nat
        BY <4>1, <4>2, <4>3, <4>5, SumWithout
      <4> QED
        BY <4>1, <4>4, <4>6
    <3> HIDE DEF E
    <3>3. EntriesOf(d)' = E \cup {t} /\ used[d] = Sum(Charged, E)
      BY <1>3, <2>1, <2>2 DEF E
    <3>4. used'[d] = Sum(Charged', E \cup {t})
      BY <3>1, <3>2, <3>3
    <3> QED
      BY <2>2, <3>3, <3>4
  <2>3. CASE x # d
    <3>1. used'[x] = used[x]
      BY <2>3 DEF QuotaInv, QuotaTypeOK, Budget!Reserve
    <3>2. \A s \in EntriesOf(x) : Charged[s] \in Int /\ Charged'[s] = Charged[s]
      BY <1>1, <1>2 DEF EntriesOf, Charged, SumInv, Days
    <3>3. IsFiniteSet(EntriesOf(x))
      BY DEF SumInv
    <3>4. Sum(Charged', EntriesOf(x)) = Sum(Charged, EntriesOf(x))
      BY <3>2, <3>3, SumOfEqual
    <3> QED
      BY <1>3, <2>1, <2>3, <3>1, <3>4
  <2> QED
    BY <2>2, <2>3
<1>7. \A s \in Tickets : ledger'[s].status = "none" => ledger'[s].day = 0
  BY <1>1 DEF SumInv
<1> QED
  BY <1>4, <1>5, <1>6, <1>7 DEF SumInv, UsageIsExplained, Sum, Budget!Reserve

LEMMA SettleCorrects ==
    ASSUME QuotaInv, SumInv, NEW t \in Tickets, NEW n \in Nat,
           Budget!SettleOnce(t, n)
    PROVE  SumInv'
<1> DEFINE d == ledger[t].day
           m == ledger[t].charged
           rest == Sum(Charged, EntriesOf(d) \ {t})
<1>1. ledger[t] \in Entries /\ ledger[t].status = "open" /\ d \in Days /\ m \in Nat
  BY DEF QuotaInv, QuotaTypeOK, EntryInv, SumInv, Budget!SettleOnce
<1>2. ledger[t].reserved = m
  BY <1>1 DEF QuotaInv, EntryInv
<1>3. ledger' = [ledger EXCEPT ![t] = [ledger[t] EXCEPT
                                         !.status = "settled", !.charged = n]]
  BY DEF Budget!SettleOnce
<1>4. /\ ledger'[t].day = d /\ ledger'[t].charged = n /\ ledger'[t].status = "settled"
      /\ \A s \in Tickets \ {t} : ledger'[s] = ledger[s]
  BY <1>1, <1>3 DEF QuotaInv, QuotaTypeOK, Entries
<1>5. \A x \in Days : EntriesOf(x)' = EntriesOf(x)
  BY <1>4 DEF EntriesOf
<1>6. \A s \in Tickets : ledger'[s].charged \in Nat
  BY <1>4 DEF SumInv
<1>7. ASSUME NEW x \in Days \ overwritten
      PROVE  used'[x] = Sum(Charged', EntriesOf(x))
  <2>1. used[x] = Sum(Charged, EntriesOf(x)) /\ IsFiniteSet(EntriesOf(x))
    BY DEF SumInv, UsageIsExplained, Sum
  <2>2. CASE x = d
    <3>1. t \in EntriesOf(d)
      BY DEF EntriesOf
    <3>2. \A s \in EntriesOf(d) : Charged[s] \in Nat /\ Charged'[s] \in Nat
      BY <1>6 DEF EntriesOf, Charged, SumInv
    <3>3. \A s \in EntriesOf(d) \ {t} : Charged'[s] = Charged[s]
      BY <1>4 DEF EntriesOf, Charged
    <3>4. Charged[t] = m /\ Charged'[t] = n
      BY <1>4 DEF Charged
    <3>5. Sum(Charged', EntriesOf(d)) = n + rest /\ rest \in Nat
      BY <2>1, <2>2, <3>1, <3>2, <3>3, <3>4, SumWithout
    <3>6. Sum(Charged, EntriesOf(d)) = m + rest
      BY <2>1, <2>2, <3>1, <3>2, <3>4, SumWithout
    <3>7. used'[d] = Budget!AtLeastZero(used[d] + n - m)
      BY <1>1, <1>2 DEF QuotaInv, QuotaTypeOK, Budget!SettleOnce
    <3> HIDE DEF rest, m
    <3>8. used[d] = m + rest /\ used'[d] = n + rest
      BY <1>1, <2>1, <2>2, <3>5, <3>6, <3>7 DEF Budget!AtLeastZero
    <3> QED
      BY <2>2, <3>5, <3>8
  <2>3. CASE x # d
    <3>1. used'[x] = used[x]
      BY <2>3 DEF QuotaInv, QuotaTypeOK, Budget!SettleOnce
    <3>2. \A s \in EntriesOf(x) : Charged[s] \in Int /\ Charged'[s] = Charged[s]
      BY <1>4, <2>3 DEF EntriesOf, Charged, SumInv
    <3>3. Sum(Charged', EntriesOf(x)) = Sum(Charged, EntriesOf(x))
      BY <2>1, <3>2, SumOfEqual
    <3> QED
      BY <2>1, <3>1, <3>3
  <2> QED
    BY <2>2, <2>3
<1>8. \A s \in Tickets : ledger'[s].status = "none" => ledger'[s].day = 0
  BY <1>4 DEF SumInv
<1> QED
  BY <1>5, <1>6, <1>7, <1>8 DEF SumInv, UsageIsExplained, Sum, Budget!SettleOnce

LEMMA SumInitHolds == QuotaInit => SumInv
<1> SUFFICES ASSUME QuotaInit PROVE SumInv
  OBVIOUS
<1>1. \A t \in Tickets : ledger[t] = NoEntry
  BY DEF QuotaInit
<1>2. \A d \in Days : EntriesOf(d) = {}
  BY <1>1 DEF EntriesOf, NoEntry, Days
<1>3. \A d \in Days : used[d] = 0
  BY DEF QuotaInit
<1>4. UsageIsExplained
  BY <1>2, <1>3, SumOfNone DEF UsageIsExplained, Sum
<1> QED
  BY <1>1, <1>2, <1>4, FS_EmptySet DEF SumInv, NoEntry

LEMMA SumStepKeeps ==
    ASSUME QuotaInv, SumInv, [QuotaNext]_quotaVars
    PROVE  SumInv'
<1>1. [Budget!BudgetNext]_(Budget!budget)
  BY QuotaStepMaps
<1>2. ASSUME UNCHANGED ledger, overwritten \subseteq overwritten',
             \A d \in Days \ overwritten' : used'[d] = used[d]
      PROVE  SumInv'
  <2>1. Charged' = Charged /\ \A d \in Days : EntriesOf(d)' = EntriesOf(d)
    BY <1>2 DEF Charged, EntriesOf
  <2>2. \A d \in Days \ overwritten' : used'[d] = Sum(Charged', EntriesOf(d)')
    BY <1>2, <2>1 DEF SumInv, UsageIsExplained, Sum
  <2> QED
    BY <1>2, <2>1, <2>2 DEF SumInv, UsageIsExplained, Sum
<1>3. CASE Budget!BudgetNext
  <2>1. ASSUME NEW t \in Tickets, NEW n \in Amounts \cup {0}, NEW d \in Days,
               Budget!Reserve(t, d, n)
        PROVE  SumInv'
    BY <2>1, AmountsAreNumbers, ReserveAdds
  <2>2. ASSUME NEW t \in Tickets, NEW n \in Amounts \cup {0}, Budget!SettleOnce(t, n)
        PROVE  SumInv'
    BY <2>2, AmountsAreNumbers, SettleCorrects
  <2>3. ASSUME NEW d \in Days, Budget!Manage(d)
        PROVE  SumInv'
    <3>1. \A x \in Days \ {d} : used'[x] = used[x]
      BY <2>3 DEF QuotaInv, QuotaTypeOK, Budget!Manage
    <3> QED
      BY <1>2, <2>3, <3>1 DEF Budget!Manage
  <2>4. CASE Budget!ManageSubscription
    BY <1>2, <2>4 DEF Budget!ManageSubscription
  <2> QED
    BY <1>3, <2>1, <2>2, <2>3, <2>4 DEF Budget!BudgetNext
<1>4. CASE UNCHANGED Budget!budget
  BY <1>2, <1>4 DEF Budget!budget
<1> QED
  BY <1>1, <1>3, <1>4

\* The usage of a day is what its reservations were charged: no update is
\* lost, none lands on another day, and _reduce_usage never gives tokens away
\* (entitlements.py:86-97), unless an operator wrote the row.
THEOREM UsageExplained == QuotaSafety => []UsageIsExplained
<1>1. QuotaInv /\ SumInv /\ [QuotaNext]_quotaVars => SumInv'
  BY SumStepKeeps
<1>2. QuotaSafety => []SumInv
  BY <1>1, SumInitHolds, QuotaInvariant, PTL DEF QuotaSafety
<1>3. SumInv => UsageIsExplained
  BY DEF SumInv
<1> QED
  BY <1>2, <1>3, PTL

-----------------------------------------------------------------------------
(* The chat service *)


\* Until a settlement is attempted the reservation is open, and only a stage
\* that was granted one has a provider call.
HandleInv(t) ==
    /\ call[t] \in Handles
    /\ call[t].at # "none" => tx[t].at = "granted"
    /\ call[t].at \in {"none", "replied"} => ~call[t].attempted
    /\ tx[t].at = "granted" /\ ~call[t].attempted => ledger[t].status = "open"

CallsInv == call \in [Tickets -> Handles] /\ \A t \in Tickets : HandleInv(t)

LEMMA TicketsAreStages ==
    ASSUME NEW r \in Requests, NEW s \in Stages PROVE <<r, s>> \in Tickets
BY QueryAssumption

LEMMA CallsInit == RagInit => CallsInv
BY DEF RagInit, CallsInv, HandleInv, NoHandle, Handles, QuotaInit, NoCall

\* What a settlement is asked to charge.
LEMMA ChargesAreAmounts ==
    ASSUME QuotaInv, CallsInv, NEW t \in Tickets
    PROVE  /\ Bounded(call[t].message.tokens, Reserved(t)) \in Amounts \cup {0}
           /\ TransportCharge(t) \in Amounts \cup {0}
<1>1. Reserved(t) \in Amounts \cup {0}
  BY DEF QuotaInv, QuotaTypeOK, Calls, Reserved
<1>2. call[t].message \in Messages \cup {Blank}
  BY DEF CallsInv, HandleInv, Handles
<1>3. call[t].message.tokens \in Amounts \cup {0}
  BY <1>2 DEF Messages, Blank
<1> QED
  BY <1>1, <1>3 DEF Bounded, TransportCharge

\* A settlement by the service is one the quota expects.
LEMMA TerminalIsQuotaStep ==
    ASSUME QuotaInv, CallsInv, NEW t \in Tickets, NEW n \in Amounts \cup {0},
           call[t].at # "none",
           Terminal(t, n) \/ TerminalRaises(t, n)
    PROVE  [QuotaNext]_quotaVars
<1>1. ledger[t].status = "open"
  BY DEF CallsInv, HandleInv, Terminal, TerminalRaises, NotAttempted
<1> QED
  BY <1>1 DEF Terminal, TerminalRaises, QuotaNext

LEMMA RagStepIsQuotaStep ==
    ASSUME QuotaInv, CallsInv, [RagNext]_ragVars
    PROVE  [QuotaNext]_quotaVars
<1>1. ASSUME NEW r \in Requests, NEW s \in Stages, StageStep(r, s)
      PROVE  [QuotaNext]_quotaVars
  <2> DEFINE t == <<r, s>>
  <2>0. t \in Tickets
    BY TicketsAreStages
  <2>1. CASE \E n \in Bounds : Reserve(r, s, n)
    BY <2>0, <2>1, QueryAssumption DEF Reserve, QuotaNext
  <2>2. CASE Reserving(t)
    BY <2>0, <2>2 DEF Reserving, QuotaNext
  <2>3. CASE Denied(r, s) \/ Invoke(r, s) \/ Conclude(r, s) \/ Propagate(r, s)
    BY <2>3 DEF Denied, Invoke, Conclude, Propagate
  <2>4. CASE SettleReply(r, s)
    BY <2>0, <2>4, ChargesAreAmounts, TerminalIsQuotaStep DEF SettleReply
  <2>5. CASE Refund(r, s)
    BY <2>0, <2>5, TerminalIsQuotaStep DEF Refund
  <2> QED
    BY <1>1, <2>1, <2>2, <2>3, <2>4, <2>5 DEF StageStep
<1>2. ASSUME NEW r \in Requests, RequestStep(r)
      PROVE  [QuotaNext]_quotaVars
  <2>1. <<r, "hyde">> \in Tickets
    BY TicketsAreStages DEF Stages
  <2>2. CASE ChargeBound(r)
    BY <2>1, <2>2, ChargesAreAmounts, TerminalIsQuotaStep DEF ChargeBound
  <2>3. CASE Begin(r) \/ Retrieve(r)
    BY <2>3 DEF Begin, Retrieve
  <2> QED
    BY <1>1, <1>2, <2>2, <2>3 DEF RequestStep
<1>3. ASSUME NEW r \in Requests, RequestFault(r)
      PROVE  [QuotaNext]_quotaVars
  <2>1. \A s \in Stages : <<r, s>> \in Tickets
    BY TicketsAreStages
  <2> QED
    BY <1>3, <2>1
    DEF RequestFault, ReservingFails, ConcludeRaises, Die, QuotaNext
<1>4. CASE Environment
  BY <1>4 DEF Environment, QuotaNext
<1>5. CASE UNCHANGED ragVars
  BY <1>5 DEF ragVars
<1> QED
  BY <1>2, <1>3, <1>4, <1>5 DEF RagNext


-----------------------------------------------------------------------------
(* Handles: preservation *)

\* What every step of the quota but a settlement leaves alone: a granted
\* reservation and its entry; and a grant opens an entry.
Steady ==
    \A t \in Tickets :
      /\ tx[t].at = "granted" => tx'[t].at = "granted" /\ ledger'[t] = ledger[t]
      /\ tx'[t].at = "granted" /\ tx[t].at # "granted" => ledger'[t].status = "open"

LEMMA ReservationIsSteady ==
    ASSUME QuotaInv, NEW t \in Tickets,
           \/ \E n \in Amounts : Open(t, n)
           \/ ReserveStep(t) \/ DatabaseFault(t) \/ CallerDies(t)
    PROVE  Steady
<1>1. CASE \E n \in Amounts : Open(t, n)
  BY <1>1 DEF Open, Steady, QuotaInv, QuotaTypeOK
<1>2. CASE FindUsage(t) \/ CreateUsage(t) \/ FindAfterConflict(t)
  <2>1. tx[t] \in Calls /\ tx[t].at # "granted" /\ UNCHANGED ledger
    BY <1>2 DEF FindUsage, CreateUsage, FindAfterConflict, QuotaInv, QuotaTypeOK
  <2>2. tx'[t].at \in {"found", "missing", "conflict"}
    BY <1>2 DEF FindUsage, CreateUsage, FindAfterConflict, QuotaInv, QuotaTypeOK, Calls
  <2>3. \A s \in Tickets \ {t} : tx'[s] = tx[s]
    BY <1>2 DEF FindUsage, CreateUsage, FindAfterConflict, QuotaInv, QuotaTypeOK
  <2> QED
    BY <2>1, <2>2, <2>3 DEF Steady
<1>3. CASE Refuse(t) \/ RollBack(t)
  <2>1. tx[t].at # "granted" /\ UNCHANGED ledger
    BY <1>3 DEF Refuse, RollBack, InTransaction
  <2>2. tx'[t].at \in {"refused", "raised"}
    BY <1>3 DEF Refuse, RollBack, Leave, QuotaInv, QuotaTypeOK, Calls
  <2>3. \A s \in Tickets \ {t} : tx'[s] = tx[s]
    BY <1>3 DEF Refuse, RollBack, Leave, QuotaInv, QuotaTypeOK
  <2> QED
    BY <2>1, <2>2, <2>3 DEF Steady
<1>4. CASE Admit(t) \/ AnswerLost(t)
  <2>1. tx[t].at = "found" /\ ledger'[t].status = "open"
    BY <1>4 DEF Admit, AnswerLost, Commit, QuotaInv, QuotaTypeOK
  <2>2. \A s \in Tickets \ {t} : tx'[s] = tx[s] /\ ledger'[s] = ledger[s]
    BY <1>4 DEF Admit, AnswerLost, Commit, Leave, QuotaInv, QuotaTypeOK
  <2> QED
    BY <2>1, <2>2 DEF Steady
<1> QED
  BY <1>1, <1>2, <1>3, <1>4 DEF ReserveStep, DatabaseFault, CallerDies

LEMMA EnvironmentIsSteady ==
    ASSUME Operate \/ Midnight \/ UNCHANGED quotaVars
    PROVE  Steady
BY DEF Operate, Midnight, quotaVars, SaveSubscription, SaveUsage, SeedAccount, Steady

\* Steps of the quota that are not settlements.
LEMMA SteadyKeepsCalls ==
    ASSUME CallsInv, Steady, UNCHANGED call
    PROVE  CallsInv'
BY DEF CallsInv, HandleInv, Steady

\* Steps that change one handle and leave the quota alone.
LEMMA HandleStep ==
    ASSUME CallsInv, NEW t \in Tickets, NEW h \in Handles,
           call' = [call EXCEPT ![t] = h], UNCHANGED quotaVars,
           tx[t].at = "granted",
           h.at \in {"none", "replied"} => ~h.attempted,
           h.attempted = call[t].attempted
    PROVE  CallsInv'
<1>1. call'[t] = h /\ \A s \in Tickets \ {t} : call'[s] = call[s]
  BY DEF CallsInv
<1>2. call' \in [Tickets -> Handles] /\ UNCHANGED <<tx, ledger>>
  BY DEF CallsInv, quotaVars
<1>3. HandleInv(t)'
  BY <1>1, <1>2 DEF CallsInv, HandleInv
<1>4. \A s \in Tickets \ {t} : HandleInv(s)'
  BY <1>1, <1>2 DEF CallsInv, HandleInv
<1> QED
  BY <1>2, <1>3, <1>4 DEF CallsInv

\* A settlement, whether it succeeds, raises before its commit or after.
LEMMA TerminalKeepsCalls ==
    ASSUME QuotaInv, CallsInv, NEW t \in Tickets, NEW n,
           Terminal(t, n) \/ TerminalRaises(t, n),
           call[t].at # "none",
           NEW where \in {"settled", "failed", "done"},
           NEW e \in {"none", "accounting"},
           NEW m \in Messages \cup {Blank},
           Marked(t, where, e, m)
    PROVE  CallsInv'
<1> DEFINE h == [at |-> where, error |-> e, message |-> m, attempted |-> TRUE]
<1>1. h \in Handles
  BY DEF Handles
<1>2. call' \in [Tickets -> Handles] /\ call'[t] = h
  BY <1>1 DEF Marked, CallsInv
<1>3. \A s \in Tickets \ {t} : call'[s] = call[s]
  BY DEF Marked, CallsInv
<1>4. UNCHANGED tx
  BY DEF Terminal, TerminalRaises, Settle, quotaVars
<1>5. \A s \in Tickets \ {t} : ledger'[s] = ledger[s]
  BY DEF Terminal, TerminalRaises, Settle, quotaVars, QuotaInv, QuotaTypeOK
<1>6. HandleInv(t)'
  BY <1>1, <1>2, <1>4 DEF CallsInv, HandleInv
<1>7. \A s \in Tickets \ {t} : HandleInv(s)'
  BY <1>3, <1>4, <1>5 DEF CallsInv, HandleInv
<1> QED
  BY <1>2, <1>6, <1>7 DEF CallsInv

LEMMA InvokeKeepsCalls ==
    ASSUME CallsInv, NEW r \in Requests, NEW s \in Stages, Invoke(r, s)
    PROVE  CallsInv'
<1> DEFINE t == <<r, s>>
<1>1. t \in Tickets /\ call[t] \in Handles /\ tx[t].at = "granted"
  BY TicketsAreStages DEF Invoke, CallsInv
<1>2. ~call[t].attempted
  BY <1>1 DEF Invoke, CallsInv, HandleInv
<1>3. CASE \E m \in Messages :
             call' = [call EXCEPT ![t].at = "replied", ![t].message = m]
  <2>1. PICK m \in Messages :
          call' = [call EXCEPT ![t].at = "replied", ![t].message = m]
    BY <1>3
  <2> DEFINE h == [call[t] EXCEPT !.at = "replied", !.message = m]
  <2>2. h \in Handles /\ call' = [call EXCEPT ![t] = h]
    BY <1>1, <2>1 DEF Handles
  <2> QED
    BY <1>1, <1>2, <2>2, HandleStep DEF Invoke, Handles
<1>4. CASE \E e \in {"transport", "other"} :
             call' = [call EXCEPT ![t].at = "failed", ![t].error = e]
  <2>1. PICK e \in {"transport", "other"} :
          call' = [call EXCEPT ![t].at = "failed", ![t].error = e]
    BY <1>4
  <2> DEFINE h == [call[t] EXCEPT !.at = "failed", !.error = e]
  <2>2. h \in Handles /\ call' = [call EXCEPT ![t] = h]
    BY <1>1, <2>1 DEF Handles
  <2> QED
    BY <1>1, <1>2, <2>2, HandleStep DEF Invoke, Handles
<1> QED
  BY <1>3, <1>4 DEF Invoke

LEMMA ConcludeKeepsCalls ==
    ASSUME CallsInv, NEW r \in Requests, NEW s \in Stages,
           Conclude(r, s) \/ ConcludeRaises(r, s)
    PROVE  CallsInv'
<1> DEFINE t == <<r, s>>
<1>1. t \in Tickets /\ call[t] \in Handles /\ tx[t].at = "granted"
  BY TicketsAreStages DEF Conclude, ConcludeRaises, CallsInv, HandleInv
<1>2. PICK where \in {"done", "failed"}, e \in {call[t].error, "provider", "other"} :
        call' = [call EXCEPT ![t].at = where, ![t].error = e, ![t].message = Blank]
  <2>1. CASE call' = [call EXCEPT ![t].at = "done", ![t].message = Blank]
    <3>1. call' = [call EXCEPT ![t].at = "done", ![t].error = call[t].error,
                               ![t].message = Blank]
      BY <1>1, <2>1 DEF CallsInv, Handles
    <3> QED
      BY <3>1
  <2> QED
    BY <2>1 DEF Conclude, ConcludeRaises
<1> DEFINE h == [call[t] EXCEPT !.at = where, !.error = e, !.message = Blank]
<1>3. h \in Handles /\ call' = [call EXCEPT ![t] = h]
  BY <1>1, <1>2 DEF Handles
<1>4. UNCHANGED quotaVars
  BY DEF Conclude, ConcludeRaises
<1> QED
  BY <1>1, <1>3, <1>4, HandleStep DEF Handles


LEMMA StageStepKeepsCalls ==
    ASSUME QuotaInv, CallsInv, NEW r \in Requests, NEW s \in Stages, StageStep(r, s)
    PROVE  CallsInv'
<1> DEFINE t == <<r, s>>
<1>0. t \in Tickets /\ call[t] \in Handles
  BY TicketsAreStages DEF CallsInv
<1>1. CASE \E n \in Bounds : Reserve(r, s, n)
  BY <1>0, <1>1, QueryAssumption, ReservationIsSteady, SteadyKeepsCalls DEF Reserve
<1>2. CASE Reserving(t)
  BY <1>0, <1>2, ReservationIsSteady, SteadyKeepsCalls DEF Reserving
<1>3. CASE Denied(r, s) \/ Propagate(r, s)
  BY <1>3, EnvironmentIsSteady, SteadyKeepsCalls DEF Denied, Propagate
<1>4. CASE Invoke(r, s)
  BY <1>4, InvokeKeepsCalls
<1>5. CASE SettleReply(r, s)
  BY <1>0, <1>5, TerminalKeepsCalls DEF SettleReply, Handles
<1>6. CASE Conclude(r, s)
  BY <1>6, ConcludeKeepsCalls
<1>7. CASE Refund(r, s)
  BY <1>0, <1>7, TerminalKeepsCalls DEF Refund
<1> QED
  BY <1>1, <1>2, <1>3, <1>4, <1>5, <1>6, <1>7 DEF StageStep

LEMMA RagStepKeepsCalls ==
    ASSUME QuotaInv, CallsInv, [RagNext]_ragVars
    PROVE  CallsInv'
<1>1. ASSUME NEW r \in Requests, RequestStep(r)
      PROVE  CallsInv'
  <2>1. <<r, "hyde">> \in Tickets
    BY TicketsAreStages DEF Stages
  <2>2. CASE ChargeBound(r)
    BY <2>1, <2>2, TerminalKeepsCalls DEF ChargeBound
  <2>3. CASE Begin(r) \/ Retrieve(r)
    BY <2>3, EnvironmentIsSteady, SteadyKeepsCalls DEF Begin, Retrieve
  <2> QED
    BY <1>1, <2>2, <2>3, StageStepKeepsCalls DEF RequestStep
<1>2. ASSUME NEW r \in Requests, RequestFault(r)
      PROVE  CallsInv'
  <2>1. \A s \in Stages : <<r, s>> \in Tickets
    BY TicketsAreStages
  <2>2. CASE \E s \in Stages : ReservingFails(<<r, s>>)
    BY <2>1, <2>2, ReservationIsSteady, SteadyKeepsCalls DEF ReservingFails
  <2>3. CASE \E s \in Stages : ConcludeRaises(r, s)
    BY <2>3, ConcludeKeepsCalls
  <2>4. CASE Die(r)
    BY <2>1, <2>4, ReservationIsSteady, EnvironmentIsSteady, SteadyKeepsCalls DEF Die
  <2> QED
    BY <1>2, <2>2, <2>3, <2>4 DEF RequestFault
<1>3. CASE Environment
  BY <1>3, EnvironmentIsSteady, SteadyKeepsCalls DEF Environment
<1>4. CASE UNCHANGED ragVars
  BY <1>4, EnvironmentIsSteady, SteadyKeepsCalls DEF ragVars
<1> QED
  BY <1>1, <1>2, <1>3, <1>4 DEF RagNext

LEMMA RagInvariant == RagSafety => [](QuotaInv /\ CallsInv)
<1>1. RagInit => QuotaInv /\ CallsInv
  BY QuotaInitInv, CallsInit DEF RagInit
<1>2. QuotaInv /\ CallsInv /\ [RagNext]_ragVars => (QuotaInv /\ CallsInv)'
  BY RagStepIsQuotaStep, QuotaStepKeeps, RagStepKeepsCalls
<1> QED
  BY <1>1, <1>2, PTL DEF RagSafety

LEMMA RagUsesQuota == RagSafety => QuotaSafety
<1>1. RagInit => QuotaInit
  BY DEF RagInit
<1> QED
  BY <1>1, RagStepIsQuotaStep, RagInvariant, PTL DEF RagSafety, QuotaSafety

\* The chat service is a user of the quota as Quota describes them: every
\* behaviour of RagQuery is one of Quota, and so of DailyBudget.
THEOREM RagImplementsBudget == RagSafety => ImplementsBudget
BY RagUsesQuota, QuotaImplementsBudget

\* What the rows say is what the stages of the requests were charged.
THEOREM RagUsageExplained == RagSafety => []UsageIsExplained
BY RagUsesQuota, UsageExplained

\* A reservation is settled at most once, whatever handlers, failing databases
\* and dying workers do (accounting.py:45-48).
THEOREM SettledStays == RagSafety => SettledForGood
<1> DEFINE Stays == \A t \in Tickets :
                      ledger[t].status = "settled" => ledger'[t] = ledger[t]
<1>1. ASSUME QuotaInv, CallsInv, [RagNext]_ragVars PROVE Stays
  <2>1. [QuotaNext]_quotaVars
    BY <1>1, RagStepIsQuotaStep
  <2>2. ASSUME NEW t \in Tickets, Commit(t) PROVE Stays
    <3>1. ledger[t].status # "settled"
      BY <1>1, <2>2 DEF Commit, QuotaInv, EntryInv
    <3> QED
      BY <1>1, <2>2, <3>1 DEF Commit, QuotaInv, QuotaTypeOK
  <2>3. ASSUME NEW t \in Tickets, NEW n \in Amounts \cup {0},
               ledger[t].status = "open", Settle(t, n)
        PROVE  Stays
    BY <1>1, <2>3 DEF Settle, QuotaInv, QuotaTypeOK
  <2>4. CASE UNCHANGED ledger
    BY <2>4
  <2> QED
    BY <2>1, <2>2, <2>3, <2>4
    DEF QuotaNext, Open, ReserveStep, FindUsage, CreateUsage, FindAfterConflict,
        Admit, Refuse, DatabaseFault, CallerDies, RollBack, AnswerLost, Operate,
        SaveSubscription, SaveUsage, SeedAccount, Midnight, quotaVars
<1> QED
  BY <1>1, RagInvariant, PTL DEF RagSafety, SettledForGood


-----------------------------------------------------------------------------
(* What becomes of the reservations of a request *)

\* The handle of a stage tells what became of its reservation.
StageInv(t) ==
    /\ call[t].at = "none" => call[t] = NoHandle
    /\ call[t].at = "replied" => call[t].error = "none"
    /\ call[t].at = "settled" => call[t].error = "none" /\ call[t].attempted
    /\ call[t].at = "failed" => /\ call[t].error # "none"
                                /\ call[t].error = "provider" => call[t].attempted
    /\ call[t].at = "done" => call[t].attempted
    /\ call[t].attempted => \/ call[t].error = "accounting"
                            \/ ledger[t].status = "settled"
    /\ ledger[t].status = "none" => ledger[t].charged = 0

\* A stage that was skipped or came to its end, and one that left nothing open.
Over(t) ==
    \/ tx[t].at = "idle"
    \/ call[t].attempted /\ call[t].error # "accounting"

Closed(t) ==
    ledger[t].status = "open" => tx[t].at = "raised" \/ call[t].error = "accounting"

\* What the request has counted of a stage.
Counted(t) == IF call[t].attempted THEN ledger[t].charged ELSE 0

Hyde(r) == <<r, "hyde">>
Final(r) == <<r, "final">>

RequestInv(r) ==
    /\ pc[r] = "new" => tx[Hyde(r)].at = "idle"
    /\ pc[r] \in {"new", "hyde", "retrieve"} => tx[Final(r)].at = "idle"
    /\ InTransaction(Hyde(r)) => pc[r] = "hyde"
    /\ InTransaction(Final(r)) => pc[r] = "final"
    /\ pc[r] \in {"retrieve", "final", "answered"} => Over(Hyde(r))
    /\ pc[r] = "answered" => Over(Final(r))
    /\ pc[r] = "rejected" => Closed(Hyde(r)) /\ Closed(Final(r))
    /\ pc[r] \in {"rejected", "dead"}
       \/ call[Hyde(r)].error = "accounting"
       \/ call[Final(r)].error = "accounting"
       \/ reported[r] = Counted(Hyde(r)) + Counted(Final(r))

RagTypes ==
    /\ pc \in [Requests -> {"new", "retrieve", "answered", "rejected", "dead"}
                             \cup Stages]
    /\ reported \in [Requests -> Nat]

RagInv ==
    /\ QuotaInv /\ CallsInv /\ RagTypes
    /\ \A t \in Tickets : StageInv(t)
    /\ \A r \in Requests : RequestInv(r)

\* A step touches only one request and one of its stages.
OnlyStage(r, t) ==
    /\ \A q \in Requests \ {r} : pc'[q] = pc[q] /\ reported'[q] = reported[q]
    /\ \A u \in Tickets \ {t} :
         call'[u] = call[u] /\ tx'[u] = tx[u] /\ ledger'[u] = ledger[u]

LEMMA RequestTickets ==
    ASSUME NEW r \in Requests
    PROVE  Hyde(r) \in Tickets /\ Final(r) \in Tickets /\ Hyde(r) # Final(r)
BY QueryAssumption DEF Hyde, Final, Stages

\* A step of one stage keeps the invariant if it does for that stage and for
\* its request.
LEMMA StepOfStage ==
    ASSUME RagInv, NEW r \in Requests, NEW t \in {Hyde(r), Final(r)},
           OnlyStage(r, t), [RagNext]_ragVars, RagTypes',
           StageInv(t)', RequestInv(r)'
    PROVE  RagInv'
<1>1. QuotaInv' /\ CallsInv'
  BY RagStepIsQuotaStep, QuotaStepKeeps, RagStepKeepsCalls DEF RagInv
<1>2. ASSUME NEW q \in Requests \ {r} PROVE RequestInv(q)'
  <2>1. \A u \in {Hyde(q), Final(q)} :
          call'[u] = call[u] /\ tx'[u] = tx[u] /\ ledger'[u] = ledger[u]
    <3>1. \A u \in {Hyde(q), Final(q)} : u \in Tickets \ {t}
      BY QueryAssumption DEF Hyde, Final, Stages
    <3> QED
      BY <3>1 DEF OnlyStage
  <2>2. pc'[q] = pc[q] /\ reported'[q] = reported[q]
    BY DEF OnlyStage
  <2>3. RequestInv(q)
    BY DEF RagInv
  <2> QED
    BY <2>1, <2>2, <2>3 DEF RequestInv, InTransaction, Over, Closed, Counted
<1>3. ASSUME NEW u \in Tickets \ {t} PROVE StageInv(u)'
  BY DEF RagInv, StageInv, OnlyStage
<1> QED
  BY <1>1, <1>2, <1>3 DEF RagInv

LEMMA RagInitHolds == RagInit => RagInv
<1> SUFFICES ASSUME RagInit PROVE RagInv
  OBVIOUS
<1>1. QuotaInv /\ CallsInv
  BY QuotaInitInv, CallsInit DEF RagInit
<1>2. RagTypes
  BY DEF RagInit, RagTypes
<1>3. \A t \in Tickets : StageInv(t)
  BY DEF RagInit, StageInv, NoHandle, QuotaInit, NoEntry
<1>4. ASSUME NEW r \in Requests PROVE RequestInv(r)
  <2>1. /\ tx[Hyde(r)].at = "idle" /\ tx[Final(r)].at = "idle"
        /\ ~call[Hyde(r)].attempted /\ ~call[Final(r)].attempted
    BY RequestTickets DEF RagInit, QuotaInit, NoHandle, NoCall
  <2>2. pc[r] = "new" /\ reported[r] = 0
    BY DEF RagInit
  <2> QED
    BY <2>1, <2>2 DEF RequestInv, Counted, InTransaction
<1> QED
  BY <1>1, <1>2, <1>3, <1>4 DEF RagInv

LEMMA StageTickets ==
    ASSUME NEW r \in Requests, NEW s \in Stages
    PROVE  /\ <<r, s>> \in {Hyde(r), Final(r)}
           /\ s = "hyde" => <<r, s>> = Hyde(r)
           /\ s = "final" => <<r, s>> = Final(r)
           /\ s # "hyde" => s = "final"
BY DEF Hyde, Final, Stages

\* What is over leaves nothing open.
LEMMA OverIsClosed ==
    ASSUME RagInv, NEW t \in Tickets
    PROVE  /\ Over(t) => Closed(t)
           /\ call[t].attempted => Closed(t)
BY DEF RagInv, QuotaInv, EntryInv, StageInv, Over, Closed

\* Steps that move the request and nothing else.
LEMMA MoveKeeps ==
    ASSUME RagInv, NEW r \in Requests, NEW where, [RagNext]_ragVars, Goes(r, where),
           UNCHANGED <<quotaVars, call, reported>>, RagTypes', RequestInv(r)'
    PROVE  RagInv'
<1>1. UNCHANGED <<tx, ledger>>
  BY DEF quotaVars
<1>2. OnlyStage(r, Hyde(r))
  BY <1>1 DEF OnlyStage, Goes, RagInv, RagTypes
<1>3. StageInv(Hyde(r))'
  BY <1>1, RequestTickets DEF RagInv, StageInv
<1> QED
  BY <1>2, <1>3, StepOfStage

LEMMA BeginKeeps ==
    ASSUME RagInv, NEW r \in Requests, Begin(r), [RagNext]_ragVars PROVE RagInv'
<1>1. PICK where \in {"hyde", "retrieve", "rejected"} : Goes(r, where)
  BY DEF Begin
<1>2. UNCHANGED <<quotaVars, call, reported>> /\ UNCHANGED <<tx, ledger>>
  BY DEF Begin, quotaVars
<1>3. RagTypes' /\ pc'[r] = where
  BY <1>1, <1>2 DEF RagInv, RagTypes, Goes, Stages
<1>4. RequestInv(r) /\ pc[r] = "new"
  BY DEF RagInv, Begin
<1>5. Closed(Hyde(r)) /\ Closed(Final(r))
  BY <1>4, RequestTickets, OverIsClosed DEF RequestInv, Over
<1>6. RequestInv(r)'
  BY <1>2, <1>3, <1>4, <1>5 DEF RequestInv, InTransaction, Over, Closed, Counted
<1> QED
  BY <1>1, <1>2, <1>3, <1>6, MoveKeeps

LEMMA RetrieveKeeps ==
    ASSUME RagInv, NEW r \in Requests, Retrieve(r), [RagNext]_ragVars PROVE RagInv'
<1>1. PICK where \in {"rejected", "answered", "final"} : Goes(r, where)
  BY DEF Retrieve
<1>2. UNCHANGED <<quotaVars, call, reported>> /\ UNCHANGED <<tx, ledger>>
  BY DEF Retrieve, quotaVars
<1>3. RagTypes' /\ pc'[r] = where
  BY <1>1, <1>2 DEF RagInv, RagTypes, Goes, Stages
<1>4. RequestInv(r) /\ pc[r] = "retrieve"
  BY DEF RagInv, Retrieve
<1>5. Closed(Hyde(r)) /\ Closed(Final(r))
  BY <1>4, RequestTickets, OverIsClosed DEF RequestInv, Over
<1>6. RequestInv(r)'
  BY <1>2, <1>3, <1>4, <1>5 DEF RequestInv, InTransaction, Over, Closed, Counted
<1> QED
  BY <1>1, <1>2, <1>3, <1>6, MoveKeeps

\* A stage that raises without undoing anything: it holds nothing open.
LEMMA RejectKeeps ==
    ASSUME RagInv, NEW r \in Requests, NEW s \in Stages, [RagNext]_ragVars,
           Denied(r, s) \/ Propagate(r, s)
    PROVE  RagInv'
<1> DEFINE t == <<r, s>>
<1>0. t \in Tickets /\ StageInv(t) /\ EntryInv(t) /\ HandleInv(t)
  BY TicketsAreStages DEF RagInv, QuotaInv, CallsInv
<1>1. Goes(r, "rejected") /\ pc[r] = s /\ UNCHANGED <<quotaVars, call, reported>>
  BY DEF Denied, Propagate
<1>2. UNCHANGED <<tx, ledger>>
  BY <1>1 DEF quotaVars
<1>3. RagTypes' /\ pc'[r] = "rejected"
  BY <1>1 DEF RagInv, RagTypes, Goes
<1>4. RequestInv(r)
  BY DEF RagInv
<1>5. ~InTransaction(t) /\ Closed(t)
  <2>1. CASE Denied(r, s)
    BY <1>0, <2>1 DEF Denied, InTransaction, Closed, EntryInv
  <2>2. CASE Propagate(r, s)
    <3>1. call[t].attempted \/ call[t].error = "accounting"
      BY <1>0, <2>2, StageTickets
      DEF Propagate, RefundDue, NotAttempted, StageInv, HandleInv, Handles
    <3> QED
      BY <1>0, <2>2, <3>1, OverIsClosed
      DEF Propagate, Closed, HandleInv, InTransaction
  <2> QED
    BY <2>1, <2>2
<1>6. Closed(Hyde(r)) /\ Closed(Final(r))
  <2>1. CASE s = "hyde"
    BY <1>1, <1>4, <1>5, <2>1, RequestTickets, StageTickets, OverIsClosed
    DEF RequestInv, Over
  <2>2. CASE s = "final"
    BY <1>1, <1>4, <1>5, <2>2, RequestTickets, StageTickets, OverIsClosed
    DEF RequestInv
  <2> QED
    BY <2>1, <2>2, StageTickets
<1>7. RequestInv(r)'
  <2>1. ~InTransaction(Hyde(r)) /\ ~InTransaction(Final(r))
    BY <1>1, <1>4, <1>5, StageTickets DEF RequestInv
  <2> QED
    BY <1>2, <1>3, <1>1, <1>6, <2>1 DEF RequestInv, InTransaction, Closed
<1> QED
  BY <1>1, <1>3, <1>7, MoveKeeps

\* What a step of a reservation does to its ticket.
LEMMA ReservationMoves ==
    ASSUME QuotaInv, NEW t \in Tickets,
           \/ \E n \in Amounts : Open(t, n)
           \/ ReserveStep(t) \/ DatabaseFault(t) \/ CallerDies(t)
    PROVE  /\ tx[t].at = "idle" \/ InTransaction(t)
           /\ \/ /\ ledger' = ledger
                 /\ tx'[t].at \in {"open", "missing", "conflict", "found",
                                   "refused", "raised"}
              \/ ledger'[t].status = "open" /\ tx'[t].at \in {"granted", "raised"}
           /\ \A u \in Tickets \ {t} : tx'[u] = tx[u] /\ ledger'[u] = ledger[u]
<1>1. CASE \E n \in Amounts : Open(t, n)
  BY <1>1 DEF Open, QuotaInv, QuotaTypeOK
<1>2. CASE FindUsage(t) \/ CreateUsage(t) \/ FindAfterConflict(t)
  <2>1. InTransaction(t) /\ UNCHANGED ledger
    BY <1>2 DEF FindUsage, CreateUsage, FindAfterConflict, InTransaction
  <2>2. tx'[t].at \in {"found", "missing", "conflict"}
    BY <1>2 DEF FindUsage, CreateUsage, FindAfterConflict, QuotaInv, QuotaTypeOK,
                Calls
  <2>3. \A u \in Tickets \ {t} : tx'[u] = tx[u]
    BY <1>2 DEF FindUsage, CreateUsage, FindAfterConflict, QuotaInv, QuotaTypeOK
  <2> QED
    BY <2>1, <2>2, <2>3
<1>3. CASE Refuse(t) \/ RollBack(t)
  <2>1. InTransaction(t) /\ UNCHANGED ledger
    BY <1>3 DEF Refuse, RollBack, InTransaction
  <2>2. tx'[t].at \in {"refused", "raised"}
    BY <1>3 DEF Refuse, RollBack, Leave, QuotaInv, QuotaTypeOK, Calls
  <2>3. \A u \in Tickets \ {t} : tx'[u] = tx[u]
    BY <1>3 DEF Refuse, RollBack, Leave, QuotaInv, QuotaTypeOK
  <2> QED
    BY <2>1, <2>2, <2>3
<1>4. CASE Admit(t) \/ AnswerLost(t)
  <2>1. InTransaction(t) /\ ledger'[t].status = "open"
    BY <1>4 DEF Admit, AnswerLost, Commit, InTransaction, QuotaInv, QuotaTypeOK
  <2>2. tx'[t].at \in {"granted", "raised"}
    BY <1>4 DEF Admit, AnswerLost, Leave, QuotaInv, QuotaTypeOK, Calls
  <2>3. \A u \in Tickets \ {t} : tx'[u] = tx[u] /\ ledger'[u] = ledger[u]
    BY <1>4 DEF Admit, AnswerLost, Commit, Leave, QuotaInv, QuotaTypeOK
  <2> QED
    BY <2>1, <2>2, <2>3
<1> QED
  BY <1>1, <1>2, <1>3, <1>4 DEF ReserveStep, DatabaseFault, CallerDies

\* The reservation of a stage, up to its grant, refusal or failure; or the
\* death of the request in it.
LEMMA ReservationKeeps ==
    ASSUME RagInv, NEW r \in Requests, NEW s \in Stages, [RagNext]_ragVars,
           \/ \E n \in Amounts : Open(<<r, s>>, n)
           \/ ReserveStep(<<r, s>>) \/ DatabaseFault(<<r, s>>)
           \/ CallerDies(<<r, s>>),
           tx[<<r, s>>].at = "idle" => pc[r] = s,
           \/ UNCHANGED pc
           \/ Goes(r, "dead") /\ CallerDies(<<r, s>>),
           UNCHANGED <<call, reported>>
    PROVE  RagInv'
<1> DEFINE t == <<r, s>>
<1>0. t \in Tickets /\ t \in {Hyde(r), Final(r)} /\ HandleInv(t) /\ StageInv(t)
  BY TicketsAreStages, StageTickets DEF RagInv, CallsInv
<1>1. /\ tx[t].at = "idle" \/ InTransaction(t)
      /\ \/ /\ ledger' = ledger
            /\ tx'[t].at \in {"open", "missing", "conflict", "found",
                              "refused", "raised"}
         \/ ledger'[t].status = "open" /\ tx'[t].at \in {"granted", "raised"}
      /\ \A u \in Tickets \ {t} : tx'[u] = tx[u] /\ ledger'[u] = ledger[u]
  BY <1>0, ReservationMoves DEF RagInv
<1>2. RequestInv(r) /\ RagTypes
  BY DEF RagInv
<1>3. pc[r] = s
  BY <1>1, <1>2, StageTickets DEF RequestInv
<1>4. call[t] = NoHandle
  BY <1>0, <1>1 DEF HandleInv, StageInv, InTransaction
<1>5. pc' = pc \/ (pc' = [pc EXCEPT ![r] = "dead"] /\ tx'[t].at = "raised")
  BY <1>0 DEF Goes, CallerDies, RollBack, Leave, RagInv, QuotaInv, QuotaTypeOK, Calls
<1>6. RagTypes' /\ pc'[r] \in {s, "dead"} /\ (pc'[r] = "dead" => tx'[t].at = "raised")
  BY <1>2, <1>3, <1>5 DEF RagTypes, Stages
<1>7. OnlyStage(r, t)
  BY <1>1, <1>2, <1>5 DEF OnlyStage, RagTypes
<1>8. StageInv(t)'
  BY <1>0, <1>1, <1>4 DEF StageInv, NoHandle
<1>9. RequestInv(r)'
  <2>1. CASE s = "hyde"
    <3>1. t = Hyde(r) /\ tx'[Final(r)] = tx[Final(r)]
      BY <1>1, <2>1, StageTickets, RequestTickets
    <3>2. Counted(Final(r)) = 0 /\ Counted(Final(r))' = 0
      <4>1. tx[Final(r)].at = "idle"
        BY <1>2, <1>3, <2>1 DEF RequestInv
      <4>2. call[Final(r)] = NoHandle
        BY <4>1, RequestTickets DEF RagInv, CallsInv, HandleInv, StageInv
      <4> QED
        BY <4>2 DEF Counted, NoHandle
    <3> QED
      BY <1>2, <1>3, <1>4, <1>6, <2>1, <3>1, <3>2
      DEF RequestInv, InTransaction, Counted, NoHandle
  <2>2. CASE s = "final"
    <3>1. /\ t = Final(r) /\ tx'[Hyde(r)] = tx[Hyde(r)]
          /\ ledger'[Hyde(r)] = ledger[Hyde(r)]
      BY <1>1, <2>2, StageTickets, RequestTickets
    <3> QED
      BY <1>2, <1>3, <1>4, <1>6, <2>2, <3>1
      DEF RequestInv, InTransaction, Over, Counted, NoHandle
  <2> QED
    BY <2>1, <2>2, StageTickets
<1> QED
  BY <1>0, <1>6, <1>7, <1>8, <1>9, StepOfStage

\* The request dies outside the transactions of the quota.
LEMMA DieKeeps ==
    ASSUME RagInv, NEW r \in Requests, Die(r), [RagNext]_ragVars PROVE RagInv'
<1>1. CASE \E s \in Stages : CallerDies(<<r, s>>)
  <2>1. PICK s \in Stages : CallerDies(<<r, s>>)
    BY <1>1
  <2>2. tx[<<r, s>>].at # "idle"
    BY <2>1 DEF CallerDies, RollBack, InTransaction
  <2> QED
    BY <2>1, <2>2, ReservationKeeps DEF Die
<1>2. CASE (\A s \in Stages : ~InTransaction(<<r, s>>)) /\ UNCHANGED quotaVars
  <2>1. Goes(r, "dead") /\ UNCHANGED <<quotaVars, call, reported>>
    BY <1>2 DEF Die
  <2>2. RagTypes' /\ pc'[r] = "dead"
    BY <2>1 DEF RagInv, RagTypes, Goes
  <2>3. ~InTransaction(Hyde(r)) /\ ~InTransaction(Final(r))
    BY <1>2 DEF Hyde, Final, Stages
  <2>4. RequestInv(r)'
    BY <2>1, <2>2, <2>3 DEF RequestInv, InTransaction, quotaVars
  <2> QED
    BY <2>1, <2>2, <2>4, MoveKeeps
<1> QED
  BY <1>1, <1>2 DEF Die

\* What the handle of a provider call turns into, without a settlement.
LEMMA HandleChanges ==
    ASSUME RagInv, NEW r \in Requests, NEW s \in Stages,
           Invoke(r, s) \/ Conclude(r, s) \/ ConcludeRaises(r, s)
    PROVE  LET t == <<r, s>>
           IN  /\ pc[r] = s /\ tx[t].at = "granted"
               /\ UNCHANGED <<quotaVars, reported>>
               /\ \A u \in Tickets \ {t} : call'[u] = call[u]
               /\ call'[t].attempted = call[t].attempted
               /\ \/ /\ Invoke(r, s) /\ UNCHANGED pc /\ call[t].error = "none"
                     /\ \/ call'[t].at = "replied" /\ call'[t].error = "none"
                        \/ /\ call'[t].at = "failed"
                           /\ call'[t].error \in {"transport", "other"}
                  \/ /\ call[t].attempted /\ UNCHANGED pc /\ call[t].error = "none"
                     /\ call'[t].at = "failed"
                     /\ call'[t].error \in {"provider", "other"}
                  \/ /\ call[t].attempted /\ call[t].error = "none"
                     /\ call'[t].at = "done" /\ call'[t].error = "none"
                     /\ Goes(r, IF s = "hyde" THEN "retrieve" ELSE "answered")
<1> DEFINE t == <<r, s>>
<1>1. /\ t \in Tickets /\ call[t] \in Handles /\ HandleInv(t) /\ StageInv(t)
      /\ call \in [Tickets -> Handles]
  BY TicketsAreStages DEF RagInv, CallsInv
<1>2. CASE Invoke(r, s)
  <2>1. /\ tx[t].at = "granted" /\ pc[r] = s /\ call[t].at = "none"
        /\ UNCHANGED <<quotaVars, pc, reported>>
    BY <1>2 DEF Invoke
  <2>5. call[t].error = "none"
    BY <1>1, <2>1 DEF StageInv, NoHandle
  <2>2. \/ \E m \in Messages :
             call' = [call EXCEPT ![t].at = "replied", ![t].message = m]
        \/ \E e \in {"transport", "other"} :
             call' = [call EXCEPT ![t].at = "failed", ![t].error = e]
    BY <1>2 DEF Invoke
  <2>3. \A u \in Tickets \ {t} : call'[u] = call[u]
    BY <1>1, <2>2
  <2>4. /\ call'[t].attempted = call[t].attempted
        /\ \/ call'[t].at = "replied" /\ call'[t].error = call[t].error
           \/ call'[t].at = "failed" /\ call'[t].error \in {"transport", "other"}
    <3>1. ASSUME NEW m \in Messages,
                 call' = [call EXCEPT ![t].at = "replied", ![t].message = m]
          PROVE  call'[t] = [call[t] EXCEPT !.at = "replied", !.message = m]
      BY <1>1, <3>1
    <3>2. ASSUME NEW e \in {"transport", "other"},
                 call' = [call EXCEPT ![t].at = "failed", ![t].error = e]
          PROVE  call'[t] = [call[t] EXCEPT !.at = "failed", !.error = e]
      BY <1>1, <3>2
    <3>3. CASE \E m \in Messages :
                 call' = [call EXCEPT ![t].at = "replied", ![t].message = m]
      BY <1>1, <3>1, <3>3 DEF Handles
    <3>4. CASE \E e \in {"transport", "other"} :
                 call' = [call EXCEPT ![t].at = "failed", ![t].error = e]
      BY <1>1, <3>2, <3>4 DEF Handles
    <3> QED
      BY <2>2, <3>3, <3>4
  <2> QED
    BY <1>2, <2>1, <2>3, <2>4, <2>5
<1>3. CASE Conclude(r, s) \/ ConcludeRaises(r, s)
  <2>1. /\ call[t].error = "none" /\ call[t].attempted /\ tx[t].at = "granted"
        /\ pc[r] = s /\ UNCHANGED <<quotaVars, reported>>
    BY <1>1, <1>3 DEF Conclude, ConcludeRaises, StageInv, HandleInv
  <2>2. \/ /\ call' = [call EXCEPT ![t].at = "done", ![t].message = Blank]
           /\ Goes(r, IF s = "hyde" THEN "retrieve" ELSE "answered")
        \/ /\ \E e \in {"provider", "other"} :
                 call' = [call EXCEPT ![t].at = "failed", ![t].error = e,
                                      ![t].message = Blank]
           /\ UNCHANGED pc
    BY <1>3 DEF Conclude, ConcludeRaises
  <2>3. \A u \in Tickets \ {t} : call'[u] = call[u]
    BY <1>1, <2>2
  <2>4. /\ call'[t].attempted = call[t].attempted
        /\ \/ /\ call'[t].at = "done" /\ call'[t].error = call[t].error
              /\ Goes(r, IF s = "hyde" THEN "retrieve" ELSE "answered")
           \/ /\ call'[t].at = "failed" /\ call'[t].error \in {"provider", "other"}
              /\ UNCHANGED pc
    <3>1. ASSUME call' = [call EXCEPT ![t].at = "done", ![t].message = Blank]
          PROVE  call'[t] = [call[t] EXCEPT !.at = "done", !.message = Blank]
      BY <1>1, <3>1
    <3>2. ASSUME NEW e \in {"provider", "other"},
                 call' = [call EXCEPT ![t].at = "failed", ![t].error = e,
                                      ![t].message = Blank]
          PROVE  call'[t] = [call[t] EXCEPT !.at = "failed", !.error = e,
                                            !.message = Blank]
      BY <1>1, <3>2
    <3>3. CASE call' = [call EXCEPT ![t].at = "done", ![t].message = Blank]
      BY <1>1, <2>2, <3>1, <3>3 DEF Handles
    <3>4. CASE /\ \E e \in {"provider", "other"} :
                    call' = [call EXCEPT ![t].at = "failed", ![t].error = e,
                                         ![t].message = Blank]
               /\ UNCHANGED pc
      BY <1>1, <3>2, <3>4 DEF Handles
    <3> QED
      BY <2>2, <3>3, <3>4
  <2> QED
    BY <2>1, <2>3, <2>4
<1> QED
  BY <1>2, <1>3

LEMMA HandleKeeps ==
    ASSUME RagInv, NEW r \in Requests, NEW s \in Stages, [RagNext]_ragVars,
           Invoke(r, s) \/ Conclude(r, s) \/ ConcludeRaises(r, s)
    PROVE  RagInv'
<1> DEFINE t == <<r, s>>
<1>0. t \in Tickets /\ t \in {Hyde(r), Final(r)} /\ HandleInv(t) /\ StageInv(t)
  BY TicketsAreStages, StageTickets DEF RagInv, CallsInv
<1>1. /\ pc[r] = s /\ tx[t].at = "granted"
      /\ UNCHANGED <<tx, ledger, reported>>
      /\ \A u \in Tickets \ {t} : call'[u] = call[u]
      /\ call'[t].attempted = call[t].attempted
  BY HandleChanges DEF quotaVars
<1>2. \/ /\ UNCHANGED pc
         /\ call[t].error = "none"
         /\ call'[t].at \in {"replied", "failed"}
         /\ call'[t].at = "replied" => call'[t].error = "none"
         /\ call'[t].at = "failed" => /\ call'[t].error # "none"
                                      /\ call'[t].error # "accounting"
                                      /\ call'[t].error = "provider"
                                           => call[t].attempted
      \/ /\ call[t].attempted /\ call[t].error = "none"
         /\ call'[t].at = "done" /\ call'[t].error = "none"
         /\ Goes(r, IF s = "hyde" THEN "retrieve" ELSE "answered")
  BY HandleChanges
<1>3. RequestInv(r) /\ RagTypes
  BY DEF RagInv
<1>4. RagTypes' /\ OnlyStage(r, t)
  BY <1>1, <1>2, <1>3 DEF RagTypes, OnlyStage, Goes
<1>5. StageInv(t)'
  BY <1>0, <1>1, <1>2 DEF StageInv
<1>6. ~InTransaction(Hyde(r)) /\ ~InTransaction(Final(r))
  BY <1>1, <1>3, StageTickets DEF RequestInv, InTransaction
<1>7. RequestInv(r)'
  <2>1. CASE s = "hyde"
    <3>1. t = Hyde(r) /\ call'[Final(r)] = call[Final(r)]
      BY <1>1, <2>1, StageTickets, RequestTickets
    <3>2. pc'[r] \in {"hyde", "retrieve"} /\ (pc'[r] = "retrieve" => Over(t)')
      BY <1>1, <1>2, <1>3, <2>1 DEF RagTypes, Goes, Over
    <3> QED
      BY <1>1, <1>2, <1>3, <1>6, <2>1, <3>1, <3>2
      DEF RequestInv, InTransaction, Counted
  <2>2. CASE s = "final"
    <3>1. t = Final(r) /\ call'[Hyde(r)] = call[Hyde(r)]
      BY <1>1, <2>2, StageTickets, RequestTickets
    <3>2. pc'[r] \in {"final", "answered"} /\ (pc'[r] = "answered" => Over(t)')
      BY <1>1, <1>2, <1>3, <2>2 DEF RagTypes, Goes, Over
    <3>3. Over(Hyde(r))'
      BY <1>1, <1>3, <2>2, <3>1 DEF RequestInv, Over
    <3> QED
      BY <1>1, <1>2, <1>3, <1>6, <2>2, <3>1, <3>2, <3>3
      DEF RequestInv, InTransaction, Counted
  <2> QED
    BY <2>1, <2>2, StageTickets
<1> QED
  BY <1>0, <1>4, <1>5, <1>7, StepOfStage

\* What a settlement does to the reservation.
LEMMA TerminalSettles ==
    ASSUME RagInv, NEW t \in Tickets, NEW n \in Amounts \cup {0},
           call[t].at # "none", Terminal(t, n) \/ TerminalRaises(t, n)
    PROVE  /\ tx[t].at = "granted" /\ UNCHANGED tx
           /\ ~call[t].attempted
           /\ \A u \in Tickets \ {t} : ledger'[u] = ledger[u]
           /\ ledger[t].status = "open"
           /\ ledger'[t] = ledger[t] \/ ledger'[t].status = "settled"
           /\ Terminal(t, n) => ledger'[t].status = "settled" /\ ledger'[t].charged = n
<1>1. HandleInv(t) /\ EntryInv(t) /\ ledger \in [Tickets -> Entries] /\ n \in Nat
  BY AmountsAreNumbers DEF RagInv, CallsInv, QuotaInv, QuotaTypeOK
<1>2. ~call[t].attempted /\ tx[t].at = "granted" /\ ledger[t].status = "open"
  BY <1>1 DEF Terminal, TerminalRaises, NotAttempted, HandleInv
<1>3. ledger[t] \in Entries /\ ledger[t].charged = ledger[t].reserved
      /\ ledger[t].charged \in Int
  BY <1>1, <1>2 DEF EntryInv, Entries
<1>4. ASSUME Settle(t, n)
      PROVE  /\ UNCHANGED tx /\ ledger'[t].status = "settled"
             /\ ledger'[t].charged = n
             /\ \A u \in Tickets \ {t} : ledger'[u] = ledger[u]
  <2>1. ledger' = [ledger EXCEPT ![t].status = "settled",
                                 ![t].charged = @ + (n - ledger[t].reserved)]
    BY <1>4 DEF Settle
  <2>2. ledger'[t].charged = ledger[t].charged + (n - ledger[t].reserved)
    BY <1>1, <2>1 DEF Entries
  <2>3. ledger'[t].charged = n
    BY <1>1, <1>3, <2>2
  <2> QED
    BY <1>1, <1>4, <2>1, <2>3 DEF Settle, Entries
<1> QED
  BY <1>2, <1>4 DEF Terminal, TerminalRaises, quotaVars

LEMMA MarkedSets ==
    ASSUME RagInv, NEW t \in Tickets, NEW where, NEW e, NEW m, Marked(t, where, e, m)
    PROVE  /\ call'[t].at = where /\ call'[t].error = e /\ call'[t].attempted
           /\ \A u \in Tickets \ {t} : call'[u] = call[u]
BY DEF Marked, RagInv, CallsInv

LEMMA SettleReplyKeeps ==
    ASSUME RagInv, NEW r \in Requests, NEW s \in Stages, [RagNext]_ragVars,
           SettleReply(r, s)
    PROVE  RagInv'
<1> DEFINE t == <<r, s>>
           n == Bounded(call[t].message.tokens, Reserved(t))
<1>0. t \in Tickets /\ t \in {Hyde(r), Final(r)} /\ StageInv(t)
  BY TicketsAreStages, StageTickets DEF RagInv
<1>1. n \in Amounts \cup {0} /\ n \in Nat
  BY <1>0, ChargesAreAmounts, AmountsAreNumbers DEF RagInv
<1>2. pc[r] = s /\ call[t].at = "replied" /\ call[t].error = "none" /\ UNCHANGED pc
  BY <1>0 DEF SettleReply, StageInv
<1>3. \/ /\ Terminal(t, n) /\ Marked(t, "settled", "none", call[t].message)
         /\ reported' = [reported EXCEPT ![r] = @ + n]
      \/ /\ TerminalRaises(t, n) /\ Marked(t, "failed", "accounting", Blank)
         /\ UNCHANGED reported
  BY DEF SettleReply
<1> HIDE DEF n
<1>4. /\ tx[t].at = "granted" /\ UNCHANGED tx /\ ~call[t].attempted
      /\ \A u \in Tickets \ {t} : ledger'[u] = ledger[u]
  BY <1>0, <1>1, <1>2, <1>3, TerminalSettles
<1>5. call'[t].attempted /\ \A u \in Tickets \ {t} : call'[u] = call[u]
  BY <1>0, <1>3, MarkedSets
<1>6. \/ /\ call'[t].at = "settled" /\ call'[t].error = "none"
         /\ reported' = [reported EXCEPT ![r] = @ + n]
         /\ ledger'[t].status = "settled" /\ ledger'[t].charged = n
      \/ /\ call'[t].at = "failed" /\ call'[t].error = "accounting"
         /\ UNCHANGED reported
         /\ ledger'[t].status # "none"
  BY <1>0, <1>1, <1>2, <1>3, TerminalSettles, MarkedSets
<1>7. RequestInv(r) /\ RagTypes
  BY DEF RagInv
<1>8. RagTypes' /\ OnlyStage(r, t)
  BY <1>1, <1>2, <1>4, <1>5, <1>6, <1>7 DEF RagTypes, OnlyStage
<1>9. StageInv(t)'
  BY <1>0, <1>5, <1>6 DEF StageInv
<1>10. RequestInv(r)'
  <2>1. reported'[r] = reported[r] + n \/ call'[t].error = "accounting"
    BY <1>6, <1>7 DEF RagTypes
  <2>2. ~InTransaction(Hyde(r)) /\ ~InTransaction(Final(r))
    BY <1>2, <1>4, <1>7, StageTickets DEF RequestInv, InTransaction
  <2>3. CASE s = "hyde"
    <3>1. /\ t = Hyde(r) /\ call'[Final(r)] = call[Final(r)]
          /\ ledger'[Final(r)] = ledger[Final(r)]
      BY <1>4, <1>5, <2>3, StageTickets, RequestTickets
    <3>2. Counted(Final(r)) \in Int /\ Counted(Final(r))' = Counted(Final(r))
      BY <3>1, RequestTickets
      DEF Counted, RagInv, QuotaInv, QuotaTypeOK, Entries
    <3>3. Counted(t) = 0 /\ (call'[t].error # "accounting" => Counted(t)' = n)
      BY <1>4, <1>5, <1>6 DEF Counted
    <3> QED
      BY <1>1, <1>2, <1>4, <1>7, <2>1, <2>2, <2>3, <3>1, <3>2, <3>3
      DEF RequestInv, InTransaction
  <2>4. CASE s = "final"
    <3>1. /\ t = Final(r) /\ call'[Hyde(r)] = call[Hyde(r)]
          /\ ledger'[Hyde(r)] = ledger[Hyde(r)]
      BY <1>4, <1>5, <2>4, StageTickets, RequestTickets
    <3>2. Counted(Hyde(r)) \in Int /\ Counted(Hyde(r))' = Counted(Hyde(r))
      BY <3>1, RequestTickets
      DEF Counted, RagInv, QuotaInv, QuotaTypeOK, Entries
    <3>3. Counted(t) = 0 /\ (call'[t].error # "accounting" => Counted(t)' = n)
      BY <1>4, <1>5, <1>6 DEF Counted
    <3>4. Over(Hyde(r))'
      BY <1>2, <1>4, <1>7, <2>4, <3>1 DEF RequestInv, Over
    <3> QED
      BY <1>1, <1>2, <1>4, <1>7, <2>1, <2>2, <2>4, <3>1, <3>2, <3>3, <3>4
      DEF RequestInv, InTransaction
  <2> QED
    BY <2>3, <2>4, StageTickets
<1> QED
  BY <1>0, <1>8, <1>9, <1>10, StepOfStage

LEMMA ChargeBoundKeeps ==
    ASSUME RagInv, NEW r \in Requests, [RagNext]_ragVars, ChargeBound(r)
    PROVE  RagInv'
<1> DEFINE n == Reserved(Hyde(r))
<1>0. Hyde(r) \in Tickets /\ StageInv(Hyde(r))
  BY RequestTickets DEF RagInv
<1>1. n \in Amounts \cup {0} /\ n \in Nat
  BY <1>0, ChargesAreAmounts, AmountsAreNumbers DEF RagInv, TransportCharge
<1>2. /\ pc[r] = "hyde" /\ call[Hyde(r)].at = "failed"
      /\ call[Hyde(r)].error = "transport"
  BY DEF ChargeBound, Hyde
<1>3. \/ /\ Terminal(Hyde(r), n) /\ Marked(Hyde(r), "done", "none", Blank)
         /\ reported' = [reported EXCEPT ![r] = @ + n]
         /\ Goes(r, "retrieve")
      \/ /\ TerminalRaises(Hyde(r), n) /\ Marked(Hyde(r), "failed", "accounting", Blank)
         /\ UNCHANGED <<pc, reported>>
  BY DEF ChargeBound, Hyde, TransportCharge
<1> HIDE DEF n
<1>4. /\ tx[Hyde(r)].at = "granted" /\ UNCHANGED tx /\ ~call[Hyde(r)].attempted
      /\ \A u \in Tickets \ {Hyde(r)} : ledger'[u] = ledger[u]
  BY <1>0, <1>1, <1>2, <1>3, TerminalSettles
<1>5. call'[Hyde(r)].attempted /\ \A u \in Tickets \ {Hyde(r)} : call'[u] = call[u]
  BY <1>0, <1>3, MarkedSets
<1>6. \/ /\ call'[Hyde(r)].at = "done" /\ call'[Hyde(r)].error = "none"
         /\ reported' = [reported EXCEPT ![r] = @ + n]
         /\ pc' = [pc EXCEPT ![r] = "retrieve"]
         /\ ledger'[Hyde(r)].status = "settled" /\ ledger'[Hyde(r)].charged = n
      \/ /\ call'[Hyde(r)].at = "failed" /\ call'[Hyde(r)].error = "accounting"
         /\ UNCHANGED <<pc, reported>>
         /\ ledger'[Hyde(r)].status # "none"
  BY <1>0, <1>1, <1>2, <1>3, TerminalSettles, MarkedSets DEF Goes
<1>7. RequestInv(r) /\ RagTypes
  BY DEF RagInv
<1>8. RagTypes' /\ OnlyStage(r, Hyde(r))
  BY <1>1, <1>2, <1>4, <1>5, <1>6, <1>7 DEF RagTypes, OnlyStage
<1>9. StageInv(Hyde(r))'
  BY <1>0, <1>5, <1>6 DEF StageInv
<1>10. RequestInv(r)'
  <2>1. \/ call'[Hyde(r)].error = "accounting" /\ pc'[r] = "hyde"
        \/ /\ reported'[r] = reported[r] + n /\ pc'[r] = "retrieve"
           /\ call'[Hyde(r)].error # "accounting"
    BY <1>2, <1>6, <1>7 DEF RagTypes
  <2>2. ~InTransaction(Hyde(r)) /\ ~InTransaction(Final(r))
    BY <1>2, <1>4, <1>7 DEF RequestInv, InTransaction
  <2>3. /\ call'[Final(r)] = call[Final(r)]
        /\ ledger'[Final(r)] = ledger[Final(r)]
    BY <1>4, <1>5, RequestTickets
  <2>4. Counted(Final(r)) \in Int /\ Counted(Final(r))' = Counted(Final(r))
    BY <2>3, RequestTickets
    DEF Counted, RagInv, QuotaInv, QuotaTypeOK, Entries
  <2>5. /\ Counted(Hyde(r)) = 0
        /\ call'[Hyde(r)].error # "accounting" => /\ Counted(Hyde(r))' = n
                                                  /\ Over(Hyde(r))'
    BY <1>4, <1>5, <1>6 DEF Counted, Over
  <2> QED
    BY <1>1, <1>2, <1>4, <1>7, <2>1, <2>2, <2>3, <2>4, <2>5
    DEF RequestInv, InTransaction
<1> QED
  BY <1>0, <1>8, <1>9, <1>10, StepOfStage

LEMMA RefundKeeps ==
    ASSUME RagInv, NEW r \in Requests, NEW s \in Stages, [RagNext]_ragVars,
           Refund(r, s)
    PROVE  RagInv'
<1> DEFINE t == <<r, s>>
<1>0. t \in Tickets /\ t \in {Hyde(r), Final(r)}
  BY TicketsAreStages, StageTickets
<1>1. pc[r] = s /\ call[t].at = "failed" /\ Goes(r, "rejected") /\ UNCHANGED reported
  BY DEF Refund
<1>2. \/ Terminal(t, 0) /\ Marked(t, "done", "none", Blank)
      \/ TerminalRaises(t, 0) /\ Marked(t, "done", "accounting", Blank)
  BY DEF Refund
<1>3. /\ tx[t].at = "granted" /\ UNCHANGED tx
      /\ \A u \in Tickets \ {t} : ledger'[u] = ledger[u]
      /\ ledger'[t].status # "none"
  BY <1>0, <1>1, <1>2, TerminalSettles
<1>4. /\ call'[t].attempted /\ call'[t].at = "done"
      /\ \A u \in Tickets \ {t} : call'[u] = call[u]
  BY <1>0, <1>2, MarkedSets
<1>5. ledger'[t].status = "settled" \/ call'[t].error = "accounting"
  BY <1>0, <1>1, <1>2, TerminalSettles, MarkedSets
<1>6. RequestInv(r) /\ RagTypes
  BY DEF RagInv
<1>7. RagTypes' /\ OnlyStage(r, t) /\ pc'[r] = "rejected"
  BY <1>1, <1>3, <1>4, <1>6 DEF RagTypes, OnlyStage, Goes
<1>8. StageInv(t)'
  BY <1>3, <1>4, <1>5 DEF StageInv
<1>9. RequestInv(r)'
  <2>1. ~InTransaction(Hyde(r)) /\ ~InTransaction(Final(r))
    BY <1>1, <1>3, <1>6, StageTickets DEF RequestInv, InTransaction
  <2>2. Closed(t)'
    BY <1>5 DEF Closed
  <2>3. CASE s = "hyde"
    <3>1. /\ t = Hyde(r) /\ call'[Final(r)] = call[Final(r)]
          /\ ledger'[Final(r)] = ledger[Final(r)]
      BY <1>3, <1>4, <2>3, StageTickets, RequestTickets
    <3>2. Closed(Final(r))
      BY <1>1, <1>6, <2>3, RequestTickets, OverIsClosed DEF RequestInv, Over
    <3> QED
      BY <1>3, <1>7, <2>1, <2>2, <3>1, <3>2 DEF RequestInv, InTransaction, Closed
  <2>4. CASE s = "final"
    <3>1. /\ t = Final(r) /\ call'[Hyde(r)] = call[Hyde(r)]
          /\ ledger'[Hyde(r)] = ledger[Hyde(r)]
      BY <1>3, <1>4, <2>4, StageTickets, RequestTickets
    <3>2. Closed(Hyde(r))
      BY <1>1, <1>6, <2>4, RequestTickets, OverIsClosed DEF RequestInv
    <3> QED
      BY <1>3, <1>7, <2>1, <2>2, <3>1, <3>2 DEF RequestInv, InTransaction, Closed
  <2> QED
    BY <2>3, <2>4, StageTickets
<1> QED
  BY <1>0, <1>7, <1>8, <1>9, StepOfStage

\* Operators, midnight and stuttering.
LEMMA QuietKeeps ==
    ASSUME RagInv, [RagNext]_ragVars, Environment \/ UNCHANGED ragVars
    PROVE  RagInv'
<1>1. QuotaInv' /\ CallsInv'
  BY RagStepIsQuotaStep, QuotaStepKeeps, RagStepKeepsCalls DEF RagInv
<1>2. UNCHANGED <<tx, ledger, pc, call, reported>>
  BY DEF Environment, Operate, SaveSubscription, SaveUsage, SeedAccount, Midnight,
         ragVars, quotaVars
<1>3. RagTypes' /\ \A t \in Tickets : StageInv(t)'
  BY <1>2 DEF RagInv, RagTypes, StageInv
<1>4. \A r \in Requests : RequestInv(r)'
  BY <1>2 DEF RagInv, RequestInv, InTransaction, Over, Closed, Counted
<1> QED
  BY <1>1, <1>3, <1>4 DEF RagInv

LEMMA RagInvKept == ASSUME RagInv, [RagNext]_ragVars PROVE RagInv'
<1>1. ASSUME NEW r \in Requests, NEW s \in Stages, StageStep(r, s) PROVE RagInv'
  <2> DEFINE t == <<r, s>>
  <2>1. CASE \E n \in Bounds : Reserve(r, s, n)
    <3>1. \E n \in Amounts : Open(t, n)
      BY <2>1, QueryAssumption DEF Reserve
    <3> QED
      BY <2>1, <3>1, ReservationKeeps DEF Reserve
  <2>2. CASE Reserving(t)
    <3>1. ReserveStep(t) /\ UNCHANGED <<pc, call, reported>>
      BY <2>2 DEF Reserving
    <3>2. tx[t].at # "idle"
      BY <3>1 DEF ReserveStep, FindUsage, CreateUsage, FindAfterConflict, Admit,
                  Refuse, Commit
    <3> QED
      BY <3>1, <3>2, ReservationKeeps
  <2>3. CASE Denied(r, s) \/ Propagate(r, s)
    BY <2>3, RejectKeeps
  <2>4. CASE Invoke(r, s) \/ Conclude(r, s)
    BY <2>4, HandleKeeps
  <2>5. CASE SettleReply(r, s)
    BY <2>5, SettleReplyKeeps
  <2>6. CASE Refund(r, s)
    BY <2>6, RefundKeeps
  <2> QED
    BY <1>1, <2>1, <2>2, <2>3, <2>4, <2>5, <2>6 DEF StageStep
<1>2. ASSUME NEW r \in Requests, RequestStep(r) PROVE RagInv'
  BY <1>1, <1>2, BeginKeeps, ChargeBoundKeeps, RetrieveKeeps DEF RequestStep
<1>3. ASSUME NEW r \in Requests, RequestFault(r) PROVE RagInv'
  <2>1. ASSUME NEW s \in Stages, ReservingFails(<<r, s>>) PROVE RagInv'
    <3>1. DatabaseFault(<<r, s>>) /\ UNCHANGED <<pc, call, reported>>
      BY <2>1 DEF ReservingFails
    <3>2. tx[<<r, s>>].at # "idle"
      BY <3>1 DEF DatabaseFault, RollBack, AnswerLost, Commit, InTransaction
    <3> QED
      BY <3>1, <3>2, ReservationKeeps
  <2> QED
    BY <1>3, <2>1, HandleKeeps, DieKeeps DEF RequestFault
<1> QED
  BY <1>2, <1>3, QuietKeeps DEF RagNext

LEMMA RagInvariantHolds == RagSafety => []RagInv
<1> QED
  BY RagInitHolds, RagInvKept, PTL DEF RagSafety

\* The types of a chat request, and of the quota it uses.
THEOREM RagTypeCorrect == RagSafety => []RagTypeOK
<1>1. RagInv => RagTypeOK
  BY DEF RagInv, RagTypes, RagTypeOK, QuotaInv, CallsInv
<1> QED
  BY <1>1, RagInvariantHolds, PTL

\* A request that answered or failed has left no reservation open, but one
\* whose answer it never got or whose settlement the database refused
\* (services.py:115-163, 205-239): on every path through both stages.
THEOREM NothingIsLeftOpen == RagSafety => []NothingLeftOpen
<1>1. ASSUME RagInv PROVE NothingLeftOpen
  <2>1. SUFFICES ASSUME NEW r \in Requests, NEW s \in Stages,
                        pc[r] \in {"answered", "rejected"}
                 PROVE  Closed(<<r, s>>)
    BY QueryAssumption DEF NothingLeftOpen, Closed
  <2>2. Closed(Hyde(r)) /\ Closed(Final(r))
    BY <1>1, <2>1, RequestTickets, OverIsClosed DEF RagInv, RequestInv
  <2> QED
    BY <2>2, StageTickets
<1> QED
  BY <1>1, RagInvariantHolds, PTL

\* The total of an answer is what its stages were charged (services.py:156-157,
\* 262-266, 303-306): no charge is reported twice or missed, with HyDE skipped,
\* answered, failed or unusable.
THEOREM AnswerReports == RagSafety => []AnswerReportsCharge
<1>1. ASSUME RagInv PROVE AnswerReportsCharge
  <2>1. SUFFICES ASSUME NEW r \in Requests, pc[r] = "answered"
                 PROVE  reported[r] = ledger[Hyde(r)].charged + ledger[Final(r)].charged
    BY DEF AnswerReportsCharge, Hyde, Final
  <2>2. Over(Hyde(r)) /\ Over(Final(r)) /\ RequestInv(r)
    BY <1>1, <2>1 DEF RagInv, RequestInv
  <2>3. ASSUME NEW t \in Tickets, Over(t)
        PROVE  Counted(t) = ledger[t].charged /\ call[t].error # "accounting"
    <3>1. HandleInv(t) /\ StageInv(t) /\ EntryInv(t) /\ ledger[t] \in Entries
      BY <1>1 DEF RagInv, CallsInv, QuotaInv, QuotaTypeOK
    <3>2. CASE tx[t].at = "idle"
      <4>1. call[t] = NoHandle /\ ledger[t].charged = 0
        BY <3>1, <3>2 DEF HandleInv, StageInv, EntryInv, Entries
      <4> QED
        BY <4>1 DEF Counted, NoHandle
    <3>3. CASE call[t].attempted /\ call[t].error # "accounting"
      BY <3>3 DEF Counted
    <3> QED
      BY <2>3, <3>2, <3>3 DEF Over
  <2> QED
    BY <2>1, <2>2, <2>3, RequestTickets DEF RequestInv
<1> QED
  BY <1>1, RagInvariantHolds, PTL

-----------------------------------------------------------------------------
(* The limit *)

\* A reservation is for what the call asked for.
Priced == \A t \in Tickets : ledger[t].status # "none" => ledger[t].reserved = tx[t].cost

Within == \A d \in Days : used[d] <= subscription.limit

LEMMA PricedKept == ASSUME QuotaInv, Priced, [QuotaNext]_quotaVars PROVE Priced'
<1>1. ASSUME NEW t \in Tickets,
             \/ \E n \in Amounts : Open(t, n)
             \/ FindUsage(t) \/ CreateUsage(t) \/ FindAfterConflict(t)
             \/ Refuse(t) \/ RollBack(t)
      PROVE  Priced'
  <2>1. tx[t].at = "idle" \/ InTransaction(t)
    BY <1>1 DEF Open, FindUsage, CreateUsage, FindAfterConflict, Refuse, RollBack,
                InTransaction
  <2>2. ledger[t].status = "none"
    BY <2>1 DEF QuotaInv, QuotaTypeOK, EntryInv, Entries, InTransaction
  <2>3. UNCHANGED ledger /\ \A u \in Tickets \ {t} : tx'[u] = tx[u]
    BY <1>1 DEF Open, FindUsage, CreateUsage, FindAfterConflict, Refuse, RollBack,
                Leave, QuotaInv, QuotaTypeOK
  <2> QED
    BY <2>2, <2>3 DEF Priced
<1>2. ASSUME NEW t \in Tickets, Admit(t) \/ AnswerLost(t) PROVE Priced'
  <2>1. ledger'[t].reserved = tx[t].cost /\ tx'[t].cost = tx[t].cost
    BY <1>2 DEF Admit, AnswerLost, Commit, Leave, QuotaInv, QuotaTypeOK, Calls
  <2>2. \A u \in Tickets \ {t} : tx'[u] = tx[u] /\ ledger'[u] = ledger[u]
    BY <1>2 DEF Admit, AnswerLost, Commit, Leave, QuotaInv, QuotaTypeOK
  <2> QED
    BY <2>1, <2>2 DEF Priced
<1>3. ASSUME NEW t \in Tickets, NEW n \in Amounts \cup {0}, Settle(t, n)
      PROVE  Priced'
  <2>1. UNCHANGED tx /\ \A u \in Tickets : ledger'[u].reserved = ledger[u].reserved
    BY <1>3 DEF Settle, QuotaInv, QuotaTypeOK, Entries
  <2>2. \A u \in Tickets : ledger'[u].status # "none" => ledger[u].status # "none"
    BY <1>3 DEF Settle, QuotaInv, QuotaTypeOK, Entries
  <2> QED
    BY <2>1, <2>2 DEF Priced
<1>4. CASE Operate \/ Midnight \/ UNCHANGED quotaVars
  BY <1>4 DEF Operate, SaveSubscription, SaveUsage, SeedAccount, Midnight, quotaVars,
              Priced
<1> QED
  BY <1>1, <1>2, <1>3, <1>4 DEF QuotaNext, ReserveStep, DatabaseFault, CallerDies

\* Without operators only a reservation and a settlement within its bound
\* change the usage, and nothing the limit.
LEMMA WhatChangesUsage ==
    ASSUME QuotaInv, CallsInv, "operator" \notin QuotaFaults, [RagNext]_ragVars
    PROVE  \/ \E t \in Tickets : Commit(t)
           \/ \E t \in Tickets, n \in Nat :
                /\ Settle(t, n) /\ ledger[t].status = "open" /\ n <= Reserved(t)
           \/ UNCHANGED <<used, subscription>>
<1> DEFINE Goal == \/ \E t \in Tickets : Commit(t)
                   \/ \E t \in Tickets, n \in Nat :
                        Settle(t, n) /\ ledger[t].status = "open" /\ n <= Reserved(t)
                   \/ UNCHANGED <<used, subscription>>
<1>1. ASSUME NEW t \in Tickets, NEW n \in Amounts \cup {0}, n <= Reserved(t),
             call[t].at # "none", Terminal(t, n) \/ TerminalRaises(t, n)
      PROVE  Goal
  <2>1. ledger[t].status = "open" /\ n \in Nat
    BY <1>1, AmountsAreNumbers
    DEF CallsInv, HandleInv, Terminal, TerminalRaises, NotAttempted
  <2> QED
    BY <1>1, <2>1 DEF Terminal, TerminalRaises, quotaVars
<1>2. ASSUME NEW t \in Tickets
      PROVE  /\ 0 <= Reserved(t) /\ TransportCharge(t) <= Reserved(t)
             /\ Bounded(call[t].message.tokens, Reserved(t)) <= Reserved(t)
  <2>1. Reserved(t) \in Nat
    BY AmountsAreNumbers DEF QuotaInv, QuotaTypeOK, Calls, Reserved
  <2> QED
    BY <2>1 DEF TransportCharge, Bounded
<1>3. ASSUME NEW r \in Requests, NEW s \in Stages, StageStep(r, s) PROVE Goal
  <2> DEFINE t == <<r, s>>
  <2>0. t \in Tickets
    BY TicketsAreStages
  <2>1. CASE SettleReply(r, s)
    BY <1>1, <1>2, <2>0, <2>1, ChargesAreAmounts DEF SettleReply
  <2>2. CASE Refund(r, s)
    BY <1>1, <1>2, <2>0, <2>2 DEF Refund
  <2>3. CASE \/ \E n \in Bounds : Reserve(r, s, n)
             \/ Reserving(t)
             \/ Denied(r, s) \/ Invoke(r, s) \/ Conclude(r, s) \/ Propagate(r, s)
    BY <2>0, <2>3
    DEF Reserve, Open, Reserving, ReserveStep, FindUsage, CreateUsage,
        FindAfterConflict, Admit, Refuse, Denied, Invoke, Conclude, Propagate, quotaVars
  <2> QED
    BY <1>3, <2>1, <2>2, <2>3 DEF StageStep
<1>4. ASSUME NEW r \in Requests, ChargeBound(r) PROVE Goal
  <2>1. <<r, "hyde">> \in Tickets
    BY TicketsAreStages DEF Stages
  <2> QED
    BY <1>1, <1>2, <1>4, <2>1, ChargesAreAmounts DEF ChargeBound
<1>5. ASSUME NEW r \in Requests, RequestFault(r) PROVE Goal
  <2>1. \A s \in Stages : <<r, s>> \in Tickets
    BY TicketsAreStages
  <2> QED
    BY <1>5, <2>1
    DEF RequestFault, ReservingFails, DatabaseFault, RollBack, AnswerLost,
        ConcludeRaises, Die, CallerDies, quotaVars
<1>6. CASE Environment \/ UNCHANGED ragVars
  BY <1>6 DEF Environment, Operate, Midnight, ragVars, quotaVars
<1> QED
  BY <1>3, <1>4, <1>5, <1>6 DEF RagNext, RequestStep, Begin, Retrieve, quotaVars

LEMMA WithinKept ==
    ASSUME QuotaInv, CallsInv, Priced, Within, "operator" \notin QuotaFaults,
           [RagNext]_ragVars
    PROVE  Within'
<1>0. /\ used \in [Days -> Nat] /\ subscription.limit \in Nat
      /\ tx \in [Tickets -> Calls] /\ ledger \in [Tickets -> Entries]
  BY AmountsAreNumbers DEF QuotaInv, QuotaTypeOK, Subscriptions
<1>1. ASSUME NEW t \in Tickets, Commit(t) PROVE Within'
  <2>1. /\ tx[t].seen = used[tx[t].day] /\ tx[t].limit = subscription.limit
        /\ tx[t].day \in Days
    BY <1>1 DEF Commit, QuotaInv, CallInv, InTransaction
  <2>2. used[tx[t].day] + tx[t].cost <= subscription.limit
    BY <1>1, <2>1 DEF Commit, Fits
  <2>3. UNCHANGED subscription /\ \A d \in Days :
          used'[d] = IF d = tx[t].day THEN used[d] + tx[t].cost ELSE used[d]
    BY <1>0, <1>1 DEF Commit
  <2> QED
    BY <2>2, <2>3 DEF Within
<1>2. ASSUME NEW t \in Tickets, NEW n \in Nat, Settle(t, n),
             ledger[t].status = "open", n <= Reserved(t)
      PROVE  Within'
  <2>1. ledger[t].reserved \in Nat /\ n <= ledger[t].reserved
    BY <1>0, <1>2, AmountsAreNumbers DEF Priced, Reserved, Entries
  <2> DEFINE delta == n - ledger[t].reserved
  <2>2. delta \in Int /\ (delta >= 0 => delta = 0)
    BY <2>1
  <2>3. /\ UNCHANGED subscription
        /\ used' = [used EXCEPT ![SettledRow(t)] =
                      IF delta >= 0 THEN @ + delta ELSE Reduced(@, -delta)]
    BY <1>2 DEF Settle
  <2> HIDE DEF delta
  <2>4. ASSUME NEW d \in Days PROVE used'[d] <= used[d] /\ used'[d] \in Int
    <3>1. used[d] \in Nat
      BY <1>0
    <3>2. used'[d] = used[d] \/ (delta < 0 /\ used'[d] = Reduced(used[d], -delta))
      BY <1>0, <2>2, <2>3
    <3> QED
      BY <2>2, <3>1, <3>2 DEF Reduced
  <2> QED
    BY <1>0, <2>3, <2>4 DEF Within
<1>3. CASE UNCHANGED <<used, subscription>>
  BY <1>3 DEF Within
<1> QED
  BY <1>1, <1>2, <1>3, WhatChangesUsage

\* Without operators the usage of a day never exceeds the limit
\* (entitlements.py:73, tokens.py:38-41), whatever the providers report.
THEOREM UsageStaysWithin == RagSafety => []UsageWithinLimit
<1>1. CASE "operator" \notin QuotaFaults
  <2>1. RagInit => Priced /\ Within
    BY AmountsAreNumbers
    DEF RagInit, QuotaInit, NoEntry, Priced, Within, Subscriptions
  <2>2. QuotaInv /\ CallsInv /\ Priced /\ Within /\ [RagNext]_ragVars
          => (Priced /\ Within)'
    BY <1>1, PricedKept, WithinKept, RagStepIsQuotaStep
  <2>3. RagSafety => [](Priced /\ Within)
    BY <2>1, <2>2, RagInvariant, PTL DEF RagSafety
  <2>4. Within => UsageWithinLimit
    BY DEF Within, UsageWithinLimit
  <2> QED
    BY <2>3, <2>4, PTL
<1>2. CASE "operator" \in QuotaFaults
  <2>1. UsageWithinLimit
    BY <1>2 DEF UsageWithinLimit
  <2> QED
    BY <2>1, PTL
<1> QED
  BY <1>1, <1>2

=============================================================================
