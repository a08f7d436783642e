-------------------------------- MODULE Quota --------------------------------
(***************************************************************************)
(* The daily token quota of one user (apps/accounts/entitlements.py), down *)
(* to the statements and row locks of its transactions.                    *)
(*                                                                         *)
(* A reservation locks the subscription, then finds and locks, or inserts, *)
(* the usage row of the day, and compares what it read with the limit it   *)
(* read.  What it changed shows at its commit, which ends the transaction  *)
(* and its locks.  A settlement locks one row and changes it, so it is one *)
(* step.  The admin and the seed command write the same rows.  The usage   *)
(* of a day without a row is 0.                                            *)
(***************************************************************************)
EXTENDS Integers, FiniteSetsExt, Functions

CONSTANTS Tickets,       \* identities of the reservations asked for
          NumDays,       \* days the model lasts
          Amounts,       \* numbers of tokens that occur
          QuotaFaults    \* which of "database", "crash", "operator" may occur

ASSUME QuotaAssumption ==
    /\ NumDays \in Nat \ {0}
    /\ Amounts \subseteq Nat
    /\ Amounts \ {0} # {}
    /\ QuotaFaults \subseteq {"database", "crash", "operator"}

VARIABLES
    today,         \* timezone.localdate()
    subscription,  \* the user's Subscription row
    rows,          \* the days that have a DailyTokenUsage row
    used,          \* used_tokens of each day
    tx,            \* the reserve_daily_tokens call of each ticket
    ledger,        \* history: what became of each reservation
    overwritten    \* history: the days whose usage an operator has set

quotaVars == <<today, subscription, rows, used, tx, ledger, overwritten>>

Days == 1..NumDays

Subscriptions == [active : BOOLEAN, limit : Amounts \ {0}]

\* What a call knows: the tokens asked for, the date and the limit it read,
\* the used_tokens of the row it holds.
Calls ==
    [at    : {"idle", "open", "missing", "conflict", "found",
              "granted", "refused", "raised"},
     cost  : Amounts \cup {0},
     day   : {0} \cup Days,
     limit : Nat,
     seen  : Nat]

Entries ==
    [status   : {"none", "open", "settled"},
     day      : {0} \cup Days,
     reserved : Amounts \cup {0},
     charged  : Int]

QuotaTypeOK ==
    /\ today \in Days
    /\ subscription \in Subscriptions
    /\ rows \subseteq Days
    /\ used \in [Days -> Nat]
    /\ \A d \in Days \ rows : used[d] = 0
    /\ tx \in [Tickets -> Calls]
    /\ ledger \in [Tickets -> Entries]
    /\ overwritten \subseteq rows

NoCall == [at |-> "idle", cost |-> 0, day |-> 0, limit |-> 0, seen |-> 0]

NoEntry == [status |-> "none", day |-> 0, reserved |-> 0, charged |-> 0]

QuotaInit ==
    /\ today = 1
    /\ subscription \in Subscriptions
    /\ rows = {}
    /\ used = [d \in Days |-> 0]
    /\ tx = [t \in Tickets |-> NoCall]
    /\ ledger = [t \in Tickets |-> NoEntry]
    /\ overwritten = {}

-----------------------------------------------------------------------------
(* Locks: they last as long as the transaction that took them *)

InTransaction(t) == tx[t].at \in {"open", "missing", "conflict", "found"}

SubscriptionFree == \A t \in Tickets : ~InTransaction(t)

\* A row that was inserted and is not committed blocks like a locked one.
UsageFree(d) == \A t \in Tickets : tx[t].at = "found" => tx[t].day # d

-----------------------------------------------------------------------------
(* reserve_daily_tokens *)

\* Lock the subscription and read it and the date.
Open(t, n) ==
    /\ tx[t].at = "idle"
    /\ n > 0
    /\ SubscriptionFree
    /\ tx' = [tx EXCEPT ![t] =
                [at    |-> IF subscription.active THEN "open" ELSE "refused",
                 cost  |-> n, day |-> today, limit |-> subscription.limit,
                 seen  |-> 0]]
    /\ UNCHANGED <<today, subscription, rows, used, ledger, overwritten>>

\* SELECT ... FOR UPDATE of the day's row.
FindUsage(t) ==
    /\ tx[t].at = "open"
    /\ UsageFree(tx[t].day)
    /\ tx' = [tx EXCEPT ![t].at = IF tx[t].day \in rows THEN "found" ELSE "missing",
                        ![t].seen = used[tx[t].day]]
    /\ UNCHANGED <<today, subscription, rows, used, ledger, overwritten>>

\* There was none: insert it, which fails if someone else did meanwhile.
CreateUsage(t) ==
    /\ tx[t].at = "missing"
    /\ UsageFree(tx[t].day)
    /\ tx' = [tx EXCEPT ![t].at = IF tx[t].day \in rows THEN "conflict" ELSE "found"]
    /\ UNCHANGED <<today, subscription, rows, used, ledger, overwritten>>

\* Mutants of FindAfterConflict: the other's row is taken for a fresh one; the
\* insertion is tried again.
FindWithoutReading(t) ==
    /\ tx[t].at = "conflict"
    /\ UsageFree(tx[t].day)
    /\ tx' = [tx EXCEPT ![t].at = "found"]
    /\ UNCHANGED <<today, subscription, rows, used, ledger, overwritten>>
InsertAgain(t) ==
    /\ tx[t].at = "conflict"
    /\ tx' = [tx EXCEPT ![t].at = "missing"]
    /\ UNCHANGED <<today, subscription, rows, used, ledger, overwritten>>

\* Lock and read the row of the other one.
FindAfterConflict(t) ==
    /\ tx[t].at = "conflict"
    /\ UsageFree(tx[t].day)
    /\ tx' = [tx EXCEPT ![t].at = "found", ![t].seen = used[tx[t].day]]
    /\ UNCHANGED <<today, subscription, rows, used, ledger, overwritten>>

Fits(t) == tx[t].seen + tx[t].cost <= tx[t].limit

\* The update with F("used_tokens") and the commit.
Commit(t) ==
    /\ tx[t].at = "found"
    /\ Fits(t)
    /\ rows' = rows \cup {tx[t].day}
    /\ used' = [used EXCEPT ![tx[t].day] = @ + tx[t].cost]
    /\ ledger' = [ledger EXCEPT ![t] = [status |-> "open", day |-> tx[t].day,
                                        reserved |-> tx[t].cost,
                                        charged |-> tx[t].cost]]
    /\ UNCHANGED <<today, subscription, overwritten>>

Leave(t, how) == tx' = [tx EXCEPT ![t].at = how]

Admit(t) == Commit(t) /\ Leave(t, "granted")

\* InsufficientCreditsError rolls back, the inserted row with it.
Refuse(t) ==
    /\ tx[t].at = "found"
    /\ ~Fits(t)
    /\ Leave(t, "refused")
    /\ UNCHANGED <<today, subscription, rows, used, ledger, overwritten>>

\* Any statement may raise, or the process die: the transaction is undone.
RollBack(t) ==
    /\ InTransaction(t)
    /\ Leave(t, "raised")
    /\ UNCHANGED <<today, subscription, rows, used, ledger, overwritten>>

\* The commit is done but its answer is lost: the call raises.
AnswerLost(t) == Commit(t) /\ Leave(t, "raised")

-----------------------------------------------------------------------------
(* finalize_daily_tokens, and refund_daily_tokens as a settlement for 0 *)

\* Mutant of Reduced: no clamp.
Unclamped(u, n) == u - n

\* _reduce_usage, clamped at zero.
Reduced(u, n) == IF u >= n THEN u - n ELSE 0

\* Mutant of SettledRow: the row of today.
RowOfToday(t) == today

\* The row of the reservation, whatever the date is now.
SettledRow(t) == ledger[t].day

Settle(t, n) ==
    LET d     == SettledRow(t)
        delta == n - ledger[t].reserved
    IN  /\ ledger[t].status # "none"
        /\ UsageFree(d)
        /\ used' = [used EXCEPT ![d] =
                      IF delta >= 0 THEN @ + delta ELSE Reduced(@, -delta)]
        /\ ledger' = [ledger EXCEPT ![t].status = "settled",
                                    ![t].charged = @ + delta]
        /\ UNCHANGED <<today, subscription, rows, tx, overwritten>>

-----------------------------------------------------------------------------
(* Operators and the calendar *)

\* SubscriptionAdmin saves its form.
SaveSubscription(s) ==
    /\ SubscriptionFree
    /\ subscription' = s
    /\ UNCHANGED <<today, rows, used, tx, ledger, overwritten>>

\* DailyTokenUsageAdmin saves its form, or adds a row.
SaveUsage(d, n) ==
    /\ UsageFree(d)
    /\ rows' = rows \cup {d}
    /\ used' = [used EXCEPT ![d] = n]
    /\ overwritten' = overwritten \cup {d}
    /\ UNCHANGED <<today, subscription, tx, ledger>>

\* load_test_accounts sets both rows of the account in one transaction.
SeedAccount(s, n) ==
    /\ SubscriptionFree /\ UsageFree(today)
    /\ subscription' = s
    /\ rows' = rows \cup {today}
    /\ used' = [used EXCEPT ![today] = n]
    /\ overwritten' = overwritten \cup {today}
    /\ UNCHANGED <<today, tx, ledger>>

Operate ==
    /\ "operator" \in QuotaFaults
    /\ \/ \E s \in Subscriptions : SaveSubscription(s)
       \/ \E d \in Days, n \in Amounts : SaveUsage(d, n)
       \/ \E s \in Subscriptions, n \in Amounts : SeedAccount(s, n)

Midnight ==
    /\ today < NumDays
    /\ today' = today + 1
    /\ UNCHANGED <<subscription, rows, used, tx, ledger, overwritten>>

-----------------------------------------------------------------------------

ReserveStep(t) ==
    \/ FindUsage(t)
    \/ CreateUsage(t)
    \/ FindAfterConflict(t)
    \/ Admit(t)
    \/ Refuse(t)

DatabaseFault(t) ==
    /\ "database" \in QuotaFaults
    /\ RollBack(t) \/ AnswerLost(t)

CallerDies(t) == "crash" \in QuotaFaults /\ RollBack(t)

\* Callers settle a reservation once; RagQuery shows that the service does.
QuotaNext ==
    \/ \E t \in Tickets :
         \/ \E n \in Amounts : Open(t, n)
         \/ ReserveStep(t)
         \/ DatabaseFault(t) \/ CallerDies(t)
         \/ \E n \in Amounts \cup {0} : ledger[t].status = "open" /\ Settle(t, n)
    \/ Operate
    \/ Midnight

QuotaSafety == QuotaInit /\ [][QuotaNext]_quotaVars

-----------------------------------------------------------------------------
(* Properties *)

Charged == [t \in Tickets |-> ledger[t].charged]

EntriesOf(d) == {t \in Tickets : ledger[t].day = d}

\* On a day no operator touched, the usage is exactly what the reservations
\* of that day were charged, open ones at their bound: no update is lost, no
\* settlement lands on another day, and the clamp at zero never gives tokens
\* away.
UsageIsExplained ==
    \A d \in Days \ overwritten : used[d] = SumFunctionOnSet(Charged, EntriesOf(d))

\* The transactions of the quota are what they seem: each reservation is
\* admitted against the limit and the usage of one moment.
Budget == INSTANCE DailyBudget

ImplementsBudget == Budget!BudgetSpec

=============================================================================
