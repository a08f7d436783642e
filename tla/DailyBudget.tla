---------------------------- MODULE DailyBudget ----------------------------
(***************************************************************************)
(* What the daily quota of one user promises, without transactions, rows   *)
(* or locks: a reservation is admitted in one step against the limit and   *)
(* the usage of that moment, and settled at most once, on the day it was   *)
(* made for.  Operators may overwrite a day's usage or the subscription.   *)
(***************************************************************************)
EXTENDS Integers

CONSTANTS Tickets,   \* reservations that may be asked for
          Days,      \* calendar days
          Amounts    \* numbers of tokens

VARIABLES
    subscription,  \* whether it is active, and its daily limit
    used,          \* tokens used on each day
    ledger,        \* history: what became of each reservation
    overwritten    \* history: the days whose usage an operator has set

budget == <<subscription, used, ledger, overwritten>>

\* Usage never goes below zero.
AtLeastZero(n) == IF n >= 0 THEN n ELSE 0

BudgetInit ==
    /\ subscription \in [active : BOOLEAN, limit : Amounts \ {0}]
    /\ used = [d \in Days |-> 0]
    /\ ledger = [t \in Tickets |->
                   [status |-> "none", day |-> 0, reserved |-> 0, charged |-> 0]]
    /\ overwritten = {}

Reserve(t, d, n) ==
    /\ ledger[t].status = "none"
    /\ subscription.active
    /\ used[d] + n <= subscription.limit
    /\ used' = [used EXCEPT ![d] = @ + n]
    /\ ledger' = [ledger EXCEPT ![t] = [status |-> "open", day |-> d,
                                        reserved |-> n, charged |-> n]]
    /\ UNCHANGED <<subscription, overwritten>>

SettleOnce(t, n) ==
    /\ ledger[t].status = "open"
    /\ used' = [used EXCEPT ![ledger[t].day] =
                  AtLeastZero(@ + n - ledger[t].reserved)]
    /\ ledger' = [ledger EXCEPT ![t].status = "settled", ![t].charged = n]
    /\ UNCHANGED <<subscription, overwritten>>

\* An operator sets the usage of a day, or the subscription, or both.
Manage(d) ==
    /\ \E n \in Amounts : used' \in {used, [used EXCEPT ![d] = n]}
    /\ overwritten' = overwritten \cup {d}
    /\ subscription' \in [active : BOOLEAN, limit : Amounts \ {0}]
    /\ UNCHANGED ledger

ManageSubscription ==
    /\ subscription' \in [active : BOOLEAN, limit : Amounts \ {0}]
    /\ UNCHANGED <<used, ledger, overwritten>>

BudgetNext ==
    \/ \E t \in Tickets, n \in Amounts \cup {0} :
         \/ \E d \in Days : n > 0 /\ Reserve(t, d, n)
         \/ SettleOnce(t, n)
    \/ \E d \in Days : Manage(d)
    \/ ManageSubscription

BudgetSpec == BudgetInit /\ [][BudgetNext]_budget

=============================================================================
