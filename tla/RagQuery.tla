------------------------------- MODULE RagQuery -------------------------------
(***************************************************************************)
(* The chat requests of one user (apps/rag/services.py, accounting.py,     *)
(* provider_responses.py) over Quota.  A request runs an optional HyDE     *)
(* stage, retrieval, and the final stage.  Each stage reserves a bound,    *)
(* calls the provider and settles what it used; every error path decides   *)
(* whether the reservation is charged, refunded or left as it is.          *)
(*                                                                         *)
(* Texts are left out.  Of a provider's message three things count: what   *)
(* its usage metadata is, the tokens it amounts to, and whether its text   *)
(* can be used.  Settings are valid.                                       *)
(***************************************************************************)
EXTENDS Quota

CONSTANTS Requests,   \* chat requests of the user
          Bounds,     \* what a stage may reserve (estimate_prompt_bound)
          Defects     \* whether code may raise unexpectedly after a settlement

Stages == {"hyde", "final"}

\* Each stage of each request reserves for itself.
ASSUME QueryAssumption ==
    /\ Tickets = Requests \X Stages
    /\ Bounds \subseteq Amounts \ {0}
    /\ Defects \in BOOLEAN

VARIABLES
    pc,       \* where each request is
    call,     \* the provider call of each stage, and its reservation's handle
    reported  \* total_actual_tokens of each request

ragVars == <<quotaVars, pc, call, reported>>

\* What a provider may answer.  With metadata "invalid" or "absent" the
\* tokens are the estimate from the texts, which is positive.
Messages ==
    [usage : {"total", "invalid", "absent"}, tokens : Amounts, usable : BOOLEAN]

Blank == [usage |-> "absent", tokens |-> 0, usable |-> FALSE]

Handles ==
    [at        : {"none", "replied", "settled", "failed", "done"},
     error     : {"none", "transport", "provider", "accounting", "other"},
     message   : Messages \cup {Blank},
     attempted : BOOLEAN]   \* _terminal_attempted

RagTypeOK ==
    /\ QuotaTypeOK
    /\ pc \in [Requests -> {"new", "retrieve", "answered", "rejected", "dead"}
                             \cup Stages]
    /\ call \in [Tickets -> Handles]
    /\ reported \in [Requests -> Nat]

NoHandle == [at |-> "none", error |-> "none", message |-> Blank, attempted |-> FALSE]

RagInit ==
    /\ QuotaInit
    /\ pc = [r \in Requests |-> "new"]
    /\ call = [t \in Tickets |-> NoHandle]
    /\ reported = [r \in Requests |-> 0]

Ended(r) == pc[r] \in {"answered", "rejected", "dead"}

Goes(r, where) == pc' = [pc EXCEPT ![r] = where]

-----------------------------------------------------------------------------
(* What a message costs *)

\* Mutants of Bounded: the provider's figure as it is; the wrong difference.
Unbounded(n, reserved) == n
BoundedBackwards(n, reserved) == IF n <= reserved THEN n ELSE reserved - n

\* bound_usage_to_reservation
Bounded(n, reserved) == IF n <= reserved THEN n ELSE reserved

\* classify_provider_usage
Acceptable(m, reserved) ==
    \/ m.usage = "absent"
    \/ m.usage = "total" /\ m.tokens <= reserved

Reserved(t) == tx[t].cost

-----------------------------------------------------------------------------
(* The course of a request *)

\* answer_query: the unlocked check of the subscription.
Begin(r) ==
    /\ pc[r] = "new"
    /\ IF subscription.active
         THEN Goes(r, "hyde") \/ Goes(r, "retrieve")
         ELSE Goes(r, "rejected")
    /\ UNCHANGED <<quotaVars, call, reported>>

\* The stage reserves its bound.
Reserve(r, s, n) ==
    /\ pc[r] = s
    /\ Open(<<r, s>>, n)
    /\ UNCHANGED <<pc, call, reported>>

Reserving(t) == ReserveStep(t) /\ UNCHANGED <<pc, call, reported>>

ReservingFails(t) == DatabaseFault(t) /\ UNCHANGED <<pc, call, reported>>

\* The reservation raised: nothing to undo.
Denied(r, s) ==
    /\ pc[r] = s
    /\ tx[<<r, s>>].at \in {"refused", "raised"}
    /\ Goes(r, "rejected")
    /\ UNCHANGED <<quotaVars, call, reported>>

\* The provider call.  "other" is a failure before the call (no model could
\* be built) or an unexpected exception around it.
Invoke(r, s) ==
    LET t == <<r, s>>
    IN  /\ pc[r] = s
        /\ tx[t].at = "granted"
        /\ call[t].at = "none"
        /\ \/ \E m \in Messages :
                /\ m.usage # "total" => m.tokens > 0
                /\ call' = [call EXCEPT ![t].at = "replied", ![t].message = m]
           \/ \E e \in {"transport", "other"} :
                call' = [call EXCEPT ![t].at = "failed", ![t].error = e]
        /\ UNCHANGED <<quotaVars, pc, reported>>

-----------------------------------------------------------------------------
(* RagStageReservation *)

\* Mutant of NotAttempted: the handle never sets its flag.
NeverMarked(t) == TRUE

NotAttempted(t) == ~call[t].attempted

\* finalize or refund: the flag is set, then the quota is called, which may
\* raise before or after its commit.  A second attempt would raise at once;
\* there is none (SettledForGood, RequestEnds).
Terminal(t, n) == NotAttempted(t) /\ Settle(t, n)

TerminalRaises(t, n) ==
    /\ "database" \in QuotaFaults
    /\ NotAttempted(t)
    /\ Settle(t, n) \/ UNCHANGED quotaVars

Marked(t, where, e, m) ==
    call' = [call EXCEPT ![t] = [at |-> where, error |-> e, message |-> m,
                                 attempted |-> TRUE]]

-----------------------------------------------------------------------------
(* Settlement and its outcome *)

\* _settle_stage
SettleReply(r, s) ==
    LET t == <<r, s>>
        n == Bounded(call[t].message.tokens, Reserved(t))
    IN  /\ pc[r] = s
        /\ call[t].at = "replied"
        /\ \/ /\ Terminal(t, n)
              /\ Marked(t, "settled", "none", call[t].message)
              /\ reported' = [reported EXCEPT ![r] = @ + n]
           \/ /\ TerminalRaises(t, n)
              /\ Marked(t, "failed", "accounting", Blank)
              /\ UNCHANGED reported
        /\ UNCHANGED pc

Fine(t) ==
    Acceptable(call[t].message, Reserved(t)) /\ call[t].message.usable

\* HyDE goes on with the passage or, if it cannot be used, without.  The
\* final stage answers or raises RagProviderError.
Conclude(r, s) ==
    LET t == <<r, s>>
    IN  /\ pc[r] = s
        /\ call[t].at = "settled"
        /\ \/ /\ s = "hyde" \/ Fine(t)
              /\ Goes(r, IF s = "hyde" THEN "retrieve" ELSE "answered")
              /\ call' = [call EXCEPT ![t].at = "done", ![t].message = Blank]
           \/ /\ s = "final" /\ ~Fine(t)
              /\ call' = [call EXCEPT ![t].at = "failed", ![t].error = "provider",
                                      ![t].message = Blank]
              /\ UNCHANGED pc
        /\ UNCHANGED <<quotaVars, reported>>

\* A defect of the code or of a library shows after the settlement.
ConcludeRaises(r, s) ==
    /\ Defects
    /\ pc[r] = s
    /\ call[<<r, s>>].at = "settled"
    /\ call' = [call EXCEPT ![<<r, s>>].at = "failed", ![<<r, s>>].error = "other",
                            ![<<r, s>>].message = Blank]
    /\ UNCHANGED <<quotaVars, pc, reported>>

\* Mutant of TransportCharge: HyDE is refunded like the final stage.
NothingCharged(t) == 0

\* What HyDE is charged when the provider did not answer.
TransportCharge(t) == Reserved(t)

\* HyDE, ProviderTransportError: charge the bound and go on without.
ChargeBound(r) ==
    LET t == <<r, "hyde">>
    IN  /\ pc[r] = "hyde"
        /\ call[t].at = "failed" /\ call[t].error = "transport"
        /\ \/ /\ Terminal(t, TransportCharge(t))
              /\ Marked(t, "done", "none", Blank)
              /\ reported' = [reported EXCEPT ![r] = @ + Reserved(t)]
              /\ Goes(r, "retrieve")
           \/ /\ TerminalRaises(t, TransportCharge(t))
              /\ Marked(t, "failed", "accounting", Blank)
              /\ UNCHANGED <<pc, reported>>

\* Mutant of RefundDue: a transport error keeps the final reservation.
RefundsDefectsOnly(s, t) == call[t].error = "other" /\ NotAttempted(t)

\* The handlers that refund: an unexpected exception in either stage, and a
\* transport error of the final one.
RefundDue(s, t) ==
    /\ \/ call[t].error = "other"
       \/ call[t].error = "transport" /\ s = "final"
    /\ NotAttempted(t)

Refund(r, s) ==
    LET t == <<r, s>>
    IN  /\ pc[r] = s
        /\ call[t].at = "failed"
        /\ RefundDue(s, t)
        /\ \/ Terminal(t, 0) /\ Marked(t, "done", "none", Blank)
           \/ TerminalRaises(t, 0) /\ Marked(t, "done", "accounting", Blank)
        /\ Goes(r, "rejected")
        /\ UNCHANGED reported

\* The other exceptions leave the reservation as it is.
Propagate(r, s) ==
    LET t == <<r, s>>
    IN  /\ pc[r] = s
        /\ call[t].at = "failed"
        /\ ~RefundDue(s, t)
        /\ ~(s = "hyde" /\ call[t].error = "transport")
        /\ Goes(r, "rejected")
        /\ UNCHANGED <<quotaVars, call, reported>>

\* Retrieval fails, finds nothing (the fixed answer), or finds chunks.
Retrieve(r) ==
    /\ pc[r] = "retrieve"
    /\ \E where \in {"rejected", "answered", "final"} : Goes(r, where)
    /\ UNCHANGED <<quotaVars, call, reported>>

\* The web worker dies: an open transaction is rolled back.
Die(r) ==
    /\ "crash" \in QuotaFaults
    /\ ~Ended(r)
    /\ Goes(r, "dead")
    /\ \/ \E s \in Stages : CallerDies(<<r, s>>)
       \/ (\A s \in Stages : ~InTransaction(<<r, s>>)) /\ UNCHANGED quotaVars
    /\ UNCHANGED <<call, reported>>

Environment == (Operate \/ Midnight) /\ UNCHANGED <<pc, call, reported>>

-----------------------------------------------------------------------------

StageStep(r, s) ==
    \/ \E n \in Bounds : Reserve(r, s, n)
    \/ Reserving(<<r, s>>)
    \/ Denied(r, s)
    \/ Invoke(r, s)
    \/ SettleReply(r, s)
    \/ Conclude(r, s)
    \/ Refund(r, s)
    \/ Propagate(r, s)

RequestStep(r) ==
    \/ Begin(r)
    \/ \E s \in Stages : StageStep(r, s)
    \/ ChargeBound(r)
    \/ Retrieve(r)

RequestFault(r) ==
    \/ \E s \in Stages :
         \/ ReservingFails(<<r, s>>)
         \/ ConcludeRaises(r, s)
    \/ Die(r)

RagNext ==
    \/ \E r \in Requests : RequestStep(r) \/ RequestFault(r)
    \/ Environment

RagSafety == RagInit /\ [][RagNext]_ragVars

\* A request runs in a thread of its own, and every call it waits for ends.
RagSpec == RagSafety /\ \A r \in Requests : WF_ragVars(RequestStep(r))

-----------------------------------------------------------------------------
(* Properties *)

\* A reservation is settled at most once: its charge never changes again,
\* whatever error handlers run afterwards (accounting.py:45-48).
SettledForGood ==
    [][\A t \in Tickets :
         ledger[t].status = "settled" => ledger'[t] = ledger[t]]_ragVars

\* No handler forgets a reservation: a request that answered or failed has
\* left none open, except one whose answer it never got or whose settlement
\* the database refused.
NothingLeftOpen ==
    \A t \in Tickets :
      pc[t[1]] \in {"answered", "rejected"} /\ ledger[t].status = "open"
        => tx[t].at = "raised" \/ call[t].error = "accounting"

\* An answer reports exactly the tokens its request was charged.
AnswerReportsCharge ==
    \A r \in Requests :
      pc[r] = "answered"
        => reported[r] = ledger[<<r, "hyde">>].charged + ledger[<<r, "final">>].charged

\* Without operators usage stays within the limit at all times: what the
\* provider claims to have used cannot push a settlement over it.
UsageWithinLimit ==
    "operator" \notin QuotaFaults => \A d \in Days : used[d] <= subscription.limit

\* Every request ends, whoever holds the rows.
RequestEnds == \A r \in Requests : pc[r] # "new" ~> Ended(r)

=============================================================================
