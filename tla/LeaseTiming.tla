----------------------------- MODULE LeaseTiming -----------------------------
(***************************************************************************)
(* The clocks Ingestion abstracts from: the hard time limit Celery puts on *)
(* a task, the lease a worker takes, and the settings that relate them     *)
(* (config/settings/base.py, apps/documents/tasks.py and recovery.py), for *)
(* one job.  Ingestion lets a lease run out under a living worker and is   *)
(* safe all the same; with the limit enforced it does not happen.          *)
(***************************************************************************)
EXTENDS Naturals

CONSTANTS
    Settings,  \* what the environment may configure, in seconds
    Slack,     \* how long after its limit a task may still run
    Workers,
    MaxGen,    \* bound: generations drawn
    Horizon    \* bound: the clock

ASSUME TimingAssumption ==
    /\ Settings \subseteq [timeLimit : Nat \ {0},   \* CELERY_TASK_TIME_LIMIT
                           safety    : Nat,         \* INGESTION_LEASE_SAFETY_SECONDS
                           stale     : Nat]         \* INGESTION_STALE_PROCESSING_SECONDS
    /\ Slack \in Nat /\ \A s \in Settings : s.safety > 0 => Slack < s.safety
    /\ MaxGen \in Nat /\ Horizon \in Nat

VARIABLES
    settings, now,
    record,      \* the job: status, generation and lease_expires_at
    worker    \* each worker: where it is, since when, for which generation,
              \* with which lease

timingVars == <<settings, now, record, worker>>

Free == [at |-> "free", since |-> 0, gen |-> 0, lease |-> 0]

TimingTypeOK ==
    /\ settings \in Settings
    /\ now \in Nat
    /\ record \in [status : {"PENDING", "PROCESSING", "done"}, gen : Nat, lease : Nat]
    /\ worker \in [Workers -> [at : {"free", "received", "stamped", "working"},
                               since : Nat, gen : Nat, lease : Nat]]

\* Mutant of Validated: the lease need only be positive.
ValidatedAlone(s) == s.safety > 0 /\ s.stale > 0

\* The process does not start with other settings.
Validated(s) == s.safety > 0 /\ s.stale >= s.timeLimit + s.safety

TimingInit ==
    /\ settings \in {s \in Settings : Validated(s)}
    /\ now = 0
    /\ record = [status |-> "PENDING", gen |-> 1, lease |-> 0]
    /\ worker = [w \in Workers |-> Free]

Set(w, state) == worker' = [worker EXCEPT ![w] = state]

\* A message is delivered, of any generation, again or late; the limit runs
\* from here on.
Receive(w) ==
    /\ worker[w].at = "free"
    /\ \E g \in 1..record.gen : Set(w, [Free EXCEPT !.at = "received", !.since = now, !.gen = g])
    /\ UNCHANGED <<settings, now, record>>

\* Mutant of Expiry: the margin is counted from the limit backwards.
ExpiryShort == now + settings.timeLimit - settings.safety

Expiry == now + settings.stale

\* The lease is computed before the job's row is locked, and may wait for it.
Stamp(w) ==
    /\ worker[w].at = "received"
    /\ Set(w, [worker[w] EXCEPT !.at = "stamped", !.lease = Expiry])
    /\ UNCHANGED <<settings, now, record>>

ClaimJob(w) ==
    /\ worker[w].at = "stamped"
    /\ IF record.status = "PENDING" /\ record.gen = worker[w].gen
         THEN /\ record' = [record EXCEPT !.status = "PROCESSING", !.lease = worker[w].lease]
              /\ Set(w, [worker[w] EXCEPT !.at = "working"])
         ELSE Set(w, Free) /\ UNCHANGED record
    /\ UNCHANGED <<settings, now>>

\* The finalizer; only the owner moves the job.
Finalize(w) ==
    /\ worker[w].at = "working"
    /\ Set(w, Free)
    /\ record' = IF record.status = "PROCESSING" /\ record.gen = worker[w].gen
                THEN [record EXCEPT !.status = "done"] ELSE record
    /\ UNCHANGED <<settings, now>>

\* The worker dies, or is killed.
Die(w) ==
    /\ worker[w].at # "free"
    /\ Set(w, Free)
    /\ UNCHANGED <<settings, now, record>>

\* A stale job is rotated; a pending one may be old at any time.
Recover ==
    /\ record.gen < MaxGen
    /\ record.status = "PENDING" \/ (record.status = "PROCESSING" /\ record.lease <= now)
    /\ record' = [status |-> "PENDING", gen |-> record.gen + 1, lease |-> 0]
    /\ UNCHANGED <<settings, now, worker>>

\* Celery kills a task that has reached its limit before Slack is over.
Overdue(w) ==
    worker[w].at # "free" /\ now >= worker[w].since + settings.timeLimit + Slack

Pass ==
    /\ now < Horizon
    /\ \A w \in Workers : ~Overdue(w)
    /\ now' = now + 1
    /\ UNCHANGED <<settings, record, worker>>

TimingNext ==
    \/ \E w \in Workers : Receive(w) \/ Stamp(w) \/ ClaimJob(w) \/ Finalize(w) \/ Die(w)
    \/ Recover
    \/ Pass

TimingSpec == TimingInit /\ [][TimingNext]_timingVars

-----------------------------------------------------------------------------
(* Properties *)

\* With validated settings a document is processed by one worker at a time, of
\* whatever generations: recovery never takes a job from a worker that lives,
\* provided Celery kills within the safety margin.
OneWorkerAtATime ==
    \A v, w \in Workers :
      v # w /\ worker[v].at = "working" => worker[w].at # "working"

=============================================================================
