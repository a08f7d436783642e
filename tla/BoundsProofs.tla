---------------------------- MODULE BoundsProofs ----------------------------
(***************************************************************************)
(* Configured limits hold for every setting a process accepts: those of a  *)
(* task (LeaseTiming, the clock without a bound), those of a document      *)
(* (ExtractionLimits, files of any size) and those of a prompt             *)
(* (PromptContext, blocks of any number and length).                       *)
(***************************************************************************)
EXTENDS ExtractionLimits, PromptContext, LeaseTiming, FoldProofs, SequenceTheorems

-----------------------------------------------------------------------------
(* Validated settings keep recovery away from living workers.  A worker    *)
(* that is at work has the lease it stamped, at least the time limit and   *)
(* the safety margin after its message came; the clock cannot pass the     *)
(* limit and the slack while it lives.  The margin is larger than the      *)
(* slack, so the lease it holds has not run out (OwnerInv), and only what  *)
(* has run out is rotated.                                                 *)

SettingsInv ==
    /\ settings.timeLimit \in Nat /\ settings.safety \in Nat /\ settings.stale \in Nat
    /\ Slack < settings.safety
    /\ settings.stale >= settings.timeLimit + settings.safety

\* A task that lives has not been killed: the clock is within its limit.
ClockInv ==
    \A w \in Workers : worker[w].at # "free" =>
      /\ worker[w].since <= now
      /\ now <= worker[w].since + settings.timeLimit + Slack

LeaseInv ==
    \A w \in Workers : worker[w].at \in {"stamped", "working"} =>
      worker[w].lease >= worker[w].since + settings.timeLimit + settings.safety

\* Who works owns the job, under the lease it stamped.
OwnerInv ==
    \A w \in Workers : worker[w].at = "working" =>
      record.status = "PROCESSING" /\ record.lease = worker[w].lease

TimingInv ==
    /\ TimingTypeOK /\ SettingsInv /\ ClockInv /\ LeaseInv /\ OwnerInv
    /\ OneWorkerAtATime

\* Where a worker that lives stands: its lease is in the future.
LEMMA LeaseHolds ==
    ASSUME TimingInv, NEW w \in Workers, worker[w].at \in {"stamped", "working"}
    PROVE  now < worker[w].lease
<1>1. worker[w].since \in Nat /\ worker[w].lease \in Nat /\ now \in Nat
  BY DEF TimingInv, TimingTypeOK
<1>2. /\ now <= worker[w].since + settings.timeLimit + Slack
      /\ worker[w].lease >= worker[w].since + settings.timeLimit + settings.safety
  BY DEF TimingInv, ClockInv, LeaseInv
<1>3. settings.timeLimit \in Nat /\ settings.safety \in Nat /\ Slack < settings.safety
  BY DEF TimingInv, SettingsInv
<1> QED
  BY <1>1, <1>2, <1>3, TimingAssumption

LEMMA TimingStarts == TimingInit => TimingInv
<1> SUFFICES ASSUME TimingInit PROVE TimingInv
  OBVIOUS
<1>1. \A w \in Workers : worker[w].at = "free"
  BY DEF TimingInit, Free
<1>2. TimingTypeOK
  BY DEF TimingInit, TimingTypeOK, Free
<1>3. SettingsInv
  BY TimingAssumption DEF TimingInit, Validated, SettingsInv
<1> QED
  BY <1>1, <1>2, <1>3 DEF TimingInv, ClockInv, LeaseInv, OwnerInv, OneWorkerAtATime

\* A step of one worker that does not touch the job.
LEMMA WorkerMovesOn ==
    ASSUME TimingInv, NEW w \in Workers, UNCHANGED <<settings, now, record>>,
           NEW state \in [at : {"free", "received", "stamped"},
                          since : Nat, gen : Nat, lease : Nat],
           Set(w, state),
           state.at # "free" =>
             /\ state.since <= now
             /\ now <= state.since + settings.timeLimit + Slack,
           state.at = "stamped" =>
             state.lease >= state.since + settings.timeLimit + settings.safety
    PROVE  TimingInv'
<1>1. worker' = [worker EXCEPT ![w] = state]
  BY DEF Set
<1>2. TimingTypeOK'
  BY <1>1 DEF TimingInv, TimingTypeOK
<1>3. \A v \in Workers : worker'[v] = IF v = w THEN state ELSE worker[v]
  BY <1>1 DEF TimingInv, TimingTypeOK
<1>4. SettingsInv'
  BY DEF TimingInv, SettingsInv
<1>5. ClockInv' /\ LeaseInv' /\ OwnerInv' /\ OneWorkerAtATime'
  BY <1>3 DEF TimingInv, ClockInv, LeaseInv, OwnerInv, OneWorkerAtATime
<1> QED
  BY <1>2, <1>4, <1>5 DEF TimingInv

LEMMA ReceiveTimed ==
    ASSUME TimingInv, NEW w \in Workers, Receive(w) PROVE TimingInv'
<1>1. PICK g \in 1..record.gen :
        Set(w, [Free EXCEPT !.at = "received", !.since = now, !.gen = g])
  BY DEF Receive
<1>2. g \in Nat /\ now \in Nat
  BY DEF TimingInv, TimingTypeOK
<1> DEFINE state == [Free EXCEPT !.at = "received", !.since = now, !.gen = g]
<1>3. /\ state.at = "received" /\ state.since = now
      /\ state \in [at : {"free", "received", "stamped"},
                    since : Nat, gen : Nat, lease : Nat]
  BY <1>2 DEF Free
<1>4. now <= now + settings.timeLimit + Slack
  BY <1>2, TimingAssumption DEF TimingInv, SettingsInv
<1>5. Set(w, state) /\ UNCHANGED <<settings, now, record>>
  BY <1>1 DEF Receive
<1> HIDE DEF state
<1> QED
  BY <1>2, <1>3, <1>4, <1>5, WorkerMovesOn

LEMMA StampTimed ==
    ASSUME TimingInv, NEW w \in Workers, Stamp(w) PROVE TimingInv'
<1> DEFINE state == [worker[w] EXCEPT !.at = "stamped", !.lease = Expiry]
<1>1. /\ worker[w] \in [at : {"free", "received", "stamped", "working"},
                        since : Nat, gen : Nat, lease : Nat]
      /\ now \in Nat
  BY DEF TimingInv, TimingTypeOK
<1>2. Expiry \in Nat
  BY <1>1 DEF Expiry, TimingInv, SettingsInv
<1>3. /\ state.at = "stamped" /\ state.since = worker[w].since /\ state.lease = Expiry
      /\ state \in [at : {"free", "received", "stamped"},
                    since : Nat, gen : Nat, lease : Nat]
  BY <1>1, <1>2
<1>4. /\ worker[w].since <= now
      /\ now <= worker[w].since + settings.timeLimit + Slack
  BY DEF TimingInv, ClockInv, Stamp
<1>5. Expiry >= worker[w].since + settings.timeLimit + settings.safety
  BY <1>1, <1>4 DEF Expiry, TimingInv, SettingsInv
<1>6. Set(w, state) /\ UNCHANGED <<settings, now, record>>
  BY DEF Stamp
<1> HIDE DEF state
<1> QED
  BY <1>3, <1>4, <1>5, <1>6, WorkerMovesOn

LEMMA FreedTimed ==
    ASSUME TimingInv, NEW w \in Workers, Set(w, Free), UNCHANGED <<settings, now, record>>
    PROVE  TimingInv'
<1>1. /\ Free \in [at : {"free", "received", "stamped"},
                   since : Nat, gen : Nat, lease : Nat]
      /\ Free.at = "free"
  BY DEF Free
<1> QED
  BY <1>1, WorkerMovesOn

\* The job was PENDING, so nobody was at work.
LEMMA ClaimTimed ==
    ASSUME TimingInv, NEW w \in Workers, ClaimJob(w) PROVE TimingInv'
<1>1. CASE record.status = "PENDING" /\ record.gen = worker[w].gen
  <2> DEFINE state == [worker[w] EXCEPT !.at = "working"]
  <2>1. /\ record' = [record EXCEPT !.status = "PROCESSING", !.lease = worker[w].lease]
        /\ worker' = [worker EXCEPT ![w] = state]
        /\ UNCHANGED <<settings, now>>
    BY <1>1 DEF ClaimJob, Set
  <2>2. /\ worker[w] \in [at : {"free", "received", "stamped", "working"},
                          since : Nat, gen : Nat, lease : Nat]
        /\ worker[w].at = "stamped"
    BY DEF TimingInv, TimingTypeOK, ClaimJob
  <2>3. /\ state.at = "working" /\ state.since = worker[w].since
        /\ state.lease = worker[w].lease
        /\ state \in [at : {"free", "received", "stamped", "working"},
                      since : Nat, gen : Nat, lease : Nat]
    BY <2>2
  <2>4. \A v \in Workers : worker'[v] = IF v = w THEN state ELSE worker[v]
    BY <2>1 DEF TimingInv, TimingTypeOK
  <2>5. TimingTypeOK'
    BY <2>1, <2>2, <2>3 DEF TimingInv, TimingTypeOK
  <2>6. record'.status = "PROCESSING" /\ record'.lease = worker[w].lease
    BY <2>1 DEF TimingInv, TimingTypeOK
  <2> HIDE DEF state
  <2>7. \A v \in Workers : worker[v].at # "working"
    BY <1>1 DEF TimingInv, OwnerInv
  <2>8. SettingsInv'
    BY <2>1 DEF TimingInv, SettingsInv
  <2>9. ClockInv' /\ LeaseInv'
    BY <2>1, <2>2, <2>3, <2>4 DEF TimingInv, ClockInv, LeaseInv
  <2>10. OwnerInv' /\ OneWorkerAtATime'
    BY <2>3, <2>4, <2>6, <2>7 DEF OwnerInv, OneWorkerAtATime
  <2> QED
    BY <2>5, <2>8, <2>9, <2>10 DEF TimingInv
<1>2. CASE ~(record.status = "PENDING" /\ record.gen = worker[w].gen)
  BY <1>2, FreedTimed DEF ClaimJob
<1> QED
  BY <1>1, <1>2

\* Whoever finalizes was alone at work.
LEMMA FinalizeTimed ==
    ASSUME TimingInv, NEW w \in Workers, Finalize(w) PROVE TimingInv'
<1>1. /\ worker' = [worker EXCEPT ![w] = Free]
      /\ UNCHANGED <<settings, now>>
      /\ record' \in {record, [record EXCEPT !.status = "done"]}
      /\ worker[w].at = "working"
  BY DEF Finalize, Set
<1>2. \A v \in Workers : worker'[v] = IF v = w THEN Free ELSE worker[v]
  BY <1>1 DEF TimingInv, TimingTypeOK
<1>3. TimingTypeOK'
  BY <1>1 DEF TimingInv, TimingTypeOK, Free
<1>4. \A v \in Workers : worker'[v].at # "working"
  BY <1>1, <1>2 DEF TimingInv, OneWorkerAtATime, Free
<1>5. SettingsInv'
  BY <1>1 DEF TimingInv, SettingsInv
<1>6. ClockInv' /\ LeaseInv'
  BY <1>1, <1>2 DEF TimingInv, ClockInv, LeaseInv, Free
<1> QED
  BY <1>3, <1>4, <1>5, <1>6 DEF TimingInv, OwnerInv, OneWorkerAtATime

\* A job that is rotated has no worker at work on it.
LEMMA RecoverTimed ==
    ASSUME TimingInv, Recover PROVE TimingInv'
<1>1. /\ record' = [status |-> "PENDING", gen |-> record.gen + 1, lease |-> 0]
      /\ UNCHANGED <<settings, now, worker>>
  BY DEF Recover
<1>2. ASSUME NEW w \in Workers, worker[w].at = "working" PROVE FALSE
  <2>1. now < record.lease /\ record.status = "PROCESSING"
    BY <1>2, LeaseHolds DEF TimingInv, OwnerInv
  <2>2. now \in Nat /\ record.lease \in Nat
    BY DEF TimingInv, TimingTypeOK
  <2> QED
    BY <2>1, <2>2 DEF Recover
<1>3. TimingTypeOK'
  BY <1>1 DEF TimingInv, TimingTypeOK
<1>4. SettingsInv' /\ ClockInv' /\ LeaseInv'
  BY <1>1 DEF TimingInv, SettingsInv, ClockInv, LeaseInv
<1> QED
  BY <1>1, <1>2, <1>3, <1>4 DEF TimingInv, OwnerInv, OneWorkerAtATime

LEMMA PassTimed ==
    ASSUME TimingInv, Pass PROVE TimingInv'
<1>1. now' = now + 1 /\ UNCHANGED <<settings, record, worker>> /\ now \in Nat
  BY DEF Pass, TimingInv, TimingTypeOK
<1>2. TimingTypeOK'
  BY <1>1 DEF TimingInv, TimingTypeOK
<1>3. ClockInv'
  <2> SUFFICES ASSUME NEW w \in Workers, worker[w].at # "free"
               PROVE  /\ worker[w].since <= now + 1
                      /\ now + 1 <= worker[w].since + settings.timeLimit + Slack
    BY <1>1 DEF ClockInv
  <2>1. worker[w].since \in Nat /\ settings.timeLimit \in Nat
    BY DEF TimingInv, TimingTypeOK, SettingsInv
  <2>2. worker[w].since <= now
    BY DEF TimingInv, ClockInv
  <2>3. ~(now >= worker[w].since + settings.timeLimit + Slack)
    BY DEF Pass, Overdue
  <2> QED
    BY <1>1, <2>1, <2>2, <2>3, TimingAssumption
<1> QED
  BY <1>1, <1>2, <1>3
  DEF TimingInv, SettingsInv, LeaseInv, OwnerInv, OneWorkerAtATime

\* With validated settings, and tasks killed within the safety margin, no two
\* workers ever process the document at the same time.
THEOREM WorkersAreAlone == TimingSpec => []OneWorkerAtATime
<1>1. TimingInv /\ [TimingNext]_timingVars => TimingInv'
  <2> SUFFICES ASSUME TimingInv, [TimingNext]_timingVars PROVE TimingInv'
    OBVIOUS
  <2>1. ASSUME NEW w \in Workers,
               Receive(w) \/ Stamp(w) \/ ClaimJob(w) \/ Finalize(w) \/ Die(w)
        PROVE  TimingInv'
    BY <2>1, ReceiveTimed, StampTimed, ClaimTimed, FinalizeTimed, FreedTimed DEF Die
  <2>2. CASE UNCHANGED timingVars
    BY <2>2 DEF timingVars, TimingInv, TimingTypeOK, SettingsInv, ClockInv, LeaseInv,
                OwnerInv, OneWorkerAtATime
  <2> QED
    BY <2>1, <2>2, RecoverTimed, PassTimed DEF TimingNext
<1>2. TimingInv => OneWorkerAtATime
  BY DEF TimingInv
<1> QED
  BY <1>1, <1>2, TimingStarts, PTL DEF TimingSpec

-----------------------------------------------------------------------------
(* A document is accepted whole or rejected.                               *)

\* What each stage of the pipeline knows of the stages before it.
LimitsInv ==
    /\ LimitsTypeOK
    /\ WorkIsBounded
    /\ covered <= text
    /\ at \in {"plain", "pdf", "pages"} => text = 0 /\ covered = 0
    /\ at = "plain" => left = 0 /\ parts = 0
    /\ at = "pdf" => size = 0 /\ parts = 0
    /\ at = "pages" => parts + left <= MaxPages
    /\ at \in {"text", "splitting", "ready"} =>
         left = 0 /\ text = size + Newlines
    /\ at = "ready" => covered = text

LEMMA LimitsStart == LimitsInit => LimitsInv
<1> SUFFICES ASSUME LimitsInit PROVE LimitsInv
  OBVIOUS
<1>1. parts = 0 /\ text = 0 /\ covered = 0 /\ kept = 0
  BY DEF LimitsInit
<1>2. /\ at \in {"plain", "pdf"} /\ size \in Nat /\ left \in Nat
      /\ at = "plain" => left = 0
      /\ at = "pdf" => size = 0
  BY LimitsAssumption DEF LimitsInit
<1> QED
  BY <1>1, <1>2, LimitsAssumption DEF LimitsInv, LimitsTypeOK, WorkIsBounded, Newlines, Stages

LEMMA RaiseLimited ==
    ASSUME LimitsInv, Raise PROVE LimitsInv'
BY DEF LimitsInv, LimitsTypeOK, WorkIsBounded, Newlines, Stages, Raise

\* The text of a plain file, and the pages of a PDF with their newlines.
LEMMA ExtractLimited ==
    ASSUME LimitsInv,
           ReadPlainText \/ OpenPdf \/ ExtractPage \/ JoinPages \/ Unreadable
    PROVE  LimitsInv'
<1>1. CASE ReadPlainText
  <2>1. CASE CharsRead > MaxChars
    BY <1>1, <2>1, RaiseLimited DEF ReadPlainText
  <2>2. CASE ~(CharsRead > MaxChars)
    <3>1. /\ at = "plain" /\ at' = "text" /\ text' = CharsRead
          /\ UNCHANGED <<size, left, parts, covered, kept>>
      BY <1>1, <2>2 DEF ReadPlainText
    <3>2. size \in Nat /\ parts = 0 /\ left = 0 /\ covered = 0
      BY <3>1 DEF LimitsInv, LimitsTypeOK
    <3>3. CharsRead = size /\ size <= MaxChars
      BY <2>2, <3>2, LimitsAssumption DEF CharsRead
    <3> QED
      BY <3>1, <3>2, <3>3, LimitsAssumption
      DEF LimitsInv, LimitsTypeOK, WorkIsBounded, Newlines, Stages
  <2> QED
    BY <2>1, <2>2
<1>2. CASE OpenPdf
  <2>1. CASE left > MaxPages
    BY <1>2, <2>1, RaiseLimited DEF OpenPdf
  <2>2. CASE ~(left > MaxPages)
    <3>1. /\ at = "pdf" /\ at' = "pages" /\ left <= MaxPages
          /\ UNCHANGED <<size, left, parts, text, covered, kept>>
      BY <1>2, <2>2, LimitsAssumption DEF OpenPdf, LimitsInv, LimitsTypeOK
    <3> QED
      BY <3>1, LimitsAssumption
      DEF LimitsInv, LimitsTypeOK, WorkIsBounded, Newlines, Stages
  <2> QED
    BY <2>1, <2>2
<1>3. CASE ExtractPage
  <2>1. PICK n \in 0..MaxSize :
          IF OverCeiling(n) THEN Raise
          ELSE /\ size' = size + n /\ left' = left - 1 /\ parts' = parts + 1
               /\ UNCHANGED <<at, text, covered, kept>>
    BY <1>3 DEF ExtractPage
  <2>2. CASE OverCeiling(n)
    BY <2>1, <2>2, RaiseLimited
  <2>3. CASE ~OverCeiling(n)
    <3>1. /\ at = "pages" /\ left > 0
          /\ size' = size + n /\ left' = left - 1 /\ parts' = parts + 1
          /\ UNCHANGED <<at, text, covered, kept>>
      BY <1>3, <2>1, <2>3 DEF ExtractPage
    <3>2. n \in Nat /\ size \in Nat /\ left \in Nat /\ parts \in Nat
      BY LimitsAssumption DEF LimitsInv, LimitsTypeOK
    <3>3. size' \in Nat /\ size' <= MaxChars
      BY <2>3, <3>1, <3>2, LimitsAssumption DEF OverCeiling
    <3>4. left' \in Nat /\ parts' \in Nat /\ parts' + left' = parts + left
      BY <3>1, <3>2
    <3>5. parts' <= MaxPages /\ parts' + left' <= MaxPages
      BY <3>1, <3>2, <3>4, LimitsAssumption DEF LimitsInv
    <3>6. text' = 0 /\ covered' = 0
      BY <3>1 DEF LimitsInv
    <3>7. WorkIsBounded'
      <4>1. 0 <= MaxChars + Newlines'
        <5>1. Newlines' = parts
          BY <3>1, <3>2 DEF Newlines
        <5> QED
          BY <3>2, <5>1, LimitsAssumption
      <4>2. kept' <= MaxChunks
        BY <3>1 DEF LimitsInv, WorkIsBounded
      <4> QED
        BY <3>3, <3>5, <3>6, <4>1, <4>2, Zenon DEF WorkIsBounded
    <3>8. LimitsTypeOK'
      BY <3>1, <3>3, <3>4 DEF LimitsInv, LimitsTypeOK
    <3> QED
      BY <3>1, <3>5, <3>6, <3>7, <3>8 DEF LimitsInv
  <2> QED
    BY <2>2, <2>3
<1>4. CASE JoinPages
  <2>1. size \in Nat /\ parts \in Nat /\ left = 0 /\ at = "pages"
    BY <1>4 DEF JoinPages, LimitsInv, LimitsTypeOK
  <2>2. Newlines \in Nat
    BY <2>1 DEF Newlines
  <2>3. text' \in Nat /\ text' = size + Newlines
    BY <1>4, <2>1, <2>2 DEF JoinPages
  <2>4. text = 0 /\ covered = 0
    BY <2>1 DEF LimitsInv
  <2>5. parts <= MaxPages /\ size <= MaxChars
    BY <2>1 DEF LimitsInv, WorkIsBounded, JoinPages
  <2> QED
    BY <1>4, <2>1, <2>2, <2>3, <2>4, <2>5, LimitsAssumption
    DEF JoinPages, LimitsInv, LimitsTypeOK, WorkIsBounded, Newlines, Stages
<1>5. CASE Unreadable
  BY <1>5, RaiseLimited DEF Unreadable
<1> QED
  BY <1>1, <1>2, <1>3, <1>4, <1>5

LEMMA SplitLimited ==
    ASSUME LimitsInv, StartSplitting \/ CutChunk \/ EndSplitting
    PROVE  LimitsInv'
<1>1. CASE StartSplitting
  <2>1. CASE Splittable
    BY <1>1, <2>1 DEF StartSplitting, LimitsInv, LimitsTypeOK, WorkIsBounded, Newlines, Stages
  <2>2. CASE ~Splittable
    BY <1>1, <2>2, RaiseLimited DEF StartSplitting
  <2> QED
    BY <2>1, <2>2
<1>2. CASE CutChunk
  <2>1. PICK n \in 1..ChunkSize, blank \in BOOLEAN :
          /\ covered + n <= text
          /\ IF ~blank /\ Full THEN Raise
             ELSE /\ covered' = covered + n
                  /\ kept' = IF blank THEN kept ELSE kept + 1
                  /\ UNCHANGED <<at, size, left, parts, text>>
    BY <1>2 DEF CutChunk
  <2>2. CASE ~blank /\ Full
    BY <2>1, <2>2, RaiseLimited
  <2>3. CASE blank \/ ~Full
    <3>1. /\ at = "splitting" /\ covered + n <= text /\ covered' = covered + n
          /\ kept' = IF blank THEN kept ELSE kept + 1
          /\ UNCHANGED <<at, size, left, parts, text>>
      BY <1>2, <2>1, <2>3 DEF CutChunk
    <3>2. kept' \in 0..MaxChunks
      BY <2>3, <3>1, LimitsAssumption DEF Full, LimitsInv, LimitsTypeOK
    <3>3. covered' \in Nat
      BY <3>1, LimitsAssumption DEF LimitsInv, LimitsTypeOK
    <3> QED
      BY <3>1, <3>2, <3>3 DEF LimitsInv, LimitsTypeOK, WorkIsBounded, Newlines, Stages
  <2> QED
    BY <2>2, <2>3
<1>3. CASE EndSplitting
  <2>1. CASE kept = 0
    BY <1>3, <2>1, RaiseLimited DEF EndSplitting
  <2>2. CASE kept # 0
    BY <1>3, <2>2 DEF EndSplitting, LimitsInv, LimitsTypeOK, WorkIsBounded, Newlines, Stages
  <2> QED
    BY <2>1, <2>2
<1> QED
  BY <1>1, <1>2, <1>3

LEMMA LimitsInvariant == LimitsSpec => []LimitsInv
<1>1. LimitsInv /\ [LimitsNext]_limitVars => LimitsInv'
  <2> SUFFICES ASSUME LimitsInv, [LimitsNext]_limitVars PROVE LimitsInv'
    OBVIOUS
  <2>1. CASE UNCHANGED limitVars
    BY <2>1 DEF limitVars, LimitsInv, LimitsTypeOK, WorkIsBounded, Newlines
  <2> QED
    BY <2>1, ExtractLimited, SplitLimited DEF LimitsNext
<1> QED
  BY <1>1, LimitsStart, PTL DEF LimitsSpec

\* What is embedded covers the whole file, every page of a PDF included, for
\* files of any size and any limits.
THEOREM DocumentsAreWhole == LimitsSpec => []NothingTruncated
<1>1. LimitsInv => NothingTruncated
  BY DEF LimitsInv, NothingTruncated
<1> QED
  BY <1>1, LimitsInvariant, PTL

\* No document, accepted or rejected later, makes the pipeline take on more pages,
\* characters or chunks than configured, the newlines between pages apart.
THEOREM WorkStaysBounded == LimitsSpec => []WorkIsBounded
<1>1. LimitsInv => WorkIsBounded
  BY DEF LimitsInv
<1> QED
  BY <1>1, LimitsInvariant, PTL

-----------------------------------------------------------------------------
(* The context of a prompt.  _chunked_retrieval_context joins as it goes;   *)
(* what it has is the beginning of all blocks joined (StepsBegin), so where *)
(* it stops it has cut it there, whatever stops it.                         *)

Text == Seq(Nat \X Nat)

AddPiece(s, p) == IF s = <<>> THEN p ELSE s \o Separator \o p

IsJoin(g, q, S) ==
    g = [s \in SUBSET S |->
           IF s = {} THEN <<>>
           ELSE LET i == Max(s) IN AddPiece(g[s \ {i}], q[i])]

\* What a join has come to after each of its pieces.
JoinSteps(g, q) ==
    /\ g \in [0..Len(q) -> Text]
    /\ g[0] = <<>>
    /\ \A k \in 0..Len(q) : k > 0 => g[k] = AddPiece(g[k - 1], q[k])

LEMMA SeparatorIsText == Separator \in Text /\ Len(Separator) = 2
                         /\ Separator[1][1] = 0 /\ Separator[2][1] = 0
BY DEF Separator, Text

LEMMA AddIsText ==
    ASSUME NEW s \in Text, NEW p \in Text
    PROVE  AddPiece(s, p) \in Text
BY SeparatorIsText DEF AddPiece, Text

LEMMA JoinedIsChosen ==
    ASSUME NEW q
    PROVE  Joined(q) = (CHOOSE g : IsJoin(g, q, DOMAIN q))[DOMAIN q]
BY DEF Joined, FoldLeft, MapThenFoldSet, IsJoin, AddPiece

LEMMA JoinExists ==
    ASSUME NEW q \in Seq(Text)
    PROVE  \E g : IsJoin(g, q, DOMAIN q)
<1> DEFINE S == 1..Len(q)
           pick == [s \in SUBSET S |-> Max(s)]
           F == [s \in SUBSET S |->
                   [v \in Text |-> IF s = {} THEN v ELSE AddPiece(v, q[pick[s]])]]
<1>1. Len(q) \in Nat /\ DOMAIN q = S /\ \A i \in S : q[i] \in Text
  OBVIOUS
<1>2. IsFiniteSet(S) /\ S \in SUBSET S
  BY <1>1, FS_Interval
<1>3. \A s \in SUBSET S : s # {} => pick[s] \in s
  BY <1>1, MaxIsMember
<1>4. F \in [SUBSET S -> [Text -> Text]]
  <2>1. ASSUME NEW s \in SUBSET S, NEW v \in Text
        PROVE  (IF s = {} THEN v ELSE AddPiece(v, q[pick[s]])) \in Text
    <3>1. s # {} => q[pick[s]] \in Text
      BY <1>1, <1>3
    <3> QED
      BY <3>1, AddIsText
  <2> QED
    BY <2>1
<1>5. <<>> \in Text
  BY DEF Text
<1>6. PICK g : IsFold(g, S, Text, <<>>, pick, F)
  <2> HIDE DEF F, pick, S
  <2> QED
    BY <1>2, <1>3, <1>4, <1>5, FoldExists
<1>7. g \in [SUBSET S -> Text] /\ \A s \in SUBSET S :
        g[s] = IF s = {} THEN <<>> ELSE F[s][g[s \ {pick[s]}]]
  <2> HIDE DEF F, pick, S
  <2> QED
    BY <1>6 DEF IsFold
<1>8. \A s \in SUBSET S : s # {} => g[s] = AddPiece(g[s \ {Max(s)}], q[Max(s)])
  <2> SUFFICES ASSUME NEW s \in SUBSET S, s # {}
               PROVE  g[s] = AddPiece(g[s \ {Max(s)}], q[Max(s)])
    OBVIOUS
  <2>1. pick[s] = Max(s) /\ \A v \in Text : F[s][v] = AddPiece(v, q[pick[s]])
    OBVIOUS
  <2>2. s \ {Max(s)} \in SUBSET S
    OBVIOUS
  <2>3. g[s \ {Max(s)}] \in Text
    BY <1>7, <2>2
  <2> HIDE DEF F, pick, S
  <2> QED
    BY <1>7, <2>1, <2>3
<1>9. g = [s \in SUBSET S |-> g[s]] /\ g[{}] = <<>>
  <2> HIDE DEF F, pick, S
  <2>1. {} \in SUBSET S
    OBVIOUS
  <2> QED
    BY <1>7, <2>1
<1>10. IsJoin(g, q, S)
  <2> HIDE DEF F, pick, S
  <2>1. [s \in SUBSET S |-> g[s]] =
        [s \in SUBSET S |-> IF s = {} THEN <<>>
                            ELSE LET i == Max(s) IN AddPiece(g[s \ {i}], q[i])]
    BY <1>8, <1>9
  <2> QED
    BY <1>9, <2>1 DEF IsJoin
<1> QED
  BY <1>1, <1>10

LEMMA JoinedInSteps ==
    ASSUME NEW q \in Seq(Text)
    PROVE  \E g : JoinSteps(g, q) /\ Joined(q) = g[Len(q)]
<1> DEFINE J == CHOOSE g : IsJoin(g, q, DOMAIN q)
           n == Len(q)
           g == [k \in 0..n |-> J[1..k]]
           Q == {k \in 0..n : g[k] \in Text}
<1>1. n \in Nat /\ DOMAIN q = 1..n /\ \A i \in 1..n : q[i] \in Text
  OBVIOUS
<1>2. IsJoin(J, q, 1..n)
  BY <1>1, JoinExists
<1> HIDE DEF J
<1>3. \A s \in SUBSET (1..n) :
        J[s] = IF s = {} THEN <<>> ELSE AddPiece(J[s \ {Max(s)}], q[Max(s)])
  BY <1>2 DEF IsJoin
<1>4. g[0] = <<>>
  <2>1. {} \in SUBSET (1..n) /\ 1..0 = {} /\ 0 \in 0..n
    BY <1>1
  <2>2. J[{}] = <<>>
    BY <1>3, <2>1
  <2> QED
    BY <2>1, <2>2
<1>5. \A k \in 0..n : k > 0 => g[k] = AddPiece(g[k - 1], q[k])
  <2> SUFFICES ASSUME NEW k \in 0..n, k > 0
               PROVE  g[k] = AddPiece(g[k - 1], q[k])
    OBVIOUS
  <2>1. Max(1..k) = k
    BY <1>1, MaxOfInterval
  <2>2. (1..k) \ {k} = 1..(k - 1) /\ (1..k) # {} /\ (1..k) \in SUBSET (1..n)
    <3>1. \A i \in 1..k : i \in 1..n
      BY <1>1
    <3>2. k \in 1..k
      BY <1>1
    <3>3. \A i : i \in (1..k) \ {k} <=> i \in 1..(k - 1)
      BY <1>1
    <3> QED
      BY <3>1, <3>2, <3>3
  <2>3. J[1..k] = AddPiece(J[1..(k - 1)], q[k])
    BY <1>3, <2>1, <2>2
  <2>4. g[k] = J[1..k] /\ g[k - 1] = J[1..(k - 1)]
    BY <1>1
  <2> QED
    BY <2>3, <2>4
<1>6. \A k \in 0..n : k \in Q
  <2>1. 0 \in Q
    <3>1. <<>> \in Text
      BY DEF Text
    <3> HIDE DEF g
    <3> QED
      BY <1>1, <1>4, <3>1
  <2>2. \A k \in 0..n : k < n /\ k \in Q => k + 1 \in Q
    <3> SUFFICES ASSUME NEW k \in 0..n, k < n, k \in Q PROVE k + 1 \in Q
      OBVIOUS
    <3>1. k + 1 \in 0..n /\ k + 1 > 0 /\ (k + 1) - 1 = k /\ k + 1 \in 1..n
      BY <1>1
    <3>2. g[k + 1] = AddPiece(g[k], q[k + 1])
      <4> HIDE DEF g
      <4> QED
        BY <1>5, <3>1
    <3>3. g[k] \in Text /\ q[k + 1] \in Text
      BY <1>1, <3>1
    <3> HIDE DEF g
    <3> QED
      BY <3>1, <3>2, <3>3, AddIsText
  <2> HIDE DEF Q
  <2> QED
    BY <1>1, <2>1, <2>2, UpTo
<1>7. g \in [0..n -> Text]
  BY <1>6
<1>8. Joined(q) = g[n]
  BY <1>1, JoinedIsChosen DEF J
<1>9. JoinSteps(g, q)
  <2> HIDE DEF g
  <2> QED
    BY <1>4, <1>5, <1>7 DEF JoinSteps
<1> QED
  BY <1>8, <1>9

\* Two joins agree as long as their pieces do.
LEMMA StepsAgree ==
    ASSUME NEW q \in Seq(Text), NEW r \in Seq(Text), NEW g, NEW h,
           JoinSteps(g, q), JoinSteps(h, r), NEW n \in Nat,
           n <= Len(q), n <= Len(r), \A i \in 1..n : q[i] = r[i]
    PROVE  g[n] = h[n]
<1> DEFINE Q == {k \in 0..n : g[k] = h[k]}
<1>0. Len(q) \in Nat /\ Len(r) \in Nat
  OBVIOUS
<1>1. 0 \in Q
  BY DEF JoinSteps
<1>2. \A k \in 0..n : k < n /\ k \in Q => k + 1 \in Q
  <2> SUFFICES ASSUME NEW k \in 0..n, k < n, k \in Q PROVE k + 1 \in Q
    OBVIOUS
  <2>1. k + 1 \in 0..Len(q) /\ k + 1 \in 0..Len(r) /\ (k + 1) - 1 = k /\ k + 1 > 0
        /\ k + 1 \in 1..n /\ k + 1 \in 0..n
    BY <1>0
  <2>2. g[k + 1] = AddPiece(g[k], q[k + 1]) /\ h[k + 1] = AddPiece(h[k], r[k + 1])
    BY <2>1 DEF JoinSteps
  <2> QED
    BY <2>1, <2>2
<1>3. \A k \in 0..n : k \in Q
  <2> HIDE DEF Q
  <2> QED
    BY <1>1, <1>2, UpTo
<1> QED
  BY <1>3

LEMMA JoinedOfNone == Joined(<<>>) = <<>>
<1>1. PICK g : JoinSteps(g, <<>>) /\ Joined(<<>>) = g[Len(<<>>)]
  <2>1. <<>> \in Seq(Text)
    OBVIOUS
  <2> QED
    BY <2>1, JoinedInSteps
<1>2. Len(<<>>) = 0
  OBVIOUS
<1> QED
  BY <1>1, <1>2 DEF JoinSteps

LEMMA JoinedAppend ==
    ASSUME NEW q \in Seq(Text), NEW e \in Text
    PROVE  Joined(q) \in Text /\ Joined(Append(q, e)) = AddPiece(Joined(q), e)
<1> DEFINE r == Append(q, e)
           n == Len(q)
<1>1. /\ r \in Seq(Text) /\ Len(r) = n + 1 /\ n \in Nat
      /\ r[n + 1] = e /\ \A i \in 1..n : r[i] = q[i]
  OBVIOUS
<1>2. PICK g : JoinSteps(g, q) /\ Joined(q) = g[n]
  BY JoinedInSteps
<1> HIDE DEF r
<1>3. PICK h : JoinSteps(h, r) /\ Joined(r) = h[n + 1]
  BY <1>1, JoinedInSteps
<1>4. h[n] = g[n]
  BY <1>1, <1>2, <1>3, StepsAgree
<1>5. h[n + 1] = AddPiece(h[n], e)
  <2>1. n + 1 \in 0..Len(r) /\ (n + 1) - 1 = n /\ n + 1 > 0
    BY <1>1
  <2> QED
    BY <1>1, <1>3, <2>1 DEF JoinSteps
<1>6. g[n] \in Text
  BY <1>1, <1>2 DEF JoinSteps
<1> QED
  BY <1>2, <1>3, <1>4, <1>5, <1>6 DEF r

\* s is the beginning of t.
Begins(s, t) == Len(s) <= Len(t) /\ \A i \in 1..Len(s) : t[i] = s[i]

EndsInLetter(s) == s # <<>> => s[Len(s)][1] # 0

LEMMA AddBegins ==
    ASSUME NEW s \in Text, NEW p \in Text, NEW r \in Text, Begins(p, r)
    PROVE  Begins(s, AddPiece(s, p)) /\ Begins(AddPiece(s, p), AddPiece(s, r))
<1> USE DEF Text
<1>1. CASE s = <<>>
  <2>1. Len(s) = 0 /\ AddPiece(s, p) = p /\ AddPiece(s, r) = r /\ Len(p) \in Nat
    BY <1>1 DEF AddPiece
  <2> QED
    BY <2>1 DEF Begins
<1>2. CASE s # <<>>
  <2> DEFINE u == s \o Separator
  <2>1. AddPiece(s, p) = u \o p /\ AddPiece(s, r) = u \o r
    BY <1>2 DEF AddPiece
  <2>2. u \in Text /\ Len(u) = Len(s) + 2 /\ \A i \in 1..Len(s) : u[i] = s[i]
    <3>1. Separator \in Text /\ Len(Separator) = 2
      BY SeparatorIsText
    <3>2. /\ u \in Text /\ Len(u) = Len(s) + Len(Separator)
          /\ \A i \in 1..Len(s) + Len(Separator) :
               u[i] = IF i <= Len(s) THEN s[i] ELSE Separator[i - Len(s)]
      BY <3>1, ConcatProperties
    <3>3. Len(s) \in Nat
      OBVIOUS
    <3> QED
      BY <3>1, <3>2, <3>3
  <2> HIDE DEF u, Text
  <2>3. /\ Len(u \o p) = Len(u) + Len(p) /\ Len(u \o r) = Len(u) + Len(r)
        /\ \A i \in 1..Len(u) + Len(p) :
             (u \o p)[i] = IF i <= Len(u) THEN u[i] ELSE p[i - Len(u)]
        /\ \A i \in 1..Len(u) + Len(r) :
             (u \o r)[i] = IF i <= Len(u) THEN u[i] ELSE r[i - Len(u)]
    BY <2>2, ConcatProperties DEF Text
  <2>4. Len(s) \in Nat /\ Len(u) \in Nat /\ Len(p) \in Nat /\ Len(r) \in Nat
    BY <2>2 DEF Text
  <2>5. Begins(s, u \o p)
    BY <2>2, <2>3, <2>4 DEF Begins
  <2>6. \A i \in 1..Len(u) + Len(p) : (u \o r)[i] = (u \o p)[i]
    <3> SUFFICES ASSUME NEW i \in 1..Len(u) + Len(p)
                 PROVE  (u \o r)[i] = (u \o p)[i]
      OBVIOUS
    <3>1. Len(p) <= Len(r) /\ i \in 1..Len(u) + Len(r)
      BY <2>4 DEF Begins
    <3>2. CASE i <= Len(u)
      BY <2>3, <3>1, <3>2
    <3>3. CASE ~(i <= Len(u))
      <4>1. i - Len(u) \in 1..Len(p)
        BY <2>4, <3>3
      <4>2. r[i - Len(u)] = p[i - Len(u)]
        BY <4>1 DEF Begins
      <4>3. (u \o p)[i] = p[i - Len(u)]
        BY <2>3, <3>3
      <4>4. (u \o r)[i] = r[i - Len(u)]
        BY <2>3, <3>1, <3>3
      <4> QED
        BY <4>2, <4>3, <4>4
    <3> QED
      BY <3>2, <3>3
  <2>7. Begins(u \o p, u \o r)
    BY <2>3, <2>4, <2>6 DEF Begins
  <2> QED
    BY <2>1, <2>5, <2>7
<1> QED
  BY <1>1, <1>2

LEMMA BeginsTransitive ==
    ASSUME NEW s \in Text, NEW t \in Text, NEW u \in Text, Begins(s, t), Begins(t, u)
    PROVE  Begins(s, u)
<1>1. Len(s) \in Nat /\ Len(t) \in Nat /\ Len(u) \in Nat
  BY DEF Text
<1> QED
  BY <1>1 DEF Begins

\* What a join has come to is the beginning of what it comes to.
LEMMA StepsBegin ==
    ASSUME NEW q \in Seq(Text), NEW g, JoinSteps(g, q), NEW k \in 0..Len(q)
    PROVE  \A m \in 0..Len(q) : k <= m => Begins(g[k], g[m])
<1> DEFINE n == Len(q)
           Q == {m \in 0..n : k <= m => Begins(g[k], g[m])}
<1>0. n \in Nat /\ g \in [0..n -> Text]
  BY DEF JoinSteps
<1>1. \A m \in 0..n : Begins(g[m], g[m])
  BY <1>0 DEF Begins, Text
<1>2. 0 \in Q
  BY <1>0, <1>1
<1>3. \A m \in 0..n : m < n /\ m \in Q => m + 1 \in Q
  <2> SUFFICES ASSUME NEW m \in 0..n, m < n, m \in Q, k <= m + 1
               PROVE  Begins(g[k], g[m + 1])
    BY <1>0
  <2>1. m + 1 \in 0..n /\ (m + 1) - 1 = m /\ m + 1 > 0 /\ m + 1 \in 1..n
    BY <1>0
  <2>2. CASE k = m + 1
    BY <1>1, <2>1, <2>2
  <2>3. CASE k <= m
    <3>1. g[m + 1] = AddPiece(g[m], q[m + 1]) /\ q[m + 1] \in Text
      BY <2>1 DEF JoinSteps
    <3>2. g[m] \in Text /\ g[m + 1] \in Text /\ g[k] \in Text
      BY <1>0, <2>1
    <3>3. Begins(q[m + 1], q[m + 1])
      BY <3>1 DEF Begins, Text
    <3>4. Begins(g[m], g[m + 1])
      BY <3>1, <3>2, <3>3, AddBegins
    <3> QED
      BY <2>3, <3>2, <3>4, BeginsTransitive
  <2> QED
    BY <1>0, <2>2, <2>3
<1>4. \A m \in 0..n : m \in Q
  <2> HIDE DEF Q
  <2> QED
    BY <1>0, <1>2, <1>3, UpTo
<1> QED
  BY <1>4

LEMMA CutIsText ==
    ASSUME NEW s \in Text, NEW n \in Nat
    PROVE  /\ Cut(s, n) \in Text
           /\ Len(Cut(s, n)) = IF n < Len(s) THEN n ELSE Len(s)
           /\ Begins(Cut(s, n), s)
<1> DEFINE m == IF n < Len(s) THEN n ELSE Len(s)
<1>1. Len(s) \in Nat /\ m \in Nat /\ m <= Len(s)
  BY DEF Text
<1>2. Cut(s, n) = SubSeq(s, 1, m)
  BY DEF Cut
<1> HIDE DEF m
<1>3. \A i \in 1..m : s[i] \in Nat \X Nat
  BY <1>1 DEF Text
<1>4. /\ SubSeq(s, 1, m) \in Text
      /\ Len(SubSeq(s, 1, m)) = IF 1 <= m THEN m - 1 + 1 ELSE 0
      /\ \A i \in 1..m - 1 + 1 : SubSeq(s, 1, m)[i] = s[1 + i - 1]
  BY <1>1, <1>3, SubSeqProperties DEF Text
<1>5. Len(SubSeq(s, 1, m)) = m
  BY <1>1, <1>4
<1>6. \A i \in 1..m : SubSeq(s, 1, m)[i] = s[i]
  BY <1>1, <1>4
<1> QED
  BY <1>1, <1>2, <1>4, <1>5, <1>6 DEF Begins, m

\* What is left without a separator at the end.
LEMMA TailOff ==
    ASSUME NEW s \in Text, NEW t \in Text, Begins(s, t), EndsInLetter(s),
           \A j \in 1..Len(t) : j > Len(s) => t[j][1] = 0
    PROVE  WithoutTail(t) = s
<1> DEFINE m == Len(s)
           Kept == {i \in DOMAIN t : \E j \in i..Len(t) : t[j][1] # 0}
<1>1. m \in Nat /\ Len(t) \in Nat /\ m <= Len(t) /\ DOMAIN t = 1..Len(t)
  BY DEF Text, Begins
<1>2. Kept = 1..m
  <2>1. ASSUME NEW i \in 1..m PROVE i \in Kept
    <3>1. s # <<>> /\ t[m] = s[m] /\ m \in i..Len(t)
      BY <1>1, <2>1 DEF Begins
    <3> QED
      BY <1>1, <3>1 DEF EndsInLetter
  <2>2. ASSUME NEW i \in Kept PROVE i \in 1..m
    <3>1. PICK j \in i..Len(t) : t[j][1] # 0
      OBVIOUS
    <3>2. i \in 1..Len(t) /\ j \in 1..Len(t) /\ ~(j > m)
      BY <1>1, <3>1
    <3> QED
      BY <1>1, <3>2
  <2> QED
    BY <2>1, <2>2
<1>3. Cardinality(1..m) = m
  <2>1. m \in Int /\ 1 \in Int
    BY <1>1
  <2>2. Cardinality(1..m) = IF 1 > m THEN 0 ELSE m - 1 + 1
    BY <2>1, FS_Interval
  <2> QED
    BY <1>1, <2>2
<1>4. WithoutTail(t) = SubSeq(t, 1, m)
  BY <1>2, <1>3 DEF WithoutTail
<1>5. Cut(t, m) = SubSeq(t, 1, m)
  BY <1>1 DEF Cut
<1>6. Cut(t, m) \in Text /\ Len(Cut(t, m)) = m /\ Begins(Cut(t, m), t)
  BY <1>1, CutIsText
<1>7. \A i \in 1..Len(Cut(t, m)) : Cut(t, m)[i] = s[i]
  BY <1>1, <1>6 DEF Begins
<1>8. Cut(t, m) = s
  BY <1>6, <1>7, SeqEqual DEF Text
<1> QED
  BY <1>4, <1>5, <1>8

\* A beginning of the whole after which, up to the limit, there is nothing but
\* the separator.
LEMMA CutWhole ==
    ASSUME NEW s \in Text, NEW t \in Text, Begins(s, t), EndsInLetter(s),
           NEW n \in Nat, Len(s) <= n,
           \A j \in 1..Len(t) : j > Len(s) /\ j <= n => t[j][1] = 0
    PROVE  WithoutTail(Cut(t, n)) = s
<1> DEFINE c == Cut(t, n)
<1>1. c \in Text /\ Len(c) = (IF n < Len(t) THEN n ELSE Len(t)) /\ Begins(c, t)
  BY CutIsText
<1>2. Len(s) \in Nat /\ Len(t) \in Nat /\ Len(c) \in Nat /\ Len(c) <= n
      /\ Len(c) <= Len(t) /\ Len(s) <= Len(c)
  BY <1>1 DEF Text, Begins
<1> HIDE DEF c
<1>3. Begins(s, c)
  BY <1>1, <1>2 DEF Begins
<1>4. \A j \in 1..Len(c) : j > Len(s) => c[j][1] = 0
  BY <1>1, <1>2 DEF Begins
<1>5. WithoutTail(c) = s
  BY <1>1, <1>3, <1>4, TailOff
<1> QED
  BY <1>5 DEF c

ContextTypes ==
    /\ \E n \in 0..MaxBlocks : lengths \in [1..n -> 1..MaxLength]
    /\ limit \in Nat \ {0}
    /\ chunks \in Seq(Text) /\ Len(chunks) <= Len(lengths)
    /\ context \in Text
    /\ remaining \in Nat
    /\ stopped \in BOOLEAN

\* While the loop runs it has left out nothing.
ContextInv ==
    /\ ContextTypes
    /\ chunks = <<>> <=> context = <<>>
    /\ EndsInLetter(context)
    /\ ~stopped => \A i \in 1..Len(chunks) : chunks[i] = Block(i)
    /\ ChunksAreContext
    /\ ContextIsCutWhole

Whole == [i \in DOMAIN lengths |-> Block(i)]

LEMMA ConcatIsText ==
    ASSUME NEW s \in Text, NEW t \in Text
    PROVE  /\ s \o t \in Text
           /\ Len(s \o t) = Len(s) + Len(t)
           /\ Len(s) \in Nat /\ Len(t) \in Nat
           /\ \A i \in 1..Len(s) + Len(t) :
                (s \o t)[i] = IF i <= Len(s) THEN s[i] ELSE t[i - Len(s)]
BY ConcatProperties DEF Text

LEMMA LengthsAreSeq ==
    ASSUME ContextTypes
    PROVE  /\ Len(lengths) \in Nat /\ DOMAIN lengths = 1..Len(lengths)
           /\ \A i \in 1..Len(lengths) : lengths[i] \in Nat /\ lengths[i] > 0
<1>1. PICK n \in 0..MaxBlocks : lengths \in [1..n -> 1..MaxLength]
  BY DEF ContextTypes
<1>2. lengths \in Seq(Nat) /\ Len(lengths) = n
  BY <1>1, ContextAssumption
<1> QED
  BY <1>1, <1>2, ContextAssumption

LEMMA BlockIsText ==
    ASSUME ContextTypes, NEW i \in 1..Len(lengths)
    PROVE  /\ Block(i) \in Text /\ Len(Block(i)) = lengths[i]
           /\ \A j \in 1..lengths[i] : Block(i)[j][1] # 0
<1>1. lengths[i] \in Nat /\ i \in Nat /\ i # 0
  BY LengthsAreSeq
<1> DEFINE n == lengths[i]
           b == [j \in 1..n |-> <<i, j>>]
<1> HIDE DEF n
<1>2. b \in [1..n -> Nat \X Nat] /\ n \in Nat
  BY <1>1 DEF n
<1>3. b \in Seq(Nat \X Nat) /\ Len(b) = n
  <2> HIDE DEF b
  <2> QED
    BY <1>2
<1>4. \A j \in 1..n : b[j][1] # 0
  BY <1>1
<1>5. Block(i) = b
  BY DEF Block, n
<1> QED
  BY <1>3, <1>4, <1>5 DEF Text, n

LEMMA WholeIsPieces ==
    ASSUME ContextTypes
    PROVE  /\ Whole \in Seq(Text) /\ Len(Whole) = Len(lengths)
           /\ \A i \in 1..Len(lengths) : Whole[i] = Block(i)
<1> DEFINE n == Len(lengths)
<1>1. n \in Nat /\ DOMAIN lengths = 1..n
  BY LengthsAreSeq
<1>2. Whole = [i \in 1..n |-> Block(i)]
  BY <1>1 DEF Whole
<1>3. \A i \in 1..n : Block(i) \in Text
  BY BlockIsText
<1> HIDE DEF n
<1>4. Whole \in [1..n -> Text]
  BY <1>2, <1>3
<1>5. Whole \in Seq(Text) /\ Len(Whole) = n
  BY <1>1, <1>4
<1> QED
  BY <1>2, <1>5 DEF n

\* A running loop has a beginning of the whole; so is what the next block
\* makes of it.
LEMMA RunningBegins ==
    ASSUME ContextInv, ~stopped
    PROVE  /\ WholeContext \in Text
           /\ Len(chunks) = Len(lengths) => context = WholeContext
           /\ Len(chunks) < Len(lengths) =>
                Begins(AddPiece(context, Block(Len(chunks) + 1)), WholeContext)
<1> DEFINE n == Len(lengths)
           k == Len(chunks)
<1>1. ContextTypes
  BY DEF ContextInv
<1>2. n \in Nat /\ k \in Nat /\ k <= n /\ chunks \in Seq(Text)
  BY <1>1, LengthsAreSeq DEF ContextTypes
<1>3. Whole \in Seq(Text) /\ Len(Whole) = n /\ \A i \in 1..n : Whole[i] = Block(i)
  BY <1>1, WholeIsPieces
<1>4. WholeContext = Joined(Whole)
  BY DEF WholeContext, Whole
<1>5. PICK g : JoinSteps(g, Whole) /\ Joined(Whole) = g[n]
  BY <1>3, JoinedInSteps
<1>6. PICK h : JoinSteps(h, chunks) /\ Joined(chunks) = h[k]
  BY <1>2, JoinedInSteps
<1>7. context = h[k]
  BY <1>6 DEF ContextInv, ChunksAreContext
<1>8. h[k] = g[k]
  <2>1. \A i \in 1..k : chunks[i] = Whole[i]
    BY <1>2, <1>3 DEF ContextInv
  <2> HIDE DEF n, k
  <2>2. k <= Len(chunks) /\ k <= Len(Whole)
    BY <1>2, <1>3 DEF k
  <2> QED
    BY <1>2, <1>3, <1>5, <1>6, <2>1, <2>2, StepsAgree
<1>9. g \in [0..n -> Text]
  BY <1>3, <1>5 DEF JoinSteps
<1>10. ASSUME k < n
       PROVE  Begins(AddPiece(context, Block(k + 1)), g[n])
  <2>1. k + 1 \in 0..n /\ k + 1 > 0 /\ (k + 1) - 1 = k /\ k + 1 \in 1..n
    BY <1>2, <1>10
  <2>2. g[k + 1] = AddPiece(g[k], Block(k + 1))
    BY <1>3, <1>5, <2>1 DEF JoinSteps
  <2>3. Begins(g[k + 1], g[n])
    BY <1>2, <1>3, <1>5, <2>1, StepsBegin
  <2> QED
    BY <1>7, <1>8, <2>2, <2>3
<1> QED
  BY <1>2, <1>4, <1>5, <1>7, <1>8, <1>9, <1>10

\* What is spent of the budget and what remains of it.
LEMMA BudgetIsSplit ==
    ASSUME NEW spent \in Nat, NEW rest \in Nat, NEW total \in Nat
    PROVE  spent <= total /\ rest = total - spent <=> spent + rest = total
OBVIOUS

LEMMA AddBlockKeeps ==
    ASSUME ContextInv, AddBlock
    PROVE  ContextInv'
<1> DEFINE i == Len(chunks) + 1
           b == Block(i)
           chunk == Cut(b, Available)
           piece == AddPiece(context, chunk)
<1>1. ContextTypes /\ ~stopped /\ i \in 1..Len(lengths) /\ Available > 0
  <2>1. ContextTypes /\ ~stopped /\ i <= Len(lengths) /\ Available > 0
    BY DEF ContextInv, AddBlock, Index
  <2>2. Len(chunks) \in Nat /\ Len(lengths) \in Nat
    BY <2>1, LengthsAreSeq DEF ContextTypes
  <2> QED
    BY <2>1, <2>2
<1>2. /\ b \in Text /\ Len(b) = lengths[i] /\ lengths[i] \in Nat /\ lengths[i] > 0
      /\ \A j \in 1..lengths[i] : b[j][1] # 0
  BY <1>1, BlockIsText, LengthsAreSeq
<1>3. /\ Before = (IF context = <<>> THEN <<>> ELSE Separator)
      /\ Len(Before) \in Nat /\ Len(Before) <= remaining
      /\ Available = remaining - Len(Before) /\ Available \in Nat
      /\ Before \in Text
  <2>1. Before = (IF context = <<>> THEN <<>> ELSE Separator)
    BY DEF ContextInv, Before
  <2>2. Before \in Text /\ Len(Before) \in Nat
    BY <2>1, SeparatorIsText DEF Text
  <2>3. remaining \in Nat
    BY <1>1 DEF ContextTypes
  <2>4. remaining > Len(Before)
    BY <1>1 DEF Available
  <2>5. Available = remaining - Len(Before)
    BY <2>4 DEF Available
  <2> HIDE DEF i, b, chunk, piece
  <2>6. Len(Before) <= remaining /\ Available \in Nat
    BY <2>2, <2>3, <2>4, <2>5
  <2> QED
    BY <2>1, <2>2, <2>5, <2>6
<1>4. /\ chunk \in Text /\ Len(chunk) = (IF Available < lengths[i] THEN Available
                                         ELSE lengths[i])
      /\ Begins(chunk, b)
  BY <1>2, <1>3, CutIsText
<1>5. Len(chunk) \in Nat /\ Len(chunk) > 0 /\ Len(chunk) <= lengths[i]
      /\ Len(chunk) <= Available /\ chunk # <<>>
  <2>1. Len(chunk) \in Nat /\ Len(chunk) > 0 /\ Len(chunk) <= lengths[i]
        /\ Len(chunk) <= Available
    BY <1>1, <1>2, <1>3, <1>4
  <2>2. Len(<<>>) = 0
    OBVIOUS
  <2> QED
    BY <2>1, <2>2
<1>6. chunk[Len(chunk)][1] # 0
  BY <1>2, <1>4, <1>5 DEF Begins
<1>7. /\ chunks' = Append(chunks, chunk)
      /\ context' = context \o Before \o chunk
      /\ remaining' = remaining - Len(Before) - Len(chunk)
      /\ stopped' = (Len(chunk) < lengths[i] \/ remaining' = 0)
      /\ UNCHANGED <<lengths, limit>>
  BY DEF AddBlock, Index
<1>a. (stopped' => Len(chunk) < lengths[i] \/ remaining' = 0)
      /\ (~stopped' => ~(Len(chunk) < lengths[i]))
  BY DEF AddBlock, Index
<1> HIDE DEF chunk, b
<1>8. piece \in Text /\ context' = piece
  <2>1. context \in Text /\ piece \in Text
    BY <1>1, <1>4, AddIsText DEF ContextTypes
  <2>2. CASE context = <<>>
    BY <1>3, <1>4, <1>7, <2>1, <2>2 DEF AddPiece, Text
  <2>3. CASE context # <<>>
    <3>1. Before = Separator
      BY <1>3, <2>3
    <3>2. piece = context \o Separator \o chunk
      BY <2>3 DEF AddPiece
    <3> QED
      BY <1>7, <2>1, <3>1, <3>2
  <2> QED
    BY <2>1, <2>2, <2>3
<1>9. /\ Len(piece) = Len(context) + Len(Before) + Len(chunk)
      /\ Len(context) \in Nat
      /\ piece[Len(piece)] = chunk[Len(chunk)]
  <2>1. context \in Text /\ context \o Before \in Text
        /\ Len(context \o Before) = Len(context) + Len(Before)
    BY <1>1, <1>3, ConcatIsText DEF ContextTypes
  <2>2. Len(context) \in Nat /\ Len(context \o Before) \in Nat
    BY <2>1 DEF Text
  <2>3. /\ Len((context \o Before) \o chunk) = Len(context \o Before) + Len(chunk)
        /\ \A j \in 1..Len(context \o Before) + Len(chunk) :
             ((context \o Before) \o chunk)[j] =
               IF j <= Len(context \o Before) THEN (context \o Before)[j]
               ELSE chunk[j - Len(context \o Before)]
    BY <1>4, <2>1, ConcatIsText
  <2>4. ((context \o Before) \o chunk)[Len(context \o Before) + Len(chunk)]
          = chunk[Len(chunk)]
    BY <1>5, <2>2, <2>3
  <2> QED
    BY <1>7, <1>8, <2>1, <2>2, <2>3, <2>4
<1> HIDE DEF piece
<1>10. piece # <<>> /\ chunks' # <<>>
  <2>1. Len(piece) > 0
    BY <1>3, <1>5, <1>9
  <2>2. Len(chunks') = Len(chunks) + 1 /\ Len(chunks) \in Nat
    BY <1>1, <1>4, <1>7 DEF ContextTypes
  <2>3. Len(<<>>) = 0
    OBVIOUS
  <2> QED
    BY <2>1, <2>2, <2>3
<1>11. remaining' \in Nat
  <2>1. remaining \in Nat
    BY <1>1 DEF ContextTypes
  <2> QED
    BY <1>3, <1>5, <1>7, <2>1
<1>12. /\ chunks' \in Seq(Text) /\ Len(chunks') = i
       /\ \A j \in 1..Len(chunks') :
            chunks'[j] = IF j < i THEN chunks[j] ELSE chunk
  BY <1>1, <1>4, <1>7 DEF ContextTypes
<1>13. ContextTypes'
  BY <1>1, <1>7, <1>8, <1>11, <1>12 DEF ContextTypes
<1>14. EndsInLetter(context')
  BY <1>6, <1>8, <1>9 DEF EndsInLetter
<1>15. ~stopped' => \A j \in 1..Len(chunks') : chunks'[j] = Block(j)'
  <2> SUFFICES ASSUME ~stopped', NEW j \in 1..i PROVE chunks'[j] = Block(j)
    BY <1>7, <1>12 DEF Block
  <2>1. CASE j < i
    <3>1. j \in 1..Len(chunks)
      BY <1>1, <2>1 DEF ContextTypes
    <3> QED
      BY <1>1, <1>12, <2>1, <3>1 DEF ContextInv
  <2>2. CASE j = i
    <3>1. Len(chunk) = Len(b)
      BY <1>2, <1>5, <1>a
    <3>2. \A x \in 1..Len(chunk) : chunk[x] = b[x]
      BY <1>4 DEF Begins
    <3>3. chunk = b
      BY <1>2, <1>4, <3>1, <3>2, SeqEqual DEF Text
    <3> QED
      BY <1>1, <1>12, <2>2, <3>3 DEF b
  <2> QED
    BY <1>1, <2>1, <2>2
<1>16. ChunksAreContext'
  <2>1. Joined(chunks') = AddPiece(Joined(chunks), chunk)
    BY <1>1, <1>4, <1>7, JoinedAppend DEF ContextTypes
  <2>2. remaining \in Nat /\ limit \in Nat
    BY <1>1 DEF ContextTypes
  <2>3. Joined(chunks) = context /\ Len(context) + remaining = limit
    BY <1>9, <2>2, BudgetIsSplit DEF ContextInv, ChunksAreContext
  <2>4. Len(piece) + remaining' = limit /\ Len(piece) \in Nat
    <3>1. /\ Len(context) \in Nat /\ Len(Before) \in Nat /\ Len(chunk) \in Nat
          /\ Len(piece) = Len(context) + Len(Before) + Len(chunk)
      BY <1>3, <1>5, <1>9
    <3>2. remaining' = remaining - Len(Before) - Len(chunk)
      BY <1>7
    <3> QED
      BY <2>2, <2>3, <3>1, <3>2
  <2>5. Len(piece) <= limit /\ remaining' = limit - Len(piece)
    BY <1>11, <2>2, <2>4, BudgetIsSplit
  <2>6. Joined(chunks') = piece
    BY <2>1, <2>3 DEF piece
  <2> QED
    BY <1>7, <1>8, <2>5, <2>6, Zenon DEF ChunksAreContext
<1>17. ContextIsCutWhole'
  <2> SUFFICES ASSUME stopped'
               PROVE  piece = WithoutTail(Cut(WholeContext, limit))
    BY <1>7, <1>8 DEF ContextIsCutWhole, WholeContext, Block
  <2>1. remaining' = 0
    <3>1. remaining \in Nat
      BY <1>1 DEF ContextTypes
    <3> QED
      BY <1>2, <1>3, <1>4, <1>5, <1>7, <1>a, <3>1
  <2>2. Len(piece) = limit /\ limit \in Nat
    <3>1. limit \in Nat /\ Len(piece) \in Nat
      BY <1>1, <1>3, <1>5, <1>9 DEF ContextTypes
    <3>2. 0 = limit - Len(piece)
      BY <1>7, <1>8, <1>16, <2>1 DEF ChunksAreContext
    <3> QED
      BY <3>1, <3>2
  <2>3. WholeContext \in Text /\ Begins(AddPiece(context, b), WholeContext)
    BY <1>1, RunningBegins DEF b, ContextTypes
  <2>4. Begins(piece, AddPiece(context, b)) /\ AddPiece(context, b) \in Text
    BY <1>1, <1>2, <1>4, AddBegins, AddIsText DEF piece, ContextTypes
  <2>5. Begins(piece, WholeContext)
    BY <1>8, <2>3, <2>4, BeginsTransitive
  <2>6. EndsInLetter(piece)
    BY <1>8, <1>14
  <2>7. \A j \in 1..Len(WholeContext) :
          j > Len(piece) /\ j <= limit => WholeContext[j][1] = 0
    BY <2>2
  <2> QED
    BY <1>8, <2>2, <2>3, <2>5, <2>6, <2>7, CutWhole
<1> QED
  BY <1>8, <1>10, <1>13, <1>14, <1>15, <1>16, <1>17 DEF ContextInv

LEMMA EndLoopKeeps ==
    ASSUME ContextInv, EndLoop
    PROVE  ContextInv'
<1>1. ContextTypes /\ ~stopped /\ stopped' = TRUE
      /\ UNCHANGED <<lengths, limit, chunks, context, remaining>>
  BY DEF ContextInv, EndLoop
<1>2. ContextTypes'
  BY <1>1 DEF ContextTypes
<1>3. WholeContext \in Text /\ context \in Text /\ EndsInLetter(context)
  BY <1>1, RunningBegins DEF ContextInv, ContextTypes
<1>4. /\ Len(context) \in Nat /\ remaining \in Nat /\ limit \in Nat \ {0}
      /\ Len(context) + remaining = limit /\ Len(chunks) \in Nat
      /\ Len(lengths) \in Nat /\ Len(chunks) <= Len(lengths)
      /\ Len(WholeContext) \in Nat
  BY <1>1, <1>3, LengthsAreSeq DEF ContextInv, ContextTypes, ChunksAreContext, Text
<1>5. context = WithoutTail(Cut(WholeContext, limit))
  <2>1. CASE Len(chunks) = Len(lengths)
    <3>1. context = WholeContext
      BY <1>1, <2>1, RunningBegins
    <3>2. Begins(context, context)
      BY <1>4 DEF Begins
    <3>3. \A j \in 1..Len(WholeContext) :
            j > Len(context) /\ j <= limit => WholeContext[j][1] = 0
      BY <1>4, <3>1
    <3> QED
      BY <1>3, <1>4, <3>1, <3>2, <3>3, CutWhole
  <2>2. CASE Len(chunks) < Len(lengths)
    <3> DEFINE b == Block(Len(chunks) + 1)
    <3>1. Available = 0
      BY <1>4, <2>2 DEF EndLoop, Index
    <3>2. chunks # <<>> /\ remaining <= 2
      <4>1. Len(<<>>) = 0 /\ Len(Separator) = 2
        BY SeparatorIsText
      <4>2. Len(Before) \in Nat /\ remaining <= Len(Before)
        <5>1. Len(Before) \in Nat
          BY <4>1 DEF Before
        <5> HIDE DEF b
        <5> QED
          BY <1>4, <3>1, <5>1 DEF Available
      <4>3. CASE chunks = <<>>
        <5>1. Len(context) = 0 /\ Len(Before) = 0
          BY <4>1, <4>3 DEF Before, ContextInv
        <5> HIDE DEF b
        <5> QED
          BY <1>4, <4>2, <5>1
      <4>4. CASE chunks # <<>>
        BY <4>1, <4>2, <4>4 DEF Before
      <4> QED
        BY <4>3, <4>4
    <3>3. b \in Text
      <4>1. Len(chunks) + 1 \in 1..Len(lengths)
        BY <1>4, <2>2
      <4> QED
        BY <1>1, <4>1, BlockIsText
    <3>4. AddPiece(context, b) = (context \o Separator) \o b
      BY <3>2 DEF AddPiece, ContextInv
    <3>5. Begins(AddPiece(context, b), WholeContext)
      BY <1>1, <2>2, RunningBegins
    <3> HIDE DEF b
    <3>6. /\ context \o Separator \in Text
          /\ Len(context \o Separator) = Len(context) + 2
          /\ \A j \in 1..Len(context) + 2 :
               (context \o Separator)[j] = IF j <= Len(context) THEN context[j]
                                           ELSE Separator[j - Len(context)]
      <4>1. Separator \in Text /\ Len(Separator) = 2
        BY SeparatorIsText
      <4>2. /\ context \o Separator \in Text
            /\ Len(context \o Separator) = Len(context) + Len(Separator)
            /\ \A j \in 1..Len(context) + Len(Separator) :
                 (context \o Separator)[j] = IF j <= Len(context) THEN context[j]
                                             ELSE Separator[j - Len(context)]
        BY <1>3, <4>1, ConcatIsText
      <4> QED
        BY <4>1, <4>2
    <3>7. /\ Len((context \o Separator) \o b) = Len(context) + 2 + Len(b)
          /\ \A j \in 1..Len(context) + 2 + Len(b) : j <= Len(context) + 2 =>
               ((context \o Separator) \o b)[j] = (context \o Separator)[j]
      <4>1. Len(context) + 2 \in Nat
        BY <1>4
      <4> QED
        BY <3>3, <3>6, <4>1, ConcatIsText
    <3>8. Len(b) \in Nat
      BY <3>3 DEF Text
    <3>9. Begins(context, WholeContext)
      BY <1>4, <3>4, <3>5, <3>6, <3>7, <3>8 DEF Begins
    <3>10. ASSUME NEW j \in 1..Len(WholeContext), j > Len(context), j <= limit
           PROVE  WholeContext[j][1] = 0
      <4>1. j <= Len(context) + 2 /\ j \in 1..Len(context) + 2
            /\ j \in 1..Len(context) + 2 + Len(b)
        BY <1>4, <3>2, <3>8, <3>10
      <4>2. WholeContext[j] = Separator[j - Len(context)]
        BY <1>4, <3>4, <3>5, <3>6, <3>7, <3>10, <4>1 DEF Begins
      <4>3. j - Len(context) \in {1, 2}
        BY <1>4, <3>10, <4>1
      <4> QED
        BY <4>2, <4>3, SeparatorIsText
    <3> QED
      BY <1>3, <1>4, <3>9, <3>10, CutWhole
  <2> QED
    BY <1>4, <2>1, <2>2
<1>6. ChunksAreContext' /\ ContextIsCutWhole'
  BY <1>1, <1>5
  DEF ContextInv, ChunksAreContext, ContextIsCutWhole, WholeContext, Block
<1> QED
  BY <1>1, <1>2, <1>6 DEF ContextInv

LEMMA ContextInitHolds == ContextInit => ContextInv
<1> SUFFICES ASSUME ContextInit PROVE ContextInv
  OBVIOUS
<1>1. PICK n \in 0..MaxBlocks : lengths \in [1..n -> 1..MaxLength]
  BY DEF ContextInit
<1>2. Len(lengths) \in Nat
  <2>1. lengths \in Seq(Nat)
    BY <1>1, ContextAssumption
  <2> QED
    BY <2>1
<1>3. chunks = <<>> /\ context = <<>> /\ Len(<<>>) = 0 /\ stopped = FALSE
      /\ remaining = limit /\ limit \in Nat \ {0}
  BY ContextAssumption DEF ContextInit
<1>4. ContextTypes
  <2>1. <<>> \in Text /\ <<>> \in Seq(Text)
    BY DEF Text
  <2>2. Len(chunks) <= Len(lengths)
    BY <1>2, <1>3
  <2> QED
    BY <1>1, <1>3, <2>1, <2>2 DEF ContextTypes
<1>5. ChunksAreContext
  <2>1. Len(context) = 0
    BY <1>3
  <2>2. Len(context) <= limit /\ remaining = limit - Len(context)
    BY <1>3, <2>1
  <2> QED
    BY <1>3, <2>2, JoinedOfNone DEF ChunksAreContext
<1> QED
  BY <1>3, <1>4, <1>5 DEF ContextInv, EndsInLetter, ContextIsCutWhole

LEMMA ContextStepKeeps == ASSUME ContextInv, [ContextNext]_contextVars PROVE ContextInv'
<1>1. CASE UNCHANGED contextVars
  BY <1>1 DEF contextVars, ContextInv, ContextTypes, ChunksAreContext,
              ContextIsCutWhole, WholeContext, Block
<1> QED
  BY <1>1, AddBlockKeeps, EndLoopKeeps DEF ContextNext

LEMMA ContextInvariant == ContextSpec => []ContextInv
BY ContextInitHolds, ContextStepKeeps, PTL DEF ContextSpec

\* The context of the prompt is all retrieved chunks joined, cut at
\* RAG_MAX_CONTEXT_CHARS, for any number and lengths of chunks and any limit
\* (prompts.py:52-85).
THEOREM ContextIsWhole == ContextSpec => []ContextIsCutWhole
<1>1. ContextInv => ContextIsCutWhole
  BY DEF ContextInv
<1> QED
  BY <1>1, ContextInvariant, PTL

\* The chunks a response returns are, joined, what the prompt holds, no more than
\* RAG_MAX_CONTEXT_CHARS, at every turn of the loop (prompts.py:62-83).
THEOREM ReturnedChunksAreContext == ContextSpec => []ChunksAreContext
<1>1. ContextInv => ChunksAreContext
  BY DEF ContextInv
<1> QED
  BY <1>1, ContextInvariant, PTL

=============================================================================
