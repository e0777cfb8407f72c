----------------------------- MODULE Supervisor -----------------------------
(***************************************************************************)
(* The renderer supervisor of kwe-daemon (crates/kwe-daemon/src/           *)
(* supervisor.rs): one thread that owns every renderer process.  It keeps  *)
(* an active worker (the display source), at most one candidate in canary, *)
(* and, between a promotion and the display's acknowledgement, the retired *)
(* previous worker.                                                        *)
(*                                                                         *)
(* The thread's loop takes one command or times out, then ticks.  A tick   *)
(* is four ordered stages (handoff deadline, pending restart, active       *)
(* inspection, candidate inspection); "loop" is the program counter, so    *)
(* every stage is an action and no command runs between two stages.        *)
(*                                                                         *)
(* Abstracted: a StartSpec is its quarantine identity (id:hash:kind); a    *)
(* clock that has or has not passed a deadline is a choice; failure        *)
(* details, counters shown only in status, and the input, audio and media  *)
(* pipes are left out.  Legacy id:hash records are left out: a state file  *)
(* written by the running build holds none, and any other file's records   *)
(* are dropped when it is opened.                                          *)
(***************************************************************************)
EXTENDS Naturals, FiniteSets

CONSTANTS
  Specs,         \* quarantine identities a client may start
  NoSpec,
  Pids,          \* process ids the kernel hands out
  NoPid,
  MaxFailures,   \* config.max_failures: strikes that quarantine
  MaxRecords,    \* MAX_RECORDS: failure records kept
  CanaryFrames,  \* frames a candidate must advance before promotion (3)
  GenMax,        \* largest display generation (2^64 - 1)
  SaveOutcomes   \* what a write of the state file may do, see Saved

ASSUME SpecsAssumption == NoSpec \notin Specs
ASSUME PidsAssumption == NoPid \notin Pids
ASSUME BoundsAssumption ==
  /\ MaxFailures \in Nat \ {0}
  /\ MaxRecords \in Nat \ {0}
  /\ CanaryFrames \in Nat \ {0}
  /\ GenMax \in Nat \ {0, 1}
ASSUME SaveAssumption ==
  "saved" \in SaveOutcomes /\ SaveOutcomes \subseteq {"saved", "lost", "unsynced"}

VARIABLES
  loop,        \* the stage the supervisor thread is in
  active,      \* the promoted worker
  candidate,   \* the worker in canary
  retired,     \* the previous worker of an unacknowledged handoff
  pending,     \* the spec of a delayed restart
  requested,   \* the spec status() reports as requested
  phase,       \* WorkerPhase
  displayGeneration,
  records,     \* strikes per identity, 0 when there is no record
  lastGood,    \* the identity whose still is the static fallback
  stored,      \* the state file: [records, lastGood]
  children     \* worker processes spawned and not reaped

persisted == <<records, lastGood, stored>>
vars == <<loop, active, candidate, retired, pending, requested, phase,
          displayGeneration, persisted, children>>

Phases == {"Idle", "Starting", "Canary", "Live", "Restarting", "AwaitingAck",
           "RolledBack", "Stopped", "Quarantined"}

Worker == [pid : Pids, spec : Specs, frames : 0..CanaryFrames]
NoWorker == [pid |-> NoPid, spec |-> NoSpec, frames |-> 0]

Handoff == [worker : Worker, generation : 1..GenMax]
NoHandoff == [worker |-> NoWorker, generation |-> 0]

NoRecords == [s \in Specs |-> 0]

TypeOK ==
  /\ loop \in {"command", "deadline", "spawn", "active", "candidate", "exited"}
  /\ active \in Worker \cup {NoWorker}
  /\ candidate \in Worker \cup {NoWorker}
  /\ retired \in Handoff \cup {NoHandoff}
  /\ pending \in Specs \cup {NoSpec}
  /\ requested \in Specs \cup {NoSpec}
  /\ phase \in Phases
  /\ displayGeneration \in 0..GenMax
  /\ records \in [Specs -> Nat]
  /\ lastGood \in Specs \cup {NoSpec}
  /\ stored \in [records : [Specs -> Nat], lastGood : Specs \cup {NoSpec}]
  /\ children \subseteq Pids

-----------------------------------------------------------------------------
(* Helpers.                                                                *)

Advance(stage, next) == loop = stage /\ loop' = next

\* wrapping_add(1).max(1)
NextGeneration(g) == IF g = GenMax THEN 1 ELSE g + 1

Launched(p, s) == [pid |-> p, spec |-> s, frames |-> 0]

\* A write of the state file: "saved" returns Ok; "lost" returns Err with the
\* old file in place; "unsynced" returns Err after the rename took effect (the
\* directory fsync of atomic_write failed), so the new contents are there.
Saved(outcome, recs, still, old) ==
  IF outcome = "lost" THEN old ELSE [records |-> recs, lastGood |-> still]

Quarantined(recs, s) == recs[s] >= MaxFailures

\* record_failure: an identity that has no record takes a free slot or evicts
\* the record with the smallest stamp.  Stamps are wall-clock seconds: they tie
\* and may step back, so any record can carry the smallest one.
Evictions(recs, s) ==
  LET held == {k \in Specs : recs[k] > 0}
  IN  IF s \notin held /\ Cardinality(held) >= MaxRecords
      THEN {[recs EXCEPT ![k] = 0] : k \in held}
      ELSE {recs}

Struck(recs, s) == {[kept EXCEPT ![s] = @ + 1] : kept \in Evictions(recs, s)}

\* "recs" and "base" are the records and the state file the strike finds; its
\* save is best-effort.
RecordFailure(s, recs, base) ==
  /\ records' \in Struck(recs, s)
  /\ \E outcome \in SaveOutcomes :
       stored' = Saved(outcome, records', lastGood, base)
  /\ UNCHANGED lastGood

\* handle_candidate_failure, the refusal (exit 73 or 74): no strike, no restart.
\* "source" is the active worker the handler sees.
Refusal(s, source) ==
  /\ pending' = NoSpec
  /\ requested' = s
  /\ phase' = IF source # NoWorker THEN "RolledBack" ELSE "Stopped"
  /\ UNCHANGED persisted

\* Mutant of CandidateStrike: the strike being recorded does not count yet.
CandidateStrikeLate(s, source, recs, base) ==
  /\ RecordFailure(s, recs, base)
  /\ IF Quarantined(recs, s)
     THEN /\ phase' = IF source # NoWorker THEN "RolledBack" ELSE "Quarantined"
          /\ pending' = NoSpec
     ELSE phase' = "Restarting" /\ pending' = s

\* handle_candidate_failure, every other failure: a strike, then quarantine or
\* a delayed restart.
CandidateStrike(s, source, recs, base) ==
  /\ RecordFailure(s, recs, base)
  /\ IF Quarantined(records', s)
     THEN /\ phase' = IF source # NoWorker THEN "RolledBack" ELSE "Quarantined"
          /\ pending' = NoSpec
     ELSE phase' = "Restarting" /\ pending' = s

\* spawn_worker: the new process runs next to those still alive.
Spawn(s, survivors) ==
  \E p \in Pids \ survivors :
    /\ candidate' = Launched(p, s)
    /\ children' = survivors \cup {p}
    /\ phase' = IF active # NoWorker THEN "Canary" ELSE "Starting"

\* Mutants of AfterStopCandidate: the candidate is dropped without being
\* reaped; the active worker is stopped with it.
AfterDropCandidate == children
AfterStopBoth == children \ {candidate.pid, active.pid}

\* stop_candidate: what is left of the worker processes.
AfterStopCandidate == children \ {candidate.pid}

\* stop_all
StopAll ==
  /\ active' = NoWorker
  /\ candidate' = NoWorker
  /\ retired' = NoHandoff
  /\ children' = children \ {active.pid, candidate.pid, retired.worker.pid}

\* Mutants of CommitFallback: the cleared record is never saved; the handoff
\* is settled without a still.
CommitWithoutSave(s) ==
  /\ lastGood' = s
  /\ records' = [records EXCEPT ![s] = 0]
  /\ stored' = [records |-> records, lastGood |-> s]

CommitWithoutStill(s) ==
  /\ records' = [records EXCEPT ![s] = 0]
  /\ stored' = [stored EXCEPT !.records = records']
  /\ UNCHANGED lastGood

\* persist_last_good returning Ok, then clear_success_record with its
\* best-effort save: the first promotion, or the handoff, commits.
CommitFallback(s) ==
  /\ lastGood' = s
  /\ records' = [records EXCEPT ![s] = 0]
  /\ \E outcome \in SaveOutcomes :
       stored' = Saved(outcome, records', s, [records |-> records, lastGood |-> s])

\* persist_last_good returning Err: memory keeps the old fallback, the file
\* ends with one of these contents.
FailedSaves(s) == {Saved(outcome, records, s, stored) : outcome \in SaveOutcomes \ {"saved"}}

\* Mutant of MayStart: a start does not wait for the handoff.
MayAlwaysStart == TRUE

\* start_selected bails out while a handoff is unacknowledged.
MayStart == retired = NoHandoff

\* Mutant of HandoffDue: the deadline waits for a restart to be pending.
HandoffDueWithRestart == retired # NoHandoff /\ pending # NoSpec

HandoffDue == retired # NoHandoff

\* Mutant of RestartDue: only a restart over a live source is spawned.
RestartDueOverSource == candidate = NoWorker /\ pending # NoSpec /\ active # NoWorker

RestartDue == candidate = NoWorker /\ pending # NoSpec

\* Mutant of PreviousRestored: the restored source keeps the generation.
PreviousRestoredSilently ==
  /\ active' = retired.worker
  /\ retired' = NoHandoff
  /\ children' = children \ {active.pid}
  /\ UNCHANGED displayGeneration

\* The rollback of an open handoff: the promoted worker is stopped and the
\* previous one is the source again, under a new generation.
PreviousRestored ==
  /\ active' = retired.worker
  /\ retired' = NoHandoff
  /\ children' = children \ {active.pid}
  /\ displayGeneration' = NextGeneration(displayGeneration)

\* Mutant of AckPhase: a running candidate is overlooked.
AckPhaseAnyCandidate == IF active # NoWorker THEN "Live" ELSE phase

\* The phase an accepted acknowledgement leaves.
AckPhase == IF active # NoWorker /\ candidate = NoWorker THEN "Live" ELSE phase

-----------------------------------------------------------------------------
(* Commands.                                                               *)

\* recv_timeout elapsed, or a command that only reads (Status, QuarantinedIds).
PollTimeout ==
  /\ Advance("command", "deadline")
  /\ UNCHANGED <<active, candidate, retired, pending, requested, phase,
                 displayGeneration, persisted, children>>

StartRefusedByHandoff ==
  /\ Advance("command", "deadline")
  /\ ~MayStart
  /\ UNCHANGED <<active, candidate, retired, pending, requested, phase,
                 displayGeneration, persisted, children>>

\* start_selected of a quarantined identity: nothing is launched.
StartQuarantined(s) ==
  /\ Advance("command", "deadline")
  /\ MayStart
  /\ Quarantined(records, s)
  /\ candidate' = NoWorker
  /\ children' = AfterStopCandidate
  /\ pending' = NoSpec
  /\ requested' = s
  /\ phase' = IF active # NoWorker THEN "RolledBack" ELSE "Quarantined"
  /\ UNCHANGED <<active, retired, displayGeneration, persisted>>

\* start_selected of an identity that may run: the candidate and the pending
\* restart give way to a new candidate.
Start(s) ==
  /\ Advance("command", "deadline")
  /\ MayStart
  /\ ~Quarantined(records, s)
  /\ Spawn(s, AfterStopCandidate)
  /\ pending' = NoSpec
  /\ requested' = s
  /\ UNCHANGED <<active, retired, displayGeneration, persisted>>

\* start_selected when spawn_worker fails (LaunchFailed).
StartLaunchFails(s) ==
  /\ Advance("command", "deadline")
  /\ MayStart
  /\ ~Quarantined(records, s)
  /\ candidate' = NoWorker
  /\ children' = AfterStopCandidate
  /\ requested' = s
  /\ CandidateStrike(s, active, records, stored)
  /\ UNCHANGED <<active, retired, displayGeneration>>

Cleared(s) == [records EXCEPT ![s] = 0]

\* start_selected with clear_failure: the record is dropped and saved first.
Retry(s) ==
  /\ Advance("command", "deadline")
  /\ MayStart
  /\ records' = Cleared(s)
  /\ stored' = [records |-> Cleared(s), lastGood |-> lastGood]
  /\ Spawn(s, AfterStopCandidate)
  /\ pending' = NoSpec
  /\ requested' = s
  /\ UNCHANGED <<active, retired, displayGeneration, lastGood>>

RetryLaunchFails(s) ==
  /\ Advance("command", "deadline")
  /\ MayStart
  /\ candidate' = NoWorker
  /\ children' = AfterStopCandidate
  /\ requested' = s
  /\ CandidateStrike(s, active, Cleared(s), [records |-> Cleared(s), lastGood |-> lastGood])
  /\ UNCHANGED <<active, retired, displayGeneration>>

\* Retry whose save fails: the command returns after the candidate was stopped
\* and the restart dropped, before requested and phase are assigned.
RetrySaveFails(s) ==
  /\ Advance("command", "deadline")
  /\ MayStart
  /\ records' = Cleared(s)
  /\ \E outcome \in SaveOutcomes \ {"saved"} :
       stored' = Saved(outcome, Cleared(s), lastGood, stored)
  /\ candidate' = NoWorker
  /\ children' = AfterStopCandidate
  /\ pending' = NoSpec
  /\ UNCHANGED <<active, retired, requested, phase, displayGeneration, lastGood>>

\* stop_selected; the save's error is only reported.
Stop ==
  /\ Advance("command", "deadline")
  /\ StopAll
  /\ pending' = NoSpec
  /\ phase' = "Stopped"
  /\ \E outcome \in SaveOutcomes :
       stored' = Saved(outcome, records, lastGood, stored)
  /\ UNCHANGED <<requested, displayGeneration, records, lastGood>>

ExpectedGeneration ==
  IF retired # NoHandoff THEN retired.generation ELSE displayGeneration

\* acknowledge_display with any other generation.
AckMismatch(g) ==
  /\ Advance("command", "deadline")
  /\ g # ExpectedGeneration
  /\ UNCHANGED <<active, candidate, retired, pending, requested, phase,
                 displayGeneration, persisted, children>>

\* acknowledge_display of the handoff.  Its branch for a handoff without an
\* active worker needs a state HandoffShape excludes.
AckCommits(g) ==
  /\ Advance("command", "deadline")
  /\ retired # NoHandoff /\ g = ExpectedGeneration
  /\ CommitFallback(active.spec)
  /\ retired' = NoHandoff
  /\ children' = children \ {retired.worker.pid}
  /\ phase' = AckPhase
  /\ UNCHANGED <<active, candidate, pending, requested, displayGeneration>>

\* persist_last_good fails: the handoff stays unacknowledged.
AckPersistFails(g) ==
  /\ Advance("command", "deadline")
  /\ retired # NoHandoff /\ g = ExpectedGeneration
  /\ stored' \in FailedSaves(active.spec)
  /\ UNCHANGED <<active, candidate, retired, pending, requested, phase,
                 displayGeneration, records, lastGood, children>>

\* The current generation acknowledged when no handoff is open: a repeat, or an
\* answer that arrives after the deadline committed.
AckRepeated(g) ==
  /\ Advance("command", "deadline")
  /\ retired = NoHandoff /\ g = ExpectedGeneration
  /\ phase' = AckPhase
  /\ UNCHANGED <<active, candidate, retired, pending, requested,
                 displayGeneration, persisted, children>>

-----------------------------------------------------------------------------
(* The stages of tick.                                                     *)

\* No handoff is open, or its deadline has not passed.
BeforeDeadline ==
  /\ Advance("deadline", "spawn")
  /\ UNCHANGED <<active, candidate, retired, pending, requested, phase,
                 displayGeneration, persisted, children>>

\* complete_handoff_timeout: the same commit an acknowledgement makes.
TimeoutCommits ==
  /\ Advance("deadline", "spawn")
  /\ HandoffDue
  /\ CommitFallback(active.spec)
  /\ retired' = NoHandoff
  /\ children' = children \ {retired.worker.pid}
  /\ phase' = "Live"
  /\ UNCHANGED <<active, candidate, pending, requested, displayGeneration>>

\* complete_handoff_timeout when the still cannot be saved: the previous worker
\* is the source again and the promoted one is struck.
TimeoutRollsBack ==
  /\ Advance("deadline", "spawn")
  /\ HandoffDue
  /\ \E base \in FailedSaves(active.spec) :
       CandidateStrike(active.spec, retired.worker, records, base)
  /\ PreviousRestored
  /\ UNCHANGED <<candidate, requested>>

\* A candidate is running, or no restart is due.
NothingDue ==
  /\ Advance("spawn", "active")
  /\ UNCHANGED <<active, candidate, retired, pending, requested, phase,
                 displayGeneration, persisted, children>>

SpawnPending ==
  /\ Advance("spawn", "active")
  /\ RestartDue
  /\ Spawn(pending, children)
  /\ pending' = NoSpec
  /\ UNCHANGED <<active, retired, requested, displayGeneration, persisted>>

SpawnPendingFails ==
  /\ Advance("spawn", "active")
  /\ RestartDue
  /\ CandidateStrike(pending, active, records, stored)
  /\ UNCHANGED <<active, candidate, retired, requested, displayGeneration, children>>

\* inspect_worker of the active worker saw nothing, or a frame that is not saved.
ActiveQuiet ==
  /\ Advance("active", "candidate")
  /\ UNCHANGED <<active, candidate, retired, pending, requested, phase,
                 displayGeneration, persisted, children>>

\* Mutant of MaySnapshot: the periodic save ignores an open handoff.
MaySnapshotInHandoff == active # NoWorker

MaySnapshot == active # NoWorker /\ retired = NoHandoff

\* A new frame, a snapshot interval after the last saved one: no handoff may be
\* open; an error is only logged.
ActiveSnapshot ==
  /\ Advance("active", "candidate")
  /\ MaySnapshot
  /\ \/ /\ lastGood' = active.spec
        /\ stored' = [records |-> records, lastGood |-> active.spec]
     \/ /\ stored' \in FailedSaves(active.spec)
        /\ UNCHANGED lastGood
  /\ UNCHANGED <<active, candidate, retired, pending, requested, phase,
                 displayGeneration, records, children>>

\* handle_active_failure before the acknowledgement: the previous worker is the
\* source again.
ActiveFailsInHandoff ==
  /\ Advance("active", "candidate")
  /\ retired # NoHandoff
  /\ RecordFailure(active.spec, records, stored)
  /\ PreviousRestored
  /\ requested' = active.spec
  /\ IF Quarantined(records', active.spec)
     THEN phase' = "RolledBack" /\ pending' = NoSpec
     ELSE phase' = "Restarting" /\ pending' = active.spec
  /\ UNCHANGED candidate

\* handle_active_failure of a settled worker.  The quarantine branch leaves the
\* pending restart as it is.
ActiveFails ==
  /\ Advance("active", "candidate")
  /\ active # NoWorker /\ retired = NoHandoff
  /\ RecordFailure(active.spec, records, stored)
  /\ active' = NoWorker
  /\ children' = children \ {active.pid}
  /\ \/ /\ candidate # NoWorker
        /\ phase' = "Starting"
        /\ UNCHANGED <<pending, requested>>
     \/ /\ candidate = NoWorker /\ Quarantined(records', active.spec)
        /\ requested' = active.spec
        /\ phase' = "Quarantined"
        /\ UNCHANGED pending
     \/ /\ candidate = NoWorker /\ ~Quarantined(records', active.spec)
        /\ requested' = active.spec
        /\ phase' = "Restarting"
        /\ pending' = active.spec
  /\ UNCHANGED <<candidate, retired, displayGeneration>>

CandidateQuiet ==
  /\ Advance("candidate", "command")
  /\ UNCHANGED <<active, candidate, retired, pending, requested, phase,
                 displayGeneration, persisted, children>>

\* The frame counts a new frame may bring the candidate to (sequences may skip).
Advanced(worker) == {f \in 1..CanaryFrames : f > worker.frames \/ f = CanaryFrames}

\* A new frame of a candidate that is not ready for promotion.
CandidateProgress ==
  /\ Advance("candidate", "command")
  /\ candidate # NoWorker
  /\ \E f \in Advanced(candidate) : candidate' = [candidate EXCEPT !.frames = f]
  /\ phase' = IF active # NoWorker THEN "Canary" ELSE phase
  /\ UNCHANGED <<active, retired, pending, requested,
                 displayGeneration, persisted, children>>

\* A frame makes the candidate ready: enough frames and the canary interval.
Ready == candidate # NoWorker /\ CanaryFrames \in Advanced(candidate)

Promoted == [candidate EXCEPT !.frames = CanaryFrames]

\* promote_candidate with nothing on screen: the still is saved first.
PromoteFirst ==
  /\ Advance("candidate", "command")
  /\ Ready /\ active = NoWorker
  /\ CommitFallback(candidate.spec)
  /\ active' = Promoted
  /\ candidate' = NoWorker
  /\ displayGeneration' = NextGeneration(displayGeneration)
  /\ pending' = NoSpec
  /\ phase' = "Live"
  /\ UNCHANGED <<retired, requested, children>>

\* promote_candidate when that save fails: a strike.
PromoteFirstFails ==
  /\ Advance("candidate", "command")
  /\ Ready /\ active = NoWorker
  /\ \E base \in FailedSaves(candidate.spec) :
       CandidateStrike(candidate.spec, NoWorker, records, base)
  /\ candidate' = NoWorker
  /\ children' = AfterStopCandidate
  /\ UNCHANGED <<active, retired, requested, displayGeneration>>

\* promote_candidate over a live source: a handoff opens, nothing is saved yet.
PromoteOver ==
  /\ Advance("candidate", "command")
  /\ Ready /\ active # NoWorker
  /\ active' = Promoted
  /\ candidate' = NoWorker
  /\ displayGeneration' = NextGeneration(displayGeneration)
  /\ retired' = [worker |-> active, generation |-> displayGeneration']
  /\ pending' = NoSpec
  /\ phase' = "AwaitingAck"
  /\ UNCHANGED <<requested, persisted, children>>

\* The candidate exited, stalled or published a corrupt frame.
CandidateFails ==
  /\ Advance("candidate", "command")
  /\ candidate # NoWorker
  /\ candidate' = NoWorker
  /\ children' = AfterStopCandidate
  /\ CandidateStrike(candidate.spec, active, records, stored)
  /\ UNCHANGED <<active, retired, requested, displayGeneration>>

CandidateRefuses ==
  /\ Advance("candidate", "command")
  /\ candidate # NoWorker
  /\ candidate' = NoWorker
  /\ children' = AfterStopCandidate
  /\ Refusal(candidate.spec, active)
  /\ UNCHANGED <<active, retired, displayGeneration>>

-----------------------------------------------------------------------------
(* The daemon process.                                                     *)

\* The memory of a process that is gone.
Forgotten ==
  /\ active' = NoWorker /\ candidate' = NoWorker /\ retired' = NoHandoff
  /\ pending' = NoSpec /\ requested' = NoSpec
  /\ phase' = "Idle"
  /\ displayGeneration' = 0
  /\ records' = NoRecords /\ lastGood' = NoSpec
  /\ UNCHANGED stored

\* Shutdown command or channel disconnected: stop_all, and the thread returns.
Shutdown ==
  /\ Advance("command", "exited")
  /\ children' = children \ {active.pid, candidate.pid, retired.worker.pid}
  /\ Forgotten

\* The daemon dies at any point; the parent-death guard kills the workers.
Crash ==
  /\ loop # "exited" /\ loop' = "exited"
  /\ children' = {}
  /\ Forgotten

\* SupervisorService::start and SupervisorRuntime::new over the loaded file.  A
\* different build drops the failure records and must save the file to start.
Restart ==
  /\ Advance("exited", "command")
  /\ records' \in {stored.records, NoRecords}
  /\ stored' = [stored EXCEPT !.records = records']
  /\ lastGood' = stored.lastGood
  /\ UNCHANGED <<active, candidate, retired, pending, requested, phase,
                 displayGeneration, children>>

-----------------------------------------------------------------------------
Init ==
  /\ loop = "command"
  /\ active = NoWorker /\ candidate = NoWorker /\ retired = NoHandoff
  /\ pending = NoSpec /\ requested = NoSpec
  /\ phase = "Idle"
  /\ displayGeneration = 0
  /\ records = NoRecords
  /\ lastGood = NoSpec
  /\ stored = [records |-> NoRecords, lastGood |-> NoSpec]
  /\ children = {}

\* What a client sends.
Command ==
  \/ StartRefusedByHandoff
  \/ \E s \in Specs : StartQuarantined(s) \/ Start(s) \/ StartLaunchFails(s)
  \/ \E s \in Specs : Retry(s) \/ RetryLaunchFails(s) \/ RetrySaveFails(s)
  \/ Stop
  \/ \E g \in 0..GenMax :
       AckMismatch(g) \/ AckCommits(g) \/ AckPersistFails(g) \/ AckRepeated(g)

DeadlineStage == BeforeDeadline \/ TimeoutCommits \/ TimeoutRollsBack
SpawnStage == NothingDue \/ SpawnPending \/ SpawnPendingFails
ActiveStage == ActiveQuiet \/ ActiveSnapshot \/ ActiveFailsInHandoff \/ ActiveFails
CandidateStage ==
  \/ CandidateQuiet \/ CandidateProgress
  \/ PromoteFirst \/ PromoteFirstFails \/ PromoteOver
  \/ CandidateFails \/ CandidateRefuses

Tick == DeadlineStage \/ SpawnStage \/ ActiveStage \/ CandidateStage

Process == Shutdown \/ Crash \/ Restart

Next == PollTimeout \/ Command \/ Tick \/ Process

\* The thread keeps looping, and time passes: a handoff deadline, a restart
\* delay, and a candidate's canary or startup or frame timeout cannot be found
\* not yet passed for ever.  Commands and the daemon's end are not fair.
Fairness ==
  /\ WF_vars(PollTimeout \/ Command)
  /\ WF_vars(Tick)
  /\ SF_vars(TimeoutCommits \/ TimeoutRollsBack)
  /\ SF_vars(SpawnPending \/ SpawnPendingFails)
  /\ SF_vars(PromoteFirst \/ PromoteFirstFails \/ PromoteOver
             \/ CandidateFails \/ CandidateRefuses)

Spec == Init /\ [][Next]_vars

FairSpec == Spec /\ Fairness

-----------------------------------------------------------------------------
(* Safety.                                                                 *)

\* The open handoff excludes every other transition: a promoted source exists,
\* no candidate runs and no restart waits, the generation offered to the
\* display is the current one, and status says AwaitingAck exactly then.
\* (start_selected, promote_candidate, handle_active_failure)
HandoffShape ==
  /\ retired # NoHandoff =>
       /\ active # NoWorker /\ candidate = NoWorker /\ pending = NoSpec
       /\ retired.generation = displayGeneration
  /\ phase = "AwaitingAck" <=> retired # NoHandoff

\* Every process the supervisor spawned and has not reaped is one it still
\* holds, in one place, and every worker it holds is alive: no path drops a
\* worker without stop_worker or shows a source that was reaped.
NoOrphans ==
  /\ children = {active.pid, candidate.pid, retired.worker.pid} \ {NoPid}
  /\ candidate # NoWorker => candidate.pid \notin {active.pid, retired.worker.pid}
  /\ active # NoWorker => active.pid # retired.worker.pid

\* The phase status() reports is backed by the workers: a client that waits on
\* Starting, Canary or Restarting waits for something that is under way, and
\* a phase that claims or denies a source is right about it.
PhaseIsBacked ==
  /\ phase \in {"Starting", "Canary"} => candidate # NoWorker
  /\ phase = "Starting" => active = NoWorker
  /\ phase \in {"Canary", "Live", "AwaitingAck", "RolledBack"} => active # NoWorker
  /\ phase = "Restarting" => pending # NoSpec
  /\ phase \in {"Idle", "Stopped", "Quarantined"} => active = NoWorker
  /\ candidate # NoWorker => phase \in {"Starting", "Canary"}

\* Outside a write error the state file always says what memory says, so a
\* crash at any point loses neither a strike nor the fallback.
StoredIsCurrent ==
  loop # "exited" => stored = [records |-> records, lastGood |-> lastGood]

\* A display generation names one source: the active worker never changes to
\* another process without a new generation, and no generation is spent
\* otherwise.  (promote_candidate and both rollbacks)
GenerationNamesOneSource ==
  [][loop' # "exited" =>
       ((displayGeneration' = NextGeneration(displayGeneration))
          <=> (active' # NoWorker /\ active'.pid # active.pid))]_<<active, displayGeneration>>

\* The previous source stays available until the handoff commits: it is reaped
\* only in a step that has made the promoted worker's still the fallback, or
\* with everything else.  (acknowledge_display, complete_handoff_timeout)
OldSourceAvailable ==
  [][(retired # NoHandoff /\ retired.worker.pid \notin children')
       => (lastGood' = active.spec /\ active' = active) \/ children' = {}]_vars

\* A handoff that is not committed never advances the fallback, in memory or in
\* the state file.
FallbackAwaitsCommit ==
  [][(retired # NoHandoff /\ stored'.lastGood # stored.lastGood)
       => (retired' = NoHandoff /\ active' = active)]_vars

\* What happens to a candidate never costs the source on screen its process: a
\* reaped source failed itself, was rolled back at the deadline, or went with
\* everything else.
SourceOutlivesCandidates ==
  [][(active # NoWorker /\ active.pid \notin children')
       => loop = "active" \/ active' = retired.worker \/ children' = {}]_vars

\* A quarantined identity is launched by no command but the retry that clears
\* it, and no failure schedules it again: the one launch that may find it
\* quarantined is of a restart that was already waiting when the failure of
\* another worker of the identity decided the quarantine.  (start_selected,
\* handle_candidate_failure, handle_active_failure)
QuarantineStands ==
  [][/\ (candidate' # NoWorker /\ candidate'.pid # candidate.pid)
          => ~Quarantined(records', candidate'.spec) \/ candidate'.spec = pending
     /\ (pending' # NoSpec /\ Quarantined(records', pending')) => pending' = pending]_vars

-----------------------------------------------------------------------------
(* Liveness.                                                               *)

\* An open handoff is settled with or without the display's answer.
HandoffResolves == retired # NoHandoff ~> retired = NoHandoff

Recovering == phase \in {"Starting", "Canary", "Restarting"}

\* From some point on the command stage changes nothing: clients only poll.
QuietClient ==
  <>[][loop = "command" =>
         UNCHANGED <<active, candidate, retired, pending, requested, phase,
                     displayGeneration, persisted, children>>]_vars

\* Once clients stop sending commands, a start or a restart ends: promoted,
\* refused or quarantined.
RecoverySettles == QuietClient => (Recovering ~> ~Recovering)

-----------------------------------------------------------------------------
(* Refinement.                                                             *)

Service == INSTANCE RendererService
  WITH shown <- active.spec, coming <- candidate.spec,
       previous <- retired.worker.spec, waiting <- pending

\* What the threads that call the supervisor may rely on: identities and phases
\* change only as RendererService says, whatever processes, strikes, files and
\* deadlines do.
ServesClients == Service!ServiceSpec

Source == INSTANCE SourceHandoff
  WITH Workers <- Pids, NoWorker <- NoPid, First <- 0, Successor <- NextGeneration,
       active <- active.pid, retired <- retired.worker.pid,
       generation <- displayGeneration

\* What the display relies on: whatever candidates, failures, writes and deadlines
\* do, the processes on screen and their generations change only as SourceHandoff
\* says.  (promote_candidate, both rollbacks, stop_all)
HandsOver == Source!Spec

=============================================================================
