--------------------------- MODULE SupervisorProofs ---------------------------
(***************************************************************************)
(* Safety of the renderer supervisor for any number of identities and      *)
(* processes, any failure budget and any behaviour of the state file.      *)
(***************************************************************************)
EXTENDS Supervisor, TLAPS

StateFile == [records : [Specs -> Nat], lastGood : Specs \cup {NoSpec}]

-----------------------------------------------------------------------------
(* Types of the helpers.                                                   *)

\* A strike yields well-typed records, whichever record is evicted.
LEMMA StruckType ==
  ASSUME NEW recs \in [Specs -> Nat], NEW s \in Specs, NEW r \in Struck(recs, s)
  PROVE  r \in [Specs -> Nat]
<1>1. PICK kept \in Evictions(recs, s) : r = [kept EXCEPT ![s] = @ + 1]
  BY DEF Struck
<1>2. kept \in [Specs -> Nat]
  <2> DEFINE held == {k \in Specs : recs[k] > 0}
  <2>1. CASE kept = recs
    BY <2>1
  <2>2. CASE \E k \in held : kept = [recs EXCEPT ![k] = 0]
    BY <2>2
  <2>3. kept = recs \/ \E k \in held : kept = [recs EXCEPT ![k] = 0]
    BY <1>1 DEF Evictions
  <2>4. QED
    BY <2>1, <2>2, <2>3
<1>3. QED
  BY <1>1, <1>2

\* A write of the state file, in any outcome, leaves a well-typed file.
LEMMA SavedType ==
  ASSUME NEW outcome, NEW recs \in [Specs -> Nat],
         NEW still \in Specs \cup {NoSpec}, NEW old \in StateFile
  PROVE  Saved(outcome, recs, still, old) \in StateFile
BY DEF Saved, StateFile

LEMMA FailedSavesType ==
  ASSUME TypeOK, NEW s \in Specs, NEW base \in FailedSaves(s)
  PROVE  base \in StateFile
BY SavedType DEF FailedSaves, TypeOK, StateFile

\* record_failure keeps the types, from any well-typed records and file.
LEMMA RecordFailureType ==
  ASSUME TypeOK, NEW s \in Specs, NEW recs \in [Specs -> Nat],
         NEW base \in StateFile, RecordFailure(s, recs, base)
  PROVE  /\ records' \in [Specs -> Nat]
         /\ stored' \in StateFile
         /\ lastGood' \in Specs \cup {NoSpec}
<1>1. records' \in [Specs -> Nat]
  BY StruckType DEF RecordFailure
<1>2. stored' \in StateFile
  BY <1>1, SavedType DEF RecordFailure, TypeOK
<1>3. QED
  BY <1>1, <1>2 DEF RecordFailure, TypeOK

LEMMA CandidateStrikeType ==
  ASSUME TypeOK, NEW s \in Specs, NEW source, NEW recs \in [Specs -> Nat],
         NEW base \in StateFile, CandidateStrike(s, source, recs, base)
  PROVE  /\ records' \in [Specs -> Nat]
         /\ stored' \in StateFile
         /\ lastGood' \in Specs \cup {NoSpec}
         /\ pending' \in Specs \cup {NoSpec}
         /\ phase' \in {"RolledBack", "Quarantined", "Restarting"}
BY RecordFailureType DEF CandidateStrike

LEMMA CommitFallbackType ==
  ASSUME TypeOK, NEW s \in Specs, CommitFallback(s)
  PROVE  /\ records' \in [Specs -> Nat]
         /\ stored' \in StateFile
         /\ lastGood' \in Specs \cup {NoSpec}
<1>1. records' \in [Specs -> Nat]
  BY DEF CommitFallback, TypeOK
<1>2. [records |-> records, lastGood |-> s] \in StateFile
  BY DEF TypeOK, StateFile
<1>3. stored' \in StateFile
  <2> DEFINE persistedStill == [records |-> records, lastGood |-> s]
  <2>1. PICK outcome \in SaveOutcomes :
          stored' = Saved(outcome, records', s, persistedStill)
    BY DEF CommitFallback
  <2>2. persistedStill \in StateFile /\ s \in Specs \cup {NoSpec}
    BY <1>2
  <2> HIDE DEF persistedStill
  <2>3. QED
    BY <1>1, <2>1, <2>2, SavedType
<1>4. QED
  BY <1>1, <1>3 DEF CommitFallback

LEMMA SpawnType ==
  ASSUME NEW s \in Specs, NEW survivors \in SUBSET Pids, Spawn(s, survivors)
  PROVE  /\ candidate' \in Worker
         /\ children' \subseteq Pids
         /\ phase' \in {"Canary", "Starting"}
BY BoundsAssumption DEF Spawn, Launched, Worker

LEMMA GenerationType ==
  ASSUME NEW g \in 0..GenMax
  PROVE  NextGeneration(g) \in 1..GenMax
BY BoundsAssumption DEF NextGeneration

-----------------------------------------------------------------------------
(* Type correctness.                                                       *)

\* Every step of the supervisor thread, of its clients and of the process keeps
\* every variable in its type.
LEMMA TypeStep == TypeOK /\ HandoffShape /\ [Next]_vars => TypeOK'
<1> SUFFICES ASSUME TypeOK, HandoffShape, [Next]_vars
             PROVE  TypeOK'
  OBVIOUS
<1> USE DEF StateFile
<1>w. /\ active.pid \in Pids \cup {NoPid} /\ candidate.pid \in Pids \cup {NoPid}
      /\ active # NoWorker => active.spec \in Specs
      /\ candidate # NoWorker => candidate.spec \in Specs
      /\ retired # NoHandoff => retired.worker \in Worker
  BY DEF TypeOK, Worker, NoWorker, Handoff
<1>1. CASE UNCHANGED vars
  BY <1>1 DEF vars, persisted, TypeOK
<1>2. CASE PollTimeout
  BY <1>2 DEF PollTimeout, Advance, persisted, TypeOK
<1>3. CASE StartRefusedByHandoff
  BY <1>3 DEF StartRefusedByHandoff, Advance, persisted, TypeOK
<1>4. ASSUME NEW s \in Specs, StartQuarantined(s) PROVE TypeOK'
  BY <1>4 DEF StartQuarantined, AfterStopCandidate, Advance, persisted, TypeOK, Phases
<1>5. ASSUME NEW s \in Specs, Start(s) PROVE TypeOK'
  <2>1. AfterStopCandidate \in SUBSET Pids
    BY DEF AfterStopCandidate, TypeOK
  <2>2. QED
    BY <1>5, <2>1, SpawnType DEF Start, Advance, persisted, TypeOK, Phases
<1>6. ASSUME NEW s \in Specs, StartLaunchFails(s) PROVE TypeOK'
  BY <1>6, CandidateStrikeType DEF StartLaunchFails, AfterStopCandidate, Advance, TypeOK, Phases
<1>c. ASSUME NEW s \in Specs
      PROVE  /\ Cleared(s) \in [Specs -> Nat]
             /\ [records |-> Cleared(s), lastGood |-> lastGood] \in StateFile
  BY DEF Cleared, TypeOK
<1>7. ASSUME NEW s \in Specs, Retry(s) PROVE TypeOK'
  <2>1. AfterStopCandidate \in SUBSET Pids
    BY DEF AfterStopCandidate, TypeOK
  <2>2. QED
    BY <1>7, <1>c, <2>1, SpawnType DEF Retry, Advance, TypeOK, Phases
<1>8. ASSUME NEW s \in Specs, RetryLaunchFails(s) PROVE TypeOK'
  <2> DEFINE base == [records |-> Cleared(s), lastGood |-> lastGood]
  <2>1. base \in StateFile /\ Cleared(s) \in [Specs -> Nat]
    BY <1>c
  <2>2. CandidateStrike(s, active, Cleared(s), base)
    BY <1>8 DEF RetryLaunchFails
  <2> HIDE DEF base
  <2>3. QED
    BY <1>8, <2>1, <2>2, CandidateStrikeType
       DEF RetryLaunchFails, AfterStopCandidate, Advance, TypeOK, Phases
<1>9. ASSUME NEW s \in Specs, RetrySaveFails(s) PROVE TypeOK'
  <2>1. stored' \in StateFile
    <3>1. PICK outcome \in SaveOutcomes :
            stored' = Saved(outcome, Cleared(s), lastGood, stored)
      BY <1>9 DEF RetrySaveFails
    <3>2. QED
      BY <3>1, <1>c, SavedType DEF TypeOK
  <2>2. QED
    BY <1>9, <1>c, <2>1 DEF RetrySaveFails, AfterStopCandidate, Advance, TypeOK
<1>10. CASE Stop
  <2>1. stored' \in StateFile
    <3>1. PICK outcome \in SaveOutcomes :
            stored' = Saved(outcome, records, lastGood, stored)
      BY <1>10 DEF Stop
    <3>2. QED
      BY <3>1, SavedType DEF TypeOK
  <2>2. QED
    BY <1>10, <2>1 DEF Stop, StopAll, Advance, TypeOK, Phases
<1>11. ASSUME NEW g \in 0..GenMax, AckMismatch(g) PROVE TypeOK'
  BY <1>11 DEF AckMismatch, Advance, persisted, TypeOK
<1>12. ASSUME NEW g \in 0..GenMax, AckCommits(g) PROVE TypeOK'
  <2>1. active.spec \in Specs /\ CommitFallback(active.spec)
    BY <1>12, <1>w DEF AckCommits, HandoffShape
  <2>2. QED
    BY <1>12, <2>1, CommitFallbackType DEF AckCommits, AckPhase, Advance, TypeOK, Phases
<1>13. ASSUME NEW g \in 0..GenMax, AckPersistFails(g) PROVE TypeOK'
  <2>1. active.spec \in Specs /\ stored' \in FailedSaves(active.spec)
    BY <1>13, <1>w DEF AckPersistFails, HandoffShape
  <2>2. stored' \in StateFile
    BY <2>1, FailedSavesType
  <2>3. QED
    BY <1>13, <2>2 DEF AckPersistFails, Advance, TypeOK
<1>14. ASSUME NEW g \in 0..GenMax, AckRepeated(g) PROVE TypeOK'
  BY <1>14 DEF AckRepeated, AckPhase, Advance, persisted, TypeOK, Phases
<1>15. CASE BeforeDeadline
  BY <1>15 DEF BeforeDeadline, Advance, persisted, TypeOK
<1>16. CASE TimeoutCommits
  <2>1. active.spec \in Specs /\ CommitFallback(active.spec)
    BY <1>16, <1>w DEF TimeoutCommits, HandoffDue, HandoffShape
  <2>2. QED
    BY <1>16, <2>1, CommitFallbackType DEF TimeoutCommits, Advance, TypeOK, Phases
<1>r. ASSUME PreviousRestored, retired # NoHandoff
      PROVE  /\ active' \in Worker /\ retired' = NoHandoff
             /\ children' \subseteq Pids /\ displayGeneration' \in 1..GenMax
  BY <1>r, <1>w, GenerationType DEF PreviousRestored, TypeOK
<1>17. CASE TimeoutRollsBack
  <2>1. active.spec \in Specs /\ retired # NoHandoff
    BY <1>17, <1>w DEF TimeoutRollsBack, HandoffDue, HandoffShape
  <2>2. PICK base \in FailedSaves(active.spec) :
          CandidateStrike(active.spec, retired.worker, records, base)
    BY <1>17 DEF TimeoutRollsBack
  <2>3. base \in StateFile
    BY <2>1, FailedSavesType
  <2>4. records \in [Specs -> Nat]
    BY DEF TypeOK
  <2>5. QED
    BY <1>17, <2>1, <2>2, <2>3, <2>4, <1>r, CandidateStrikeType
       DEF TimeoutRollsBack, Advance, TypeOK, Phases
<1>18. CASE NothingDue
  BY <1>18 DEF NothingDue, Advance, persisted, TypeOK
<1>19. CASE SpawnPending
  <2>1. pending \in Specs /\ children \in SUBSET Pids
    BY <1>19 DEF SpawnPending, RestartDue, TypeOK
  <2>2. QED
    BY <1>19, <2>1, SpawnType DEF SpawnPending, Advance, persisted, TypeOK, Phases
<1>20. CASE SpawnPendingFails
  <2>1. pending \in Specs /\ records \in [Specs -> Nat] /\ stored \in StateFile
    BY <1>20 DEF SpawnPendingFails, RestartDue, TypeOK
  <2>2. QED
    BY <1>20, <2>1, CandidateStrikeType DEF SpawnPendingFails, Advance, TypeOK, Phases
<1>21. CASE ActiveQuiet
  BY <1>21 DEF ActiveQuiet, Advance, persisted, TypeOK
<1>22. CASE ActiveSnapshot
  <2>1. active.spec \in Specs
    BY <1>22, <1>w DEF ActiveSnapshot, MaySnapshot
  <2>2. stored' \in StateFile /\ lastGood' \in Specs \cup {NoSpec}
    BY <1>22, <2>1, FailedSavesType DEF ActiveSnapshot, TypeOK
  <2>3. QED
    BY <1>22, <2>2 DEF ActiveSnapshot, Advance, TypeOK
<1>23. CASE ActiveFailsInHandoff
  <2>1. active.spec \in Specs /\ records \in [Specs -> Nat] /\ stored \in StateFile
    BY <1>23, <1>w DEF ActiveFailsInHandoff, HandoffShape, TypeOK
  <2>2. QED
    BY <1>23, <2>1, <1>r, RecordFailureType DEF ActiveFailsInHandoff, Advance, TypeOK, Phases
<1>24. CASE ActiveFails
  <2>1. active.spec \in Specs /\ records \in [Specs -> Nat] /\ stored \in StateFile
    BY <1>24, <1>w DEF ActiveFails, TypeOK
  <2>2. QED
    BY <1>24, <2>1, RecordFailureType DEF ActiveFails, Advance, TypeOK, Phases
<1>25. CASE CandidateQuiet
  BY <1>25 DEF CandidateQuiet, Advance, persisted, TypeOK
<1>26. CASE CandidateProgress
  <2>1. candidate' \in Worker
    BY <1>26, BoundsAssumption DEF CandidateProgress, Advanced, TypeOK, Worker
  <2>2. QED
    BY <1>26, <2>1 DEF CandidateProgress, Advance, persisted, TypeOK, Phases
<1>p. candidate # NoWorker => Promoted \in Worker
  BY BoundsAssumption DEF Promoted, TypeOK, Worker
<1>27. CASE PromoteFirst
  <2>1. candidate.spec \in Specs /\ CommitFallback(candidate.spec)
    BY <1>27, <1>w DEF PromoteFirst, Ready
  <2>2. QED
    BY <1>27, <2>1, <1>p, CommitFallbackType, GenerationType
       DEF PromoteFirst, Ready, Advance, TypeOK, Phases
<1>28. CASE PromoteFirstFails
  <2>1. candidate.spec \in Specs /\ records \in [Specs -> Nat]
    BY <1>28, <1>w DEF PromoteFirstFails, Ready, TypeOK
  <2>2. PICK base \in FailedSaves(candidate.spec) :
          CandidateStrike(candidate.spec, NoWorker, records, base)
    BY <1>28 DEF PromoteFirstFails
  <2>3. base \in StateFile
    BY <2>1, FailedSavesType
  <2>4. QED
    BY <1>28, <2>1, <2>2, <2>3, CandidateStrikeType
       DEF PromoteFirstFails, AfterStopCandidate, Advance, TypeOK, Phases
<1>29. CASE PromoteOver
  <2>1. retired' \in Handoff
    BY <1>29, GenerationType DEF PromoteOver, TypeOK, Handoff
  <2>2. QED
    BY <1>29, <2>1, <1>p, GenerationType
       DEF PromoteOver, Ready, Advance, persisted, TypeOK, Phases
<1>30. CASE CandidateFails
  <2>1. /\ candidate.spec \in Specs /\ records \in [Specs -> Nat] /\ stored \in StateFile
        /\ CandidateStrike(candidate.spec, active, records, stored)
    BY <1>30, <1>w DEF CandidateFails, TypeOK
  <2>2. QED
    BY <1>30, <2>1, CandidateStrikeType
       DEF CandidateFails, AfterStopCandidate, Advance, TypeOK, Phases
<1>31. CASE CandidateRefuses
  BY <1>31, <1>w DEF CandidateRefuses, Refusal, AfterStopCandidate, Advance, persisted, TypeOK, Phases
<1>f. NoRecords \in [Specs -> Nat]
  BY DEF NoRecords
<1>32. CASE Shutdown
  BY <1>32, <1>f, BoundsAssumption DEF Shutdown, Forgotten, Advance, TypeOK, Phases
<1>33. CASE Crash
  BY <1>33, <1>f, BoundsAssumption DEF Crash, Forgotten, Advance, TypeOK, Phases
<1>34. CASE Restart
  BY <1>34, <1>f DEF Restart, Advance, TypeOK
<1>35. QED
  BY <1>1, <1>2, <1>3, <1>4, <1>5, <1>6, <1>7, <1>8, <1>9, <1>10, <1>11, <1>12,
     <1>13, <1>14, <1>15, <1>16, <1>17, <1>18, <1>19, <1>20, <1>21, <1>22, <1>23,
     <1>24, <1>25, <1>26, <1>27, <1>28, <1>29, <1>30, <1>31, <1>32, <1>33, <1>34
     DEF Next, Command, Tick, DeadlineStage, SpawnStage, ActiveStage,
         CandidateStage, Process

-----------------------------------------------------------------------------
(* The shape of a handoff.                                                 *)

\* No step gives an open handoff a candidate or a pending restart, takes its
\* source away, or lets its generation go stale.
LEMMA HandoffStep == TypeOK /\ HandoffShape /\ [Next]_vars => HandoffShape'
<1> SUFFICES ASSUME TypeOK, HandoffShape, [Next]_vars
             PROVE  HandoffShape'
  OBVIOUS
<1> USE DEF HandoffShape
<1>n. NoHandoff # [worker |-> active, generation |-> NextGeneration(displayGeneration)]
  BY GenerationType DEF NoHandoff, TypeOK
<1>w. /\ active # NoWorker => active \in Worker
      /\ retired # NoHandoff => retired.worker \in Worker /\ retired.worker # NoWorker
      /\ \A w \in Worker : w # NoWorker
      /\ pending # NoSpec => pending \in Specs
  BY PidsAssumption DEF TypeOK, Worker, NoWorker, Handoff
<1>1. CASE UNCHANGED vars
  BY <1>1 DEF vars
<1>2. CASE PollTimeout
  BY <1>2 DEF PollTimeout
<1>3. CASE StartRefusedByHandoff
  BY <1>3 DEF StartRefusedByHandoff
<1>4. ASSUME NEW s \in Specs,
             StartQuarantined(s) \/ Start(s) \/ StartLaunchFails(s)
               \/ Retry(s) \/ RetryLaunchFails(s)
      PROVE  HandoffShape'
  BY <1>4 DEF StartQuarantined, Start, StartLaunchFails, Retry, RetryLaunchFails,
              MayStart, Spawn, CandidateStrike
<1>5. ASSUME NEW s \in Specs, RetrySaveFails(s) PROVE HandoffShape'
  BY <1>5 DEF RetrySaveFails, MayStart
<1>6. CASE Stop
  BY <1>6 DEF Stop, StopAll
<1>7. ASSUME NEW g \in 0..GenMax, AckMismatch(g) \/ AckPersistFails(g)
      PROVE  HandoffShape'
  BY <1>7 DEF AckMismatch, AckPersistFails
<1>8. ASSUME NEW g \in 0..GenMax, AckCommits(g) \/ AckRepeated(g)
      PROVE  HandoffShape'
  BY <1>8 DEF AckCommits, AckRepeated, AckPhase
<1>9. CASE BeforeDeadline \/ NothingDue \/ ActiveQuiet \/ ActiveSnapshot \/ CandidateQuiet
  BY <1>9 DEF BeforeDeadline, NothingDue, ActiveQuiet, ActiveSnapshot, CandidateQuiet
<1>10. CASE TimeoutCommits
  BY <1>10 DEF TimeoutCommits
<1>11. CASE TimeoutRollsBack
  BY <1>11 DEF TimeoutRollsBack, PreviousRestored, CandidateStrike
<1>12. CASE SpawnPending
  BY <1>12 DEF SpawnPending, RestartDue, Spawn
<1>13. CASE SpawnPendingFails
  BY <1>13 DEF SpawnPendingFails, RestartDue, CandidateStrike
<1>14. CASE ActiveFailsInHandoff
  BY <1>14 DEF ActiveFailsInHandoff, PreviousRestored
<1>15. CASE ActiveFails
  BY <1>15 DEF ActiveFails
<1>16. CASE CandidateProgress
  BY <1>16 DEF CandidateProgress
<1>17. CASE PromoteFirst
  BY <1>17 DEF PromoteFirst, Ready
<1>18. CASE PromoteFirstFails
  BY <1>18 DEF PromoteFirstFails, Ready, CandidateStrike
<1>19. CASE PromoteOver
  <2>1. active' # NoWorker
    BY <1>19, <1>w, PidsAssumption DEF PromoteOver, Ready, Promoted, TypeOK, Worker, NoWorker
  <2>2. retired' # NoHandoff /\ retired'.generation = displayGeneration'
    BY <1>19, <1>n DEF PromoteOver
  <2>3. QED
    BY <1>19, <2>1, <2>2 DEF PromoteOver
<1>20. CASE CandidateFails \/ CandidateRefuses
  BY <1>20 DEF CandidateFails, CandidateRefuses, CandidateStrike, Refusal
<1>21. CASE Shutdown \/ Crash
  BY <1>21 DEF Shutdown, Crash, Forgotten
<1>22. CASE Restart
  BY <1>22 DEF Restart
<1>23. QED
  BY <1>1, <1>2, <1>3, <1>4, <1>5, <1>6, <1>7, <1>8, <1>9, <1>10, <1>11, <1>12,
     <1>13, <1>14, <1>15, <1>16, <1>17, <1>18, <1>19, <1>20, <1>21, <1>22
     DEF Next, Command, Tick, DeadlineStage, SpawnStage, ActiveStage,
         CandidateStage, Process

\* Every reachable state is well typed and an open handoff excludes every other
\* transition, for any identities, processes, budgets and write errors.
THEOREM HandoffInvariant == Spec => [](TypeOK /\ HandoffShape)
<1>1. Init => TypeOK /\ HandoffShape
  BY BoundsAssumption
     DEF Init, TypeOK, HandoffShape, NoRecords, Phases
<1>2. TypeOK /\ HandoffShape /\ [Next]_vars => (TypeOK /\ HandoffShape)'
  BY TypeStep, HandoffStep
<1>3. QED
  BY <1>1, <1>2, PTL DEF Spec

-----------------------------------------------------------------------------
(* No worker process is lost.                                              *)

\* A place holds a worker exactly when it names a process.
LEMMA PlacesNamePids ==
  ASSUME TypeOK
  PROVE  /\ \A w \in Worker : w.pid \in Pids /\ w.pid # NoPid
         /\ active # NoWorker <=> active.pid # NoPid
         /\ candidate # NoWorker <=> candidate.pid # NoPid
         /\ retired = NoHandoff => retired.worker.pid = NoPid
         /\ NoWorker.pid = NoPid /\ NoHandoff.worker.pid = NoPid
BY PidsAssumption DEF TypeOK, Worker, NoWorker, Handoff, NoHandoff

\* stop_candidate reaps the candidate and nothing else.
LEMMA CandidateStopped ==
  ASSUME TypeOK, NoOrphans, candidate' = NoWorker, children' = AfterStopCandidate,
         active' = active, retired' = retired
  PROVE  NoOrphans'
BY PlacesNamePids DEF NoOrphans, AfterStopCandidate

\* spawn_worker fills the candidate's place when nobody is left in it.
LEMMA CandidateSpawned ==
  ASSUME TypeOK, NoOrphans, NEW s \in Specs, NEW survivors,
         survivors = {active.pid, retired.worker.pid} \ {NoPid},
         Spawn(s, survivors), active' = active, retired' = retired
  PROVE  NoOrphans'
BY PlacesNamePids, PidsAssumption DEF NoOrphans, Spawn, Launched

\* No step leaves a process that no place names, or a place that names a
\* process that was reaped, and no process is in two places.
LEMMA OrphansStep == TypeOK /\ HandoffShape /\ NoOrphans /\ [Next]_vars => NoOrphans'
<1> SUFFICES ASSUME TypeOK, HandoffShape, NoOrphans, [Next]_vars
             PROVE  NoOrphans'
  OBVIOUS
<1>a. ASSUME UNCHANGED <<active, candidate, retired, children>>
      PROVE  NoOrphans'
  BY <1>a DEF NoOrphans
<1>b. AfterStopCandidate = {active.pid, retired.worker.pid} \ {NoPid}
  BY PlacesNamePids DEF NoOrphans, AfterStopCandidate
<1>1. CASE UNCHANGED vars \/ PollTimeout \/ StartRefusedByHandoff
  BY <1>1, <1>a DEF vars, PollTimeout, StartRefusedByHandoff
<1>2. ASSUME NEW s \in Specs,
             StartQuarantined(s) \/ StartLaunchFails(s) \/ RetryLaunchFails(s)
               \/ RetrySaveFails(s)
      PROVE  NoOrphans'
  BY <1>2, CandidateStopped DEF StartQuarantined, StartLaunchFails, RetryLaunchFails,
                                RetrySaveFails
<1>3. ASSUME NEW s \in Specs, Start(s) \/ Retry(s) PROVE NoOrphans'
  BY <1>3, <1>b, CandidateSpawned DEF Start, Retry
<1>4. CASE Stop
  BY <1>4, PlacesNamePids DEF Stop, StopAll, NoOrphans
<1>5. ASSUME NEW g \in 0..GenMax,
             AckMismatch(g) \/ AckPersistFails(g) \/ AckRepeated(g)
      PROVE  NoOrphans'
  BY <1>5, <1>a DEF AckMismatch, AckPersistFails, AckRepeated
<1>6. ASSUME TimeoutCommits \/ \E g \in 0..GenMax : AckCommits(g) PROVE NoOrphans'
  <2>1. /\ UNCHANGED <<active, candidate>>
        /\ retired' = NoHandoff /\ children' = children \ {retired.worker.pid}
    BY <1>6 DEF AckCommits, TimeoutCommits
  <2>2. candidate.pid = NoPid \/ candidate.pid # retired.worker.pid
    BY PlacesNamePids DEF NoOrphans
  <2>3. active.pid = NoPid \/ active.pid # retired.worker.pid
    BY PlacesNamePids DEF NoOrphans
  <2>4. QED
    BY <2>1, <2>2, <2>3, PlacesNamePids DEF NoOrphans
<1>7. CASE BeforeDeadline \/ NothingDue \/ SpawnPendingFails \/ ActiveQuiet
             \/ ActiveSnapshot \/ CandidateQuiet \/ Restart
  BY <1>7, <1>a DEF BeforeDeadline, NothingDue, SpawnPendingFails, ActiveQuiet,
                    ActiveSnapshot, CandidateQuiet, Restart
<1>8. CASE TimeoutRollsBack \/ ActiveFailsInHandoff
  <2>1. /\ UNCHANGED candidate
        /\ active' = retired.worker /\ retired' = NoHandoff
        /\ children' = children \ {active.pid}
        /\ retired # NoHandoff
    BY <1>8 DEF TimeoutRollsBack, ActiveFailsInHandoff, PreviousRestored, HandoffDue
  <2>2. candidate = NoWorker /\ active.pid # retired.worker.pid /\ active.pid # NoPid
    BY <2>1, PlacesNamePids DEF NoOrphans, HandoffShape
  <2>3. retired.worker.pid # NoPid
    BY <2>1, PlacesNamePids DEF TypeOK, Handoff
  <2>4. QED
    BY <2>1, <2>2, <2>3, PlacesNamePids DEF NoOrphans
<1>9. CASE SpawnPending
  <2>1. pending \in Specs /\ candidate = NoWorker
    BY <1>9 DEF SpawnPending, RestartDue, TypeOK
  <2>2. children = {active.pid, retired.worker.pid} \ {NoPid}
    BY <2>1, PlacesNamePids DEF NoOrphans
  <2>3. QED
    BY <1>9, <2>1, <2>2, CandidateSpawned DEF SpawnPending
<1>10. CASE ActiveFails
  <2>1. /\ UNCHANGED <<candidate, retired>>
        /\ active' = NoWorker /\ retired = NoHandoff
        /\ children' = children \ {active.pid}
    BY <1>10 DEF ActiveFails
  <2>2. QED
    BY <2>1, PlacesNamePids DEF NoOrphans
<1>11. CASE CandidateProgress
  <2>1. candidate'.pid = candidate.pid
    BY <1>11 DEF CandidateProgress, TypeOK, Worker, NoWorker
  <2>2. UNCHANGED <<active, retired, children>> /\ candidate # NoWorker
    BY <1>11 DEF CandidateProgress
  <2>3. QED
    BY <2>1, <2>2 DEF NoOrphans
<1>12. ASSUME Ready PROVE Promoted.pid = candidate.pid
  BY <1>12 DEF Ready, Promoted, TypeOK, Worker, NoWorker
<1>13. CASE PromoteFirst
  <2>1. /\ UNCHANGED <<retired, children>>
        /\ candidate' = NoWorker /\ active = NoWorker
        /\ active'.pid = candidate.pid
        /\ candidate # NoWorker
    BY <1>12, <1>13 DEF PromoteFirst, Ready
  <2>2. QED
    BY <2>1, PlacesNamePids DEF NoOrphans
<1>14. CASE PromoteOver
  <2>1. /\ UNCHANGED children
        /\ candidate' = NoWorker
        /\ active'.pid = candidate.pid /\ retired'.worker = active
        /\ candidate # NoWorker
    BY <1>12, <1>14 DEF PromoteOver, Ready
  <2>2. retired = NoHandoff
    BY <2>1 DEF HandoffShape
  <2>3. QED
    BY <2>1, <2>2, PlacesNamePids DEF NoOrphans
<1>15. CASE PromoteFirstFails \/ CandidateFails \/ CandidateRefuses
  BY <1>15, CandidateStopped DEF PromoteFirstFails, CandidateFails, CandidateRefuses
<1>16. CASE Shutdown \/ Crash
  <2>1. children' = {}
    BY <1>16 DEF Shutdown, Crash, NoOrphans
  <2>2. QED
    BY <1>16, <2>1, PlacesNamePids DEF Shutdown, Crash, Forgotten, NoOrphans
<1>17. QED
  BY <1>1, <1>2, <1>3, <1>4, <1>5, <1>6, <1>7, <1>8, <1>9, <1>10, <1>11,
     <1>13, <1>14, <1>15, <1>16
     DEF Next, Command, Tick, DeadlineStage, SpawnStage, ActiveStage,
         CandidateStage, Process

\* The supervisor's process table is exact in every reachable state.
THEOREM ProcessesAccounted == Spec => []NoOrphans
<1>1. Init => NoOrphans
  BY DEF Init, NoOrphans, NoWorker, NoHandoff
<1>2. QED
  BY <1>1, HandoffInvariant, OrphansStep, PTL DEF Spec

-----------------------------------------------------------------------------
(* What a step may do to the source on screen.                             *)

SourceStays ==
  /\ active' = active /\ retired' = retired
  /\ displayGeneration' = displayGeneration
  /\ children \ {candidate.pid} \subseteq children'

HandoffCommits ==
  /\ active' = active /\ retired # NoHandoff /\ retired' = NoHandoff
  /\ lastGood' = active.spec
  /\ displayGeneration' = displayGeneration
  /\ children' = children \ {retired.worker.pid}

HandoffRollsBack ==
  /\ retired # NoHandoff /\ retired' = NoHandoff /\ active' = retired.worker
  /\ displayGeneration' = NextGeneration(displayGeneration)
  /\ children' = children \ {active.pid}

SourceDies ==
  /\ loop = "active" /\ retired = NoHandoff /\ retired' = NoHandoff
  /\ active # NoWorker /\ active' = NoWorker
  /\ displayGeneration' = displayGeneration

SourcePromoted ==
  /\ retired = NoHandoff /\ retired'.worker = active
  /\ candidate # NoWorker /\ active'.pid = candidate.pid
  /\ displayGeneration' = NextGeneration(displayGeneration)
  /\ children' = children

AllStopped ==
  /\ children' = {} /\ active' = NoWorker /\ retired' = NoHandoff
  /\ \/ loop' = "exited" /\ displayGeneration' = 0
     \/ displayGeneration' = displayGeneration

\* Every step is of one of these six kinds.
LEMMA StepKinds ==
  ASSUME TypeOK, HandoffShape, NoOrphans, [Next]_vars
  PROVE  \/ SourceStays \/ HandoffCommits \/ HandoffRollsBack
         \/ SourceDies \/ SourcePromoted \/ AllStopped
<1>a. ASSUME UNCHANGED <<active, retired, displayGeneration>>,
             children' = children \/ children' = AfterStopCandidate
      PROVE  SourceStays
  BY <1>a DEF SourceStays, AfterStopCandidate
<1>b. ASSUME NEW s \in Specs, NEW survivors,
             UNCHANGED <<active, retired, displayGeneration>>, Spawn(s, survivors),
             survivors = children \/ survivors = AfterStopCandidate
      PROVE  SourceStays
  BY <1>b DEF SourceStays, Spawn, AfterStopCandidate
<1>1. CASE UNCHANGED vars \/ PollTimeout \/ StartRefusedByHandoff
  BY <1>1, <1>a DEF vars, PollTimeout, StartRefusedByHandoff
<1>2. ASSUME NEW s \in Specs,
             StartQuarantined(s) \/ StartLaunchFails(s) \/ RetryLaunchFails(s)
               \/ RetrySaveFails(s)
      PROVE  SourceStays
  BY <1>2, <1>a DEF StartQuarantined, StartLaunchFails, RetryLaunchFails, RetrySaveFails
<1>3. ASSUME NEW s \in Specs, Start(s) \/ Retry(s) PROVE SourceStays
  BY <1>3, <1>b DEF Start, Retry
<1>4. CASE Stop
  BY <1>4 DEF Stop, StopAll, NoOrphans, AllStopped
<1>5. ASSUME NEW g \in 0..GenMax,
             AckMismatch(g) \/ AckPersistFails(g) \/ AckRepeated(g)
      PROVE  SourceStays
  BY <1>5, <1>a DEF AckMismatch, AckPersistFails, AckRepeated
<1>6. ASSUME TimeoutCommits \/ \E g \in 0..GenMax : AckCommits(g) PROVE HandoffCommits
  BY <1>6 DEF AckCommits, TimeoutCommits, HandoffDue, CommitFallback, HandoffCommits
<1>7. CASE BeforeDeadline \/ NothingDue \/ SpawnPendingFails \/ ActiveQuiet
             \/ ActiveSnapshot \/ CandidateQuiet \/ Restart
  BY <1>7, <1>a DEF BeforeDeadline, NothingDue, SpawnPendingFails, ActiveQuiet,
                    ActiveSnapshot, CandidateQuiet, Restart
<1>8. CASE TimeoutRollsBack \/ ActiveFailsInHandoff
  BY <1>8 DEF TimeoutRollsBack, ActiveFailsInHandoff, PreviousRestored, HandoffDue,
              HandoffRollsBack
<1>9. CASE SpawnPending
  <2>1. pending \in Specs
    BY <1>9 DEF SpawnPending, RestartDue, TypeOK
  <2>2. QED
    BY <1>9, <2>1, <1>b DEF SpawnPending
<1>10. CASE ActiveFails
  BY <1>10 DEF ActiveFails, Advance, SourceDies
<1>11. CASE CandidateProgress
  BY <1>11, <1>a DEF CandidateProgress
<1>12. CASE PromoteFirst \/ PromoteOver
  <2>1. Ready /\ active' = Promoted /\ retired = NoHandoff
    BY <1>12 DEF PromoteFirst, PromoteOver, Ready, HandoffShape
  <2>2. active'.pid = candidate.pid
    BY <2>1 DEF Ready, Promoted, TypeOK, Worker, NoWorker
  <2>3. retired'.worker = active
    BY <1>12, <2>1 DEF PromoteFirst, PromoteOver, NoHandoff
  <2>4. QED
    BY <1>12, <2>1, <2>2, <2>3 DEF PromoteFirst, PromoteOver, Ready, SourcePromoted
<1>13. CASE PromoteFirstFails \/ CandidateFails \/ CandidateRefuses
  BY <1>13, <1>a DEF PromoteFirstFails, CandidateFails, CandidateRefuses
<1>14. CASE Shutdown \/ Crash
  BY <1>14 DEF Shutdown, Crash, Forgotten, Advance, NoOrphans, AllStopped
<1>15. QED
  BY <1>1, <1>2, <1>3, <1>4, <1>5, <1>6, <1>7, <1>8, <1>9, <1>10, <1>11, <1>12,
     <1>13, <1>14
     DEF Next, Command, Tick, DeadlineStage, SpawnStage, ActiveStage,
         CandidateStage, Process

\* The places of the source and of the retired worker are held by living
\* processes other than the candidate's and than each other's.
LEMMA SourcesAlive ==
  ASSUME TypeOK, NoOrphans
  PROVE  /\ active # NoWorker =>
              /\ active.pid \in children
              /\ active.pid # candidate.pid /\ active.pid # retired.worker.pid
         /\ retired # NoHandoff =>
              /\ retired.worker.pid \in children
              /\ retired.worker.pid # candidate.pid
<1>1. retired # NoHandoff => retired.worker.pid # NoPid
  BY PlacesNamePids DEF TypeOK, Handoff
<1>2. QED
  BY <1>1, PlacesNamePids DEF NoOrphans

\* What happens to a candidate never costs the source on screen its process,
\* for any identities, processes, budgets and write errors.
THEOREM CandidatesAreHarmless == Spec => SourceOutlivesCandidates
<1>1. ASSUME TypeOK, HandoffShape, NoOrphans, [Next]_vars,
             active # NoWorker, active.pid \notin children'
      PROVE  loop = "active" \/ active' = retired.worker \/ children' = {}
  BY <1>1, StepKinds, SourcesAlive
     DEF SourceStays, HandoffCommits, HandoffRollsBack, SourceDies, SourcePromoted, AllStopped
<1>2. QED
  BY <1>1, HandoffInvariant, ProcessesAccounted, PTL DEF Spec, SourceOutlivesCandidates

\* The previous source lives until the promoted worker's still is the fallback,
\* whatever fails.
THEOREM PreviousSourceKept == Spec => OldSourceAvailable
<1>1. ASSUME TypeOK, HandoffShape, NoOrphans, [Next]_vars,
             retired # NoHandoff, retired.worker.pid \notin children'
      PROVE  (lastGood' = active.spec /\ active' = active) \/ children' = {}
  <2>1. active.pid # retired.worker.pid
    BY <1>1, SourcesAlive DEF HandoffShape
  <2>2. QED
    BY <1>1, <2>1, StepKinds, SourcesAlive
       DEF SourceStays, HandoffCommits, HandoffRollsBack, SourceDies, SourcePromoted, AllStopped
<1>2. QED
  BY <1>1, HandoffInvariant, ProcessesAccounted, PTL DEF Spec, OldSourceAvailable

\* A generation is spent exactly when another process becomes the source.
THEOREM GenerationsNameSources == Spec => GenerationNamesOneSource
<1>1. ASSUME TypeOK, HandoffShape, NoOrphans, [Next]_vars, loop' # "exited"
      PROVE  (displayGeneration' = NextGeneration(displayGeneration))
                <=> (active' # NoWorker /\ active'.pid # active.pid)
  <2>1. NextGeneration(displayGeneration) # displayGeneration
    BY <1>1, BoundsAssumption DEF NextGeneration, TypeOK
  <2>2. CASE SourceStays \/ HandoffCommits
    BY <2>1, <2>2 DEF SourceStays, HandoffCommits
  <2>3. CASE HandoffRollsBack
    <3>1. active # NoWorker /\ retired.worker # NoWorker
      BY <1>1, <2>3, PlacesNamePids DEF HandoffRollsBack, HandoffShape, TypeOK, Handoff
    <3>2. QED
      BY <1>1, <2>3, <3>1, SourcesAlive DEF HandoffRollsBack
  <2>4. CASE SourceDies \/ AllStopped
    BY <1>1, <2>1, <2>4 DEF SourceDies, AllStopped
  <2>5. CASE SourcePromoted
    <3>1. candidate.pid # active.pid /\ active' # NoWorker
      BY <1>1, <2>5, PlacesNamePids DEF SourcePromoted, NoOrphans
    <3>2. QED
      BY <2>5, <3>1 DEF SourcePromoted
  <2>6. QED
    BY <1>1, <2>2, <2>3, <2>4, <2>5, StepKinds
<1>2. QED
  BY <1>1, HandoffInvariant, ProcessesAccounted, PTL DEF Spec, GenerationNamesOneSource

-----------------------------------------------------------------------------
(* The supervisor implements SourceHandoff.                                *)

\* A step of each kind is a move of the handoff, a reset, or invisible to it.
LEMMA HandoffMoves ==
  ASSUME TypeOK, HandoffShape, NoOrphans, [Next]_vars
  PROVE  [Source!Next]_(Source!source)
<1> USE DEF Source!Next, Source!Moves, Source!source
<1>n. NoWorker.pid = NoPid /\ NoHandoff.worker.pid = NoPid
  BY DEF NoWorker, NoHandoff
<1>a. active # NoWorker <=> active.pid # NoPid
  BY PlacesNamePids
<1>r. retired # NoHandoff <=> retired.worker.pid # NoPid
  BY PlacesNamePids DEF TypeOK, Handoff
<1>1. CASE SourceStays
  BY <1>1 DEF SourceStays
<1>2. CASE HandoffCommits
  <2>1. Source!Commits
    BY <1>2, <1>n, <1>r DEF HandoffCommits, Source!Commits
  <2>2. QED
    BY <2>1
<1>3. CASE HandoffRollsBack
  <2>1. Source!RollsBack
    BY <1>3, <1>n, <1>r DEF HandoffRollsBack, Source!RollsBack
  <2>2. QED
    BY <2>1
<1>4. CASE SourceDies
  <2>1. Source!Ends
    BY <1>4, <1>n, <1>a DEF SourceDies, Source!Ends
  <2>2. QED
    BY <2>1
<1>5. CASE SourcePromoted
  <2>1. candidate.pid \in Pids /\ candidate.pid # active.pid
    BY <1>5, PlacesNamePids DEF SourcePromoted, NoOrphans, TypeOK
  <2>2. Source!Promotes(candidate.pid)
    BY <1>5, <1>n, <2>1 DEF SourcePromoted, Source!Promotes
  <2>3. QED
    BY <2>1, <2>2
<1>6. CASE AllStopped
  <2>1. CASE displayGeneration' = 0
    <3>1. Source!Resets
      BY <1>6, <1>n, <2>1 DEF AllStopped, Source!Resets
    <3>2. QED
      BY <3>1
  <2>2. CASE displayGeneration' = displayGeneration /\ active # NoWorker
    <3>1. Source!Ends
      BY <1>6, <1>n, <1>a, <2>2 DEF AllStopped, Source!Ends
    <3>2. QED
      BY <3>1
  <2>3. CASE displayGeneration' = displayGeneration /\ active = NoWorker
    <3>1. retired = NoHandoff
      BY <2>3 DEF HandoffShape
    <3>2. QED
      BY <1>6, <2>3, <3>1 DEF AllStopped
  <2>4. QED
    BY <1>6, <2>1, <2>2, <2>3 DEF AllStopped
<1>7. QED
  BY <1>1, <1>2, <1>3, <1>4, <1>5, <1>6, StepKinds

\* What the display relies on: the processes on screen and their generations
\* change only as SourceHandoff says, whatever candidates, failures, writes,
\* deadlines and ends of the daemon do.
THEOREM SupervisorHandsOver == Spec => HandsOver
<1>1. Init => Source!Init
  BY DEF Init, Source!Init, NoWorker, NoHandoff
<1>2. QED
  BY <1>1, HandoffMoves, HandoffInvariant, ProcessesAccounted, PTL
     DEF Spec, HandsOver, Source!Spec

-----------------------------------------------------------------------------
(* The supervisor implements RendererService.                              *)

\* A running candidate and the source on screen decide the phase between them:
\* no frame of a candidate changes what status() reports.
CandidatePhase ==
  candidate # NoWorker => phase = IF active # NoWorker THEN "Canary" ELSE "Starting"

LEMMA CandidatePhaseStep ==
  TypeOK /\ HandoffShape /\ CandidatePhase /\ [Next]_vars => CandidatePhase'
<1> SUFFICES ASSUME TypeOK, HandoffShape, CandidatePhase, [Next]_vars
             PROVE  CandidatePhase'
  OBVIOUS
<1> USE DEF CandidatePhase
<1>1. CASE UNCHANGED vars \/ PollTimeout \/ StartRefusedByHandoff
  BY <1>1 DEF vars, PollTimeout, StartRefusedByHandoff
<1>2. ASSUME NEW s \in Specs,
             StartQuarantined(s) \/ StartLaunchFails(s) \/ RetryLaunchFails(s)
               \/ RetrySaveFails(s)
      PROVE  CandidatePhase'
  BY <1>2 DEF StartQuarantined, StartLaunchFails, RetryLaunchFails, RetrySaveFails
<1>3. ASSUME NEW s \in Specs, Start(s) \/ Retry(s) PROVE CandidatePhase'
  BY <1>3 DEF Start, Retry, Spawn
<1>4. CASE Stop
  BY <1>4 DEF Stop, StopAll
<1>5. ASSUME NEW g \in 0..GenMax,
             AckMismatch(g) \/ AckCommits(g) \/ AckPersistFails(g) \/ AckRepeated(g)
      PROVE  CandidatePhase'
  BY <1>5 DEF AckMismatch, AckCommits, AckPersistFails, AckRepeated, AckPhase
<1>6. CASE BeforeDeadline \/ NothingDue \/ ActiveQuiet \/ ActiveSnapshot \/ CandidateQuiet
             \/ Restart
  BY <1>6 DEF BeforeDeadline, NothingDue, ActiveQuiet, ActiveSnapshot, CandidateQuiet, Restart
<1>7. CASE TimeoutCommits \/ TimeoutRollsBack \/ ActiveFailsInHandoff
  BY <1>7 DEF TimeoutCommits, TimeoutRollsBack, ActiveFailsInHandoff, HandoffDue, HandoffShape
<1>8. CASE SpawnPending
  BY <1>8 DEF SpawnPending, Spawn
<1>9. CASE SpawnPendingFails
  BY <1>9 DEF SpawnPendingFails, RestartDue
<1>10. CASE ActiveFails
  BY <1>10 DEF ActiveFails
<1>11. CASE CandidateProgress
  BY <1>11 DEF CandidateProgress
<1>12. CASE PromoteFirst \/ PromoteFirstFails \/ PromoteOver
  BY <1>12 DEF PromoteFirst, PromoteFirstFails, PromoteOver
<1>13. CASE CandidateFails \/ CandidateRefuses \/ Shutdown \/ Crash
  BY <1>13 DEF CandidateFails, CandidateRefuses, Shutdown, Crash, Forgotten
<1>14. QED
  BY <1>1, <1>2, <1>3, <1>4, <1>5, <1>6, <1>7, <1>8, <1>9, <1>10, <1>11, <1>12, <1>13
     DEF Next, Command, Tick, DeadlineStage, SpawnStage, ActiveStage,
         CandidateStage, Process

\* A place holds a worker exactly when it names a wallpaper.
LEMMA PlacesNameSpecs ==
  ASSUME TypeOK
  PROVE  /\ active # NoWorker <=> active.spec # NoSpec
         /\ candidate # NoWorker <=> candidate.spec # NoSpec
         /\ retired # NoHandoff <=> retired.worker.spec # NoSpec
         /\ retired # NoHandoff => retired.worker # NoWorker
         /\ NoWorker.spec = NoSpec /\ NoHandoff.worker = NoWorker
<1>1. \A w \in Worker : w.spec # NoSpec
  BY SpecsAssumption DEF Worker
<1>2. NoWorker.spec = NoSpec /\ NoHandoff.worker = NoWorker
  BY DEF NoWorker, NoHandoff
<1>3. retired # NoHandoff => retired.worker \in Worker
  BY DEF TypeOK, Handoff
<1>4. QED
  BY <1>1, <1>2, <1>3 DEF TypeOK

\* Every step of the supervisor is one the service allows, or invisible to it.
LEMMA ServiceStep ==
  ASSUME TypeOK, HandoffShape, CandidatePhase, [Next]_vars
  PROVE  [Service!ServiceNext]_(Service!service)
<1> USE PlacesNameSpecs
<1>1. CASE UNCHANGED vars \/ PollTimeout \/ StartRefusedByHandoff
  BY <1>1 DEF vars, PollTimeout, StartRefusedByHandoff, Service!service
<1>2. ASSUME NEW s \in Specs,
             \/ StartQuarantined(s) \/ Start(s) \/ StartLaunchFails(s)
             \/ Retry(s) \/ RetryLaunchFails(s)
      PROVE  Service!StartAnswered(s)
  <2>1. CASE StartQuarantined(s)
    BY <2>1 DEF StartQuarantined, MayStart, Service!StartAnswered, Service!StruckDown
  <2>2. CASE Start(s) \/ Retry(s)
    BY <2>2 DEF Start, Retry, MayStart, Spawn, Launched, Service!StartAnswered, Service!Launch
  <2>3. CASE StartLaunchFails(s) \/ RetryLaunchFails(s)
    BY <2>3 DEF StartLaunchFails, RetryLaunchFails, MayStart, CandidateStrike,
                Service!StartAnswered, Service!StruckDown
  <2>4. QED
    BY <1>2, <2>1, <2>2, <2>3
<1>3. ASSUME NEW s \in Specs, RetrySaveFails(s) PROVE Service!RetryNotSaved
  BY <1>3 DEF RetrySaveFails, MayStart, Service!RetryNotSaved
<1>4. CASE Stop
  BY <1>4 DEF Stop, StopAll, Service!ServiceNext, Service!StopAnswered
<1>5. ASSUME NEW g \in 0..GenMax, AckMismatch(g) \/ AckPersistFails(g)
      PROVE  UNCHANGED Service!service
  BY <1>5 DEF AckMismatch, AckPersistFails, Service!service
<1>6. ASSUME NEW g \in 0..GenMax, AckCommits(g) \/ AckRepeated(g)
      PROVE  Service!AckAnswered
  BY <1>6 DEF AckCommits, AckRepeated, AckPhase, Service!AckAnswered
<1>7. CASE BeforeDeadline \/ NothingDue \/ ActiveQuiet \/ ActiveSnapshot \/ CandidateQuiet
             \/ Restart
  BY <1>7 DEF BeforeDeadline, NothingDue, ActiveQuiet, ActiveSnapshot, CandidateQuiet,
              Restart, Service!service
<1>8. CASE TimeoutCommits
  BY <1>8 DEF TimeoutCommits, HandoffDue, Service!HandoffCommits, Service!ServiceNext,
              Service!ServiceSteps, Service!Settling
<1>9. CASE TimeoutRollsBack
  BY <1>9 DEF TimeoutRollsBack, HandoffDue, CandidateStrike, PreviousRestored,
              Service!HandoffRollsBack, Service!StruckDown, Service!ServiceNext,
              Service!ServiceSteps
<1>10. CASE ActiveFailsInHandoff
  BY <1>10 DEF ActiveFailsInHandoff, PreviousRestored, Service!HandoffRollsBack,
               Service!StruckDown, Service!ServiceNext, Service!ServiceSteps
<1>11. CASE SpawnPending
  <2>1. Service!RestartRuns
    BY <1>11 DEF SpawnPending, RestartDue, Spawn, Launched, Service!RestartRuns, Service!Launch
  <2>2. QED
    BY <2>1 DEF Service!ServiceNext, Service!ServiceSteps, Service!Settling
<1>12. CASE SpawnPendingFails
  <2>1. Service!RestartRuns
    BY <1>12 DEF SpawnPendingFails, RestartDue, CandidateStrike, Service!RestartRuns,
                 Service!StruckDown
  <2>2. QED
    BY <2>1 DEF Service!ServiceNext, Service!ServiceSteps, Service!Settling
<1>13. CASE ActiveFails
  <2>1. Service!SourceFails
    BY <1>13 DEF ActiveFails, Service!SourceFails
  <2>2. QED
    BY <2>1 DEF Service!ServiceNext, Service!ServiceSteps
<1>14. CASE CandidateProgress
  <2>1. candidate'.spec = candidate.spec
    BY <1>14 DEF CandidateProgress, TypeOK, Worker, NoWorker
  <2>2. phase' = phase
    BY <1>14 DEF CandidateProgress, CandidatePhase
  <2>3. QED
    BY <1>14, <2>1, <2>2 DEF CandidateProgress, Service!service
<1>15. CASE PromoteFirst \/ PromoteOver
  <2>1. active'.spec = candidate.spec
    BY <1>15 DEF PromoteFirst, PromoteOver, Ready, Promoted, TypeOK, Worker, NoWorker
  <2>2. retired'.worker.spec = active.spec
    BY <1>15 DEF PromoteFirst, PromoteOver, Ready, HandoffShape
  <2>3. Service!Promotes
    BY <1>15, <2>1, <2>2 DEF PromoteFirst, PromoteOver, Ready, Service!Promotes
  <2>4. QED
    BY <2>3 DEF Service!ServiceNext, Service!ServiceSteps, Service!Settling
<1>16. CASE PromoteFirstFails \/ CandidateFails
  <2>1. Service!CandidateLost
    BY <1>16 DEF PromoteFirstFails, CandidateFails, Ready, CandidateStrike,
                 Service!CandidateLost, Service!StruckDown
  <2>2. QED
    BY <2>1 DEF Service!ServiceNext, Service!ServiceSteps, Service!Settling
<1>17. CASE CandidateRefuses
  <2>1. Service!CandidateRefused
    BY <1>17 DEF CandidateRefuses, Refusal, Service!CandidateRefused
  <2>2. QED
    BY <2>1 DEF Service!ServiceNext, Service!ServiceSteps, Service!Settling
<1>18. CASE Shutdown \/ Crash
  BY <1>18 DEF Shutdown, Crash, Forgotten, Service!ServiceEnds, Service!ServiceNext
<1>19. QED
  BY <1>1, <1>2, <1>3, <1>4, <1>5, <1>6, <1>7, <1>8, <1>9, <1>10, <1>11, <1>12, <1>13,
     <1>14, <1>15, <1>16, <1>17, <1>18
     DEF Next, Command, Tick, DeadlineStage, SpawnStage, ActiveStage,
         CandidateStage, Process, Service!ServiceNext

\* Apply and PlaylistSession may rely on RendererService: the supervisor
\* implements it for any identities, processes, budgets and write errors.
THEOREM SupervisorServes == Spec => ServesClients
<1>1. Init => CandidatePhase /\ Service!ServiceInit
  BY DEF Init, CandidatePhase, Service!ServiceInit, NoWorker, NoHandoff
<1>2. TypeOK /\ HandoffShape /\ CandidatePhase /\ [Next]_vars
        => [Service!ServiceNext]_(Service!service)
  BY ServiceStep
<1>3. QED
  BY <1>1, <1>2, CandidatePhaseStep, HandoffInvariant, PTL
     DEF Spec, ServesClients, Service!ServiceSpec

-----------------------------------------------------------------------------
(* What status() reports.                                                  *)

\* Only a retry that cannot be saved leaves a phase that nothing backs: it drops
\* the candidate and the restart before it assigns one.
LEMMA PhaseStep ==
  ASSUME TypeOK, HandoffShape, PhaseIsBacked, [Next]_vars,
         ~\E s \in Specs : RetrySaveFails(s)
  PROVE  PhaseIsBacked'
<1> USE DEF PhaseIsBacked
<1>w. \A w \in Worker : w # NoWorker
  BY PidsAssumption DEF Worker, NoWorker
<1>1. CASE UNCHANGED vars \/ PollTimeout \/ StartRefusedByHandoff
  BY <1>1 DEF vars, PollTimeout, StartRefusedByHandoff
<1>2. ASSUME NEW s \in Specs, StartQuarantined(s) \/ StartLaunchFails(s) \/ RetryLaunchFails(s)
      PROVE  PhaseIsBacked'
  BY <1>2, SpecsAssumption DEF StartQuarantined, StartLaunchFails, RetryLaunchFails, CandidateStrike
<1>3. ASSUME NEW s \in Specs, Start(s) \/ Retry(s) PROVE PhaseIsBacked'
  <2>1. candidate' # NoWorker
    BY <1>3, PidsAssumption DEF Start, Retry, Spawn, Launched, NoWorker, AfterStopCandidate
  <2>2. QED
    BY <1>3, <2>1 DEF Start, Retry, Spawn
<1>4. CASE Stop
  BY <1>4 DEF Stop, StopAll
<1>5. ASSUME NEW g \in 0..GenMax,
             AckMismatch(g) \/ AckCommits(g) \/ AckPersistFails(g) \/ AckRepeated(g)
      PROVE  PhaseIsBacked'
  BY <1>5 DEF AckMismatch, AckCommits, AckPersistFails, AckRepeated, AckPhase, HandoffShape
<1>6. CASE BeforeDeadline \/ NothingDue \/ ActiveQuiet \/ ActiveSnapshot \/ CandidateQuiet
             \/ Restart
  BY <1>6 DEF BeforeDeadline, NothingDue, ActiveQuiet, ActiveSnapshot, CandidateQuiet, Restart
<1>7. CASE TimeoutCommits
  BY <1>7 DEF TimeoutCommits, HandoffDue, HandoffShape
<1>8. CASE TimeoutRollsBack \/ ActiveFailsInHandoff
  <2>1. /\ retired # NoHandoff /\ active' = retired.worker /\ retired.worker # NoWorker
        /\ candidate' = NoWorker /\ active.spec # NoSpec
    BY <1>8, <1>w, SpecsAssumption
       DEF TimeoutRollsBack, ActiveFailsInHandoff, HandoffDue, PreviousRestored, HandoffShape,
           TypeOK, Handoff, Worker
  <2>2. QED
    BY <1>8, <2>1 DEF TimeoutRollsBack, ActiveFailsInHandoff, CandidateStrike
<1>9. CASE SpawnPending
  <2>1. candidate' # NoWorker
    BY <1>9, PidsAssumption DEF SpawnPending, Spawn, Launched, NoWorker
  <2>2. QED
    BY <1>9, <2>1 DEF SpawnPending, Spawn
<1>10. CASE SpawnPendingFails
  BY <1>10 DEF SpawnPendingFails, RestartDue, CandidateStrike
<1>11. CASE ActiveFails
  <2>1. active.spec # NoSpec
    BY <1>11, SpecsAssumption DEF ActiveFails, TypeOK, Worker
  <2>2. QED
    BY <1>11, <2>1 DEF ActiveFails
<1>12. CASE CandidateProgress
  <2>1. candidate'.pid = candidate.pid
    BY <1>12 DEF CandidateProgress, TypeOK, Worker
  <2>2. candidate' # NoWorker
    BY <1>12, <2>1, PlacesNamePids DEF CandidateProgress
  <2>3. QED
    BY <1>12, <2>2 DEF CandidateProgress
<1>13. CASE PromoteFirst \/ PromoteOver
  <2>1. active' # NoWorker
    <3>1. active'.pid = candidate.pid
      BY <1>13 DEF PromoteFirst, PromoteOver, Promoted, Ready, TypeOK, Worker
    <3>2. QED
      BY <1>13, <3>1, PlacesNamePids DEF PromoteFirst, PromoteOver, Ready
  <2>2. QED
    BY <1>13, <2>1 DEF PromoteFirst, PromoteOver
<1>14. CASE PromoteFirstFails \/ CandidateFails
  <2>1. candidate.spec # NoSpec
    BY <1>14, PlacesNameSpecs DEF PromoteFirstFails, CandidateFails, Ready
  <2>2. QED
    BY <1>14, <2>1 DEF PromoteFirstFails, CandidateFails, CandidateStrike
<1>15. CASE CandidateRefuses \/ Shutdown \/ Crash
  BY <1>15 DEF CandidateRefuses, Refusal, Shutdown, Crash, Forgotten
<1>16. QED
  BY <1>1, <1>2, <1>3, <1>4, <1>5, <1>6, <1>7, <1>8, <1>9, <1>10, <1>11, <1>12, <1>13,
     <1>14, <1>15
     DEF Next, Command, Tick, DeadlineStage, SpawnStage, ActiveStage,
         CandidateStage, Process

\* While every write of the state file succeeds, what status() reports is backed
\* by the workers, whatever fails and however often.
THEOREM PhasesAreBacked ==
  ASSUME SaveOutcomes = {"saved"}
  PROVE  Spec => []PhaseIsBacked
<1>1. Init => PhaseIsBacked
  BY DEF Init, PhaseIsBacked
<1>2. TypeOK /\ HandoffShape /\ PhaseIsBacked /\ [Next]_vars => PhaseIsBacked'
  <2>1. ~\E s \in Specs : RetrySaveFails(s)
    BY DEF RetrySaveFails
  <2>2. QED
    BY <2>1, PhaseStep
<1>3. QED
  BY <1>1, <1>2, HandoffInvariant, PTL DEF Spec

-----------------------------------------------------------------------------
(* The state file.                                                         *)

\* Steps that leave the state file and what it says of memory alone.
LEMMA PersistedKinds ==
  ASSUME [Next]_vars
  PROVE  \/ UNCHANGED persisted
         \/ \E s \in Specs : Retry(s) \/ RetryLaunchFails(s) \/ RetrySaveFails(s)
         \/ \E s \in Specs : StartLaunchFails(s)
         \/ Stop \/ TimeoutCommits \/ TimeoutRollsBack
         \/ \E g \in 0..GenMax : AckCommits(g) \/ AckPersistFails(g)
         \/ SpawnPendingFails \/ ActiveSnapshot \/ ActiveFailsInHandoff \/ ActiveFails
         \/ PromoteFirst \/ PromoteFirstFails \/ CandidateFails
         \/ Process
<1>1. CASE UNCHANGED vars \/ PollTimeout \/ StartRefusedByHandoff
  BY <1>1 DEF vars, PollTimeout, StartRefusedByHandoff
<1>2. ASSUME NEW s \in Specs, StartQuarantined(s) \/ Start(s) PROVE UNCHANGED persisted
  BY <1>2 DEF StartQuarantined, Start
<1>3. ASSUME NEW g \in 0..GenMax, AckMismatch(g) \/ AckRepeated(g) PROVE UNCHANGED persisted
  BY <1>3 DEF AckMismatch, AckRepeated
<1>4. CASE BeforeDeadline \/ NothingDue \/ SpawnPending \/ ActiveQuiet \/ CandidateQuiet
             \/ CandidateProgress \/ PromoteOver \/ CandidateRefuses
  BY <1>4 DEF BeforeDeadline, NothingDue, SpawnPending, ActiveQuiet, CandidateQuiet,
              CandidateProgress, PromoteOver, CandidateRefuses, Refusal
<1>5. QED
  BY <1>1, <1>2, <1>3, <1>4
     DEF Next, Command, Tick, DeadlineStage, SpawnStage, ActiveStage, CandidateStage

\* A strike writes what memory has, over what it finds.
LEMMA StrikeWrites ==
  ASSUME NEW s, NEW source, NEW recs, NEW base,
         RecordFailure(s, recs, base) \/ CandidateStrike(s, source, recs, base)
  PROVE  /\ lastGood' = lastGood
         /\ \/ stored' = [records |-> records', lastGood |-> lastGood]
            \/ "lost" \in SaveOutcomes /\ stored' = base
BY SaveAssumption DEF CandidateStrike, RecordFailure, Saved

\* What a failed save leaves without an unsynced write: the old file.
LEMMA FailedSavesLost ==
  ASSUME "unsynced" \notin SaveOutcomes, NEW s, NEW base \in FailedSaves(s)
  PROVE  "lost" \in SaveOutcomes /\ base = stored
BY SaveAssumption DEF FailedSaves, Saved

\* The file and the memory of a running supervisor name the same still.
FallbackStored == loop # "exited" => stored.lastGood = lastGood

LEMMA FallbackStep ==
  ASSUME "unsynced" \notin SaveOutcomes, TypeOK, HandoffShape, FallbackStored, [Next]_vars
  PROVE  /\ FallbackStored'
         /\ retired # NoHandoff /\ stored'.lastGood # stored.lastGood
              => retired' = NoHandoff /\ active' = active
<1> DEFINE Goal == /\ FallbackStored'
                   /\ retired # NoHandoff /\ stored'.lastGood # stored.lastGood
                        => retired' = NoHandoff /\ active' = active
<1> USE DEF FallbackStored
<1>l. (loop # "exited" /\ loop' # "exited") \/ loop' = loop \/ Process
  BY DEF Next, vars, PollTimeout, Command, Tick, DeadlineStage, SpawnStage, ActiveStage,
         CandidateStage, StartRefusedByHandoff, StartQuarantined, Start, StartLaunchFails, Retry,
         RetryLaunchFails, RetrySaveFails, Stop, AckMismatch, AckCommits, AckPersistFails,
         AckRepeated, BeforeDeadline, TimeoutCommits, TimeoutRollsBack, NothingDue, SpawnPending,
         SpawnPendingFails, ActiveQuiet, ActiveSnapshot, ActiveFailsInHandoff, ActiveFails,
         CandidateQuiet, CandidateProgress, PromoteFirst, PromoteFirstFails, PromoteOver,
         CandidateFails, CandidateRefuses, Advance
<1>1. CASE Process
  BY <1>1 DEF Process, Shutdown, Crash, Restart, Forgotten, Advance, TypeOK
<1>2. CASE UNCHANGED persisted /\ ~Process
  BY <1>l, <1>2 DEF persisted
<1>s. ASSUME NEW s, NEW source, NEW recs, NEW base, base.lastGood = lastGood,
             RecordFailure(s, recs, base) \/ CandidateStrike(s, source, recs, base),
             loop # "exited"
      PROVE  Goal
  BY <1>s, StrikeWrites
<1>3. ASSUME NEW s \in Specs, Retry(s) \/ RetryLaunchFails(s) \/ RetrySaveFails(s)
      PROVE  Goal
  <2>1. loop # "exited"
    BY <1>3 DEF Retry, RetryLaunchFails, RetrySaveFails, Advance
  <2>2. CASE Retry(s)
    BY <2>1, <2>2 DEF Retry, MayStart
  <2>3. CASE RetryLaunchFails(s)
    BY <2>1, <2>3, <1>s DEF RetryLaunchFails
  <2>4. CASE RetrySaveFails(s)
    BY <2>1, <2>4, SaveAssumption DEF RetrySaveFails, Saved
  <2>5. QED
    BY <1>3, <2>2, <2>3, <2>4
<1>4. ASSUME NEW s \in Specs, StartLaunchFails(s) PROVE Goal
  BY <1>4, <1>s DEF StartLaunchFails, Advance
<1>5. CASE Stop
  BY <1>5, SaveAssumption DEF Stop, Advance, Saved
<1>6. ASSUME TimeoutCommits \/ \E g \in 0..GenMax : AckCommits(g) PROVE Goal
  BY <1>6, SaveAssumption DEF TimeoutCommits, AckCommits, CommitFallback, Saved
<1>7. ASSUME NEW g \in 0..GenMax, AckPersistFails(g) PROVE Goal
  BY <1>7, FailedSavesLost DEF AckPersistFails, Advance
<1>8. CASE TimeoutRollsBack
  <2>1. PICK base \in FailedSaves(active.spec) :
          CandidateStrike(active.spec, retired.worker, records, base)
    BY <1>8 DEF TimeoutRollsBack
  <2>2. base = stored
    BY FailedSavesLost
  <2>3. QED
    BY <1>8, <2>1, <2>2, <1>s DEF TimeoutRollsBack, Advance
<1>9. CASE SpawnPendingFails
  BY <1>9, <1>s DEF SpawnPendingFails, Advance
<1>10. CASE ActiveSnapshot
  BY <1>10, FailedSavesLost DEF ActiveSnapshot, MaySnapshot, Advance
<1>11. CASE ActiveFailsInHandoff \/ ActiveFails
  BY <1>11, <1>s DEF ActiveFailsInHandoff, ActiveFails, Advance
<1>12. CASE PromoteFirst
  BY <1>12, SaveAssumption DEF PromoteFirst, HandoffShape, CommitFallback, Saved
<1>13. CASE PromoteFirstFails
  <2>1. PICK base \in FailedSaves(candidate.spec) :
          CandidateStrike(candidate.spec, NoWorker, records, base)
    BY <1>13 DEF PromoteFirstFails
  <2>2. base = stored
    BY FailedSavesLost
  <2>3. QED
    BY <1>13, <2>1, <2>2, <1>s DEF PromoteFirstFails, Advance
<1>14. CASE CandidateFails
  BY <1>14, <1>s DEF CandidateFails, Advance
<1>15. QED
  BY <1>1, <1>2, <1>3, <1>4, <1>5, <1>6, <1>7, <1>8, <1>9, <1>10, <1>11, <1>12, <1>13, <1>14,
     PersistedKinds

\* While no write takes effect that is answered with an error, an open handoff
\* leaves the fallback alone: a restart after a crash shows the last wallpaper that
\* was acknowledged, never one that was only promoted.
THEOREM FallbackWaits ==
  ASSUME "unsynced" \notin SaveOutcomes
  PROVE  Spec => FallbackAwaitsCommit
<1>1. Init => FallbackStored
  BY DEF Init, FallbackStored
<1>2. TypeOK /\ HandoffShape /\ FallbackStored /\ [Next]_vars
        => FallbackStored'
  BY FallbackStep
<1>3. TypeOK /\ HandoffShape /\ FallbackStored /\ [Next]_vars
        => [(retired # NoHandoff /\ stored'.lastGood # stored.lastGood)
              => (retired' = NoHandoff /\ active' = active)]_vars
  BY FallbackStep
<1>4. QED
  BY <1>1, <1>2, <1>3, HandoffInvariant, PTL DEF Spec, FallbackAwaitsCommit

\* While every write succeeds, each step that changes the memory writes the file.
LEMMA StoredStep ==
  ASSUME SaveOutcomes = {"saved"}, TypeOK, HandoffShape, StoredIsCurrent, [Next]_vars
  PROVE  StoredIsCurrent'
<1> USE DEF StoredIsCurrent
<1>f. \A s : FailedSaves(s) = {}
  BY DEF FailedSaves
<1>s. ASSUME NEW s, NEW source, NEW recs, NEW base,
             RecordFailure(s, recs, base) \/ CandidateStrike(s, source, recs, base)
      PROVE  StoredIsCurrent'
  BY <1>s, StrikeWrites
<1>1. CASE UNCHANGED persisted
  <2>1. loop' # "exited" => loop # "exited" \/ Restart
    BY DEF Next, vars, PollTimeout, Command, Tick, DeadlineStage, SpawnStage, ActiveStage,
         CandidateStage, StartRefusedByHandoff, StartQuarantined, Start, StartLaunchFails, Retry,
         RetryLaunchFails, RetrySaveFails, Stop, AckMismatch, AckCommits, AckPersistFails,
         AckRepeated, BeforeDeadline, TimeoutCommits, TimeoutRollsBack, NothingDue, SpawnPending,
         SpawnPendingFails, ActiveQuiet, ActiveSnapshot, ActiveFailsInHandoff, ActiveFails,
         CandidateQuiet, CandidateProgress, PromoteFirst, PromoteFirstFails, PromoteOver,
         CandidateFails, CandidateRefuses, Advance, Process, Shutdown, Crash
  <2>2. Restart => StoredIsCurrent'
    BY DEF Restart, TypeOK
  <2>3. QED
    BY <1>1, <2>1, <2>2 DEF persisted
<1>2. ASSUME NEW s \in Specs, Retry(s) \/ RetryLaunchFails(s) \/ RetrySaveFails(s)
      PROVE  StoredIsCurrent'
  BY <1>2, <1>s DEF Retry, RetryLaunchFails, RetrySaveFails
<1>3. ASSUME NEW s \in Specs, StartLaunchFails(s) PROVE StoredIsCurrent'
  BY <1>3, <1>s DEF StartLaunchFails
<1>4. CASE Stop
  BY <1>4 DEF Stop, Advance, Saved
<1>5. ASSUME TimeoutCommits \/ \E g \in 0..GenMax : AckCommits(g) PROVE StoredIsCurrent'
  BY <1>5 DEF TimeoutCommits, AckCommits, CommitFallback, Saved
<1>6. ASSUME NEW g \in 0..GenMax, AckPersistFails(g) PROVE StoredIsCurrent'
  BY <1>6, <1>f DEF AckPersistFails
<1>7. CASE TimeoutRollsBack \/ PromoteFirstFails
  BY <1>7, <1>f DEF TimeoutRollsBack, PromoteFirstFails
<1>8. CASE SpawnPendingFails \/ ActiveFailsInHandoff \/ ActiveFails \/ CandidateFails
  BY <1>8, <1>s DEF SpawnPendingFails, ActiveFailsInHandoff, ActiveFails, CandidateFails
<1>9. CASE ActiveSnapshot
  BY <1>9, <1>f DEF ActiveSnapshot
<1>10. CASE PromoteFirst
  BY <1>10 DEF PromoteFirst, CommitFallback, Saved
<1>11. CASE Process
  BY <1>11 DEF Process, Shutdown, Crash, Restart, Advance, TypeOK
<1>12. QED
  BY <1>1, <1>2, <1>3, <1>4, <1>5, <1>6, <1>7, <1>8, <1>9, <1>10, <1>11, PersistedKinds

\* While every write succeeds, a crash at any point loses neither a strike nor the
\* fallback: the file of a running supervisor says what its memory says.
THEOREM NothingIsLost ==
  ASSUME SaveOutcomes = {"saved"}
  PROVE  Spec => []StoredIsCurrent
<1>1. Init => StoredIsCurrent
  BY DEF Init, StoredIsCurrent
<1>2. TypeOK /\ HandoffShape /\ StoredIsCurrent /\ [Next]_vars => StoredIsCurrent'
  BY StoredStep
<1>3. QED
  BY <1>1, <1>2, HandoffInvariant, PTL DEF Spec

-----------------------------------------------------------------------------
(* Quarantine.                                                             *)

\* Who may be launched, and what may be scheduled.
Allowed(spec, recs) == ~Quarantined(recs, spec) \/ spec = pending

LaunchesAllowed ==
  candidate' # NoWorker /\ candidate'.pid # candidate.pid
    => Allowed(candidate'.spec, records')

SchedulesAllowed ==
  pending' # NoSpec /\ Quarantined(records', pending') => pending' = pending

LEMMA QuarantineStep ==
  ASSUME TypeOK, [Next]_vars
  PROVE  LaunchesAllowed /\ SchedulesAllowed
<1> USE DEF LaunchesAllowed, SchedulesAllowed
<1>c. ASSUME NEW s \in Specs PROVE ~Quarantined(Cleared(s), s)
  BY BoundsAssumption DEF Quarantined, Cleared, TypeOK
<1>s. ASSUME NEW s, NEW source, NEW recs, NEW base, CandidateStrike(s, source, recs, base)
      PROVE  SchedulesAllowed
  BY <1>s DEF CandidateStrike
<1>1. CASE UNCHANGED vars \/ PollTimeout \/ StartRefusedByHandoff
  BY <1>1 DEF vars, PollTimeout, StartRefusedByHandoff
<1>2. ASSUME NEW s \in Specs, StartQuarantined(s) \/ RetrySaveFails(s)
      PROVE  LaunchesAllowed /\ SchedulesAllowed
  BY <1>2 DEF StartQuarantined, RetrySaveFails
<1>3. ASSUME NEW s \in Specs, StartLaunchFails(s) \/ RetryLaunchFails(s)
      PROVE  LaunchesAllowed /\ SchedulesAllowed
  BY <1>3, <1>s DEF StartLaunchFails, RetryLaunchFails
<1>4. ASSUME NEW s \in Specs, Start(s) PROVE LaunchesAllowed /\ SchedulesAllowed
  BY <1>4 DEF Start, Spawn, Launched, Allowed, persisted
<1>5. ASSUME NEW s \in Specs, Retry(s) PROVE LaunchesAllowed /\ SchedulesAllowed
  BY <1>5, <1>c DEF Retry, Spawn, Launched, Allowed
<1>6. CASE Stop
  BY <1>6 DEF Stop, StopAll
<1>7. ASSUME NEW g \in 0..GenMax,
             AckMismatch(g) \/ AckCommits(g) \/ AckPersistFails(g) \/ AckRepeated(g)
      PROVE  LaunchesAllowed /\ SchedulesAllowed
  BY <1>7 DEF AckMismatch, AckCommits, AckPersistFails, AckRepeated
<1>8. CASE BeforeDeadline \/ TimeoutCommits \/ NothingDue \/ ActiveQuiet \/ ActiveSnapshot
             \/ CandidateQuiet \/ Restart
  BY <1>8 DEF BeforeDeadline, TimeoutCommits, NothingDue, ActiveQuiet, ActiveSnapshot,
              CandidateQuiet, Restart
<1>9. CASE TimeoutRollsBack
  BY <1>9, <1>s DEF TimeoutRollsBack
<1>10. CASE SpawnPending
  BY <1>10 DEF SpawnPending, Spawn, Launched, Allowed
<1>11. CASE SpawnPendingFails
  BY <1>11, <1>s DEF SpawnPendingFails
<1>12. CASE ActiveFailsInHandoff \/ ActiveFails
  BY <1>12 DEF ActiveFailsInHandoff, ActiveFails
<1>13. CASE CandidateProgress
  <2>1. candidate'.pid = candidate.pid
    BY <1>13 DEF CandidateProgress, TypeOK, Worker
  <2>2. QED
    BY <1>13, <2>1 DEF CandidateProgress
<1>14. CASE PromoteFirst \/ PromoteOver \/ CandidateRefuses
  BY <1>14 DEF PromoteFirst, PromoteOver, CandidateRefuses, Refusal
<1>15. CASE PromoteFirstFails \/ CandidateFails
  BY <1>15, <1>s DEF PromoteFirstFails, CandidateFails
<1>16. CASE Shutdown \/ Crash
  BY <1>16 DEF Shutdown, Crash, Forgotten
<1>17. QED
  BY <1>1, <1>2, <1>3, <1>4, <1>5, <1>6, <1>7, <1>8, <1>9, <1>10, <1>11, <1>12, <1>13,
     <1>14, <1>15, <1>16
     DEF Next, Command, Tick, DeadlineStage, SpawnStage, ActiveStage,
         CandidateStage, Process

\* Whatever strikes, evictions and restarts of the daemon have made of the records,
\* a quarantined identity is launched by nothing but the retry that clears it, or
\* the restart that was already waiting, and no failure schedules it.
THEOREM QuarantinesStand == Spec => QuarantineStands
<1>1. TypeOK /\ [Next]_vars
        => [/\ (candidate' # NoWorker /\ candidate'.pid # candidate.pid)
                  => ~Quarantined(records', candidate'.spec) \/ candidate'.spec = pending
            /\ (pending' # NoSpec /\ Quarantined(records', pending')) => pending' = pending]_vars
  BY QuarantineStep DEF LaunchesAllowed, SchedulesAllowed, Allowed
<1>2. QED
  BY <1>1, HandoffInvariant, PTL DEF Spec, QuarantineStands

=============================================================================
