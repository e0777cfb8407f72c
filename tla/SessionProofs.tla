---------------------------- MODULE SessionProofs ----------------------------
(***************************************************************************)
(* What the playlist session keeps against the user's own choices, for any *)
(* playlists, wallpapers and number of events.                             *)
(***************************************************************************)
EXTENDS PlaylistSession, TLAPS

(***************************************************************************)
(* The inductive invariant.                                                *)
(***************************************************************************)

\* Both transactions know their wallpaper.
OwnersKnown ==
  /\ lane.step # "idle" => lane.wallpaper \in Specs
  /\ user.step # "idle" => user.wallpaper \in Specs

\* apply_lock.
LockHeldOnce == UserHolds => ~LaneHolds

\* While a handoff is open nothing else is coming.
HandoffAlone == previous # NoSpec => shown # NoSpec /\ coming = NoSpec /\ waiting = NoSpec

\* Since s was started it is all that may come to take the screen over; the
\* supervisor asks for another one only when that one was on screen and failed.
Launched(s, on, next, old, restart, asked) ==
  /\ on # NoSpec => {next, restart} \subseteq {NoSpec, s}
  /\ old # NoSpec => on = s
  /\ asked = s => {next, restart} \subseteq {NoSpec, s}

UserLaunched ==
  user.step \in {"wait", "switch"} =>
    Launched(user.wallpaper, shown, coming, previous, waiting, requested)

\* The user's choice cannot come back once it is not what is asked for, and a
\* dead one has left nothing that could become alive.
ChoiceLaunched ==
  choice # NoSpec =>
    /\ Launched(choice, shown, coming, previous, waiting, requested)
    /\ ~HasLiveWorker => {shown, coming, waiting} = {NoSpec}
    /\ requested # choice => choice \notin {shown, coming, waiting}

\* The check that the lane has made with the lock held is still good.
CheckStands ==
  lane.step = "start" /\ choice # NoSpec /\ requested = choice
    => ~ForeignLive(lane.wallpaper, lane.applied)

QueuedNotRefused == lane.step = "queued" => lane.wallpaper \notin memory.refused

Inv ==
  /\ TypeOK /\ OwnersKnown /\ LockHeldOnce /\ HandoffAlone
  /\ UserLaunched /\ ChoiceLaunched /\ CheckStands
  /\ QueuedNotRefused

-----------------------------------------------------------------------------
(* The supervisor.                                                         *)

\* What the supervisor does leaves its own variables in their types.
LEMMA ServiceTypes ==
  ASSUME ServiceTypeOK,
         \/ \E s \in Specs : StartAnswered(s)
         \/ StopAnswered \/ AckAnswered \/ ServiceSteps \/ ServiceEnds
         \/ UNCHANGED service
  PROVE  ServiceTypeOK'
<1> USE DEF ServiceTypeOK, WorkerPhases
<1>1. ASSUME NEW s \in Specs, StartAnswered(s) PROVE ServiceTypeOK'
  BY <1>1 DEF StartAnswered, Launch, StruckDown
<1>2. CASE StopAnswered \/ AckAnswered \/ ServiceEnds
  BY <1>2 DEF StopAnswered, AckAnswered, ServiceEnds
<1>3. CASE HandoffCommits \/ HandoffRollsBack
  BY <1>3 DEF HandoffCommits, HandoffRollsBack, StruckDown
<1>4. CASE RestartRuns
  BY <1>4 DEF RestartRuns, Launch, StruckDown
<1>5. CASE SourceFails
  BY <1>5 DEF SourceFails
<1>6. CASE Promotes
  BY <1>6 DEF Promotes
<1>7. CASE CandidateLost \/ CandidateRefused
  BY <1>7 DEF CandidateLost, CandidateRefused, StruckDown
<1>8. CASE UNCHANGED service
  BY <1>8 DEF service
<1>9. QED
  BY <1>1, <1>2, <1>3, <1>4, <1>5, <1>6, <1>7, <1>8 DEF ServiceSteps, Settling

\* Nothing the supervisor does opens a handoff beside a candidate.
LEMMA HandoffStays ==
  ASSUME ServiceTypeOK, HandoffAlone,
         \/ \E s \in Specs : StartAnswered(s)
         \/ StopAnswered \/ AckAnswered \/ ServiceSteps \/ ServiceEnds
         \/ UNCHANGED service
  PROVE  HandoffAlone'
<1> USE DEF HandoffAlone
<1>1. ASSUME NEW s \in Specs, StartAnswered(s) PROVE HandoffAlone'
  BY <1>1 DEF StartAnswered
<1>2. CASE StopAnswered \/ AckAnswered \/ ServiceEnds
  BY <1>2 DEF StopAnswered, AckAnswered, ServiceEnds
<1>3. CASE HandoffCommits \/ HandoffRollsBack
  BY <1>3 DEF HandoffCommits, HandoffRollsBack
<1>4. CASE RestartRuns
  BY <1>4 DEF RestartRuns
<1>5. CASE SourceFails
  BY <1>5 DEF SourceFails
<1>6. CASE Promotes
  BY <1>6 DEF Promotes
<1>7. CASE CandidateLost \/ CandidateRefused
  BY <1>7 DEF CandidateLost, CandidateRefused
<1>8. CASE UNCHANGED service
  BY <1>8 DEF service
<1>9. QED
  BY <1>1, <1>2, <1>3, <1>4, <1>5, <1>6, <1>7, <1>8 DEF ServiceSteps, Settling

\* A wallpaper that is started takes over what is coming and what waits.
LEMMA StartLaunches ==
  ASSUME NEW s \in Specs, StartAnswered(s)
  PROVE  Launched(s, shown', coming', previous', waiting', requested')
BY NoneAssumption DEF StartAnswered, Launch, StruckDown, Launched

\* What is launched stays so under all that the supervisor does of its own.
LEMMA LaunchedStays ==
  ASSUME NEW s \in Specs, HandoffAlone,
         Launched(s, shown, coming, previous, waiting, requested),
         StopAnswered \/ AckAnswered \/ ServiceSteps \/ UNCHANGED service
  PROVE  Launched(s, shown', coming', previous', waiting', requested')
<1> USE DEF Launched, HandoffAlone
<1>1. CASE StopAnswered \/ AckAnswered
  BY <1>1 DEF StopAnswered, AckAnswered
<1>2. CASE HandoffCommits
  BY <1>2 DEF HandoffCommits
<1>3. CASE HandoffRollsBack
  BY <1>3 DEF HandoffRollsBack, StruckDown
<1>4. CASE RestartRuns
  BY <1>4 DEF RestartRuns, Launch, StruckDown
<1>5. CASE SourceFails
  BY <1>5, NoneAssumption DEF SourceFails
<1>6. CASE Promotes
  BY <1>6 DEF Promotes
<1>7. CASE CandidateLost \/ CandidateRefused
  BY <1>7 DEF CandidateLost, CandidateRefused, StruckDown
<1>8. CASE UNCHANGED service
  BY <1>8 DEF service
<1>9. QED
  BY <1>1, <1>2, <1>3, <1>4, <1>5, <1>6, <1>7, <1>8 DEF ServiceSteps, Settling

-----------------------------------------------------------------------------
(* Types.                                                                  *)

Lanes == [step : {"idle", "queued", "check", "start", "wait", "switch", "failing", "done"},
          wallpaper : MaybeSpec, applied : MaybeSpec, outcome : Outcomes]
Users == [step : {"idle", "locked", "wait", "switch", "failing"}, wallpaper : MaybeSpec]
Memories == [applied : MaybeSpec, ready : BOOLEAN, refused : SUBSET Specs, disowned : BOOLEAN]

LEMMA EventsStay ==
  ASSUME events \in 0..MaxEvents, Event \/ NoEvent
  PROVE  events' \in 0..MaxEvents
BY EventsAssumption DEF Event, NoEvent

\* What the folds and verdicts make of the session's memory.
LEMMA MemoryTypes ==
  ASSUME NEW m \in Memories, NEW s \in Specs
  PROVE  /\ Satisfied(m, s) \in Memories /\ Satisfied(m, s).refused = m.refused
         /\ Yielding(m) \in Memories /\ Yielding(m).refused = m.refused
         /\ [m EXCEPT !.refused = @ \cup {s}] \in Memories
         /\ [m EXCEPT !.ready = FALSE] \in Memories
BY DEF Satisfied, Yielding, Memories, MaybeSpec

LEMMA FoldedType ==
  ASSUME TypeOK, OwnersKnown
  PROVE  Folded(memory) \in Memories
<1>1. memory \in Memories
  BY DEF TypeOK, Memories
<1>2. CASE lane.step # "done"
  BY <1>1, <1>2 DEF Folded
<1>3. CASE lane.step = "done"
  <2>1. lane.wallpaper \in Specs
    BY <1>3 DEF OwnersKnown
  <2>2. /\ Satisfied(memory, lane.wallpaper) \in Memories /\ Yielding(memory) \in Memories
        /\ [memory EXCEPT !.refused = @ \cup {lane.wallpaper}] \in Memories
        /\ [memory EXCEPT !.ready = FALSE] \in Memories
    BY <1>1, <2>1, MemoryTypes
  <2>3. QED
    BY <1>3, <2>2 DEF Folded
<1>4. QED
  BY <1>2, <1>3

\* The tick's decision on an entry: the memory keeps its refusals, and the lane
\* goes on, becomes idle, or takes the entry.
LEMMA AppliesKinds ==
  ASSUME NEW m \in Memories, NEW desired \in Specs, lane \in Lanes,
         Applies(m, desired) \/ AppliesNothing(m)
  PROVE  /\ memory' \in Memories /\ memory'.refused = m.refused
         /\ \/ lane' = [step |-> "queued", wallpaper |-> desired, applied |-> m.applied,
                        outcome |-> "none"] /\ Applies(m, desired)
            \/ lane.step = "done" /\ lane' = IdleLane
            \/ lane.step # "done" /\ lane' = lane
BY MemoryTypes DEF Applies, AppliesNothing

LEMMA TickTypes ==
  ASSUME TypeOK, OwnersKnown, Tick
  PROVE  TypeOK' /\ OwnersKnown'
<1> DEFINE m == Folded(memory)
<1>1. m \in Memories
  BY FoldedType
<1>2. lane \in Lanes /\ IdleLane \in Lanes
  BY DEF TypeOK, Lanes, IdleLane, MaybeSpec, Outcomes
<1>3. /\ ServiceTypeOK' /\ stored' \subseteq Playlists /\ active' \in stored' \cup {None}
      /\ quarantined' \subseteq Specs /\ user' = user /\ requester' = requester
      /\ choice' = choice
  BY DEF Tick, TypeOK, ServiceTypeOK, service, HasLiveWorker
<1>4. /\ events' \in 0..MaxEvents
      /\ position' \in [Playlists -> MaybeSpec]
      /\ \/ AppliesNothing(m)
         \/ \E entry \in Specs : Applies(m, entry)
  BY EventsStay DEF Tick, TypeOK, Decides, MaybeSpec
<1> HIDE DEF m
<1>5. memory' \in Memories /\ lane' \in Lanes /\ (lane'.step # "idle" => lane'.wallpaper \in Specs)
  <2>1. CASE AppliesNothing(m)
    BY <2>1, <1>1, <1>2 DEF AppliesNothing, OwnersKnown, IdleLane
  <2>2. ASSUME NEW entry \in Specs, Applies(m, entry)
        PROVE  /\ memory' \in Memories /\ lane' \in Lanes
               /\ lane'.step # "idle" => lane'.wallpaper \in Specs
    <3>1. m.applied \in MaybeSpec /\ entry \in MaybeSpec
      BY <1>1 DEF Memories, MaybeSpec
    <3>2. [step |-> "queued", wallpaper |-> entry, applied |-> m.applied, outcome |-> "none"] \in Lanes
      BY <3>1 DEF Lanes, Outcomes
    <3>3. QED
      BY <2>2, <3>2, <1>1, <1>2, AppliesKinds DEF OwnersKnown, IdleLane
  <2>3. QED
    BY <1>4, <2>1, <2>2
<1>6. QED
  BY <1>3, <1>4, <1>5 DEF TypeOK, OwnersKnown, Memories, Lanes, ServiceTypeOK

\* Every step of the system is one of the supervisor's promises, or leaves the
\* supervisor alone.
LEMMA ServiceKinds ==
  ASSUME OwnersKnown, [Next]_vars
  PROVE  \/ \E s \in Specs : StartAnswered(s)
         \/ StopAnswered \/ AckAnswered \/ ServiceSteps \/ ServiceEnds
         \/ UNCHANGED service
<1>1. CASE Tick \/ RetryIsReady
  BY <1>1 DEF Tick, RetryIsReady
<1>2. CASE Settles \/ SourceIsLost
  BY <1>2 DEF Settles, SourceIsLost, ServiceSteps, Settling
<1>3. CASE LaneSteps
  <2>1. CASE LaneStarts
    BY <2>1 DEF LaneStarts, Starts, OwnersKnown
  <2>2. CASE LaneRollsBack
    BY <2>2 DEF LaneRollsBack, RollsBack
  <2>3. CASE LaneTakes \/ LaneChecks \/ LaneStartErrs \/ LaneWaits \/ LaneSwitches
    BY <2>3 DEF LaneTakes, LaneChecks, LaneStartErrs, LaneWaits, LaneSwitches
  <2>4. QED
    BY <1>3, <2>1, <2>2, <2>3 DEF LaneSteps
<1>4. CASE UserSteps
  <2>1. CASE UserStarts
    BY <2>1 DEF UserStarts, Starts, OwnersKnown
  <2>2. CASE UserRollsBack
    BY <2>2 DEF UserRollsBack, RollsBack
  <2>3. CASE UserWaits \/ UserSwitches
    BY <2>3 DEF UserWaits, UserSwitches
  <2>4. QED
    BY <1>4, <2>1, <2>2, <2>3 DEF UserSteps
<1>5. CASE Commands
  BY <1>5 DEF Commands, UserBegins, UserStops, Acks, Activates, Removes, Deactivates
<1>6. CASE DaemonRestarts
  BY <1>6 DEF DaemonRestarts
<1>7. CASE UNCHANGED vars
  BY <1>7 DEF vars
<1>8. QED
  BY <1>1, <1>2, <1>3, <1>4, <1>5, <1>6, <1>7 DEF Next

LEMMA StrikesTypes ==
  ASSUME quarantined \subseteq Specs, events \in 0..MaxEvents,
         NEW s \in Specs, Strikes(s)
  PROVE  quarantined' \subseteq Specs /\ events' \in 0..MaxEvents
BY EventsAssumption DEF Strikes, Event

\* Where the transactions stand.
LEMMA StepTypes ==
  ASSUME TypeOK, OwnersKnown
  PROVE  /\ \A step \in {"check", "start", "wait", "switch", "failing"} :
              [lane EXCEPT !.step = step] \in Lanes
         /\ \A outcome \in Outcomes :
              [lane EXCEPT !.step = "done", !.outcome = outcome] \in Lanes
         /\ \A step \in {"wait", "switch", "failing"} : [user EXCEPT !.step = step] \in Users
         /\ IdleLane \in Lanes /\ IdleUser \in Users
<1>1. lane \in Lanes /\ user \in Users
  BY DEF TypeOK, Lanes, Users
<1>2. QED
  BY <1>1 DEF Lanes, Users, IdleLane, IdleUser, MaybeSpec, Outcomes

Types == TypeOK /\ OwnersKnown /\ HandoffAlone

LEMMA TypeStep ==
  ASSUME Types, [Next]_vars
  PROVE  Types'
<1> USE DEF Types
<1>s. ServiceTypeOK' /\ HandoffAlone'
  BY ServiceKinds, ServiceTypes, HandoffStays DEF TypeOK
<1>t. lane \in Lanes /\ user \in Users /\ memory \in Memories
  BY DEF TypeOK, Lanes, Users, Memories
<1>1. CASE Tick
  BY <1>1, <1>s, TickTypes
<1>2. CASE RetryIsReady
  <2>1. memory' \in Memories
    BY <1>2, <1>t DEF RetryIsReady, Memories
  <2>2. QED
    BY <1>2, <1>s, <2>1 DEF RetryIsReady, TypeOK, OwnersKnown, Memories
<1>3. CASE Settles \/ SourceIsLost
  <2>1. quarantined' \subseteq Specs /\ events' \in 0..MaxEvents
    <3>1. {shown, coming, waiting} \subseteq Specs \cup {NoSpec}
      BY DEF TypeOK, ServiceTypeOK
    <3>2. CASE Settles
      BY <1>3, <3>1, <3>2, StrikesTypes, EventsStay
         DEF Settles, TypeOK, RestartRuns, CandidateLost
    <3>3. CASE SourceIsLost
      BY <1>3, <3>1, <3>3, StrikesTypes
         DEF SourceIsLost, TypeOK, HandoffRollsBack, SourceFails, HandoffAlone
    <3>4. QED
      BY <1>3, <3>2, <3>3
  <2>2. choice' \in MaybeSpec
    BY <1>3 DEF Settles, SourceIsLost, ChoiceFades, TypeOK, MaybeSpec
  <2>3. UNCHANGED <<stored, active, position, memory, lane, user, requester>>
    BY <1>3 DEF Settles, SourceIsLost
  <2>4. QED
    BY <1>s, <2>1, <2>2, <2>3 DEF TypeOK, OwnersKnown
<1>4. CASE LaneSteps
  <2>1. /\ lane' \in Lanes
        /\ lane'.wallpaper \in Specs
        /\ events' \in 0..MaxEvents /\ quarantined' \subseteq Specs
        /\ choice' \in MaybeSpec /\ requester' \in {"nobody", "lane", "user"}
        /\ UNCHANGED <<stored, active, position, memory, user>>
    <3>1. CASE LaneTakes \/ LaneChecks \/ LaneStartErrs \/ LaneWaits \/ LaneSwitches \/ LaneRollsBack
      <4>1. /\ lane.step # "idle" /\ (Event \/ NoEvent)
            /\ UNCHANGED <<stored, active, position, quarantined, memory, user, requester, choice>>
        BY <3>1 DEF LaneTakes, LaneChecks, LaneStartErrs, LaneWaits, LaneSwitches, LaneRollsBack
      <4>2. \/ \E step \in {"check", "start", "wait", "switch", "failing"} : LaneGoes(step)
            \/ \E outcome \in Outcomes : LaneAnswers(outcome)
        BY <3>1 DEF LaneTakes, LaneChecks, LaneStartErrs, LaneWaits, LaneSwitches, LaneRollsBack,
                    Outcomes
      <4>3. lane' \in Lanes
        BY <4>2, StepTypes DEF LaneGoes, LaneAnswers
      <4>4. lane'.wallpaper = lane.wallpaper
        BY <4>2, <1>t DEF LaneGoes, LaneAnswers, Lanes
      <4>5. QED
        BY <4>1, <4>3, <4>4, EventsStay DEF TypeOK, OwnersKnown
    <3>2. CASE LaneStarts
      <4>1. lane.wallpaper \in Specs
        BY <3>2 DEF LaneStarts, OwnersKnown
      <4>2. events' \in 0..MaxEvents /\ quarantined' \subseteq Specs
        BY <3>2, <4>1, StrikesTypes, EventsStay DEF LaneStarts, Starts, TypeOK
      <4>3. lane' \in Lanes /\ lane'.wallpaper = lane.wallpaper
        BY <3>2, <1>t, StepTypes DEF LaneStarts, LaneGoes, Lanes
      <4>4. QED
        BY <3>2, <4>1, <4>2, <4>3 DEF LaneStarts, Starts, TypeOK, MaybeSpec
    <3>3. QED
      BY <1>4, <3>1, <3>2 DEF LaneSteps
  <2>2. QED
    BY <1>s, <2>1 DEF TypeOK, OwnersKnown, Lanes
<1>5. CASE UserSteps
  <2>1. /\ user' \in Users
        /\ user'.step # "idle" => user'.wallpaper \in Specs
        /\ events' \in 0..MaxEvents /\ quarantined' \subseteq Specs
        /\ choice' \in MaybeSpec /\ requester' \in {"nobody", "lane", "user"}
        /\ UNCHANGED <<stored, active, position, memory, lane>>
    <3>1. CASE UserWaits \/ UserSwitches \/ UserRollsBack
      BY <3>1, <1>t, StepTypes, EventsStay
         DEF UserWaits, UserSwitches, UserRollsBack, UserGoes, TypeOK, OwnersKnown, Users, IdleUser
    <3>2. CASE UserStarts
      <4>1. user.wallpaper \in Specs
        BY <3>2 DEF UserStarts, OwnersKnown
      <4>2. events' \in 0..MaxEvents /\ quarantined' \subseteq Specs
        BY <3>2, <4>1, StrikesTypes, EventsStay DEF UserStarts, Starts, TypeOK
      <4>3. user' \in Users /\ (user'.step # "idle" => user'.wallpaper = user.wallpaper)
        BY <3>2, <1>t, StepTypes DEF UserStarts, UserGoes, Users, IdleUser
      <4>4. QED
        BY <3>2, <4>1, <4>2, <4>3 DEF UserStarts, Starts, TypeOK, MaybeSpec
    <3>3. QED
      BY <1>5, <3>1, <3>2 DEF UserSteps
  <2>2. QED
    BY <1>s, <2>1 DEF TypeOK, OwnersKnown, Users
<1>6. ASSUME NEW s \in Choices, UserBegins(s) PROVE Types'
  <2>1. s \in Specs /\ user' \in Users
    BY <1>6, ChoicesAssumption DEF UserBegins, Users, MaybeSpec
  <2>2. QED
    BY <1>6, <1>s, <2>1, EventsStay DEF UserBegins, TypeOK, OwnersKnown, Users
<1>7. CASE UserStops \/ Acks
  BY <1>7, <1>s, EventsStay DEF UserStops, Acks, TypeOK, OwnersKnown, MaybeSpec
<1>8. Reset(memory) \in Memories
  BY <1>t DEF Reset, Yielding, Memories, MaybeSpec
<1>9. ASSUME NEW p \in Playlists, Activates(p) PROVE Types'
  <2>1. position' \in [Playlists -> MaybeSpec]
    <3>1. PICK entry \in Available(p, {}) \cup {NoSpec} :
            position' = [position EXCEPT ![p] = entry]
      BY <1>9 DEF Activates
    <3>2. entry \in MaybeSpec
      BY EntriesAssumption DEF Available, MaybeSpec
    <3>3. position \in [Playlists -> MaybeSpec]
      BY DEF TypeOK
    <3>4. QED
      BY <3>1, <3>2, <3>3
  <2>2. QED
    BY <1>9, <1>s, <1>8, <2>1, EventsStay DEF Activates, TypeOK, OwnersKnown, Memories
<1>10. ASSUME NEW p \in Playlists, Removes(p) PROVE Types'
  BY <1>10, <1>s, EventsStay DEF Removes, TypeOK, OwnersKnown, MaybeSpec
<1>11. CASE Deactivates
  BY <1>11, <1>s, <1>8, EventsStay DEF Deactivates, TypeOK, OwnersKnown, Memories
<1>12. CASE DaemonRestarts
  BY <1>12, <1>s, StepTypes, EventsStay
     DEF DaemonRestarts, TypeOK, OwnersKnown, FreshMemory, IdleLane, IdleUser, Lanes, Users, MaybeSpec
<1>13. CASE UNCHANGED vars
  BY <1>13, <1>s DEF vars, sessionVars, TypeOK, OwnersKnown
<1>14. QED
  BY <1>1, <1>2, <1>3, <1>4, <1>5, <1>6, <1>7, <1>9, <1>10, <1>11, <1>12, <1>13
     DEF Next, Commands

-----------------------------------------------------------------------------
(* The lock and the refusals.                                              *)

\* What a step does to the two transactions.
LEMMA TransactionKinds ==
  ASSUME Types, [Next]_vars
  PROVE  /\ \/ lane' = lane
            \/ lane.step \in {"idle", "done"} /\ lane'.step = "queued"
            \/ lane'.step \in {"idle", "done"}
            \/ lane.step = "queued" /\ user.step = "idle" /\ lane'.step = "check"
            \/ LaneHolds /\ LaneHolds'
         /\ \/ user' = user
            \/ user'.step = "idle"
            \/ user.step # "idle"
            \/ user.step = "idle" /\ ~LaneHolds /\ lane' = lane
<1> USE DEF Types
<1>t. lane \in Lanes /\ user \in Users
  BY DEF TypeOK, Lanes, Users
<1>1. CASE Tick
  <2>1. user' = user
    BY <1>1 DEF Tick
  <2>2. \/ AppliesNothing(Folded(memory))
        \/ \E entry \in MaybeSpec : Applies(Folded(memory), entry)
    BY <1>1 DEF Tick
  <2>3. \/ lane' = lane \/ lane'.step = "idle"
        \/ lane.step \in {"idle", "done"} /\ lane'.step = "queued"
    BY <2>2, <1>t DEF AppliesNothing, Applies, IdleLane, Lanes
  <2>4. QED
    BY <2>1, <2>3
<1>2. CASE LaneSteps
  BY <1>2, <1>t DEF LaneSteps, LaneTakes, LaneChecks, LaneStarts, LaneStartErrs, LaneWaits,
     LaneSwitches, LaneRollsBack, LaneGoes, LaneAnswers, LaneHolds, UserHolds, Lanes
<1>3. CASE UserSteps
  BY <1>3 DEF UserSteps, UserStarts, UserWaits, UserSwitches, UserRollsBack
<1>4. CASE DaemonRestarts
  BY <1>4 DEF DaemonRestarts, IdleLane, IdleUser
<1>5. CASE Commands
  BY <1>5 DEF Commands, UserBegins, UserStops, Acks, Activates, Removes, Deactivates
<1>6. CASE RetryIsReady \/ Settles \/ SourceIsLost \/ UNCHANGED vars
  BY <1>6 DEF RetryIsReady, Settles, SourceIsLost, vars, sessionVars
<1>7. QED
  BY <1>1, <1>2, <1>3, <1>4, <1>5, <1>6 DEF Next

LEMMA LockStep ==
  ASSUME Types, LockHeldOnce, [Next]_vars
  PROVE  LockHeldOnce'
<1>1. user.step # "idle" => ~LaneHolds
  BY DEF LockHeldOnce, UserHolds
<1>2. CASE UserHolds'
  <2>1. CASE lane' = lane
    BY <1>1, <1>2, <2>1, TransactionKinds DEF LockHeldOnce, UserHolds, LaneHolds
  <2>2. CASE LaneHolds'
    BY <1>1, <1>2, <2>1, <2>2, TransactionKinds DEF UserHolds, LaneHolds
  <2>3. QED
    BY <2>2 DEF LockHeldOnce
<1>3. QED
  BY <1>2 DEF LockHeldOnce

LEMMA RefusalStep ==
  ASSUME Types, QueuedNotRefused, [Next]_vars
  PROVE  QueuedNotRefused'
<1> USE DEF Types
<1>t. lane \in Lanes /\ memory \in Memories
  BY DEF TypeOK, Lanes, Memories
<1>1. CASE Tick
  <2> DEFINE m == Folded(memory)
  <2>1. m \in Memories /\ (lane.step = "queued" => m = memory)
    BY FoldedType DEF Folded
  <2>2. \/ AppliesNothing(m)
        \/ \E entry \in Specs :
             entry \in Available(active, m.refused) /\ Applies(m, entry)
    <3>1. CASE active = None
      BY <1>1, <3>1 DEF Tick
    <3>2. CASE active # None
      BY <1>1, <3>2, NoneAssumption DEF Tick, Decides, DecidesOn, MaybeSpec
    <3>3. QED
      BY <3>1, <3>2
  <2> HIDE DEF m
  <2>3. ASSUME AppliesNothing(m) PROVE QueuedNotRefused'
    BY <2>1, <2>3 DEF AppliesNothing, IdleLane, QueuedNotRefused
  <2>4. ASSUME NEW entry \in Specs, entry \in Available(active, m.refused), Applies(m, entry)
        PROVE  QueuedNotRefused'
    <3>1. entry \notin m.refused
      BY <2>4 DEF Available
    <3>2. QED
      BY <1>t, <2>1, <2>4, <3>1, AppliesKinds DEF IdleLane, QueuedNotRefused
  <2>5. QED
    BY <2>2, <2>3, <2>4
<1>2. CASE RetryIsReady
  BY <1>2, <1>t DEF RetryIsReady, QueuedNotRefused, Memories
<1>3. CASE LaneSteps
  BY <1>3, <1>t DEF LaneSteps, LaneTakes, LaneChecks, LaneStarts, LaneStartErrs, LaneWaits,
     LaneSwitches, LaneRollsBack, LaneGoes, LaneAnswers, Lanes, QueuedNotRefused
<1>4. CASE UserSteps
  BY <1>4 DEF UserSteps, UserStarts, UserWaits, UserSwitches, UserRollsBack, QueuedNotRefused
<1>5. CASE DaemonRestarts
  BY <1>5 DEF DaemonRestarts, IdleLane, QueuedNotRefused
<1>6. Reset(memory).refused = {}
  BY <1>t DEF Reset, Yielding, Memories
<1>7. CASE Commands
  BY <1>6, <1>7 DEF Commands, UserBegins, UserStops, Acks, Activates, Removes, Deactivates,
     QueuedNotRefused
<1>8. CASE Settles \/ SourceIsLost \/ UNCHANGED vars
  BY <1>8 DEF Settles, SourceIsLost, vars, sessionVars, QueuedNotRefused
<1>9. QED
  BY <1>1, <1>2, <1>3, <1>4, <1>5, <1>7, <1>8 DEF Next

-----------------------------------------------------------------------------
(* The user's choice.                                                      *)

\* Service and user alone: what a step does to both.
LEMMA UserStep ==
  ASSUME Types, LockHeldOnce, UserLaunched, [Next]_vars
  PROVE  UserLaunched'
<1> USE DEF Types
<1>1. CASE UserStarts
  <2>1. CASE user'.step \in {"wait", "switch"}
    <3>1. StartAnswered(user.wallpaper) /\ user.wallpaper \in Specs
      BY <1>1, <2>1 DEF UserStarts, UserGoes, IdleUser, Starts, OwnersKnown, TypeOK
    <3>2. user'.wallpaper = user.wallpaper
      BY <1>1, <2>1 DEF UserStarts, UserGoes, IdleUser, TypeOK
    <3>3. QED
      BY <3>1, <3>2, StartLaunches DEF UserLaunched
  <2>2. QED
    BY <2>1 DEF UserLaunched
<1>2. CASE UserWaits \/ UserSwitches \/ UserRollsBack
  <2>1. CASE user'.step \in {"wait", "switch"}
    BY <1>2, <2>1 DEF UserWaits, UserSwitches, UserRollsBack, UserGoes, IdleUser, TypeOK, service,
                      UserLaunched
  <2>2. QED
    BY <2>1 DEF UserLaunched
<1>3. CASE user' = user /\ user.step \in {"wait", "switch"}
  <2>1. user.wallpaper \in Specs
    BY <1>3 DEF OwnersKnown
  <2>2. \/ StopAnswered \/ AckAnswered \/ ServiceSteps \/ UNCHANGED service
        \/ UserSteps \/ DaemonRestarts
    <3>1. CASE LaneStarts
      BY <1>3, <3>1 DEF LaneStarts, LockHeldOnce, UserHolds, LaneHolds
    <3>2. CASE LaneSteps /\ ~LaneStarts
      BY <3>2 DEF LaneSteps, LaneTakes, LaneChecks, LaneStartErrs, LaneWaits, LaneSwitches,
                  LaneRollsBack, RollsBack
    <3>3. CASE Settles \/ SourceIsLost
      BY <3>3 DEF Settles, SourceIsLost, ServiceSteps, Settling
    <3>4. CASE Commands
      BY <3>4 DEF Commands, UserBegins, UserStops, Acks, Activates, Removes, Deactivates
    <3>5. CASE Tick \/ RetryIsReady \/ UNCHANGED vars
      BY <3>5 DEF Tick, RetryIsReady, vars
    <3>6. QED
      BY <3>1, <3>2, <3>3, <3>4, <3>5 DEF Next
  <2>3. CASE UserSteps
    BY <2>3, <1>1, <1>2 DEF UserSteps
  <2>4. CASE DaemonRestarts
    BY <2>4 DEF DaemonRestarts, IdleUser, UserLaunched
  <2>5. QED
    BY <1>3, <2>1, <2>2, <2>3, <2>4, LaunchedStays DEF UserLaunched
<1>4. user' = user \/ user'.step \in {"idle", "locked"} \/ UserSteps
  <2>1. CASE Commands
    BY <2>1 DEF Commands, UserBegins, UserStops, Acks, Activates, Removes, Deactivates
  <2>2. CASE LaneSteps
    BY <2>2 DEF LaneSteps, LaneTakes, LaneChecks, LaneStarts, LaneStartErrs, LaneWaits, LaneSwitches,
                LaneRollsBack
  <2>3. CASE Tick \/ RetryIsReady \/ Settles \/ SourceIsLost \/ DaemonRestarts \/ UNCHANGED vars
    BY <2>3 DEF Tick, RetryIsReady, Settles, SourceIsLost, DaemonRestarts, IdleUser, vars, sessionVars
  <2>4. QED
    BY <2>1, <2>2, <2>3 DEF Next
<1>5. QED
  BY <1>1, <1>2, <1>3, <1>4 DEF UserSteps, UserLaunched

\* What the supervisor does of its own: a choice that lives on is still all that
\* may come to take the screen over, one that is not asked for does not come back,
\* and a dead one stays dead.
LEMMA ChoiceSurvives ==
  ASSUME ServiceTypeOK, HandoffAlone, ChoiceLaunched, choice \in MaybeSpec,
         \/ (StopAnswered \/ AckAnswered \/ UNCHANGED service) /\ UNCHANGED choice
         \/ ServiceSteps /\ ChoiceFades
  PROVE  /\ ChoiceLaunched'
         /\ choice' # NoSpec => choice' = choice
         /\ choice' # NoSpec /\ requested # choice => requested' # choice
         /\ choice' # NoSpec /\ ~HasLiveWorker => ~HasLiveWorker'
<1>1. choice' \in {choice, NoSpec}
  BY DEF ChoiceFades
<1> SUFFICES ASSUME choice' # NoSpec
             PROVE  /\ ChoiceLaunched'
                    /\ requested # choice => requested' # choice
                    /\ ~HasLiveWorker => ~HasLiveWorker'
  BY <1>1 DEF ChoiceLaunched
<1>2. choice' = choice /\ choice \in Specs
  BY <1>1 DEF MaybeSpec
<1>3. Launched(choice, shown', coming', previous', waiting', requested')
  BY <1>2, LaunchedStays DEF ChoiceLaunched
<1>4. /\ ~HasLiveWorker => {shown, coming, waiting} = {NoSpec} /\ previous = NoSpec
      /\ requested # choice => choice \notin {shown, coming, waiting}
      /\ Launched(choice, shown, coming, previous, waiting, requested)
  BY <1>2 DEF ChoiceLaunched, HandoffAlone
<1>5. ~HasLiveWorker' => {shown', coming', waiting'} = {NoSpec}
  <2>1. CASE ChoiceFades
    BY <1>2, <2>1, NoneAssumption DEF ChoiceFades
  <2>2. CASE StopAnswered
    BY <2>2 DEF StopAnswered
  <2>3. CASE AckAnswered
    BY <1>4, <2>3 DEF AckAnswered, HasLiveWorker
  <2>4. CASE UNCHANGED service
    BY <1>4, <2>4 DEF service, HasLiveWorker
  <2>5. QED
    BY <2>1, <2>2, <2>3, <2>4
<1>6. ~HasLiveWorker => ~HasLiveWorker'
  <2> SUFFICES ASSUME ~HasLiveWorker PROVE ~HasLiveWorker'
    OBVIOUS
  <2>1. shown = NoSpec /\ coming = NoSpec /\ waiting = NoSpec /\ previous = NoSpec
    BY <1>4
  <2>2. ~ServiceSteps
    BY <2>1 DEF ServiceSteps, Settling, HandoffCommits, HandoffRollsBack, RestartRuns, SourceFails,
                Promotes, CandidateLost, CandidateRefused
  <2>3. QED
    BY <2>1, <2>2 DEF StopAnswered, AckAnswered, service, HasLiveWorker
<1>7. /\ requested # choice => requested' # choice
      /\ requested' # choice => choice \notin {shown', coming', waiting'}
  <2> USE <1>2, <1>4 DEF Launched, HandoffAlone
  <2>1. CASE StopAnswered \/ AckAnswered \/ UNCHANGED service
    BY <2>1, NoneAssumption DEF StopAnswered, AckAnswered, service
  <2>2. CASE HandoffCommits
    BY <2>2 DEF HandoffCommits
  <2>3. CASE HandoffRollsBack
    BY <2>3, NoneAssumption DEF HandoffRollsBack, StruckDown
  <2>4. CASE RestartRuns
    BY <2>4, NoneAssumption DEF RestartRuns, Launch, StruckDown
  <2>5. CASE SourceFails /\ ChoiceFades
    <3>1. HasLiveWorker'
      BY <2>5, <1>2, NoneAssumption DEF ChoiceFades
    <3>2. QED
      BY <2>5, <3>1, NoneAssumption DEF SourceFails, HasLiveWorker
  <2>6. CASE Promotes
    BY <2>6, NoneAssumption DEF Promotes
  <2>7. CASE CandidateLost \/ CandidateRefused
    BY <2>7, NoneAssumption DEF CandidateLost, CandidateRefused, StruckDown
  <2>8. QED
    BY <2>1, <2>2, <2>3, <2>4, <2>5, <2>6, <2>7 DEF ServiceSteps, Settling
<1>8. QED
  BY <1>2, <1>3, <1>5, <1>6, <1>7 DEF ChoiceLaunched

\* What a step does to the choice.
LEMMA ChoiceKinds ==
  ASSUME [Next]_vars
  PROVE  \/ choice' = NoSpec
         \/ /\ UserSwitches /\ requested = user.wallpaper /\ HasLiveWorker
            /\ choice' = user.wallpaper
         \/ (StopAnswered \/ AckAnswered \/ UNCHANGED service) /\ UNCHANGED choice
         \/ ServiceSteps /\ ChoiceFades
<1>1. CASE Tick \/ RetryIsReady \/ UNCHANGED vars
  BY <1>1 DEF Tick, RetryIsReady, vars, sessionVars
<1>2. CASE Settles \/ SourceIsLost
  BY <1>2 DEF Settles, SourceIsLost, ServiceSteps, Settling
<1>3. CASE LaneSteps
  BY <1>3 DEF LaneSteps, LaneTakes, LaneChecks, LaneStarts, LaneStartErrs, LaneWaits, LaneSwitches,
              LaneRollsBack, RollsBack
<1>4. CASE UserSteps
  <2>1. CASE UserStarts
    BY <2>1 DEF UserStarts
  <2>2. CASE UserSwitches
    BY <2>2 DEF UserSwitches
  <2>3. CASE UserWaits \/ UserRollsBack
    BY <2>3 DEF UserWaits, UserRollsBack, RollsBack
  <2>4. QED
    BY <1>4, <2>1, <2>2, <2>3 DEF UserSteps
<1>5. CASE Commands
  BY <1>5 DEF Commands, UserBegins, UserStops, Acks, Activates, Removes, Deactivates
<1>6. CASE DaemonRestarts
  BY <1>6 DEF DaemonRestarts
<1>7. QED
  BY <1>1, <1>2, <1>3, <1>4, <1>5, <1>6 DEF Next

\* The lane comes to its start by its check alone.
LEMMA StartIsChecked ==
  ASSUME TypeOK, [Next]_vars, lane'.step = "start"
  PROVE  lane' = lane \/ LaneChecks
<1>t. lane \in Lanes
  BY DEF TypeOK, Lanes
<1>1. CASE Tick
  <2>1. \/ AppliesNothing(Folded(memory))
        \/ \E entry \in MaybeSpec : Applies(Folded(memory), entry)
    BY <1>1 DEF Tick
  <2>2. QED
    BY <2>1, <1>t DEF AppliesNothing, Applies, IdleLane, Lanes
<1>2. CASE LaneSteps
  BY <1>2, <1>t DEF LaneSteps, LaneTakes, LaneStarts, LaneStartErrs, LaneWaits, LaneSwitches,
                    LaneRollsBack, LaneGoes, LaneAnswers, Lanes
<1>3. CASE UserSteps
  BY <1>3 DEF UserSteps, UserStarts, UserWaits, UserSwitches, UserRollsBack
<1>4. CASE Commands
  BY <1>4 DEF Commands, UserBegins, UserStops, Acks, Activates, Removes, Deactivates
<1>5. CASE RetryIsReady \/ Settles \/ SourceIsLost \/ UNCHANGED vars
  BY <1>5 DEF RetryIsReady, Settles, SourceIsLost, vars, sessionVars
<1>6. CASE DaemonRestarts
  BY <1>6 DEF DaemonRestarts, IdleLane
<1>7. QED
  BY <1>1, <1>2, <1>3, <1>4, <1>5, <1>6 DEF Next

LEMMA ChoiceStep ==
  ASSUME Types, LockHeldOnce, UserLaunched, ChoiceLaunched, CheckStands, [Next]_vars
  PROVE  ChoiceLaunched' /\ CheckStands'
<1> USE DEF Types
<1>1. CASE choice' = NoSpec
  BY <1>1 DEF ChoiceLaunched, CheckStands
<1>2. CASE /\ UserSwitches /\ requested = user.wallpaper /\ HasLiveWorker
           /\ choice' = user.wallpaper
  <2>1. Launched(user.wallpaper, shown, coming, previous, waiting, requested)
    BY <1>2 DEF UserSwitches, UserLaunched
  <2>2. UNCHANGED service /\ HasLiveWorker' /\ lane' = lane
    BY <1>2 DEF UserSwitches, service, HasLiveWorker
  <2>3. lane.step # "start"
    BY <1>2 DEF UserSwitches, LockHeldOnce, UserHolds, LaneHolds
  <2>4. QED
    BY <1>2, <2>1, <2>2, <2>3 DEF ChoiceLaunched, CheckStands, service
<1>3. CASE \/ (StopAnswered \/ AckAnswered \/ UNCHANGED service) /\ UNCHANGED choice
           \/ ServiceSteps /\ ChoiceFades
  <2>1. /\ ChoiceLaunched'
        /\ choice' # NoSpec => choice' = choice
        /\ choice' # NoSpec /\ requested # choice => requested' # choice
        /\ choice' # NoSpec /\ ~HasLiveWorker => ~HasLiveWorker'
    BY <1>3, ChoiceSurvives DEF TypeOK
  <2>2. CASE lane' = lane
    BY <2>1, <2>2 DEF CheckStands, ForeignLive
  <2>3. CASE LaneChecks /\ lane'.step = "start"
    <3>1. ~LaneYields /\ UNCHANGED service
          /\ lane'.wallpaper = lane.wallpaper /\ lane'.applied = lane.applied
      BY <2>3 DEF LaneChecks, LaneGoes, LaneAnswers, TypeOK
    <3>2. QED
      BY <2>1, <3>1 DEF LaneYields, CheckStands, ForeignLive, HasLiveWorker, service
  <2>4. QED
    BY <2>1, <2>2, <2>3, StartIsChecked DEF CheckStands
<1>4. QED
  BY <1>1, <1>2, <1>3, ChoiceKinds

-----------------------------------------------------------------------------
LEMMA InvInit == Init => Inv
BY EventsAssumption DEF Init, ServiceInit, Inv, TypeOK, ServiceTypeOK, OwnersKnown, LockHeldOnce,
   HandoffAlone, UserLaunched, ChoiceLaunched, CheckStands, QueuedNotRefused, WorkerPhases,
   FreshMemory, IdleLane, IdleUser, MaybeSpec, Outcomes, UserHolds, LaneHolds

LEMMA InvStep == Inv /\ [Next]_vars => Inv'
BY TypeStep, LockStep, UserStep, ChoiceStep, RefusalStep DEF Inv, Types

LEMMA InvAlways == Spec => []Inv
BY InvInit, InvStep, PTL DEF Spec

\* The two transactions never run side by side: lane and accept loop hold
\* apply_lock in turn, whoever started what.
THEOREM TransactionsAlternate == Spec => []OneTransaction
<1>1. Inv => OneTransaction
  BY DEF Inv, OneTransaction, LockHeldOnce, UserHolds, LaneHolds, TypeOK
<1>2. QED
  BY <1>1, InvAlways, PTL

\* foreign_renderer_live, asked once with the lock held, still holds when the lane
\* starts its renderer: nothing that may happen in between brings the user's
\* choice back.
THEOREM ChoicesStand == Spec => ChoiceStands
<1>1. Inv => (LaneStarts /\ choice # NoSpec
                => ~(requested = choice /\ ForeignLive(lane.wallpaper, lane.applied)))
  BY DEF Inv, CheckStands, LaneStarts
<1>2. Inv /\ [Next]_vars
        => [LaneStarts /\ choice # NoSpec
              => ~(requested = choice /\ ForeignLive(lane.wallpaper, lane.applied))]_vars
  BY <1>1
<1>3. QED
  BY <1>2, InvAlways, PTL DEF Spec, ChoiceStands

\* The tick folds what the lane has learnt before it decides: no refused entry is
\* in the queue.
THEOREM RefusalsStand == Spec => RefusedNotRetried
<1>1. Inv /\ Inv' /\ [Next]_vars
        => [lane'.step = "queued" => lane'.wallpaper \notin memory'.refused]_vars
  BY DEF Inv, QueuedNotRefused
<1>2. QED
  BY <1>1, InvAlways, PTL DEF Spec, RefusedNotRetried

\* Whatever the lane, the user, the requests and the tick do, the supervisor is used
\* only by calls it answers, with wallpapers that exist: what it promises
\* (Supervisor!ServesClients) is all the playlist rests on.
THEOREM SessionUsesService == Spec => ServiceSpec
<1>1. Init => ServiceInit
  BY DEF Init
<1>2. Inv /\ [Next]_vars => [ServiceNext]_service
  BY ServiceKinds DEF Inv, ServiceNext
<1>3. QED
  BY <1>1, <1>2, InvAlways, PTL DEF Spec, ServiceSpec

=============================================================================
