-------------------------- MODULE PlaylistSession --------------------------
(***************************************************************************)
(* The playlist session of kwe-daemon (crates/kwe-daemon/src/              *)
(* playlist_session.rs): what makes the active playlist's entry the one    *)
(* the supervisor renders, against the user's own choices.                 *)
(*                                                                         *)
(* Three threads over the supervisor's promises (RendererService): the     *)
(* session, which ticks; its apply worker, "lane", which takes one request *)
(* at a time; and the accept loop, "user", which serves one request at a   *)
(* time: wallpaper.apply, renderer.stop, display acknowledgements and the  *)
(* playlist commands.  Lane and wallpaper.apply share the apply lock.      *)
(*                                                                         *)
(* The timer, shuffling and snapshots of a playlist are PlaylistRuntime's: *)
(* here a tick keeps the entry or moves to an eligible one.  A transaction *)
(* is Apply's, with its calls answered and the store and the desktop left  *)
(* out.  Everything that happens from outside, and every failure, counts   *)
(* as an event; there are at most MaxEvents.                               *)
(***************************************************************************)
EXTENDS RendererService, Naturals

CONSTANTS
  Playlists,    \* identities of playlists
  None,         \* Option::None
  EntriesOf,    \* playlist -> the wallpapers in it
  Choices,      \* wallpapers the user applies
  MaxEvents

ASSUME EntriesAssumption == EntriesOf \in [Playlists -> SUBSET Specs]
ASSUME ChoicesAssumption == Choices \subseteq Specs
ASSUME NoneAssumption == None \notin Playlists /\ NoSpec \notin Specs
ASSUME EventsAssumption == MaxEvents \in Nat

VARIABLES
  stored,       \* the playlists that exist
  active,       \* the active one
  position,     \* each playlist's current entry
  quarantined,  \* the supervisor's quarantined wallpapers
  memory,       \* the session's apply state
  lane,         \* the worker: its request, where it is, the outcome
  user,         \* the user's wallpaper.apply
  events,
  requester,    \* history: who started what is requested
  choice        \* history: what the user last applied with success, while it lives

sessionVars == <<stored, active, position, quarantined, memory, lane, user, events,
                 requester, choice>>
vars == <<service, sessionVars>>

MaybeSpec == Specs \cup {NoSpec}

\* applied_wallpaper, the backoff gate and gate_refused_ids.  "disowned" is
\* history: an applied identity was forgotten since one was last learned.
FreshMemory == [applied |-> NoSpec, ready |-> TRUE, refused |-> {}, disowned |-> FALSE]

IdleLane == [step |-> "idle", wallpaper |-> NoSpec, applied |-> NoSpec, outcome |-> "none"]
IdleUser == [step |-> "idle", wallpaper |-> NoSpec]

Outcomes == {"none", "ok", "busy", "yielded", "gate", "failed"}

TypeOK ==
  /\ ServiceTypeOK
  /\ stored \subseteq Playlists
  /\ active \in stored \cup {None}
  /\ position \in [Playlists -> MaybeSpec]
  /\ quarantined \subseteq Specs
  /\ memory \in [applied : MaybeSpec, ready : BOOLEAN, refused : SUBSET Specs, disowned : BOOLEAN]
  /\ lane \in [step : {"idle", "queued", "check", "start", "wait", "switch", "failing", "done"},
               wallpaper : MaybeSpec, applied : MaybeSpec, outcome : Outcomes]
  /\ user \in [step : {"idle", "locked", "wait", "switch", "failing"}, wallpaper : MaybeSpec]
  /\ events \in 0..MaxEvents
  /\ requester \in {"nobody", "lane", "user"}
  /\ choice \in MaybeSpec

-----------------------------------------------------------------------------
(* Helpers.                                                                *)

\* Something from outside, or a failure.
Event == events < MaxEvents /\ events' = events + 1
NoEvent == UNCHANGED events

\* apply_in_flight: from the dispatch to the fold.
InFlight == lane.step # "idle"

\* Who holds apply_lock.
LaneHolds == lane.step \in {"check", "start", "wait", "switch", "failing"}

\* Mutant of UserHolds: wallpaper.apply gives the lock up once it has begun to wait.
UserHoldsToStart == user.step = "locked"

UserHolds == user.step # "idle"

\* unavailable_for
Available(p, refused) == EntriesOf[p] \ (quarantined \cup refused)

\* What a tick may decide for a playlist: the timer that ends, or a playlist
\* that is exhausted, is an event.
Decides(p, refused, entry) ==
  \/ position[p] \in Available(p, refused) /\ entry = position[p] /\ NoEvent
  \/ /\ position[p] \notin Available(p, refused)
     /\ IF Available(p, refused) = {} THEN entry = NoSpec ELSE entry \in Available(p, refused)
     /\ NoEvent
  \/ entry \in Available(p, refused) \cup {NoSpec} /\ entry # position[p] /\ Event

Wanted == IF active = None THEN NoSpec ELSE position[active]

\* yield_to_foreign
Yielding(m) == [m EXCEPT !.applied = NoSpec, !.ready = TRUE,
                         !.disowned = @ \/ m.applied # NoSpec]

\* Mutant of Satisfied: the session does not remember its own renderer.
SatisfiedOnly(m, s) == [m EXCEPT !.ready = TRUE, !.disowned = FALSE]

Satisfied(m, s) == [m EXCEPT !.applied = s, !.ready = TRUE, !.disowned = FALSE]

\* reset_apply
Reset(m) == [Yielding(m) EXCEPT !.refused = {}]

-----------------------------------------------------------------------------
(* The session's tick.                                                     *)

\* fold_apply_completions
Folded(m) ==
  IF lane.step # "done" THEN m
  ELSE CASE lane.outcome = "ok"                    -> Satisfied(m, lane.wallpaper)
         [] lane.outcome \in {"busy", "yielded"}   -> Yielding(m)
         [] lane.outcome = "gate"                  -> [m EXCEPT !.refused = @ \cup {lane.wallpaper}]
         [] OTHER                                  -> [m EXCEPT !.ready = FALSE]

\* apply_verdict
Verdict(m, desired) ==
  IF requested = desired /\ HasLiveWorker
  THEN IF phase \in {"RolledBack", "Restarting"} /\ shown # desired THEN "Wait" ELSE "Satisfied"
  ELSE IF HasLiveWorker /\ requested # m.applied THEN "Yield"
  ELSE IF m.ready THEN "Apply" ELSE "Hold"

\* maybe_apply, with the supervisor's answer.
Applies(m, desired) ==
  LET verdict == Verdict(m, desired)
      folded == IF lane.step = "done" THEN IdleLane ELSE lane
  IN  /\ memory' = CASE verdict = "Satisfied" -> Satisfied(m, desired)
                     [] verdict = "Yield"     -> Yielding(m)
                     [] OTHER                 -> m
      /\ lane' = IF verdict = "Apply" /\ folded.step = "idle"
                 THEN [step |-> "queued", wallpaper |-> desired, applied |-> m.applied,
                       outcome |-> "none"]
                 ELSE folded

\* Nothing to apply, or status() fails.
AppliesNothing(m) ==
  /\ memory' = m
  /\ lane' = IF lane.step = "done" THEN IdleLane ELSE lane

\* Mutant of DecidesOn: the decision is taken before the outcome is folded.
DecidesBeforeFold(m) == memory.refused

\* The refusals the decision of a tick knows of.
DecidesOn(m) == m.refused

\* tick_session
Tick ==
  LET m == Folded(memory)
  IN  /\ IF active = None
         THEN AppliesNothing(m) /\ NoEvent /\ UNCHANGED position
         ELSE \E entry \in MaybeSpec :
                /\ position' = [position EXCEPT ![active] = entry]
                /\ \/ entry # NoSpec /\ Decides(active, DecidesOn(m), entry) /\ Applies(m, entry)
                   \/ entry = NoSpec /\ Decides(active, DecidesOn(m), entry) /\ AppliesNothing(m)
                   \/ entry = position[active] /\ AppliesNothing(m) /\ Event
      /\ UNCHANGED <<service, stored, active, quarantined, user, requester, choice>>

\* The backoff ends.
RetryIsReady ==
  /\ ~memory.ready
  /\ memory' = [memory EXCEPT !.ready = TRUE]
  /\ UNCHANGED <<service, stored, active, position, quarantined, lane, user, events,
                 requester, choice>>

-----------------------------------------------------------------------------
(* The supervisor.                                                         *)

\* A failure of s: it counts as an event, and s may end up quarantined.
Strikes(s) ==
  /\ Event
  /\ quarantined' = IF phase' \in {"RolledBack", "Quarantined"} THEN quarantined \cup {s}
                     ELSE quarantined

\* start: quarantined wallpapers are refused, others are launched or fail at once.
Starts(s, by) ==
  /\ StartAnswered(s)
  /\ requester' = by
  /\ IF s \in quarantined
     THEN phase' \in {"RolledBack", "Quarantined"} /\ NoEvent /\ UNCHANGED quarantined
     ELSE IF coming' = s THEN NoEvent /\ UNCHANGED quarantined ELSE Strikes(s)

\* The history variable choice lasts as long as a worker is alive.
ChoiceFades == choice' = IF HasLiveWorker' THEN choice ELSE NoSpec

Settles ==
  /\ \/ (HandoffCommits \/ Promotes) /\ NoEvent /\ UNCHANGED quarantined
     \/ RestartRuns /\ coming' = waiting /\ NoEvent /\ UNCHANGED quarantined
     \/ RestartRuns /\ coming' = NoSpec /\ Strikes(waiting)
     \/ CandidateLost /\ Strikes(coming)
     \/ CandidateRefused /\ Event /\ UNCHANGED quarantined
  /\ ChoiceFades
  /\ UNCHANGED <<stored, active, position, memory, lane, user, requester>>

SourceIsLost ==
  /\ \/ HandoffRollsBack /\ Strikes(shown)
     \/ SourceFails /\ Strikes(shown)
  /\ ChoiceFades
  /\ UNCHANGED <<stored, active, position, memory, lane, user, requester>>

-----------------------------------------------------------------------------
(* The apply worker: apply_playlist.                                       *)

LaneGoes(step) == lane' = [lane EXCEPT !.step = step]
LaneAnswers(outcome) == lane' = [lane EXCEPT !.step = "done", !.outcome = outcome]

\* acquire_apply_lock
LaneTakes ==
  /\ lane.step = "queued"
  /\ IF UserHolds THEN LaneAnswers("busy") ELSE LaneGoes("check")
  /\ NoEvent
  /\ UNCHANGED <<service, stored, active, position, quarantined, memory, user, requester, choice>>

\* Mutant of LaneYields: the verdict of the tick is still good.
LaneTrusts == FALSE

\* The check with the lock held.
LaneYields == ForeignLive(lane.wallpaper, lane.applied)

LaneChecks ==
  /\ lane.step = "check"
  /\ \/ LaneYields /\ LaneAnswers("yielded") /\ NoEvent
     \/ ~LaneYields /\ LaneGoes("start") /\ NoEvent
     \/ ~LaneYields /\ (LaneAnswers("gate") \/ LaneAnswers("failed")) /\ Event
  /\ UNCHANGED <<service, stored, active, position, quarantined, memory, user, requester, choice>>

\* complete_apply: the start is answered, or refused because a handoff is open.
LaneStarts ==
  /\ lane.step = "start"
  /\ Starts(lane.wallpaper, "lane")
  /\ LaneGoes(IF phase' \in {"RolledBack", "Quarantined"} THEN "failing" ELSE "wait")
  /\ choice' = NoSpec
  /\ UNCHANGED <<stored, active, position, memory, user>>

LaneStartErrs ==
  /\ lane.step = "start" /\ previous # NoSpec
  /\ LaneGoes("failing")
  /\ NoEvent
  /\ UNCHANGED <<service, stored, active, position, quarantined, memory, user, requester, choice>>

\* wait_for_promotion: another owner, a terminal phase, the deadline.
LaneWaits ==
  /\ lane.step = "wait"
  /\ \/ Promoted(lane.wallpaper) /\ LaneGoes("switch") /\ NoEvent
     \/ NotPromoted(lane.wallpaper) /\ LaneGoes("failing") /\ NoEvent
     \/ LaneGoes("failing") /\ Event
  /\ UNCHANGED <<service, stored, active, position, quarantined, memory, user, requester, choice>>

\* ensure_ours, the record, the switch and its verification.
LaneSwitches ==
  /\ lane.step = "switch"
  /\ \/ requested = lane.wallpaper /\ LaneAnswers("ok") /\ NoEvent
     \/ requested # lane.wallpaper /\ LaneGoes("failing") /\ NoEvent
     \/ LaneGoes("failing") /\ Event
  /\ UNCHANGED <<service, stored, active, position, quarantined, memory, user, requester, choice>>

\* rollback_after_failure
RollsBack(s) == IF requested = s THEN StopAnswered ELSE UNCHANGED service

LaneRollsBack ==
  /\ lane.step = "failing"
  /\ RollsBack(lane.wallpaper)
  /\ LaneAnswers("failed")
  /\ NoEvent
  /\ UNCHANGED <<stored, active, position, quarantined, memory, user, requester, choice>>

LaneSteps ==
  LaneTakes \/ LaneChecks \/ LaneStarts \/ LaneStartErrs \/ LaneWaits \/ LaneSwitches
  \/ LaneRollsBack

-----------------------------------------------------------------------------
(* The accept loop.                                                        *)

UserGoes(step) == user' = [user EXCEPT !.step = step]

\* wallpaper.apply
UserBegins(s) ==
  /\ user.step = "idle" /\ ~LaneHolds
  /\ user' = [step |-> "locked", wallpaper |-> s]
  /\ Event
  /\ UNCHANGED <<service, stored, active, position, quarantined, memory, lane, requester, choice>>

\* It is refused before anything is touched, or starts the renderer.
UserStarts ==
  /\ user.step = "locked"
  /\ \/ /\ user' = IdleUser
        /\ NoEvent
        /\ UNCHANGED <<service, quarantined, requester, choice>>
     \/ /\ Starts(user.wallpaper, "user")
        /\ UserGoes(IF phase' \in {"RolledBack", "Quarantined"} THEN "failing" ELSE "wait")
        /\ choice' = NoSpec
     \/ /\ previous # NoSpec
        /\ UserGoes("failing")
        /\ NoEvent
        /\ UNCHANGED <<service, quarantined, requester, choice>>
  /\ UNCHANGED <<stored, active, position, memory, lane>>

UserWaits ==
  /\ user.step = "wait"
  /\ \/ Promoted(user.wallpaper) /\ UserGoes("switch") /\ NoEvent
     \/ NotPromoted(user.wallpaper) /\ UserGoes("failing") /\ NoEvent
     \/ UserGoes("failing") /\ Event
  /\ UNCHANGED <<service, stored, active, position, quarantined, memory, lane, requester, choice>>

UserSwitches ==
  /\ user.step = "switch"
  /\ \/ requested = user.wallpaper /\ user' = IdleUser /\ NoEvent
        /\ choice' = IF HasLiveWorker THEN user.wallpaper ELSE NoSpec
     \/ requested # user.wallpaper /\ UserGoes("failing") /\ NoEvent /\ UNCHANGED choice
     \/ UserGoes("failing") /\ Event /\ UNCHANGED choice
  /\ UNCHANGED <<service, stored, active, position, quarantined, memory, lane, requester>>

UserRollsBack ==
  /\ user.step = "failing"
  /\ RollsBack(user.wallpaper)
  /\ user' = IdleUser
  /\ NoEvent
  /\ UNCHANGED <<stored, active, position, quarantined, memory, lane, requester, choice>>

UserSteps == UserStarts \/ UserWaits \/ UserSwitches \/ UserRollsBack

\* renderer.stop
UserStops ==
  /\ user.step = "idle"
  /\ StopAnswered
  /\ choice' = NoSpec
  /\ Event
  /\ UNCHANGED <<stored, active, position, quarantined, memory, lane, user, requester>>

\* A display acknowledges.
Acks ==
  /\ user.step = "idle"
  /\ AckAnswered
  /\ NoEvent
  /\ UNCHANGED <<stored, active, position, quarantined, memory, lane, user, requester, choice>>

\* activate_playlist: its start, or the tick after a restore, chooses an entry;
\* nothing is folded and nothing dispatched.
Activates(p) ==
  /\ user.step = "idle" /\ p \in stored /\ p # active
  /\ Event
  /\ active' = p
  /\ memory' = Reset(memory)
  /\ \E entry \in Available(p, {}) \cup {NoSpec} :
       position' = [position EXCEPT ![p] = entry]
  /\ UNCHANGED <<service, stored, quarantined, lane, user, requester, choice>>

Deactivates ==
  /\ user.step = "idle" /\ active # None
  /\ Event
  /\ active' = None
  /\ memory' = Reset(memory)
  /\ UNCHANGED <<service, stored, position, quarantined, lane, user, requester, choice>>

\* remove_playlist: the apply state stays.
Removes(p) ==
  /\ user.step = "idle" /\ p \in stored
  /\ Event
  /\ stored' = stored \ {p}
  /\ active' = IF p = active THEN None ELSE active
  /\ position' = [position EXCEPT ![p] = NoSpec]
  /\ UNCHANGED <<service, quarantined, memory, lane, user, requester, choice>>

\* The daemon dies and comes back: what is active, where it was and what is
\* quarantined are read from files.
DaemonRestarts ==
  /\ ServiceEnds
  /\ Event
  /\ memory' = FreshMemory /\ lane' = IdleLane /\ user' = IdleUser
  /\ requester' = "nobody" /\ choice' = NoSpec
  /\ UNCHANGED <<stored, active, position, quarantined>>

-----------------------------------------------------------------------------
Init ==
  /\ ServiceInit
  /\ stored = Playlists /\ active = None
  /\ position = [p \in Playlists |-> NoSpec]
  /\ quarantined = {}
  /\ memory = FreshMemory /\ lane = IdleLane /\ user = IdleUser
  /\ events = 0 /\ requester = "nobody" /\ choice = NoSpec

Commands ==
  \/ \E s \in Choices : UserBegins(s)
  \/ UserStops \/ Acks
  \/ \E p \in Playlists : Activates(p) \/ Removes(p)
  \/ Deactivates

Next == Tick \/ RetryIsReady \/ Settles \/ SourceIsLost \/ LaneSteps \/ UserSteps
        \/ Commands \/ DaemonRestarts

\* The session ticks and its backoff ends, the lane and the accept loop go on
\* with what they have begun, the supervisor's deadlines pass.
Fairness ==
  /\ WF_vars(Tick) /\ WF_vars(RetryIsReady) /\ WF_vars(Settles)
  /\ WF_vars(LaneSteps) /\ WF_vars(UserSteps)

Spec == Init /\ [][Next]_vars
FairSpec == Spec /\ Fairness

-----------------------------------------------------------------------------
(* Properties.                                                             *)

\* The fields have their types, and of the two transactions at most one is under
\* way from its first check to its answer: neither thread starts, promotes,
\* switches or rolls back while the other waits.  (acquire_apply_lock)
OneTransaction ==
  /\ TypeOK
  /\ user.step # "idle" => lane.step \in {"idle", "queued", "done"}

\* The user's choice wins: the lane never displaces what a wallpaper.apply has
\* answered Ok for while it is alive, not even when the session took its verdict
\* before; unless it is the very wallpaper the session had applied itself.
\* (foreign_renderer_live with the lock held)
ChoiceStands ==
  [][LaneStarts /\ choice # NoSpec
       => ~(requested = choice /\ ForeignLive(lane.wallpaper, lane.applied))]_vars

\* An entry the gate has refused is not dispatched again in the same activation,
\* not even by the tick that learns of the refusal.  (tick_session's order)
RefusedNotRetried ==
  [][lane'.step = "queued" => lane'.wallpaper \notin memory'.refused]_vars

\* When the outside world is quiet, the active playlist's entry is the one the
\* supervisor is asked for, unless the user's choice is alive; failures, backoff,
\* busy answers, restarts and quarantines only delay it.  Excused: a renderer of
\* the session's own that it no longer recognises (OwnRendererGivesWay).
PlaylistFollowed ==
  <>[](Wanted # NoSpec
         => HasLiveWorker /\ (requested = Wanted \/ requester = "user" \/ memory.disowned))

\* The same without the excuse.  activate: "the new session's first decision
\* applies immediately"; maybe_apply: the session displaces its own stale renderer.
OwnRendererGivesWay ==
  <>[](Wanted # NoSpec /\ HasLiveWorker => requested = Wanted \/ requester = "user")

=============================================================================
