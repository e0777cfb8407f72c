--------------------------- MODULE PlaylistRuntime ---------------------------
(* One playlist of the daemon: its runtime (playlist_runtime.rs), the choice   *)
(* of the next entry (playlist.rs), and the session's discipline around them:  *)
(* what a tick saves, what activation and a restart restore.                   *)
(*                                                                             *)
(* Time is kept as what is left: "left" is deadline_ms minus now_ms, cut at    *)
(* zero.  Nothing reads an absolute time, and a restart counts from another    *)
(* origin.  The seed is kept modulo 2 (see Mixed).  The history is a set: the  *)
(* code asks only whether an entry is in it, and its bound of 1024 entries is  *)
(* beyond these instances.  Writes of the state file succeed.                  *)
EXTENDS Integers, Sequences, FiniteSets

CONSTANTS
  Wallpapers,   \* identities of wallpapers
  Definitions,  \* the playlists a client may store under this identity
  Duration,     \* duration_seconds, in units of Pass
  MaxEvents,    \* bound on edits, availability reports and pauses
  MaxRestores,  \* bound on activations, crashes and shutdowns
  None          \* Option::None

ASSUME DurationIsPositive == Duration \in Nat \ {0}
ASSUME BoundsAreNatural == MaxEvents \in Nat /\ MaxRestores \in Nat
ASSUME WallpapersAreFinite == IsFiniteSet(Wallpapers)

Playlists == [entries : Seq(Wallpapers), repeat : BOOLEAN, shuffle : BOOLEAN]

ASSUME DefinitionsAreValid ==
  \A p \in Definitions :
    /\ p \in Playlists
    /\ \A i, j \in DOMAIN p.entries : p.entries[i] = p.entries[j] => i = j

VARIABLES
  playlist,     \* the stored definition
  unavailable,  \* missing, quarantined or gate-refused entries
  active,       \* the session plays this playlist
  runtime,      \* the PlaylistRuntime
  decision,     \* last_decision
  saved,        \* the snapshot in the session's map and in the state file
  shown,        \* history variable: how long the current entry has been up
  played,       \* history variable: every entry ever selected
  events,       \* edits, reports and pauses so far
  restores      \* activations and restarts so far

vars == <<playlist, unavailable, active, runtime, decision, saved, shown, played,
          events, restores>>

Ids(p) == {p.entries[i] : i \in DOMAIN p.entries}

Fresh == [index |-> 0, id |-> None, left |-> None, pausedLeft |-> None,
          seed |-> 0, history |-> {}]

Cleared(r) == [r EXCEPT !.index = 0, !.id = None, !.left = None, !.pausedLeft = None]

(*************************** The choice of an entry ***************************)

(* The member of S with n smaller members. *)
Nth(S, n) == CHOOSE i \in S : Cardinality({j \in S : j < i}) = n

(* (seed ^ rotl(seed, 17)) * 0x9E3779B9, modulo the number n <= 3 of choices.  *)
(* For the first 53020 selections of a runtime the product does not wrap: it   *)
(* is seed * (2^17 + 1) * an odd constant, so it has the parity of the seed,   *)
(* and 2^17 + 1 is a multiple of three.                                        *)
Mixed(seed, n) == IF n = 2 THEN seed % 2 ELSE 0

Eligible(p, excluded) == {i \in DOMAIN p.entries : p.entries[i] \notin excluded}

\* Mutant of ShuffledNext: only later entries are drawn.
ShuffledOnward(p, current, seed, excluded) ==
  LET later == {i \in Eligible(p, excluded) : i > current} IN
  IF later # {} THEN Nth(later, Mixed(seed, Cardinality(later))) ELSE 0

(* 0 stands for None. *)
ShuffledNext(p, current, seed, excluded) ==
  LET alternatives == Eligible(p, excluded) \ {current} IN
  IF alternatives # {}
    THEN Nth(alternatives, Mixed(seed, Cardinality(alternatives)))
    ELSE IF p.repeat /\ current \in Eligible(p, excluded) THEN current ELSE 0

\* Mutant of OrderedNext: the scan starts one entry too far.
OrderedSkipping(p, current, excluded) ==
  LET later == {i \in Eligible(p, excluded) : i > current + 1} IN
  IF later # {} THEN Nth(later, 0)
  ELSE IF p.repeat /\ Eligible(p, excluded) # {} THEN Nth(Eligible(p, excluded), 0)
  ELSE 0

OrderedNext(p, current, excluded) ==
  LET later == {i \in Eligible(p, excluded) : i > current} IN
  IF later # {} THEN Nth(later, 0)
  ELSE IF p.repeat /\ Eligible(p, excluded) # {} THEN Nth(Eligible(p, excluded), 0)
  ELSE 0

NextEligible(p, current, seed, excluded) ==
  IF p.shuffle THEN ShuffledNext(p, current, seed, excluded)
               ELSE OrderedNext(p, current, excluded)

(*********************** The runtime and its operations ***********************)

(* A decision without its times: what decision_signature compares. *)
Says(state, r) == [state |-> state, id |-> r.id, index |-> r.index]

Excluded(r) == unavailable \cup (IF playlist.repeat THEN {} ELSE r.history)

EmptyState(r) == IF ~playlist.repeat /\ r.history # {} THEN "exhausted" ELSE "no_eligible"

(* The result of an operation: the runtime, the decision, was an entry chosen. *)
Result(r, state, chosen) == [runtime |-> r, decision |-> Says(state, r), chosen |-> chosen]

Select(r, state) ==
  LET index == NextEligible(playlist, r.index, r.seed, Excluded(r)) IN
  IF index = 0 THEN Result(Cleared(r), EmptyState(r), FALSE)
  ELSE Result([index |-> index, id |-> playlist.entries[index], left |-> Duration,
               pausedLeft |-> None, seed |-> (r.seed + 1) % 2,
               history |-> r.history \cup {playlist.entries[index]}],
              state, TRUE)

\* Mutants of Reconciled: an index in range is trusted; a moved entry is lost.
ReconciledByIndex(r) ==
  IF r.id = None \/ r.index > Len(playlist.entries) THEN Cleared(r) ELSE r
ReconciledInPlace(r) ==
  IF r.id # None /\ r.index \in DOMAIN playlist.entries /\ playlist.entries[r.index] = r.id
    THEN r ELSE Cleared(r)

(* The position follows the wallpaper's identity through an edit. *)
Reconciled(r) ==
  IF r.id = None THEN [r EXCEPT !.index = 0]
  ELSE IF r.id \in Ids(playlist)
    THEN [r EXCEPT !.index = CHOOSE i \in DOMAIN playlist.entries : playlist.entries[i] = r.id]
    ELSE Cleared(r)

Started(r) == Select([Cleared(r) EXCEPT !.history = {}], "started")

Ticked(old) ==
  LET r == Reconciled(old) IN
  IF r.index # 0 /\ r.pausedLeft # None THEN Result(r, "paused", FALSE)
  ELSE IF r.index # 0 /\ r.left # None /\ r.left > 0 /\ r.id \notin unavailable
    THEN Result(r, "waiting", FALSE)
    ELSE Select(r, "advanced")

TimeLeft(r) == IF r.left = None THEN 0 ELSE r.left

PausedAt(old) ==
  LET r == Reconciled(old) IN
  IF r.index = 0 \/ r.pausedLeft # None THEN r ELSE [r EXCEPT !.pausedLeft = TimeLeft(r)]

\* Mutant of ResumedAt: the entry starts over.
ResumedAfresh(old) ==
  LET r == Reconciled(old) IN
  IF r.index = 0 \/ r.pausedLeft = None THEN r
  ELSE [r EXCEPT !.left = Duration, !.pausedLeft = None]

ResumedAt(old) ==
  LET r == Reconciled(old) IN
  IF r.index = 0 \/ r.pausedLeft = None THEN r
  ELSE [r EXCEPT !.left = r.pausedLeft, !.pausedLeft = None]

Snapshot(r) == IF r.pausedLeft # None \/ r.index = 0 THEN [r EXCEPT !.left = None] ELSE r

Restored(snapshot) == Reconciled(snapshot)

(***************************** The session's use ******************************)

TypeOfRuntime ==
  [index : 0 .. Cardinality(Wallpapers), id : Wallpapers \cup {None},
   left : (0 .. Duration) \cup {None}, pausedLeft : (0 .. Duration) \cup {None},
   seed : 0 .. 1, history : SUBSET Wallpapers]

States == {"started", "advanced", "waiting", "paused", "exhausted", "no_eligible"}

Decisions ==
  [state : States, id : Wallpapers \cup {None}, index : 0 .. Cardinality(Wallpapers)]

ASSUME NoneIsApart ==
  /\ None \notin Wallpapers /\ None \notin 0 .. Duration
  /\ None \notin TypeOfRuntime /\ None \notin Decisions

Init ==
  /\ playlist \in Definitions
  /\ unavailable = {}
  /\ active = FALSE
  /\ runtime = Fresh
  /\ decision = None
  /\ saved = None
  /\ shown = 0 /\ played = {}
  /\ events = 0 /\ restores = 0

(* Take the result of an operation; a chosen entry has not been up yet. *)
Follow(result) ==
  /\ runtime' = result.runtime
  /\ decision' = result.decision
  /\ shown' = IF result.chosen THEN 0 ELSE shown
  /\ played' = IF result.chosen THEN played \cup {result.runtime.id} ELSE played

\* Mutant of Persists: only waits are saved.
PersistsWaits(result, refresh) == refresh /\ result.decision.state = "waiting"

(* tick_session and maybe_persist: a changed decision is saved, a wait is      *)
(* saved again when the last save is old enough.                               *)
Persists(result, refresh) ==
  decision # result.decision \/ (refresh /\ result.decision.state = "waiting")

Tick ==
  /\ active
  /\ LET result == Ticked(runtime) IN
     /\ Follow(result)
     /\ \E refresh \in BOOLEAN :
          saved' = IF Persists(result, refresh) THEN Snapshot(result.runtime) ELSE saved
  /\ UNCHANGED <<playlist, unavailable, active, events, restores>>

Activate ==
  /\ ~active
  /\ restores < MaxRestores
  /\ LET result == IF saved # None THEN Ticked(Restored(saved)) ELSE Started(runtime) IN
     /\ Follow(result)
     /\ saved' = Snapshot(result.runtime)
  /\ active' = TRUE
  /\ restores' = restores + 1
  /\ UNCHANGED <<playlist, unavailable, events>>

Deactivate ==
  /\ active
  /\ active' = FALSE
  /\ decision' = None
  /\ UNCHANGED <<playlist, unavailable, runtime, saved, shown, played, events, restores>>

(* put_playlist does not touch the runtime: the next operation reconciles. *)
PutPlaylist(p) ==
  /\ events < MaxEvents
  /\ p # playlist
  /\ playlist' = p
  /\ events' = events + 1
  /\ UNCHANGED <<unavailable, active, runtime, decision, saved, shown, played, restores>>

SetUnavailable(missing) ==
  /\ events < MaxEvents
  /\ missing # unavailable
  /\ unavailable' = missing
  /\ events' = events + 1
  /\ UNCHANGED <<playlist, active, runtime, decision, saved, shown, played, restores>>

Pause ==
  /\ active
  /\ events < MaxEvents
  /\ runtime' = PausedAt(runtime)
  /\ events' = events + 1
  /\ UNCHANGED <<playlist, unavailable, active, decision, saved, shown, played, restores>>

Resume ==
  /\ active
  /\ runtime.pausedLeft # None
  /\ runtime' = ResumedAt(runtime)
  /\ UNCHANGED <<playlist, unavailable, active, decision, saved, shown, played, events,
                 restores>>

(* A new daemon process, from what the old one left in the state file. *)
Reload(snapshot) ==
  /\ restores < MaxRestores
  /\ runtime' = IF active /\ snapshot # None THEN Restored(snapshot) ELSE Fresh
  /\ decision' = None
  /\ restores' = restores + 1
  /\ UNCHANGED <<playlist, unavailable, active, shown, played, events>>

Crash == Reload(saved) /\ UNCHANGED saved

(* SessionCommand::Shutdown saves the final position first. *)
Shutdown ==
  /\ saved' = IF active THEN Snapshot(runtime) ELSE saved
  /\ Reload(saved')

(* One unit of time.  The entry is up while the playlist plays and is not      *)
(* paused.                                                                     *)
Pass ==
  /\ runtime' = IF runtime.left \in {None, 0} THEN runtime
                ELSE [runtime EXCEPT !.left = @ - 1]
  /\ shown' = IF active /\ runtime.id # None /\ runtime.pausedLeft = None /\ shown < Duration
                THEN shown + 1 ELSE shown
  /\ UNCHANGED <<playlist, unavailable, active, decision, saved, played, events, restores>>

Next ==
  \/ Tick \/ Activate \/ Deactivate
  \/ \E p \in Definitions : PutPlaylist(p)
  \/ \E missing \in SUBSET Wallpapers : SetUnavailable(missing)
  \/ Pause \/ Resume \/ Crash \/ Shutdown \/ Pass

Spec == Init /\ [][Next]_vars

(* The session ticks at a fixed cadence while it plays; clocks do not stop. *)
FairSpec == Spec /\ WF_vars(Tick) /\ WF_vars(Pass)

(********************************* Properties *********************************)

(* Types; a position is an identity with an index, and its time is known. *)
TypeOK ==
  /\ playlist \in Definitions
  /\ unavailable \in SUBSET Wallpapers
  /\ active \in BOOLEAN
  /\ runtime \in TypeOfRuntime
  /\ decision \in Decisions \cup {None}
  /\ saved \in TypeOfRuntime \cup {None}
  /\ shown \in 0 .. Duration
  /\ played \in SUBSET Wallpapers
  /\ events \in 0 .. MaxEvents /\ restores \in 0 .. MaxRestores
  /\ (runtime.id = None) <=> (runtime.index = 0)
  /\ (runtime.id = None) <=> (runtime.left = None /\ runtime.pausedLeft = None)

Remaining(r) == IF r.pausedLeft # None THEN r.pausedLeft ELSE r.left

(* Pause, resume, edits and reports neither spend nor give time: until         *)
(* something is restored, what is left is the duration less the time the entry *)
(* has been up; a restore may give time back and never takes any.              *)
TimeIsKept ==
  /\ TypeOK
  /\ active /\ runtime.id # None =>
       /\ Remaining(runtime) >= Duration - shown
       /\ restores <= 1 => Remaining(runtime) = Duration - shown

(* An operation chose an entry (select moved the seed). *)
Chooses == restores' = restores /\ runtime'.seed # runtime.seed

(* tick: the entry on screen is left early only when it is gone or unavailable *)
(* - not by a pause, a reorder, a restart or a reactivation.                   *)
NeverCutShort ==
  [][Chooses /\ runtime.id \in Ids(playlist) \ unavailable => shown = Duration]_vars

(* "Repeat-off shuffle does not replay history", in any order and over crashes *)
(* and reactivations: the saved history is never behind what was selected.     *)
NothingReplayed ==
  [][Chooses /\ ~playlist.repeat => runtime'.id \notin played]_vars

(* Shuffle leaves the entry on screen when it can, also when an edit has moved *)
(* it since.                                                                   *)
NoImmediateRepeat ==
  [][Chooses /\ playlist.shuffle /\ runtime'.id = runtime.id
       => Ids(playlist) \ unavailable = {runtime.id}]_vars

(* "Repeat-off shuffle plays every eligible item ... and reports exhausted":   *)
(* not before all of them have been played.                                    *)
ExhaustedIsTrue ==
  [][decision' # decision /\ decision' # None /\ decision'.state = "exhausted"
       /\ playlist.shuffle => Ids(playlist) \ unavailable \subseteq played]_vars

Plays(w) == active /\ runtime.pausedLeft = None /\ w \in Ids(playlist) \ unavailable

(* Repeat off: an entry that stays available is played in the end, whatever    *)
(* was skipped, reordered or restored before ("can still be selected").  As    *)
(* "played" only grows, []<> says no more than <> would.                       *)
UnplayedIsPlayed ==
  \A w \in Wallpapers : <>[](Plays(w) /\ ~playlist.repeat) => []<>(w \in played)

(* Ordered and repeating: every available entry comes up again and again.      *)
EveryEntryTurns ==
  \A w \in Wallpapers :
    <>[](Plays(w) /\ playlist.repeat /\ ~playlist.shuffle) => []<>(runtime.id = w)

(* No entry that stays available is passed over for ever (next_eligible_index, *)
(* select's exclusions), in the modes whose order does not depend on a draw.   *)
EntriesGetTheirTurn == UnplayedIsPlayed /\ EveryEntryTurns

(* The same asked of a repeating shuffle ("an unplayed item that later becomes *)
(* available can still be selected").                                          *)
ShuffleReachesAll ==
  \A w \in Wallpapers :
    <>[](Plays(w) /\ playlist.repeat /\ playlist.shuffle) => []<>(w \in played)
==============================================================================
