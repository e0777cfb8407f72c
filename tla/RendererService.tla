-------------------------- MODULE RendererService --------------------------
(***************************************************************************)
(* What the supervisor of kwe-daemon promises to the threads that call it, *)
(* at the grain of wallpaper identities: which wallpaper is on screen,     *)
(* which is coming, what status() reports, and how start, retry, stop and  *)
(* acknowledge change that.  Processes, strikes, stills, files and the     *)
(* stages of the loop are gone: a quarantine, a failure and a deadline are *)
(* choices.                                                                *)
(*                                                                         *)
(* Supervisor implements it (Supervisor!ServesClients); Apply and          *)
(* PlaylistSession run over it.                                            *)
(***************************************************************************)
CONSTANTS
  Specs,    \* wallpaper identities
  NoSpec

VARIABLES
  shown,      \* the wallpaper of the active worker
  coming,     \* that of the candidate
  previous,   \* that of the worker retired by an unacknowledged handoff
  waiting,    \* that of a delayed restart
  requested,  \* requested_wallpaper_id and requested_content_hash
  phase       \* WorkerPhase

service == <<shown, coming, previous, waiting, requested, phase>>

\* WorkerPhase
WorkerPhases == {"Idle", "Starting", "Canary", "Live", "Restarting", "AwaitingAck",
                 "RolledBack", "Stopped", "Quarantined"}

ServiceTypeOK ==
  /\ {shown, coming, previous, waiting, requested} \subseteq Specs \cup {NoSpec}
  /\ phase \in WorkerPhases

ServiceInit ==
  /\ shown = NoSpec /\ coming = NoSpec /\ previous = NoSpec
  /\ waiting = NoSpec /\ requested = NoSpec
  /\ phase = "Idle"

-----------------------------------------------------------------------------
(* Outcomes that several operations share.                                 *)

\* spawn_worker
Launch(s) ==
  /\ coming' = s
  /\ phase' = IF shown = NoSpec THEN "Starting" ELSE "Canary"

\* What a failed candidate leaves: a restart, or a quarantine.  "source" is the
\* wallpaper that is on screen.
StruckDown(s, source) ==
  \/ phase' = "Restarting" /\ waiting' = s
  \/ /\ phase' = IF source = NoSpec THEN "Quarantined" ELSE "RolledBack"
     /\ waiting' = NoSpec

-----------------------------------------------------------------------------
(* Commands.                                                               *)

\* start_selected, or its retry: no handoff is open; a candidate or a restart
\* gives way, and the wallpaper is launched, refused as quarantined, or fails.
StartAnswered(s) ==
  /\ previous = NoSpec
  /\ requested' = s
  /\ UNCHANGED <<shown, previous>>
  /\ \/ Launch(s) /\ waiting' = NoSpec
     \/ coming' = NoSpec /\ StruckDown(s, shown)

\* A retry whose save of the cleared record fails.
RetryNotSaved ==
  /\ previous = NoSpec
  /\ coming' = NoSpec /\ waiting' = NoSpec
  /\ UNCHANGED <<shown, previous, requested, phase>>

\* stop_selected
StopAnswered ==
  /\ shown' = NoSpec /\ coming' = NoSpec /\ previous' = NoSpec /\ waiting' = NoSpec
  /\ phase' = "Stopped"
  /\ UNCHANGED requested

\* acknowledge_display with the expected generation.
AckAnswered ==
  /\ previous' = NoSpec
  /\ phase' = IF shown # NoSpec /\ coming = NoSpec THEN "Live" ELSE phase
  /\ UNCHANGED <<shown, coming, waiting, requested>>

-----------------------------------------------------------------------------
(* What happens between commands.                                          *)

\* complete_handoff_timeout
HandoffCommits ==
  /\ previous # NoSpec
  /\ previous' = NoSpec
  /\ phase' = "Live"
  /\ UNCHANGED <<shown, coming, waiting, requested>>

\* The promoted wallpaper fails before it is acknowledged, or its still cannot
\* be saved: the previous one is back.
HandoffRollsBack ==
  /\ previous # NoSpec
  /\ shown' = previous
  /\ previous' = NoSpec
  /\ requested' \in {requested, shown}
  /\ StruckDown(shown, previous)
  /\ UNCHANGED coming

\* spawn_pending_restart
RestartRuns ==
  /\ coming = NoSpec /\ waiting # NoSpec
  /\ \/ Launch(waiting) /\ waiting' = NoSpec
     \/ coming' = NoSpec /\ StruckDown(waiting, shown)
  /\ UNCHANGED <<shown, previous, requested>>

\* handle_active_failure of a settled worker.
SourceFails ==
  /\ shown # NoSpec /\ previous = NoSpec
  /\ shown' = NoSpec
  /\ \/ /\ coming # NoSpec
        /\ phase' = "Starting"
        /\ UNCHANGED <<waiting, requested>>
     \/ /\ coming = NoSpec
        /\ requested' = shown
        /\ \/ phase' = "Quarantined" /\ UNCHANGED waiting
           \/ phase' = "Restarting" /\ waiting' = shown
  /\ UNCHANGED <<coming, previous>>

\* promote_candidate
Promotes ==
  /\ coming # NoSpec
  /\ shown' = coming
  /\ previous' = shown
  /\ coming' = NoSpec /\ waiting' = NoSpec
  /\ phase' = IF shown = NoSpec THEN "Live" ELSE "AwaitingAck"
  /\ UNCHANGED requested

\* The candidate fails, or its first still cannot be saved.
CandidateLost ==
  /\ coming # NoSpec
  /\ coming' = NoSpec
  /\ StruckDown(coming, shown)
  /\ UNCHANGED <<shown, previous, requested>>

\* The candidate refuses its content (exit 73 or 74).
CandidateRefused ==
  /\ coming # NoSpec
  /\ coming' = NoSpec /\ waiting' = NoSpec
  /\ requested' = coming
  /\ phase' = IF shown = NoSpec THEN "Stopped" ELSE "RolledBack"
  /\ UNCHANGED <<shown, previous>>

\* The daemon ends, or dies.
ServiceEnds ==
  /\ shown' = NoSpec /\ coming' = NoSpec /\ previous' = NoSpec
  /\ waiting' = NoSpec /\ requested' = NoSpec
  /\ phase' = "Idle"

\* What the supervisor does of its own.
Settling == HandoffCommits \/ RestartRuns \/ Promotes \/ CandidateLost \/ CandidateRefused

ServiceSteps == Settling \/ HandoffRollsBack \/ SourceFails

ServiceNext ==
  \/ \E s \in Specs : StartAnswered(s)
  \/ RetryNotSaved \/ StopAnswered \/ AckAnswered
  \/ ServiceSteps
  \/ ServiceEnds

ServiceSpec == ServiceInit /\ [][ServiceNext]_service

-----------------------------------------------------------------------------
(* What the callers read from status(), and the verdicts they take from it.*)

\* phase_has_live_worker
HasLiveWorker ==
  phase \in {"Starting", "Canary", "Live", "AwaitingAck", "Restarting", "RolledBack"}

\* foreign_renderer_live
ForeignLive(desired, applied) == HasLiveWorker /\ requested \notin {desired, applied}

\* promotion_verdict, with the check that the renderer is still ours; the phase
\* of a terminal failure counts whoever was requested.
Promoted(s) == requested = s /\ phase \in {"Live", "AwaitingAck"}
NotPromoted(s) ==
  \/ requested # s /\ phase # "Idle"
  \/ phase \in {"RolledBack", "Quarantined", "Stopped"}

=============================================================================
