--------------------------- MODULE SourceHandoff ----------------------------
(***************************************************************************)
(* The renderer supervisor as the display sees it: which worker is on      *)
(* screen, which one it replaces, and the number the two are told apart    *)
(* by.  Candidates, strikes, stills and phases are gone; a promotion, an   *)
(* acknowledgement, a deadline and a failure are choices.                  *)
(*                                                                         *)
(* Supervisor implements it at the grain of processes, DisplaySession at   *)
(* that of frame paths, InputPath at that of control pipes (HandsOver in   *)
(* each of them).                                                          *)
(***************************************************************************)
CONSTANTS
  Workers,
  NoWorker,
  First,          \* the generation a daemon starts with
  Successor(_)    \* the next generation

VARIABLES
  active,         \* the worker on screen
  retired,        \* the one it replaced, until the handoff is settled
  generation      \* display_generation

source == <<active, retired, generation>>

Init == active = NoWorker /\ retired = NoWorker /\ generation = First

\* promote_candidate: over nothing, or opening a handoff.
Promotes(w) ==
  /\ w # active /\ retired = NoWorker
  /\ active' = w /\ retired' = active
  /\ generation' = Successor(generation)

\* acknowledge_display, or complete_handoff_timeout.
Commits ==
  /\ retired # NoWorker /\ retired' = NoWorker
  /\ UNCHANGED <<active, generation>>

\* The promoted worker fails, or its still cannot be saved at the deadline.
RollsBack ==
  /\ retired # NoWorker /\ retired' = NoWorker
  /\ active' = retired
  /\ generation' = Successor(generation)

\* stop, or the failure of a worker without a predecessor.
Ends ==
  /\ active # NoWorker
  /\ active' = NoWorker /\ retired' = NoWorker
  /\ UNCHANGED generation

\* The daemon ends: the generation is not kept.
Resets == active' = NoWorker /\ retired' = NoWorker /\ generation' = First

\* What happens within the life of a daemon.
Moves == (\E w \in Workers : Promotes(w)) \/ Commits \/ RollsBack \/ Ends

Next == Moves \/ Resets

Spec == Init /\ [][Next]_source
=============================================================================
