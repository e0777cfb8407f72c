---------------------------- MODULE MCSupervisor ----------------------------
(* Supervisor on small instances: two identities, three process ids.       *)
EXTENDS Supervisor, TLC

CONSTANTS s1, s2, p1, p2, p3

MCSpecs == {s1, s2}
MCPids == {p1, p2, p3}
Symmetry == Permutations(MCSpecs) \cup Permutations(MCPids)
OnlySaved == {"saved"}
SavedOrLost == {"saved", "lost"}
AnyOutcome == {"saved", "lost", "unsynced"}

=============================================================================
