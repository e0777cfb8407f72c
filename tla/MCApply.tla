------------------------------ MODULE MCApply ------------------------------
(* Apply on a small instance: one output, two wallpapers.                  *)
EXTENDS Apply, TLC

CONSTANTS s1, s2, o1, stock

MCSpecs == {s1, s2}
MCOutputs == {o1}
MCConfigs == {stock}
MCRaw == {"start", "stop", "ack"}
SavedOrLost == {"saved", "lost"}
OnlySaved == {"saved"}
NoRaw == {}

Sym == Permutations(MCSpecs)

=============================================================================
