------------------------------ MODULE MCFrame ------------------------------
(***************************************************************************)
(* Small instances of FrameTransport.                                      *)
(***************************************************************************)
EXTENDS FrameTransport

\* Frames the producer can draw: a copy that mixes two of them, or one of them
\* and the blank slot, is none of them.
MCWords == 1..2
MCPixels == 0..2
MCFrames == {[w \in MCWords |-> p] : p \in {1, 2}}

\* Two attempts stand for the supervisor's eight; a call whose first attempt is
\* accepted or whose second is not is the display's as well.
MCAttempts == [r \in Readers |-> 2]

=============================================================================
