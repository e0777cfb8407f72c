---------------------------- MODULE FrameSource ----------------------------
(***************************************************************************)
(* What the shared frame file promises (crates/kwe-frame-protocol): it is  *)
(* an atomic register of numbered frames with one writer.  A frame appears *)
(* at once, and a reader that gets one gets the whole latest frame.        *)
(***************************************************************************)
EXTENDS Naturals

CONSTANTS
  Frames,      \* images a producer may draw
  BlankFrame,  \* the image of a new file
  Readers      \* the supervisor and the displays

VARIABLES
  latest,      \* the frame the producer published last
  seen         \* the frame each reader accepted last

Published == [sequence : Nat, image : Frames \cup {BlankFrame}]

NewFile == [sequence |-> 0, image |-> BlankFrame]

Init ==
  /\ latest = NewFile
  /\ seen = [r \in Readers |-> NewFile]

\* SharedFrameWriter::publish, as its callers may think of it.
Publish ==
  \E f \in Frames :
    /\ latest' = [sequence |-> latest.sequence + 1, image |-> f]
    /\ UNCHANGED seen

\* SharedFrameReader::snapshot returning Ok, or an accepting pollFrame.
Take(r) ==
  /\ seen' = [seen EXCEPT ![r] = latest]
  /\ UNCHANGED latest

Next == Publish \/ \E r \in Readers : Take(r)

Spec == Init /\ [][Next]_<<latest, seen>>

=============================================================================
