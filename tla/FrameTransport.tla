--------------------------- MODULE FrameTransport ---------------------------
(***************************************************************************)
(* The shared frame file (crates/kwe-frame-protocol/src/lib.rs) and its    *)
(* two kinds of reader: the supervisor's SharedFrameReader::snapshot,      *)
(* which retries at once, and the display's FrameItem::pollFrame           *)
(* (modules/org/kde/kwe/display/frameitem.cpp), which gives up and is      *)
(* called again by its timer.                                              *)
(*                                                                         *)
(* Every access to the mapping is a step of its own, and a slot is copied  *)
(* word by word on both sides, in any order.  The header is initialised    *)
(* and stays valid here: opening and corruption are not in this module.    *)
(* The acquire, release and sequentially consistent fences of both sides   *)
(* order the accesses, so the steps of one side happen in program order.   *)
(***************************************************************************)
EXTENDS Integers, FiniteSets

CONSTANTS
  Words,           \* the words of a frame slot
  Pixels,          \* what a word can hold
  BlankPixel,      \* what a word of a new file holds
  Frames,          \* images the producer may draw, in [Words -> Pixels]
  Readers,
  Attempts,        \* copies a reader tries in one call: 8 in Rust, 1 in Qt
  MaxGeneration    \* bound on the seqlock counter; the code's has 64 bits

ASSUME FramesAssumption == Frames \subseteq [Words -> Pixels] /\ BlankPixel \in Pixels
ASSUME AttemptsAssumption == Attempts \in [Readers -> Nat \ {0}]
ASSUME MaxGenerationAssumption == MaxGeneration \in Nat

VARIABLES
  generation,      \* the seqlock counter: odd while a publish is under way
  activeSlot,
  slots,           \* the two frame slots, word by word
  producerState,
  wpc,             \* where the producer is in publish
  alive,           \* the producer process runs
  frame,           \* the image being published
  unwritten,       \* its words that are still to be copied to the slot
  reader,          \* each reader's call
  seen             \* the frame each reader accepted last

writerVars == <<wpc, alive, frame, unwritten>>
file == <<generation, activeSlot, slots, producerState>>
vars == <<file, writerVars, reader, seen>>

SlotCount == 2

BlankFrame == [w \in Words |-> BlankPixel]

NewFile == [sequence |-> 0, image |-> BlankFrame]

Even(g) == g % 2 = 0

States == {"Starting", "Running", "Stopping"}

\* A call: "generation", "slot", "copy" and "check" are the accesses still to
\* be made; "idle" is between two calls.
Call == [pc : {"idle", "generation", "slot", "copy", "check"},
         before : Nat, slot : 0..SlotCount-1, left : SUBSET Words,
         image : [Words -> Pixels], attempts : Nat]

NoCall == [pc |-> "idle", before |-> 0, slot |-> 0, left |-> {},
           image |-> BlankFrame, attempts |-> 0]

TypeOK ==
  /\ generation \in Nat
  /\ activeSlot \in 0..SlotCount-1
  /\ slots \in [0..SlotCount-1 -> [Words -> Pixels]]
  /\ producerState \in States
  /\ wpc \in {"idle", "begun", "copied", "selected"}
  /\ alive \in BOOLEAN
  /\ frame \in [Words -> Pixels]
  /\ unwritten \subseteq Words
  /\ reader \in [Readers -> Call]
  /\ seen \in [Readers -> [sequence : Nat, image : [Words -> Pixels]]]

-----------------------------------------------------------------------------
(* The producer.                                                           *)

\* The slot publish writes: the one that is not active.
NextSlot == (activeSlot + 1) % SlotCount

\* Mutant of OddAfter: the generation is not marked while the slot is written.
UnmarkedAfter(g) == g

\* The odd generation a publish starts with.
OddAfter(g) == IF Even(g) THEN g + 1 ELSE g + 2

\* publish: the generation becomes odd before anything else changes.
BeginPublish ==
  /\ alive /\ wpc = "idle"
  /\ generation + 2 <= MaxGeneration
  /\ generation' = OddAfter(generation)
  /\ frame' \in Frames
  /\ unwritten' = Words
  /\ wpc' = "begun"
  /\ UNCHANGED <<activeSlot, slots, producerState, alive, reader, seen>>

\* publish: copy_from_slice into the other slot, one word of it.
WriteWord(w) ==
  /\ alive /\ wpc = "begun"
  /\ w \in unwritten
  /\ slots' = [slots EXCEPT ![NextSlot] = [@ EXCEPT ![w] = frame[w]]]
  /\ unwritten' = unwritten \ {w}
  /\ UNCHANGED <<generation, activeSlot, producerState, wpc, alive, frame, reader, seen>>

\* publish: the slot is made active.
SelectSlot ==
  /\ alive /\ wpc = "begun" /\ unwritten = {}
  /\ activeSlot' = NextSlot
  /\ wpc' = "copied"
  /\ UNCHANGED <<generation, slots, producerState, alive, frame, unwritten, reader, seen>>

\* publish: the state.
MarkRunning ==
  /\ alive /\ wpc = "copied"
  /\ producerState' = "Running"
  /\ wpc' = "selected"
  /\ UNCHANGED <<generation, activeSlot, slots, alive, frame, unwritten, reader, seen>>

\* publish: the generation becomes even and the call returns.
EndPublish ==
  /\ alive /\ wpc = "selected"
  /\ generation' = generation + 1
  /\ wpc' = "idle"
  /\ UNCHANGED <<activeSlot, slots, producerState, alive, frame, unwritten, reader, seen>>

\* set_state(Stopping) outside the seqlock, the last thing a renderer does.
StopProducer ==
  /\ alive /\ wpc = "idle"
  /\ producerState' = "Stopping"
  /\ alive' = FALSE
  /\ UNCHANGED <<generation, activeSlot, slots, wpc, frame, unwritten, reader, seen>>

\* The producer crashes or is killed, between any two accesses.
KillProducer ==
  /\ alive
  /\ alive' = FALSE
  /\ UNCHANGED <<file, wpc, frame, unwritten, reader, seen>>

-----------------------------------------------------------------------------
(* The readers.                                                            *)

\* The next attempt of the call, or its end with ProtocolError::Busy.
Retry(call) ==
  IF call.attempts > 1
  THEN [call EXCEPT !.pc = "generation", !.attempts = @ - 1]
  ELSE NoCall

\* A call of snapshot, or the poll timer.
StartCall(r) ==
  /\ reader[r].pc = "idle"
  /\ reader' = [reader EXCEPT ![r] =
                  [NoCall EXCEPT !.pc = "generation", !.attempts = Attempts[r]]]
  /\ UNCHANGED <<file, writerVars, seen>>

\* The generation before the copy; an odd one ends the attempt.
ReadGeneration(r) ==
  /\ reader[r].pc = "generation"
  /\ reader' = [reader EXCEPT ![r] =
                  IF Even(generation)
                  THEN [@ EXCEPT !.pc = "slot", !.before = generation]
                  ELSE Retry(@)]
  /\ UNCHANGED <<file, writerVars, seen>>

\* The slot to copy.
ReadSlot(r) ==
  /\ reader[r].pc = "slot"
  /\ reader' = [reader EXCEPT ![r] =
                  [@ EXCEPT !.pc = "copy", !.slot = activeSlot, !.left = Words]]
  /\ UNCHANGED <<file, writerVars, seen>>

\* One word of the copy.
Copied(call, w) ==
  [call EXCEPT !.image = [call.image EXCEPT ![w] = slots[call.slot][w]],
               !.left = call.left \ {w}]

ReadWord(r, w) ==
  /\ reader[r].pc = "copy"
  /\ w \in reader[r].left
  /\ reader' = [reader EXCEPT ![r] = Copied(@, w)]
  /\ UNCHANGED <<file, writerVars, seen>>

\* The copy is complete.
EndCopy(r) ==
  /\ reader[r].pc = "copy" /\ reader[r].left = {}
  /\ reader' = [reader EXCEPT ![r] = [@ EXCEPT !.pc = "check"]]
  /\ UNCHANGED <<file, writerVars, seen>>

\* Mutant of Stable: only the parity of the second read counts.
StableWhenEven(call) == Even(generation)

\* The second read of the generation.
Stable(call) == call.before = generation /\ Even(generation)

\* The copy is accepted.
Accept(r) ==
  /\ reader[r].pc = "check"
  /\ Stable(reader[r])
  /\ seen' = [seen EXCEPT ![r] =
                [sequence |-> generation \div 2, image |-> reader[r].image]]
  /\ reader' = [reader EXCEPT ![r] = NoCall]
  /\ UNCHANGED <<file, writerVars>>

\* The copy is thrown away.
Reject(r) ==
  /\ reader[r].pc = "check"
  /\ ~Stable(reader[r])
  /\ reader' = [reader EXCEPT ![r] = Retry(@)]
  /\ UNCHANGED <<file, writerVars, seen>>

-----------------------------------------------------------------------------
Init ==
  /\ generation = 0
  /\ activeSlot = 0
  /\ slots = [s \in 0..SlotCount-1 |-> BlankFrame]
  /\ producerState = "Starting"
  /\ wpc = "idle"
  /\ alive = TRUE
  /\ frame = BlankFrame
  /\ unwritten = {}
  /\ reader = [r \in Readers |-> NoCall]
  /\ seen = [r \in Readers |-> NewFile]

Publish == BeginPublish \/ (\E w \in Words : WriteWord(w))
           \/ SelectSlot \/ MarkRunning \/ EndPublish

Read(r) == ReadGeneration(r) \/ ReadSlot(r) \/ (\E w \in Words : ReadWord(r, w))
           \/ EndCopy(r) \/ Accept(r) \/ Reject(r)

Next ==
  \/ Publish \/ StopProducer \/ KillProducer
  \/ \E r \in Readers : StartCall(r) \/ Read(r)

Spec == Init /\ [][Next]_vars

\* Readers are called for ever and their calls run; the producer owes nothing.
Fairness == \A r \in Readers : WF_vars(StartCall(r)) /\ WF_vars(Read(r))

FairSpec == Spec /\ Fairness

-----------------------------------------------------------------------------
(* Properties.                                                             *)

\* The slot of the last published frame: a publish under way may have selected
\* the next one already.
PublishedSlot == IF wpc \in {"copied", "selected"} THEN 1 - activeSlot ELSE activeSlot

Source == INSTANCE FrameSource WITH
  latest <- [sequence |-> generation \div 2, image |-> slots[PublishedSlot]]

\* FRAME_PROTOCOL_V1.md, "Publish and snapshot algorithm": whatever the two
\* sides interleave and wherever the producer dies, the file behaves like an
\* atomic register: frames appear whole and in order, and an accepted copy is
\* the latest frame at the moment it is accepted.
AtomicFrames == Source!Spec

\* The last frame of a producer that ended outside publish reaches every
\* reader, however late the reader starts.
LastFrameArrives ==
  \A r \in Readers :
    (~alive /\ wpc = "idle") ~>
      seen[r] = [sequence |-> generation \div 2, image |-> slots[activeSlot]]

=============================================================================
