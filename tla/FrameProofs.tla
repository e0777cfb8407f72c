---------------------------- MODULE FrameProofs ----------------------------
(***************************************************************************)
(* The frame file is an atomic register, for every frame size, every set   *)
(* of pixels and readers, and every number of attempts.                    *)
(***************************************************************************)
EXTENDS FrameTransport, TLAPS

\* The producer's side: the generation is odd exactly inside publish, and what
\* has been copied of the frame under way is in the slot it will select.
WriterInv ==
  /\ wpc = "idle" <=> Even(generation)
  /\ wpc # "idle" => frame \in Frames
  /\ wpc = "begun" => \A w \in Words \ unwritten : slots[NextSlot][w] = frame[w]
  /\ wpc \in {"copied", "selected"} => slots[activeSlot] = frame

\* A reader's call: while the generation it started from stands, the file has
\* not changed, so it copies the slot on display and every word it has is that
\* slot's.
Coherent(call) ==
  call.pc \in {"slot", "copy", "check"} =>
    /\ Even(call.before) /\ call.before <= generation
    /\ call.pc = "check" => call.left = {}
    /\ (call.before = generation /\ call.pc # "slot") =>
         /\ call.slot = activeSlot
         /\ \A w \in Words \ call.left : call.image[w] = slots[activeSlot][w]

ReaderInv == \A r \in Readers : Coherent(reader[r])

FrameInv == TypeOK /\ WriterInv /\ ReaderInv

\* What the reader of the file would call the latest frame.
Latest == [sequence |-> generation \div 2, image |-> slots[PublishedSlot]]

-----------------------------------------------------------------------------
\* The counter: one step inside a publish leaves the sequence number, the last
\* one makes the next.
LEMMA GenerationArithmetic ==
  ASSUME NEW g \in Nat
  PROVE  /\ Even(g) => /\ OddAfter(g) = g + 1 /\ ~Even(g + 1)
                       /\ (g + 1) \div 2 = g \div 2
         /\ ~Even(g) => /\ Even(g + 1)
                        /\ (g + 1) \div 2 = g \div 2 + 1
         /\ OddAfter(g) \in Nat
         /\ g \div 2 \in Nat
  BY DEF Even, OddAfter

\* The two slots alternate.
LEMMA SlotsAlternate ==
  ASSUME activeSlot \in 0..SlotCount-1
  PROVE  /\ NextSlot \in 0..SlotCount-1
         /\ NextSlot # activeSlot
         /\ NextSlot = 1 - activeSlot
         /\ 1 - NextSlot = activeSlot
  BY DEF NextSlot, SlotCount

LEMMA BlankFrameType == BlankFrame \in [Words -> Pixels]
  BY FramesAssumption DEF BlankFrame

LEMMA NoCallType == NoCall \in Call
  BY BlankFrameType DEF NoCall, Call, SlotCount

LEMMA RetryType ==
  ASSUME NEW call \in Call
  PROVE  /\ Retry(call) \in Call
         /\ Retry(call).pc \in {"idle", "generation"}
  <1>1. CASE call.attempts > 1
    <2>1. call.attempts \in Nat /\ call.attempts - 1 \in Nat
      BY <1>1 DEF Call
    <2>2. Retry(call) = [call EXCEPT !.pc = "generation",
                                    !.attempts = call.attempts - 1]
      BY <1>1 DEF Retry
    <2> QED BY <2>1, <2>2 DEF Call
  <1>2. CASE ~(call.attempts > 1)
    BY <1>2, NoCallType DEF Retry, NoCall
  <1> QED BY <1>1, <1>2

LEMMA CopiedType ==
  ASSUME slots \in [0..SlotCount-1 -> [Words -> Pixels]],
         NEW call \in Call, NEW w \in Words
  PROVE  Copied(call, w) \in Call
  <1>1. slots[call.slot][w] \in Pixels
    BY DEF Call
  <1>2. [call.image EXCEPT ![w] = slots[call.slot][w]] \in [Words -> Pixels]
    BY <1>1 DEF Call
  <1> QED BY <1>2 DEF Call, Copied

-----------------------------------------------------------------------------
(* Type correctness.                                                       *)

LEMMA InitInv == Init => FrameInv
  <1> SUFFICES ASSUME Init PROVE FrameInv
    OBVIOUS
  <1>1. TypeOK
    BY BlankFrameType, NoCallType DEF Init, TypeOK, States, NewFile, SlotCount
  <1>2. WriterInv
    BY DEF Init, WriterInv, Even
  <1>3. ReaderInv
    BY DEF Init, ReaderInv, Coherent, NoCall
  <1> QED BY <1>1, <1>2, <1>3 DEF FrameInv

\* Reader r's call changes, and nothing else but perhaps what it accepted.
LEMMA CallStepType ==
  ASSUME TypeOK, NEW r \in Readers, NEW call \in Call,
         reader' = [reader EXCEPT ![r] = call],
         UNCHANGED <<file, writerVars, seen>>
  PROVE  TypeOK'
  BY DEF TypeOK, file, writerVars

LEMMA TypeStep == TypeOK /\ [Next]_vars => TypeOK'
  <1> SUFFICES ASSUME TypeOK, [Next]_vars PROVE TypeOK'
    OBVIOUS
  <1> USE FramesAssumption
  <1>1. CASE BeginPublish
    BY <1>1, GenerationArithmetic DEF BeginPublish, TypeOK
  <1>2. ASSUME NEW w \in Words, WriteWord(w) PROVE TypeOK'
    <2>1. NextSlot \in 0..SlotCount-1
      BY SlotsAlternate DEF TypeOK
    <2>2. slots' \in [0..SlotCount-1 -> [Words -> Pixels]]
      BY <1>2, <2>1 DEF WriteWord, TypeOK
    <2> QED BY <1>2, <2>2 DEF WriteWord, TypeOK
  <1>3. CASE SelectSlot
    BY <1>3, SlotsAlternate DEF SelectSlot, TypeOK
  <1>4. CASE MarkRunning
    BY <1>4 DEF MarkRunning, TypeOK, States
  <1>5. CASE EndPublish
    BY <1>5 DEF EndPublish, TypeOK
  <1>6. CASE StopProducer
    BY <1>6 DEF StopProducer, TypeOK, States
  <1>7. CASE KillProducer
    BY <1>7 DEF KillProducer, TypeOK, file
  <1>8. ASSUME NEW r \in Readers, StartCall(r) \/ Read(r) PROVE TypeOK'
    <2>0. reader[r] \in Call
      BY DEF TypeOK
    <2>1. CASE StartCall(r)
      <3>1. Attempts[r] \in Nat
        BY AttemptsAssumption
      <3>2. [NoCall EXCEPT !.pc = "generation", !.attempts = Attempts[r]] \in Call
        BY <3>1, NoCallType DEF Call
      <3> QED BY <2>1, <3>2, CallStepType DEF StartCall
    <2>2. CASE ReadGeneration(r)
      <3>1. CASE Even(generation)
        <4>1. [reader[r] EXCEPT !.pc = "slot", !.before = generation] \in Call
          BY <2>0 DEF TypeOK, Call
        <4> QED BY <2>2, <3>1, <4>1, CallStepType DEF ReadGeneration
      <3>2. CASE ~Even(generation)
        BY <2>0, <2>2, <3>2, RetryType, CallStepType DEF ReadGeneration
      <3> QED BY <3>1, <3>2
    <2>3. CASE ReadSlot(r)
      <3>1. [reader[r] EXCEPT !.pc = "copy", !.slot = activeSlot, !.left = Words] \in Call
        BY <2>0 DEF TypeOK, Call
      <3> QED BY <2>3, <3>1, CallStepType DEF ReadSlot
    <2>4. ASSUME NEW w \in Words, ReadWord(r, w) PROVE TypeOK'
      BY <2>0, <2>4, CopiedType, CallStepType DEF ReadWord, TypeOK
    <2>5. CASE EndCopy(r)
      <3>1. [reader[r] EXCEPT !.pc = "check"] \in Call
        BY <2>0 DEF Call
      <3> QED BY <2>5, <3>1, CallStepType DEF EndCopy
    <2>6. CASE Accept(r)
      <3>1. reader' \in [Readers -> Call]
        BY <2>6, NoCallType DEF Accept, TypeOK
      <3>2. seen' \in [Readers -> [sequence : Nat, image : [Words -> Pixels]]]
        <4>1. reader[r].image \in [Words -> Pixels] /\ generation \div 2 \in Nat
          BY <2>0, GenerationArithmetic DEF TypeOK, Call
        <4> QED BY <2>6, <4>1 DEF Accept, TypeOK
      <3> QED BY <2>6, <3>1, <3>2 DEF Accept, TypeOK, file, writerVars
    <2>7. CASE Reject(r)
      BY <2>0, <2>7, RetryType, CallStepType DEF Reject
    <2> QED BY <1>8, <2>1, <2>2, <2>3, <2>4, <2>5, <2>6, <2>7 DEF Read
  <1>9. CASE UNCHANGED vars
    BY <1>9 DEF TypeOK, vars, file, writerVars
  <1> QED BY <1>1, <1>2, <1>3, <1>4, <1>5, <1>6, <1>7, <1>8, <1>9 DEF Next, Publish

THEOREM FrameTypes == Spec => []TypeOK
  <1>1. Init => TypeOK
    BY InitInv DEF FrameInv
  <1> QED BY <1>1, TypeStep, PTL DEF Spec

-----------------------------------------------------------------------------
(* The seqlock invariant.                                                  *)

LEMMA WriterStep == FrameInv /\ [Next]_vars => WriterInv'
  <1> SUFFICES ASSUME FrameInv, [Next]_vars PROVE WriterInv'
    OBVIOUS
  <1> USE DEF FrameInv
  <1>1. CASE BeginPublish
    <2>1. Even(generation) /\ generation' = generation + 1 /\ ~Even(generation')
      BY <1>1, GenerationArithmetic DEF BeginPublish, WriterInv, TypeOK
    <2> QED BY <1>1, <2>1 DEF BeginPublish, WriterInv
  <1>2. ASSUME NEW w \in Words, WriteWord(w) PROVE WriterInv'
    <2>1. NextSlot \in 0..SlotCount-1 /\ NextSlot' = NextSlot
      BY <1>2, SlotsAlternate DEF WriteWord, TypeOK, NextSlot
    <2>2. \A v \in Words \ unwritten' : slots'[NextSlot][v] = frame[v]
      BY <1>2, <2>1 DEF WriteWord, WriterInv, TypeOK
    <2> QED BY <1>2, <2>1, <2>2 DEF WriteWord, WriterInv, Even
  <1>3. CASE SelectSlot
    <2>1. NextSlot \in 0..SlotCount-1
      BY SlotsAlternate DEF TypeOK
    <2>2. \A w \in Words : slots[NextSlot][w] = frame[w]
      BY <1>3 DEF SelectSlot, WriterInv
    <2>3. slots[NextSlot] = frame
      BY <2>1, <2>2 DEF TypeOK
    <2> QED BY <1>3, <2>3 DEF SelectSlot, WriterInv, Even
  <1>4. CASE MarkRunning
    BY <1>4 DEF MarkRunning, WriterInv, Even
  <1>5. CASE EndPublish
    BY <1>5, GenerationArithmetic DEF EndPublish, WriterInv, TypeOK
  <1>6. CASE StopProducer
    BY <1>6 DEF StopProducer, WriterInv, Even, NextSlot
  <1>7. CASE KillProducer
    BY <1>7 DEF KillProducer, WriterInv, Even, NextSlot, file
  <1>8. CASE UNCHANGED <<file, writerVars>>
    BY <1>8 DEF file, writerVars, WriterInv, Even, NextSlot
  <1>9. ASSUME NEW r \in Readers, StartCall(r) \/ Read(r)
        PROVE  UNCHANGED <<file, writerVars>>
    BY <1>9 DEF StartCall, Read, ReadGeneration, ReadSlot, ReadWord, EndCopy, Accept, Reject
  <1>10. CASE UNCHANGED vars
    BY <1>8, <1>10 DEF vars
  <1> QED BY <1>1, <1>2, <1>3, <1>4, <1>5, <1>6, <1>7, <1>8, <1>9, <1>10
          DEF Next, Publish

\* A step of the producer: either nothing a reader copies changes, or no reader
\* can take the generation it started from for the current one.
LEMMA ProducerStepCoherent ==
  ASSUME TypeOK, ReaderInv, reader' = reader,
         \/ UNCHANGED <<generation, activeSlot, slots>>
         \/ generation' = generation /\ ~Even(generation)
         \/ generation' = generation + 1
  PROVE  ReaderInv'
  <1> SUFFICES ASSUME NEW r \in Readers PROVE Coherent(reader[r])'
    BY DEF ReaderInv
  <1>1. Coherent(reader[r])
    BY DEF ReaderInv
  <1>2. reader'[r] = reader[r]
    OBVIOUS
  <1>3. reader[r].before \in Nat /\ generation \in Nat
    BY DEF TypeOK, Call
  <1>4. CASE UNCHANGED <<generation, activeSlot, slots>>
    BY <1>1, <1>2, <1>4 DEF Coherent, Even
  <1>5. CASE generation' = generation /\ ~Even(generation)
    BY <1>1, <1>2, <1>3, <1>5 DEF Coherent
  <1>6. CASE generation' = generation + 1
    BY <1>1, <1>2, <1>3, <1>6 DEF Coherent
  <1> QED BY <1>4, <1>5, <1>6

\* A step of reader r.
LEMMA ReaderStepCoherent ==
  ASSUME TypeOK, ReaderInv, NEW r \in Readers, NEW call, Coherent(call),
         reader' = [reader EXCEPT ![r] = call],
         UNCHANGED <<generation, activeSlot, slots>>
  PROVE  ReaderInv'
  <1> SUFFICES ASSUME NEW q \in Readers PROVE Coherent(reader[q])'
    BY DEF ReaderInv
  <1>1. reader'[q] = IF q = r THEN call ELSE reader[q]
    BY DEF TypeOK
  <1>2. Coherent(reader'[q])
    BY <1>1 DEF ReaderInv
  <1> QED BY <1>2 DEF Coherent, Even

LEMMA ReaderStep == FrameInv /\ [Next]_vars => ReaderInv'
  <1> SUFFICES ASSUME FrameInv, [Next]_vars PROVE ReaderInv'
    OBVIOUS
  <1> USE DEF FrameInv
  <1>1. CASE BeginPublish
    <2>1. generation' = generation + 1
      BY <1>1, GenerationArithmetic DEF BeginPublish, WriterInv, TypeOK
    <2> QED BY <1>1, <2>1, ProducerStepCoherent DEF BeginPublish
  <1>2. ASSUME NEW w \in Words, WriteWord(w) PROVE ReaderInv'
    BY <1>2, ProducerStepCoherent DEF WriteWord, WriterInv
  <1>3. CASE SelectSlot
    BY <1>3, ProducerStepCoherent DEF SelectSlot, WriterInv
  <1>4. CASE MarkRunning
    BY <1>4, ProducerStepCoherent DEF MarkRunning
  <1>5. CASE EndPublish
    BY <1>5, ProducerStepCoherent DEF EndPublish
  <1>6. CASE StopProducer
    BY <1>6, ProducerStepCoherent DEF StopProducer
  <1>7. CASE KillProducer
    BY <1>7, ProducerStepCoherent DEF KillProducer, file
  <1>8. ASSUME NEW r \in Readers, StartCall(r) \/ Read(r) PROVE ReaderInv'
    <2>0. /\ reader[r] \in Call
          /\ Coherent(reader[r])
          /\ generation \in Nat
          /\ Coherent(NoCall)
      BY DEF TypeOK, ReaderInv, Coherent, NoCall
    <2>a. Coherent(Retry(reader[r]))
      BY <2>0, RetryType DEF Coherent
    <2>1. CASE StartCall(r)
      <3>1. Coherent([NoCall EXCEPT !.pc = "generation", !.attempts = Attempts[r]])
        BY DEF Coherent, NoCall
      <3> QED BY <2>1, <3>1, ReaderStepCoherent DEF StartCall, file
    <2>2. CASE ReadGeneration(r)
      <3>1. CASE Even(generation)
        <4>1. Coherent([reader[r] EXCEPT !.pc = "slot", !.before = generation])
          BY <2>0, <3>1 DEF Coherent, Call
        <4> QED BY <2>2, <3>1, <4>1, ReaderStepCoherent DEF ReadGeneration, file
      <3>2. CASE ~Even(generation)
        BY <2>2, <2>a, <3>2, ReaderStepCoherent DEF ReadGeneration, file
      <3> QED BY <3>1, <3>2
    <2>3. CASE ReadSlot(r)
      <3>1. Coherent([reader[r] EXCEPT !.pc = "copy", !.slot = activeSlot, !.left = Words])
        BY <2>0, <2>3 DEF Coherent, Call, ReadSlot
      <3> QED BY <2>3, <3>1, ReaderStepCoherent DEF ReadSlot, file
    <2>4. ASSUME NEW w \in Words, ReadWord(r, w) PROVE ReaderInv'
      <3>1. Coherent(Copied(reader[r], w))
        <4> DEFINE call == reader[r]  next == Copied(call, w)
        <4>1. /\ next.pc = "copy" /\ next.before = call.before
              /\ next.slot = call.slot /\ next.left = call.left \ {w}
              /\ \A v \in Words : next.image[v] =
                   IF v = w THEN slots[call.slot][w] ELSE call.image[v]
          BY <2>0, <2>4 DEF Call, Copied, ReadWord
        <4>2. call.pc = "copy"
          BY <2>4 DEF ReadWord
        <4> HIDE DEF next, call
        <4>3. Coherent(call) => Coherent(next)
          BY <4>1, <4>2 DEF Coherent
        <4> QED BY <2>0, <4>3 DEF next, call
      <3> QED BY <2>4, <3>1, ReaderStepCoherent DEF ReadWord, file
    <2>5. CASE EndCopy(r)
      <3>1. Coherent([reader[r] EXCEPT !.pc = "check"])
        BY <2>0, <2>5 DEF Coherent, Call, EndCopy
      <3> QED BY <2>5, <3>1, ReaderStepCoherent DEF EndCopy, file
    <2>6. CASE Accept(r)
      BY <2>0, <2>6, ReaderStepCoherent DEF Accept, file
    <2>7. CASE Reject(r)
      BY <2>7, <2>a, ReaderStepCoherent DEF Reject, file
    <2> QED BY <1>8, <2>1, <2>2, <2>3, <2>4, <2>5, <2>6, <2>7 DEF Read
  <1>9. CASE UNCHANGED vars
    BY <1>9, ProducerStepCoherent DEF vars, file
  <1> QED BY <1>1, <1>2, <1>3, <1>4, <1>5, <1>6, <1>7, <1>8, <1>9 DEF Next, Publish

LEMMA Seqlock == Spec => []FrameInv
  <1>1. FrameInv /\ [Next]_vars => FrameInv'
    BY TypeStep, WriterStep, ReaderStep DEF FrameInv
  <1> QED BY InitInv, <1>1, PTL DEF Spec

-----------------------------------------------------------------------------
(* The refinement.                                                         *)

LEMMA SourceInit == Init => Source!Init
  BY DEF Init, Source!Init, Source!NewFile, NewFile, PublishedSlot, SlotCount

\* A step of the producer or of a reader is a publish, an accepted copy or
\* nothing the register shows.
LEMMA SourceStep ==
  FrameInv /\ [Next]_vars => [Source!Next]_<<Latest, seen>>
  <1> SUFFICES ASSUME FrameInv, [Next]_vars PROVE [Source!Next]_<<Latest, seen>>
    OBVIOUS
  <1> USE DEF FrameInv
  <1>0. /\ activeSlot \in 0..SlotCount-1 /\ generation \in Nat
        /\ slots \in [0..SlotCount-1 -> [Words -> Pixels]]
    BY DEF TypeOK
  <1>1. CASE BeginPublish
    <2>1. generation' \div 2 = generation \div 2
      BY <1>0, <1>1, GenerationArithmetic DEF BeginPublish, WriterInv
    <2> QED BY <1>1, <2>1 DEF BeginPublish, Latest, PublishedSlot
  <1>2. ASSUME NEW w \in Words, WriteWord(w) PROVE UNCHANGED <<Latest, seen>>
    <2>1. NextSlot \in 0..SlotCount-1 /\ NextSlot # activeSlot
      BY <1>0, SlotsAlternate
    <2>2. slots'[activeSlot] = slots[activeSlot]
      BY <1>0, <1>2, <2>1 DEF WriteWord
    <2> QED BY <1>2, <2>2 DEF WriteWord, Latest, PublishedSlot
  <1>3. CASE SelectSlot
    <2>1. 1 - NextSlot = activeSlot
      BY <1>0, SlotsAlternate
    <2> QED BY <1>3, <2>1 DEF SelectSlot, Latest, PublishedSlot
  <1>4. CASE MarkRunning
    BY <1>4 DEF MarkRunning, Latest, PublishedSlot
  <1>5. CASE EndPublish
    <2>1. generation' \div 2 = generation \div 2 + 1
      BY <1>0, <1>5, GenerationArithmetic DEF EndPublish, WriterInv
    <2>2. slots'[PublishedSlot'] = frame /\ frame \in Frames
      BY <1>5 DEF EndPublish, WriterInv, PublishedSlot
    <2>3. Latest' = [sequence |-> Latest.sequence + 1, image |-> frame]
      BY <2>1, <2>2 DEF Latest
    <2> QED BY <1>5, <2>2, <2>3 DEF EndPublish, Latest, Source!Next, Source!Publish
  <1>6. CASE StopProducer
    BY <1>6 DEF StopProducer, Latest, PublishedSlot
  <1>7. CASE KillProducer
    BY <1>7 DEF KillProducer, Latest, PublishedSlot, file
  <1>8. ASSUME NEW r \in Readers, StartCall(r) \/ Read(r)
        PROVE  [Source!Next]_<<Latest, seen>>
    <2>1. UNCHANGED <<file, writerVars>>
      BY <1>8 DEF StartCall, Read, ReadGeneration, ReadSlot, ReadWord, EndCopy, Accept, Reject
    <2>2. Latest' = Latest
      BY <2>1 DEF Latest, PublishedSlot, file, writerVars
    <2>3. CASE Accept(r)
      <3>1. Coherent(reader[r]) /\ reader[r] \in Call
        BY DEF ReaderInv, TypeOK
      <3>2. \A w \in Words : reader[r].image[w] = slots[activeSlot][w]
        BY <2>3, <3>1 DEF Accept, Stable, Coherent
      <3>3. reader[r].image = slots[activeSlot]
        BY <1>0, <3>1, <3>2 DEF Call
      <3>4. wpc = "idle"
        BY <2>3 DEF Accept, Stable, WriterInv
      <3>5. seen' = [seen EXCEPT ![r] = Latest]
        BY <2>3, <3>3, <3>4 DEF Accept, Latest, PublishedSlot
      <3> QED BY <2>2, <3>5 DEF Latest, Source!Next, Source!Take
    <2>4. CASE ~Accept(r)
      <3>1. seen' = seen
        BY <1>8, <2>4 DEF StartCall, Read, ReadGeneration, ReadSlot, ReadWord, EndCopy, Reject
      <3> QED BY <2>2, <3>1
    <2> QED BY <2>3, <2>4
  <1>9. CASE UNCHANGED vars
    BY <1>9 DEF vars, file, writerVars, Latest, PublishedSlot
  <1> QED BY <1>1, <1>2, <1>3, <1>4, <1>5, <1>6, <1>7, <1>8, <1>9 DEF Next, Publish

\* FrameTransport implements FrameSource: no frame is ever torn, stale when it
\* is accepted, or out of order, however publish, the producer's death and the
\* readers' calls interleave.
THEOREM TransportIsAtomic == Spec => AtomicFrames
  <1>1. FrameInv /\ [Next]_vars => [Source!Next]_<<Latest, seen>>
    BY SourceStep
  <1>2. Spec => Source!Init /\ [][Source!Next]_<<Latest, seen>>
    BY SourceInit, <1>1, Seqlock, PTL DEF Spec
  <1> QED BY <1>2 DEF AtomicFrames, Source!Spec, Latest

=============================================================================
