----------------------------- MODULE InputProofs -----------------------------
(***************************************************************************)
(* Sequences and acknowledgements on the control pipes, for any number of  *)
(* workers, any size of the pipe and any number of events and frames.      *)
(***************************************************************************)
EXTENDS InputPath, TLAPS

(***************************************************************************)
(* The inductive invariant, for one worker: nothing under way to it or     *)
(* back is above the ceiling, and its pointer messages are in order, what  *)
(* was read before what is in the pipe before what waits.                  *)
(***************************************************************************)
BelowCeiling(v) ==
  /\ v.read.sequence <= v.sequence
  /\ \A s \in Streams : v.pending[s].sequence <= v.sequence
  /\ \A i \in DOMAIN v.pipe : v.pipe[i].sequence <= v.sequence
  /\ \A i \in DOMAIN v.acks : v.acks[i] <= v.sequence
  /\ ~v.refused

IsPointer(m) == m.stream = "pointer"

PointersOrdered(v) ==
  /\ \A s \in Streams : v.pending[s] # NoMessage => v.pending[s].stream = s
  /\ \A i, j \in DOMAIN v.pipe :
       i < j /\ IsPointer(v.pipe[i]) /\ IsPointer(v.pipe[j])
         => v.pipe[i].sequence < v.pipe[j].sequence
  /\ \A i \in DOMAIN v.pipe :
       IsPointer(v.pipe[i]) => /\ v.read.sequence < v.pipe[i].sequence
                               /\ v.pending["pointer"] # NoMessage
                                    => v.pipe[i].sequence < v.pending["pointer"].sequence
  /\ v.pending["pointer"] # NoMessage
       => v.read.sequence < v.pending["pointer"].sequence

Orderly(v) == BelowCeiling(v) /\ PointersOrdered(v)

\* A worker that is or was the source has a generation, and so have its frames.
Generated ==
  supervisor.active # NoWorker \/ supervisor.retired # NoWorker => supervisor.generation # 0

Inv == TypeOK /\ Generated /\ \A w \in Workers : Orderly(worker[w])

-----------------------------------------------------------------------------
(* The operations on one worker's pipes.                                   *)

LEMMA NoMessageType == NoMessage \in Message /\ NoMessage.sequence = 0 /\ NoMessage.stream = "frame"
BY DEF NoMessage, Message, Streams

LEMMA NewWorkerType == NewWorker \in Worker /\ Orderly(NewWorker)
<1>1. NewWorker \in Worker
  BY NoMessageType DEF NewWorker, Worker
<1>2. BelowCeiling(NewWorker)
  BY NoMessageType DEF NewWorker, BelowCeiling
<1>3. PointersOrdered(NewWorker)
  BY NoMessageType DEF NewWorker, PointersOrdered, Streams
<1>4. QED
  BY <1>1, <1>2, <1>3 DEF Orderly

\* The fields of a worker's bookkeeping.
LEMMA WorkerFields ==
  ASSUME NEW v \in Worker
  PROVE  /\ v.sequence \in Nat /\ v.ackSequence \in Nat /\ v.refused \in BOOLEAN
         /\ v.pending \in [Streams -> Message] /\ v.read \in Message
         /\ v.pipe \in Seq(Message) /\ v.acks \in Seq(Nat)
         /\ v.read.sequence \in Nat
         /\ \A s \in Streams : v.pending[s].sequence \in Nat
         /\ \A i \in DOMAIN v.pipe : v.pipe[i] \in Message /\ v.pipe[i].sequence \in Nat
         /\ \A i \in DOMAIN v.acks : v.acks[i] \in Nat
<1>1. /\ v.sequence \in Nat /\ v.ackSequence \in Nat /\ v.refused \in BOOLEAN
      /\ v.pending \in [Streams -> Message] /\ v.read \in Message
      /\ v.pipe \in Seq(Message) /\ v.acks \in Seq(Nat)
  BY NoMessageType DEF Worker
<1>2. \A m \in Message : m.sequence \in Nat
  BY DEF Message
<1>3. \A i \in DOMAIN v.pipe : v.pipe[i] \in Message
  BY <1>1
<1>4. \A i \in DOMAIN v.acks : v.acks[i] \in Nat
  BY <1>1
<1>5. QED
  BY <1>1, <1>2, <1>3, <1>4

\* A pipe with one more message.
LEMMA WrittenFields ==
  ASSUME NEW v \in Worker, NEW m \in Message
  PROVE  LET next == Written(v, m)
         IN  /\ next \in Worker
             /\ next.sequence = v.sequence /\ next.pending = v.pending
             /\ next.read = v.read /\ next.acks = v.acks /\ next.refused = v.refused
             /\ DOMAIN next.pipe = 1..(Len(v.pipe) + 1) /\ DOMAIN v.pipe = 1..Len(v.pipe)
             /\ Len(v.pipe) \in Nat
             /\ next.pipe[Len(v.pipe) + 1] = m
             /\ \A i \in 1..Len(v.pipe) : next.pipe[i] = v.pipe[i]
<1>1. v.pipe \in Seq(Message)
  BY WorkerFields
<1>2. Append(v.pipe, m) \in Seq(Message)
  BY <1>1
<1>3. /\ Written(v, m) \in Worker
      /\ Written(v, m).pipe = Append(v.pipe, m)
      /\ Written(v, m).sequence = v.sequence /\ Written(v, m).pending = v.pending
      /\ Written(v, m).read = v.read /\ Written(v, m).acks = v.acks
      /\ Written(v, m).refused = v.refused
  BY <1>2 DEF Written, Worker
<1>4. QED
  BY <1>1, <1>3

\* What waits on one stream changes.
LEMMA PendingFields ==
  ASSUME NEW v \in Worker, NEW s \in Streams, NEW m \in Message
  PROVE  LET next == [v EXCEPT !.pending[s] = m]
         IN  /\ next \in Worker
             /\ next.sequence = v.sequence /\ next.pipe = v.pipe
             /\ next.read = v.read /\ next.acks = v.acks /\ next.refused = v.refused
             /\ next.pending[s] = m
             /\ \A r \in Streams \ {s} : next.pending[r] = v.pending[r]
BY NoMessageType DEF Worker

\* try_write_input on a message that is not behind a pointer message in the pipe,
\* and not ahead of one that waits.
LEMMA WrittenOrderly ==
  ASSUME NEW v \in Worker, Orderly(v), NEW m \in Message,
         m.sequence <= v.sequence,
         IsPointer(m) =>
           /\ v.pending["pointer"] = NoMessage
           /\ v.read.sequence < m.sequence
           /\ \A i \in DOMAIN v.pipe : IsPointer(v.pipe[i]) => v.pipe[i].sequence < m.sequence
  PROVE  Written(v, m) \in Worker /\ Orderly(Written(v, m))
<1> DEFINE next == Written(v, m)
<1>1. /\ next \in Worker
      /\ next.sequence = v.sequence /\ next.pending = v.pending
      /\ next.read = v.read /\ next.acks = v.acks /\ next.refused = v.refused
      /\ DOMAIN next.pipe = 1..(Len(v.pipe) + 1) /\ DOMAIN v.pipe = 1..Len(v.pipe)
      /\ Len(v.pipe) \in Nat
      /\ next.pipe[Len(v.pipe) + 1] = m
      /\ \A i \in 1..Len(v.pipe) : next.pipe[i] = v.pipe[i]
  BY WrittenFields
<1> HIDE DEF next
<1>2. BelowCeiling(next)
  BY <1>1 DEF Orderly, BelowCeiling
<1>3. PointersOrdered(next)
  <2>1. ASSUME NEW i \in DOMAIN next.pipe, NEW j \in DOMAIN next.pipe,
               i < j, IsPointer(next.pipe[i]), IsPointer(next.pipe[j])
        PROVE  next.pipe[i].sequence < next.pipe[j].sequence
    <3>1. i \in 1..Len(v.pipe)
      BY <1>1, <2>1
    <3>2. CASE j \in 1..Len(v.pipe)
      BY <1>1, <2>1, <3>1, <3>2 DEF Orderly, PointersOrdered
    <3>3. CASE j = Len(v.pipe) + 1
      BY <1>1, <2>1, <3>1, <3>3
    <3>4. QED
      BY <1>1, <3>2, <3>3
  <2>2. ASSUME NEW i \in DOMAIN next.pipe, IsPointer(next.pipe[i])
        PROVE  /\ next.read.sequence < next.pipe[i].sequence
               /\ next.pending["pointer"] # NoMessage
                    => next.pipe[i].sequence < next.pending["pointer"].sequence
    <3>1. CASE i \in 1..Len(v.pipe)
      BY <1>1, <2>2, <3>1 DEF Orderly, PointersOrdered
    <3>2. CASE i = Len(v.pipe) + 1
      BY <1>1, <2>2, <3>2
    <3>3. QED
      BY <1>1, <3>1, <3>2
  <2>3. QED
    BY <1>1, <2>1, <2>2 DEF Orderly, PointersOrdered
<1>4. QED
  BY <1>1, <1>2, <1>3 DEF Orderly, next

\* raise_ack_ceiling, and the sequence of a new event: the ceiling goes up.
LEMMA LiftedOrderly ==
  ASSUME NEW v \in Worker, Orderly(v), NEW n \in Nat, n >= v.sequence
  PROVE  LET next == [v EXCEPT !.sequence = n]
         IN  next \in Worker /\ next.sequence = n /\ next.read = v.read /\ Orderly(next)
<1> DEFINE next == [v EXCEPT !.sequence = n]
<1>1. /\ next \in Worker /\ next.sequence = n
      /\ next.pending = v.pending /\ next.pipe = v.pipe /\ next.acks = v.acks
      /\ next.read = v.read /\ next.refused = v.refused
  BY DEF Worker
<1> HIDE DEF next
<1>2. BelowCeiling(next)
  BY <1>1, WorkerFields DEF Orderly, BelowCeiling
<1>3. PointersOrdered(next)
  BY <1>1 DEF Orderly, PointersOrdered
<1>4. QED
  BY <1>1, <1>2, <1>3 DEF Orderly, next

\* A message that waits is dropped.
LEMMA FreedOrderly ==
  ASSUME NEW v \in Worker, Orderly(v), NEW s \in Streams
  PROVE  LET next == [v EXCEPT !.pending[s] = NoMessage]
         IN  /\ next \in Worker /\ Orderly(next) /\ next.pending[s] = NoMessage
             /\ next.sequence = v.sequence /\ next.read = v.read /\ next.pipe = v.pipe
<1> DEFINE next == [v EXCEPT !.pending[s] = NoMessage]
<1>1. /\ next \in Worker
      /\ next.sequence = v.sequence /\ next.pipe = v.pipe
      /\ next.read = v.read /\ next.acks = v.acks /\ next.refused = v.refused
      /\ next.pending[s] = NoMessage
      /\ \A r \in Streams \ {s} : next.pending[r] = v.pending[r]
  BY PendingFields, NoMessageType
<1> HIDE DEF next
<1>2. BelowCeiling(next)
  BY <1>1, NoMessageType, WorkerFields DEF Orderly, BelowCeiling
<1>3. PointersOrdered(next)
  BY <1>1, NoMessageType DEF Orderly, PointersOrdered, Streams
<1>4. QED
  BY <1>1, <1>2, <1>3 DEF Orderly, next

\* queue_control_message on a message newer than those of its stream.
LEMMA QueuedOrderly ==
  ASSUME NEW v \in Worker, Orderly(v), NEW m \in Message, m # NoMessage,
         m.sequence <= v.sequence,
         IsPointer(m) =>
           /\ v.read.sequence < m.sequence
           /\ \A i \in DOMAIN v.pipe : IsPointer(v.pipe[i]) => v.pipe[i].sequence < m.sequence
  PROVE  /\ Queued(v, m) \in Worker /\ Orderly(Queued(v, m))
         /\ Queued(v, m).read = v.read
<1> DEFINE free == [v EXCEPT !.pending[m.stream] = NoMessage]
<1>1. m.stream \in Streams
  BY DEF Message
<1>2. /\ free \in Worker /\ Orderly(free) /\ free.pending[m.stream] = NoMessage
      /\ free.sequence = v.sequence /\ free.read = v.read /\ free.pipe = v.pipe
  BY <1>1, FreedOrderly
<1>3. CASE CanWrite(v)
  <2>1. Queued(v, m) = Written(free, m)
    BY <1>3 DEF Queued
  <2> HIDE DEF free
  <2>2. Written(free, m) \in Worker /\ Orderly(Written(free, m))
    BY <1>2, WrittenOrderly DEF IsPointer
  <2>3. Written(free, m).read = free.read
    BY <1>2, WrittenFields
  <2>4. QED
    BY <1>2, <2>1, <2>2, <2>3
<1>4. CASE ~CanWrite(v)
  <2> DEFINE next == [free EXCEPT !.pending[m.stream] = m]
  <2>1. Queued(v, m) = next
    BY <1>4 DEF Queued
  <2> HIDE DEF free
  <2>2. /\ next \in Worker
        /\ next.sequence = free.sequence /\ next.pipe = free.pipe
        /\ next.read = free.read /\ next.acks = free.acks /\ next.refused = free.refused
        /\ next.pending[m.stream] = m
        /\ \A r \in Streams \ {m.stream} : next.pending[r] = free.pending[r]
    BY <1>1, <1>2, PendingFields
  <2> HIDE DEF next
  <2>3. BelowCeiling(next)
    BY <1>2, <2>2 DEF Orderly, BelowCeiling
  <2>4. PointersOrdered(next)
    <3>1. CASE m.stream = "pointer"
      BY <1>2, <2>2, <3>1 DEF Orderly, PointersOrdered, IsPointer
    <3>2. CASE m.stream = "frame"
      BY <1>2, <2>2, <3>2 DEF Orderly, PointersOrdered, Streams
    <3>3. QED
      BY <1>1, <3>1, <3>2 DEF Streams
  <2>5. QED
    BY <1>2, <2>1, <2>2, <2>3, <2>4 DEF Orderly
<1>5. QED
  BY <1>3, <1>4

\* forward_pointer_input.
LEMMA ForwardedOrderly ==
  ASSUME NEW v \in Worker, Orderly(v), NEW event \in Event \cup {NoEvent}
  PROVE  /\ Forwarded(v, event) \in Worker /\ Orderly(Forwarded(v, event))
         /\ Forwarded(v, event).read = v.read
<1> DEFINE n == v.sequence + 1
             m == [stream |-> "pointer", sequence |-> n, event |-> event]
             up == [v EXCEPT !.sequence = n]
<1>1. n \in Nat /\ n > v.sequence /\ n >= v.sequence /\ v.sequence \in Nat
  BY WorkerFields
<1>2. m \in Message /\ m # NoMessage /\ m.sequence = n /\ m.stream = "pointer"
  BY <1>1, NoMessageType DEF Message, Streams
<1>3. up \in Worker /\ up.sequence = n /\ up.read = v.read /\ up.pipe = v.pipe /\ Orderly(up)
  <2>1. up.pipe = v.pipe
    BY DEF Worker
  <2>2. QED
    BY <1>1, <2>1, LiftedOrderly
<1>4. Forwarded(v, event) = Queued(up, m)
  <2>1. CanWrite(up) <=> CanWrite(v)
    BY <1>3 DEF CanWrite
  <2>2. Forwarded(v, event) = [Queued(v, m) EXCEPT !.sequence = n]
    BY DEF Forwarded
  <2>3. QED
    BY <2>1, <2>2 DEF Queued, Written, Worker
<1> HIDE DEF up, m, n
<1>5. /\ up.read.sequence < m.sequence
      /\ \A i \in DOMAIN up.pipe : up.pipe[i].sequence < m.sequence
  BY <1>1, <1>2, <1>3, WorkerFields DEF Orderly, BelowCeiling
<1>6. Queued(up, m) \in Worker /\ Orderly(Queued(up, m)) /\ Queued(up, m).read = up.read
  BY <1>1, <1>2, <1>3, <1>5, QueuedOrderly
<1>7. QED
  BY <1>3, <1>4, <1>6

\* forward_audio_frame and forward_media_state.
LEMMA FrameOrderly ==
  ASSUME NEW v \in Worker, Orderly(v), NEW g \in Nat
  PROVE  LET m == [stream |-> "frame", sequence |-> g, event |-> NoEvent]
             next == Raised(Queued(v, m), g)
         IN  g # 0 => next \in Worker /\ Orderly(next) /\ next.read = v.read
<1> SUFFICES ASSUME g # 0
             PROVE  LET m == [stream |-> "frame", sequence |-> g, event |-> NoEvent]
                        next == Raised(Queued(v, m), g)
                    IN  next \in Worker /\ Orderly(next) /\ next.read = v.read
  OBVIOUS
<1> DEFINE n == IF g > v.sequence THEN g ELSE v.sequence
           m == [stream |-> "frame", sequence |-> g, event |-> NoEvent]
           up == [v EXCEPT !.sequence = n]
<1>1. n \in Nat /\ n >= v.sequence /\ n >= g
  BY WorkerFields
<1>2. m \in Message /\ m # NoMessage /\ m.sequence = g /\ ~IsPointer(m)
  BY NoMessageType DEF Message, Streams, IsPointer
<1>3. up \in Worker /\ up.sequence = n /\ up.read = v.read /\ up.pipe = v.pipe /\ Orderly(up)
  <2>1. up.pipe = v.pipe
    BY DEF Worker
  <2>2. QED
    BY <1>1, <2>1, LiftedOrderly
<1>4. Raised(Queued(v, m), g) = Queued(up, m)
  <2>1. CanWrite(up) <=> CanWrite(v)
    BY <1>3 DEF CanWrite
  <2>2. Queued(v, m).sequence = v.sequence
    BY DEF Queued, Written, Worker
  <2>3. Raised(Queued(v, m), g) = [Queued(v, m) EXCEPT !.sequence = n]
    BY <2>2 DEF Raised
  <2>4. QED
    BY <2>1, <2>3 DEF Queued, Written, Worker
<1> HIDE DEF up, m, n
<1>5. Queued(up, m) \in Worker /\ Orderly(Queued(up, m)) /\ Queued(up, m).read = up.read
  BY <1>1, <1>2, <1>3, QueuedOrderly
<1>6. QED
  BY <1>3, <1>4, <1>5 DEF m

\* flush_pending.
LEMMA FlushedOrderly ==
  ASSUME NEW v \in Worker, Orderly(v), NEW s \in Streams, v.pending[s] # NoMessage
  PROVE  /\ Flushed(v, s) \in Worker /\ Orderly(Flushed(v, s))
         /\ Flushed(v, s).read = v.read
<1> DEFINE free == [v EXCEPT !.pending[s] = NoMessage]
             m == v.pending[s]
<1>1. CASE ~CanWrite(v)
  BY <1>1 DEF Flushed
<1>2. CASE CanWrite(v)
  <2>1. Flushed(v, s) = Written(free, m)
    BY <1>2 DEF Flushed
  <2>2. /\ free \in Worker /\ Orderly(free) /\ free.pending[s] = NoMessage
        /\ free.sequence = v.sequence /\ free.read = v.read /\ free.pipe = v.pipe
    BY FreedOrderly
  <2>3. m \in Message /\ m.sequence <= v.sequence /\ m.stream = s
    BY WorkerFields DEF Orderly, BelowCeiling, PointersOrdered
  <2>4. IsPointer(m) =>
          /\ free.pending["pointer"] = NoMessage
          /\ v.read.sequence < m.sequence
          /\ \A i \in DOMAIN v.pipe : IsPointer(v.pipe[i]) => v.pipe[i].sequence < m.sequence
    BY <2>2, <2>3 DEF Orderly, PointersOrdered, IsPointer
  <2> HIDE DEF free, m
  <2>5. Written(free, m) \in Worker /\ Orderly(Written(free, m)) /\ Written(free, m).read = free.read
    BY <2>2, <2>3, <2>4, WrittenOrderly, WrittenFields
  <2>6. QED
    BY <2>1, <2>2, <2>5
<1>3. QED
  BY <1>1, <1>2

\* drain_input_acks on one acknowledgement: it is never above the ceiling.
LEMMA AcknowledgedOrderly ==
  ASSUME NEW v \in Worker, Orderly(v), v.acks # <<>>
  PROVE  /\ Acknowledged(v) \in Worker /\ Orderly(Acknowledged(v))
         /\ Acknowledged(v).read = v.read
<1> DEFINE next == Acknowledged(v)
<1>1. /\ v.acks \in Seq(Nat) /\ Head(v.acks) = v.acks[1] /\ 1 \in DOMAIN v.acks
      /\ Tail(v.acks) \in Seq(Nat) /\ Head(v.acks) \in Nat
  BY WorkerFields
<1>2. Head(v.acks) <= v.sequence
  BY <1>1 DEF Orderly, BelowCeiling
<1>3. \A i \in DOMAIN Tail(v.acks) : i + 1 \in DOMAIN v.acks /\ Tail(v.acks)[i] = v.acks[i + 1]
  BY <1>1
<1>4. next = [v EXCEPT !.acks = Tail(v.acks), !.ackSequence = Head(v.acks)]
  BY <1>2 DEF Acknowledged, Worker
<1>5. /\ next \in Worker
      /\ next.sequence = v.sequence /\ next.pending = v.pending /\ next.pipe = v.pipe
      /\ next.read = v.read /\ next.acks = Tail(v.acks) /\ next.refused = v.refused
  BY <1>1, <1>4 DEF Worker
<1> HIDE DEF next
<1>6. BelowCeiling(next)
  BY <1>3, <1>5 DEF Orderly, BelowCeiling
<1>7. PointersOrdered(next)
  BY <1>5 DEF Orderly, PointersOrdered
<1>8. QED
  BY <1>5, <1>6, <1>7 DEF Orderly, next

\* A worker reads the oldest message and acknowledges it.
LEMMA ReadOrderly ==
  ASSUME NEW v \in Worker, Orderly(v), v.pipe # <<>>,
         NEW next,
         next = [v EXCEPT !.pipe = Tail(v.pipe),
                          !.acks = Append(v.acks, Head(v.pipe).sequence),
                          !.read = IF IsPointer(Head(v.pipe)) THEN Head(v.pipe) ELSE v.read]
  PROVE  /\ next \in Worker /\ Orderly(next)
         /\ next.read # v.read => next.read.sequence > v.read.sequence
<1> DEFINE m == Head(v.pipe)
<1>1. /\ v.pipe \in Seq(Message) /\ m = v.pipe[1] /\ 1 \in DOMAIN v.pipe
      /\ Tail(v.pipe) \in Seq(Message) /\ m \in Message /\ m.sequence \in Nat
      /\ v.acks \in Seq(Nat) /\ v.sequence \in Nat
  BY WorkerFields
<1>2. \A i \in DOMAIN Tail(v.pipe) :
        i + 1 \in DOMAIN v.pipe /\ Tail(v.pipe)[i] = v.pipe[i + 1] /\ 1 < i + 1
  BY <1>1
<1>3. /\ Append(v.acks, m.sequence) \in Seq(Nat)
      /\ \A i \in DOMAIN Append(v.acks, m.sequence) :
           \/ i \in DOMAIN v.acks /\ Append(v.acks, m.sequence)[i] = v.acks[i]
           \/ Append(v.acks, m.sequence)[i] = m.sequence
  BY <1>1
<1>4. /\ next \in Worker
      /\ next.sequence = v.sequence /\ next.pending = v.pending
      /\ next.pipe = Tail(v.pipe) /\ next.acks = Append(v.acks, m.sequence)
      /\ next.read = IF IsPointer(m) THEN m ELSE v.read
      /\ next.refused = v.refused
  BY <1>1, <1>3 DEF Worker
<1>5. m.sequence <= v.sequence
  BY <1>1 DEF Orderly, BelowCeiling
<1>6. BelowCeiling(next)
  BY <1>2, <1>3, <1>4, <1>5 DEF Orderly, BelowCeiling
<1>7. PointersOrdered(next)
  <2>o. PointersOrdered(v)
    BY DEF Orderly
  <2>p. \A i \in DOMAIN next.pipe : i + 1 \in DOMAIN v.pipe /\ next.pipe[i] = v.pipe[i + 1]
    BY <1>2, <1>4
  <2>1. ASSUME NEW i \in DOMAIN next.pipe, NEW j \in DOMAIN next.pipe,
               i < j, IsPointer(next.pipe[i]), IsPointer(next.pipe[j])
        PROVE  next.pipe[i].sequence < next.pipe[j].sequence
    <3>1. i + 1 < j + 1
      BY <1>1, <1>4, <2>1
    <3>2. QED
      BY <2>o, <2>p, <2>1, <3>1 DEF PointersOrdered
  <2>2. ASSUME NEW i \in DOMAIN next.pipe, IsPointer(next.pipe[i])
        PROVE  /\ next.read.sequence < next.pipe[i].sequence
               /\ next.pending["pointer"] # NoMessage
                    => next.pipe[i].sequence < next.pending["pointer"].sequence
    <3>1. CASE IsPointer(m)
      BY <1>1, <1>2, <1>4, <2>2, <3>1 DEF Orderly, PointersOrdered
    <3>2. CASE ~IsPointer(m)
      BY <1>4, <2>o, <2>p, <2>2, <3>2 DEF PointersOrdered
    <3>3. QED
      BY <3>1, <3>2
  <2>3. next.pending["pointer"] # NoMessage => next.read.sequence < next.pending["pointer"].sequence
    BY <1>1, <1>4 DEF Orderly, PointersOrdered
  <2>4. QED
    BY <1>4, <2>1, <2>2, <2>3 DEF Orderly, PointersOrdered
<1>8. next.read # v.read => next.read.sequence > v.read.sequence
  BY <1>1, <1>4 DEF Orderly, PointersOrdered
<1>9. QED
  BY <1>4, <1>6, <1>7, <1>8 DEF Orderly

-----------------------------------------------------------------------------
(* The steps.                                                              *)

\* What the client does touches no worker.
LEMMA ClientStep ==
  ASSUME TypeOK, ClientSteps
  PROVE  TypeOK' /\ UNCHANGED <<supervisor, worker>>
<1>t. /\ client \in Client /\ posted \subseteq Event /\ check \in BOOLEAN
      /\ inbox \in Seq(Request) /\ reply \in {"none", "ok", "rejected"}
      /\ supervisor \in [active : Workers \cup {NoWorker}, retired : Workers \cup {NoWorker},
                         generation : Nat]
      /\ worker \in [Workers -> Worker] /\ launched \subseteq Workers
      /\ made \in 0..MaxPointer /\ frames \in 0..MaxFrames /\ events \in 0..MaxEvents
  BY DEF TypeOK
<1>h. Happens => events' \in 0..MaxEvents
  BY <1>t, BoundsAssumption DEF Happens
<1>u. Hangup \in Seq(Request)
  <2>1. \A i \in DOMAIN inbox : [inbox[i] EXCEPT !.open = FALSE] \in Request
    <3>1. \A i \in DOMAIN inbox : inbox[i] \in Request
      BY <1>t
    <3>2. QED
      BY <3>1 DEF Request
  <2>2. Len(inbox) \in Nat /\ DOMAIN inbox = 1..Len(inbox)
    BY <1>t
  <2>3. Hangup \in [1..Len(inbox) -> Request]
    BY <2>1, <2>2 DEF Hangup
  <2>4. QED
    BY <2>2, <2>3
<1>a. ASSUME NEW next \in Client, Aborts(next)
      PROVE  /\ client' \in Client /\ inbox' \in Seq(Request)
             /\ reply' \in {"none", "ok", "rejected"}
  BY <1>a, <1>u DEF Aborts
<1>b. \A c \in Client, event \in Event : Begun(c, event) \in Client
  BY DEF Begun, Client
<1>f. FailedClient(client) \in Client
  BY <1>t DEF FailedClient, Client, NoEvent
<1>1. CASE SendsPointer
  <2>1. made + 1 \in Event /\ made' \in 0..MaxPointer
    BY <1>1, <1>t, BoundsAssumption DEF SendsPointer, Event
  <2>2. [client EXCEPT !.pending = made + 1] \in Client
    BY <1>t, <2>1 DEF Client
  <2>3. Begun(client, made + 1) \in Client
    BY <1>t, <1>b, <2>1
  <2>4. client' \in Client /\ inbox' \in Seq(Request) /\ reply' \in {"none", "ok", "rejected"}
    BY <1>1, <1>t, <1>a, <2>2, <2>3 DEF SendsPointer
  <2>5. QED
    BY <1>1, <1>t, <2>1, <2>4 DEF SendsPointer, TypeOK
<1>2. CASE SendsRequest
  <2>1. [client EXCEPT !.call = "sent"] \in Client
    BY <1>t DEF Client
  <2>2. [event |-> client.current, generation |-> client.generation, open |-> TRUE] \in Request
    BY <1>t DEF Client, Request
  <2>3. inbox' \in Seq(Request)
    BY <1>2, <1>t, <2>2 DEF SendsRequest
  <2>4. QED
    BY <1>2, <1>t, <2>1, <2>3 DEF SendsRequest, TypeOK
<1>3. CASE SocketFails
  BY <1>3, <1>t, <1>h, <1>a, <1>f DEF SocketFails, TypeOK
<1>4. CASE TimesOut
  BY <1>4, <1>t, <1>h, <1>a, <1>f DEF TimesOut, TypeOK
<1>5. CASE Disconnects
  BY <1>5, <1>t, <1>h, <1>u DEF Disconnects, TypeOK
<1>6. CASE PostedCheck
  BY <1>6, <1>t, <1>a, <1>f DEF PostedCheck, TypeOK
<1>7. CASE Receives
  <2>1. [client EXCEPT !.current = NoEvent, !.pending = NoEvent, !.state = "Ready",
                       !.timer = FALSE, !.cooldown = FALSE, !.call = "none"] \in Client
    BY <1>t DEF Client
  <2>2. posted' \subseteq Event
    BY <1>7, <1>t DEF Receives, Client
  <2>3. client' \in Client /\ inbox' \in Seq(Request) /\ reply' \in {"none", "ok", "rejected"}
    BY <1>7, <1>a, <1>f, <2>1 DEF Receives
  <2>4. QED
    BY <1>7, <1>t, <2>2, <2>3 DEF Receives, TypeOK
<1>8. CASE PostedBegin
  BY <1>8, <1>t, <1>a, <1>b DEF PostedBegin, TypeOK
<1>9. CASE CoolsDown
  <2> DEFINE cooled == [client EXCEPT !.cooldown = FALSE]
             ready == [cooled EXCEPT !.state = "Ready", !.pending = NoEvent]
  <2>1. ready \in Client /\ [cooled EXCEPT !.state = "Disabled"] \in Client
    BY <1>t DEF Client
  <2>2. client.pending # NoEvent => Begun(ready, client.pending) \in Client
    BY <1>t, <1>b, <2>1 DEF Client
  <2>3. client' \in Client /\ inbox' \in Seq(Request) /\ reply' \in {"none", "ok", "rejected"}
    BY <1>9, <1>t, <1>a, <2>1, <2>2 DEF CoolsDown
  <2>4. QED
    BY <1>9, <1>t, <2>3 DEF CoolsDown, TypeOK
<1>10. CASE ShowsGeneration
  <2>1. PICK g \in {0, supervisor.generation} \ {client.generation} :
          /\ Happens
          /\ Aborts([state |-> IF g = 0 THEN "Disabled" ELSE "Ready", current |-> NoEvent,
                     pending |-> NoEvent, generation |-> g, timer |-> FALSE,
                     cooldown |-> FALSE, call |-> "none"])
          /\ UNCHANGED <<posted, check, supervisor, worker, launched, made, frames>>
    BY <1>10 DEF ShowsGeneration
  <2>2. [state |-> IF g = 0 THEN "Disabled" ELSE "Ready", current |-> NoEvent,
         pending |-> NoEvent, generation |-> g, timer |-> FALSE,
         cooldown |-> FALSE, call |-> "none"] \in Client
    BY <1>t DEF Client
  <2>3. QED
    BY <1>t, <1>h, <1>a, <2>1, <2>2 DEF TypeOK
<1>11. QED
  BY <1>1, <1>2, <1>3, <1>4, <1>5, <1>6, <1>7, <1>8, <1>9, <1>10
     DEF ClientSteps, SendsPointer, SendsRequest, SocketFails, TimesOut, Disconnects,
         PostedCheck, Receives, PostedBegin, CoolsDown, ShowsGeneration

\* A step on the pipes of one worker changes those of no other.
LEMMA OneWorker ==
  ASSUME Inv, NEW w \in Workers, NEW v \in Worker, Orderly(v),
         v.read # worker[w].read => v.read.sequence > worker[w].read.sequence,
         worker' = [worker EXCEPT ![w] = v]
  PROVE  /\ worker' \in [Workers -> Worker]
         /\ \A x \in Workers :
              /\ Orderly(worker'[x])
              /\ worker'[x].read # worker[x].read
                   => worker'[x].read.sequence > worker[x].read.sequence
BY DEF Inv, TypeOK

InOrder ==
  \A w \in Workers :
    worker'[w].read # worker[w].read => worker'[w].read.sequence > worker[w].read.sequence

\* Every step keeps the order and the ceiling of every worker.
LEMMA StepInv == Inv /\ [Next]_vars => Inv' /\ InOrder
<1> SUFFICES ASSUME Inv, [Next]_vars
             PROVE  Inv' /\ InOrder
  OBVIOUS
<1>t. /\ TypeOK
      /\ client \in Client /\ inbox \in Seq(Request)
      /\ supervisor \in [active : Workers \cup {NoWorker}, retired : Workers \cup {NoWorker},
                         generation : Nat]
      /\ worker \in [Workers -> Worker] /\ launched \subseteq Workers
      /\ frames \in 0..MaxFrames /\ events \in 0..MaxEvents
      /\ \A w \in Workers : worker[w] \in Worker /\ Orderly(worker[w])
      /\ supervisor.active # NoWorker => supervisor.active \in Workers /\ supervisor.generation # 0
      /\ supervisor.retired # NoWorker => supervisor.retired \in Workers
      /\ supervisor.generation = 0 => supervisor.retired = NoWorker
  BY DEF Inv, TypeOK, Generated
<1>k. UNCHANGED worker => InOrder /\ \A w \in Workers : Orderly(worker'[w])
  BY <1>t DEF InOrder
<1>s. ASSUME NEW w \in Workers, NEW v \in Worker, Orderly(v),
             v.read # worker[w].read => v.read.sequence > worker[w].read.sequence,
             worker' = [worker EXCEPT ![w] = v],
             UNCHANGED supervisor, worker' \in [Workers -> Worker] => TypeOK'
      PROVE  Inv' /\ InOrder
  BY <1>s, OneWorker DEF Inv, InOrder, Generated
<1>1. CASE UNCHANGED vars
  BY <1>1, <1>t, <1>k DEF vars, Inv, TypeOK, Generated
<1>2. CASE ClientSteps
  BY <1>2, <1>t, <1>k, ClientStep DEF Inv, Generated
<1>3. CASE ServesInput
  <2> DEFINE r == Head(inbox)
  <2>1. r \in Request /\ Tail(inbox) \in Seq(Request)
    BY <1>3, <1>t DEF ServesInput
  <2>2. worker' \in [Workers -> Worker] => TypeOK'
    BY <1>3, <1>t, <2>1 DEF ServesInput, TypeOK
  <2>3. CASE ~Accepts(r)
    <3>1. UNCHANGED <<worker, supervisor>>
      BY <1>3, <2>3 DEF ServesInput
    <3>2. QED
      BY <1>t, <1>k, <2>2, <3>1 DEF Inv, Generated
  <2>4. CASE Accepts(r)
    <3> DEFINE w == supervisor.active
               v == Forwarded(worker[w], r.event)
    <3>1. w \in Workers /\ r.event \in Event \cup {NoEvent}
      BY <1>t, <2>1, <2>4 DEF Accepts, Request
    <3>2. worker' = [worker EXCEPT ![w] = v] /\ UNCHANGED supervisor
      BY <1>3, <2>4 DEF ServesInput
    <3>3. v \in Worker /\ Orderly(v) /\ v.read = worker[w].read
      BY <1>t, <3>1, ForwardedOrderly
    <3> HIDE DEF v, w
    <3>4. QED
      BY <1>s, <2>2, <3>1, <3>2, <3>3
  <2>5. QED
    BY <2>3, <2>4
<1>4. CASE ForwardsFrame
  <2> DEFINE w == supervisor.active
             g == supervisor.generation
             m == [stream |-> "frame", sequence |-> g, event |-> NoEvent]
             v == Raised(Queued(worker[w], m), g)
  <2>1. w \in Workers /\ g \in Nat /\ g # 0
    BY <1>4, <1>t DEF ForwardsFrame
  <2>2. worker' = [worker EXCEPT ![w] = v] /\ UNCHANGED supervisor
    BY <1>4 DEF ForwardsFrame
  <2>3. v \in Worker /\ Orderly(v) /\ v.read = worker[w].read
    BY <1>t, <2>1, FrameOrderly
  <2>4. worker' \in [Workers -> Worker] => TypeOK'
    BY <1>4, <1>t, BoundsAssumption DEF ForwardsFrame, TypeOK
  <2> HIDE DEF v, w
  <2>5. QED
    BY <1>s, <2>1, <2>2, <2>3, <2>4
<1>5. CASE FlushesPending
  <2>1. PICK s \in Streams :
          /\ supervisor.active # NoWorker
          /\ worker[supervisor.active].pending[s] # NoMessage
          /\ worker' = [worker EXCEPT ![supervisor.active] = Flushed(@, s)]
          /\ UNCHANGED <<client, posted, check, inbox, reply, supervisor, launched, made,
                         frames, events>>
    BY <1>5 DEF FlushesPending
  <2> DEFINE w == supervisor.active
             v == Flushed(worker[w], s)
  <2>2. w \in Workers /\ worker' = [worker EXCEPT ![w] = v] /\ UNCHANGED supervisor
    BY <1>t, <2>1
  <2>3. v \in Worker /\ Orderly(v) /\ v.read = worker[w].read
    BY <1>t, <2>1, <2>2, FlushedOrderly
  <2>4. worker' \in [Workers -> Worker] => TypeOK'
    BY <1>t, <2>1 DEF TypeOK
  <2> HIDE DEF v, w
  <2>5. QED
    BY <1>s, <2>2, <2>3, <2>4
<1>6. CASE DrainsAcks
  <2> DEFINE w == supervisor.active
             v == Acknowledged(worker[w])
  <2>1. w \in Workers /\ worker' = [worker EXCEPT ![w] = v] /\ UNCHANGED supervisor
    BY <1>6, <1>t DEF DrainsAcks
  <2>2. v \in Worker /\ Orderly(v) /\ v.read = worker[w].read
    BY <1>6, <1>t, <2>1, AcknowledgedOrderly DEF DrainsAcks
  <2>3. worker' \in [Workers -> Worker] => TypeOK'
    BY <1>6, <1>t DEF DrainsAcks, TypeOK
  <2> HIDE DEF v, w
  <2>4. QED
    BY <1>s, <2>1, <2>2, <2>3
<1>v. ASSUME NEW next, Supervises(next), launched' \subseteq Workers,
             next \in [active : Workers \cup {NoWorker}, retired : Workers \cup {NoWorker},
                       generation : Nat],
             next.active # NoWorker \/ next.retired # NoWorker => next.generation # 0
      PROVE  Inv' /\ InOrder
  <2>1. supervisor' = next /\ UNCHANGED worker /\ TypeOK'
    BY <1>v, <1>t, BoundsAssumption DEF Supervises, Happens, TypeOK
  <2>2. QED
    BY <1>v, <1>k, <2>1 DEF Inv, Generated
<1>7. ASSUME NEW w \in Workers, Promotes(w) PROVE Inv' /\ InOrder
  <2>1. launched' \subseteq Workers
    BY <1>7, <1>t DEF Promotes
  <2>2. supervisor.generation + 1 \in Nat /\ supervisor.generation + 1 # 0
    BY <1>t
  <2>3. QED
    BY <1>7, <1>t, <1>v, <2>1, <2>2 DEF Promotes
<1>8. CASE Commits
  BY <1>8, <1>t, <1>v DEF Commits
<1>9. CASE RollsBack
  <2>1. supervisor.generation + 1 \in Nat /\ supervisor.generation + 1 # 0
    BY <1>t
  <2>2. QED
    BY <1>9, <1>t, <1>v, <2>1 DEF RollsBack
<1>10. CASE SourceEnds
  BY <1>10, <1>t, <1>v DEF SourceEnds
<1>11. ASSUME NEW w \in Workers, WorkerReads(w) PROVE Inv' /\ InOrder
  <2> DEFINE m == Head(worker[w].pipe)
             v == [worker[w] EXCEPT !.pipe = Tail(worker[w].pipe),
                                    !.acks = Append(worker[w].acks, m.sequence),
                                    !.read = IF IsPointer(m) THEN m ELSE worker[w].read]
  <2>1. worker' = [worker EXCEPT ![w] = v] /\ UNCHANGED supervisor
    BY <1>11, <1>t DEF WorkerReads, IsPointer
  <2>2. /\ v \in Worker /\ Orderly(v)
        /\ v.read # worker[w].read => v.read.sequence > worker[w].read.sequence
    BY <1>11, <1>t, ReadOrderly DEF WorkerReads
  <2>3. worker' \in [Workers -> Worker] => TypeOK'
    BY <1>11, <1>t DEF WorkerReads, TypeOK
  <2> HIDE DEF v
  <2>4. QED
    BY <1>s, <2>1, <2>2, <2>3
<1>12. QED
  BY <1>1, <1>2, <1>3, <1>4, <1>5, <1>6, <1>7, <1>8, <1>9, <1>10, <1>11 DEF Next, SupervisorSteps

LEMMA InitInv == Init => Inv
<1> SUFFICES ASSUME Init
             PROVE  Inv
  OBVIOUS
<1>1. worker \in [Workers -> Worker] /\ \A w \in Workers : Orderly(worker[w])
  BY NewWorkerType DEF Init
<1>2. client \in Client
  BY DEF Init, Client
<1>3. TypeOK
  <2>1. /\ posted \subseteq Event /\ check \in BOOLEAN /\ launched \subseteq Workers
        /\ reply \in {"none", "ok", "rejected"} /\ inbox \in Seq(Request)
    <3>1. posted = {} /\ launched = {} /\ inbox = <<>>
      BY DEF Init
    <3>2. check \in BOOLEAN /\ reply \in {"none", "ok", "rejected"}
      BY DEF Init
    <3>3. QED
      BY <3>1, <3>2
  <2>2. supervisor \in [active : Workers \cup {NoWorker}, retired : Workers \cup {NoWorker},
                        generation : Nat]
    BY DEF Init
  <2>3. made \in 0..MaxPointer /\ frames \in 0..MaxFrames /\ events \in 0..MaxEvents
    BY BoundsAssumption DEF Init
  <2>4. QED
    BY <1>1, <1>2, <2>1, <2>2, <2>3 DEF TypeOK
<1>4. QED
  BY <1>1, <1>3 DEF Init, Inv, Generated

-----------------------------------------------------------------------------
(* The theorems.                                                           *)

\* The supervisor never counts an acknowledgement of its own messages as a
\* protocol error (drain_input_acks, raise_ack_ceiling).
THEOREM NoAckIsRefused == Spec => []AcksAreTaken
<1>1. Inv => AcksAreTaken
  BY DEF Inv, AcksAreTaken, Orderly, BelowCeiling
<1>2. Inv /\ [Next]_vars => Inv'
  BY StepInv
<1>3. QED
  BY <1>1, <1>2, InitInv, PTL DEF Spec

\* No worker reads a pointer sequence twice or backwards (queue_control_message,
\* flush_pending).
THEOREM PointersAreInOrder == Spec => ReadsInOrder
<1>1. Inv /\ [Next]_vars
        => [\A w \in Workers :
              worker'[w].read # worker[w].read
                => worker'[w].read.sequence > worker[w].read.sequence]_vars
  BY StepInv DEF InOrder
<1>2. Inv /\ [Next]_vars => Inv'
  BY StepInv
<1>3. QED
  BY <1>1, <1>2, InitInv, PTL DEF Spec, ReadsInOrder

-----------------------------------------------------------------------------
(* The supervisor this module assumes is SourceHandoff.                    *)

Slots == [active : Workers \cup {NoWorker}, retired : Workers \cup {NoWorker},
          generation : Nat]

\* The workers that are or were the source have been launched.
Launched == {supervisor.active, supervisor.retired} \subseteq launched \cup {NoWorker}

\* The steps on the clients and the pipes leave the slots alone.
LEMMA SlotsStay ==
  ASSUME ClientSteps \/ ServesInput \/ ForwardsFrame \/ FlushesPending \/ DrainsAcks
           \/ (\E w \in Workers : WorkerReads(w)) \/ UNCHANGED vars
  PROVE  UNCHANGED <<supervisor, launched>>
BY DEF ClientSteps, SendsPointer, SendsRequest, SocketFails, TimesOut, Disconnects,
       PostedCheck, Receives, PostedBegin, CoolsDown, ShowsGeneration, ServesInput,
       ForwardsFrame, FlushesPending, DrainsAcks, WorkerReads, vars

LEMMA LaunchedStep == Inv /\ Launched /\ [Next]_vars => Launched'
<1> SUFFICES ASSUME Inv, Launched, [Next]_vars
             PROVE  Launched'
  OBVIOUS
<1>t. supervisor \in Slots
  BY DEF Inv, TypeOK, Slots
<1>1. ASSUME NEW w \in Workers, Promotes(w) PROVE Launched'
  BY <1>1, <1>t DEF Promotes, Supervises, Launched, Slots
<1>2. CASE Commits \/ RollsBack \/ SourceEnds
  <2>1. CASE Commits
    BY <2>1, <1>t DEF Commits, Supervises, Launched, Slots
  <2>2. CASE RollsBack
    BY <2>2, <1>t DEF RollsBack, Supervises, Launched, Slots
  <2>3. CASE SourceEnds
    BY <2>3, <1>t DEF SourceEnds, Supervises, Launched, Slots
  <2>4. QED
    BY <1>2, <2>1, <2>2, <2>3
<1>3. CASE UNCHANGED <<supervisor, launched>>
  BY <1>3 DEF Launched
<1>4. QED
  BY <1>1, <1>2, <1>3, SlotsStay DEF Next, SupervisorSteps

\* What the supervisor does is a move of the handoff or invisible to it.
LEMMA HandoffMoves ==
  ASSUME Inv, Launched, [Next]_vars
  PROVE  [Handoffs!Next]_(Handoffs!source)
<1> USE DEF Handoffs!Next, Handoffs!Moves, Handoffs!source
<1>t. supervisor \in Slots /\ NoWorker \notin Workers
  BY WorkersAssumption DEF Inv, TypeOK, Slots
<1>1. ASSUME NEW w \in Workers, Promotes(w) PROVE Handoffs!Promotes(w)
  BY <1>1, <1>t DEF Promotes, Supervises, Launched, Handoffs!Promotes, Later
<1>2. CASE Commits
  <2>1. Handoffs!Commits
    BY <1>2, <1>t DEF Commits, Supervises, Handoffs!Commits, Slots
  <2>2. QED
    BY <2>1
<1>3. CASE RollsBack
  <2>1. Handoffs!RollsBack
    BY <1>3 DEF RollsBack, Supervises, Handoffs!RollsBack, Later
  <2>2. QED
    BY <2>1
<1>4. CASE SourceEnds
  <2>1. Handoffs!Ends
    BY <1>4, <1>t DEF SourceEnds, Supervises, Handoffs!Ends, Slots
  <2>2. QED
    BY <2>1
<1>5. QED
  BY <1>1, <1>2, <1>3, <1>4, SlotsStay DEF Next, SupervisorSteps

\* The module assumes no more than SourceHandoff, which the supervisor implements.
THEOREM SourceHandsOver == Spec => HandsOver
<1>1. Init => Launched /\ Handoffs!Init
  BY DEF Init, Launched, Handoffs!Init
<1>2. Inv /\ [Next]_vars => Inv'
  BY StepInv
<1>3. QED
  BY <1>1, <1>2, InitInv, LaunchedStep, HandoffMoves, PTL
     DEF Spec, HandsOver, Handoffs!Spec

\* Nor does it assume less: while events are left, every move of the handoff that
\* brings no worker back is a step of the supervisor here, so pipes and sequence
\* numbers are checked against all it does between its start and its end.
THEOREM EveryMoveIsMet ==
  ASSUME TypeOK, Launched, Handoffs!Moves, supervisor' \in Slots,
         supervisor'.active \in launched
           => supervisor'.active \in {supervisor.active, supervisor.retired},
         launched' = (launched \cup {supervisor'.active}) \ {NoWorker},
         Happens, UNCHANGED <<client, posted, check, inbox, reply, worker, made, frames>>
  PROVE  SupervisorSteps
<1>t. supervisor \in Slots /\ launched \subseteq Workers /\ NoWorker \notin Workers
  BY WorkersAssumption DEF TypeOK, Slots
<1>c. ASSUME NEW next \in Slots, supervisor'.active = next.active,
             supervisor'.retired = next.retired, supervisor'.generation = next.generation
      PROVE  Supervises(next)
  <2>1. supervisor' = next
    BY <1>c DEF Slots
  <2>2. QED
    BY <2>1 DEF Supervises
<1>1. ASSUME NEW w \in Workers, Handoffs!Promotes(w) PROVE Promotes(w)
  <2>1. /\ supervisor'.active = w /\ supervisor'.retired = supervisor.active
        /\ supervisor'.generation = supervisor.generation + 1
        /\ w # supervisor.active /\ supervisor.retired = NoWorker
    BY <1>1 DEF Handoffs!Promotes, Later
  <2>2. w \notin launched /\ launched' = launched \cup {w}
    BY <1>t, <2>1
  <2>3. [active |-> w, retired |-> supervisor.active,
         generation |-> supervisor.generation + 1] \in Slots
    BY <1>t DEF Slots
  <2>4. QED
    BY <1>c, <2>1, <2>2, <2>3 DEF Promotes
<1>l. supervisor'.active \in {supervisor.active, supervisor.retired, NoWorker}
        => launched' = launched
  BY <1>t DEF Launched
<1>2. CASE Handoffs!Commits
  <2>1. [supervisor EXCEPT !.retired = NoWorker] \in Slots
    BY <1>t DEF Slots
  <2>2. Commits
    BY <1>2, <1>c, <1>l, <1>t, <2>1 DEF Handoffs!Commits, Commits, Slots
  <2>3. QED
    BY <2>2 DEF SupervisorSteps
<1>3. CASE Handoffs!RollsBack
  <2>1. [active |-> supervisor.retired, retired |-> NoWorker,
         generation |-> supervisor.generation + 1] \in Slots
    BY <1>t DEF Slots
  <2>2. RollsBack
    BY <1>3, <1>c, <1>l, <2>1 DEF Handoffs!RollsBack, Later, RollsBack
  <2>3. QED
    BY <2>2 DEF SupervisorSteps
<1>4. CASE Handoffs!Ends
  <2>1. [supervisor EXCEPT !.active = NoWorker, !.retired = NoWorker] \in Slots
    BY <1>t DEF Slots
  <2>2. SourceEnds
    BY <1>4, <1>c, <1>l, <1>t, <2>1 DEF Handoffs!Ends, SourceEnds, Slots
  <2>3. QED
    BY <2>2 DEF SupervisorSteps
<1>5. QED
  BY <1>1, <1>2, <1>3, <1>4 DEF Handoffs!Moves, SupervisorSteps
=============================================================================
