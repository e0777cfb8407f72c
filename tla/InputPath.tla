----------------------------- MODULE InputPath ------------------------------
(***************************************************************************)
(* Pointer events on their way from the display to a renderer worker:      *)
(* InputClient (modules/org/kde/kwe/display/inputclient.cpp), the daemon's *)
(* server, and the supervisor's control pipes                              *)
(* (crates/kwe-daemon/src/supervisor.rs), which carry audio frames and     *)
(* media states too. Every stage keeps at most the latest message of a     *)
(* stream.                                                                 *)
(*                                                                         *)
(* The client shares the display's event loop with DisplaySession, from    *)
(* whose status replies the binding displayGeneration changes; the         *)
(* supervisor is one thread; a worker reads its pipe when it likes.        *)
(*                                                                         *)
(* Left out: coordinates and phases, invalid positions, the counters that  *)
(* only status shows, partial or oversized acknowledgement lines, and      *)
(* write errors of a worker that is dying.                                 *)
(***************************************************************************)
EXTENDS Naturals, Sequences

CONSTANTS
  Workers,       \* each is launched at most once
  NoWorker,
  PipeRoom,      \* messages a worker's pipe holds
  MaxPointer,    \* bound on pointer events
  MaxFrames,     \* bound on audio frames and media states
  MaxEvents      \* bound on promotions, failures and faults

ASSUME WorkersAssumption == NoWorker \notin Workers
ASSUME PipeAssumption == PipeRoom \in Nat \ {0}
ASSUME BoundsAssumption == MaxPointer \in Nat /\ MaxFrames \in Nat /\ MaxEvents \in Nat

VARIABLES
  client,        \* InputClient's fields
  posted,        \* events whose begin is posted on a zero timer
  check,         \* the check a disconnection posts
  inbox,         \* requests written to the daemon, oldest first
  reply,         \* "none", "ok" or "rejected" on the open connection
  supervisor,    \* active and retired worker, display_generation
  worker,        \* each worker's pipes and their bookkeeping
  launched,
  made,          \* pointer events the display has produced
  frames,
  events

vars == <<client, posted, check, inbox, reply, supervisor, worker, launched, made, frames, events>>

Streams == {"pointer", "frame"}

\* A pointer event is its number.
Event == 1..MaxPointer
NoEvent == 0

\* "timer" is m_requestTimeout, "cooldown" is m_retryCooldown, and "call" the socket.
Client == [state : {"Disabled", "Ready", "Sending", "Error"}, current : Event \cup {NoEvent},
           pending : Event \cup {NoEvent}, generation : Nat, timer : BOOLEAN, cooldown : BOOLEAN,
           call : {"none", "connecting", "sent"}]

Request == [event : Event \cup {NoEvent}, generation : Nat, open : BOOLEAN]

\* A message on a control pipe. "sequence" is the wire sequence.
Message == [stream : Streams, sequence : Nat, event : Event \cup {NoEvent}]
NoMessage == [stream |-> "frame", sequence |-> 0, event |-> NoEvent]

\* "sequence", "ackSequence" and "refused" are the supervisor's input_sequence,
\* input_ack_sequence and input_protocol_errors; "read" is the last pointer
\* message the worker took, "acks" what it has acknowledged.
Worker == [sequence : Nat, ackSequence : Nat, refused : BOOLEAN,
           pending : [Streams -> Message \cup {NoMessage}],
           pipe : Seq(Message), acks : Seq(Nat), read : Message \cup {NoMessage}]

NewWorker == [sequence |-> 0, ackSequence |-> 0, refused |-> FALSE,
              pending |-> [s \in Streams |-> NoMessage],
              pipe |-> <<>>, acks |-> <<>>, read |-> NoMessage]

TypeOK ==
  /\ client \in Client
  /\ posted \subseteq Event /\ check \in BOOLEAN
  /\ inbox \in Seq(Request) /\ reply \in {"none", "ok", "rejected"}
  /\ supervisor \in [active : Workers \cup {NoWorker}, retired : Workers \cup {NoWorker},
                     generation : Nat]
  /\ worker \in [Workers -> Worker]
  /\ launched \subseteq Workers
  /\ made \in 0..MaxPointer /\ frames \in 0..MaxFrames /\ events \in 0..MaxEvents

Happens == events < MaxEvents /\ events' = events + 1

-----------------------------------------------------------------------------
(* InputClient.                                                            *)

Enabled(c) == c.generation # 0

Hangup == [i \in DOMAIN inbox |-> [inbox[i] EXCEPT !.open = FALSE]]

\* Every slot but the queueing of an event ends with the connection aborted.
Aborts(next) ==
  /\ client' = next
  /\ inbox' = Hangup /\ reply' = "none"

\* begin.
Begun(c, event) ==
  [c EXCEPT !.current = event, !.state = "Sending", !.timer = TRUE, !.call = "connecting"]

\* Mutant of FailedClient: the retry timer is left alone.
FailedForGood(c) ==
  [c EXCEPT !.current = NoEvent, !.state = "Error", !.timer = FALSE, !.call = "none"]

\* fail.
FailedClient(c) ==
  [c EXCEPT !.current = NoEvent, !.state = "Error", !.timer = FALSE,
            !.cooldown = TRUE, !.call = "none"]

\* sendPointer: while a request or the cooldown is under way the event waits,
\* in the place of an older one.
SendsPointer ==
  /\ Enabled(client) /\ made < MaxPointer
  /\ made' = made + 1
  /\ IF client.state \in {"Error", "Sending"}
     THEN client' = [client EXCEPT !.pending = made + 1] /\ UNCHANGED <<inbox, reply>>
     ELSE Aborts(Begun(client, made + 1))
  /\ UNCHANGED <<posted, check, supervisor, worker, launched, frames, events>>

\* sendRequest, on connected: the generation is the one of this moment.
SendsRequest ==
  /\ client.call = "connecting"
  /\ client' = [client EXCEPT !.call = "sent"]
  /\ inbox' = Append(inbox, [event |-> client.current, generation |-> client.generation,
                             open |-> TRUE])
  /\ UNCHANGED <<posted, check, reply, supervisor, worker, launched, made, frames, events>>

\* A socket error is reported only in the state Sending.
SocketFails ==
  /\ Happens
  /\ client.call # "none" /\ client.state = "Sending"
  /\ Aborts(FailedClient(client))
  /\ UNCHANGED <<posted, check, supervisor, worker, launched, made, frames>>

\* The request timer: the daemon is slow, or the connection is gone.
TimesOut ==
  /\ client.timer
  /\ \/ Happens
     \/ inbox = <<>> /\ reply = "none" /\ client.call # "connecting" /\ UNCHANGED events
  /\ Aborts(FailedClient(client))
  /\ UNCHANGED <<posted, check, supervisor, worker, launched, made, frames>>

\* The daemon closes the connection early.
Disconnects ==
  /\ Happens
  /\ client.call = "sent"
  /\ inbox' = Hangup /\ reply' = "none"
  /\ check' = (check \/ client.state = "Sending")
  /\ UNCHANGED <<client, posted, supervisor, worker, launched, made, frames>>

PostedCheck ==
  /\ check /\ check' = FALSE
  /\ IF client.state = "Sending" THEN Aborts(FailedClient(client))
     ELSE UNCHANGED <<client, inbox, reply>>
  /\ UNCHANGED <<posted, supervisor, worker, launched, made, frames, events>>

\* consumeResponse and completeAndContinue: the event that waited is begun
\* from a zero timer.
Receives ==
  /\ reply # "none"
  /\ IF reply = "ok"
     THEN /\ posted' = posted \cup ({client.pending} \ {NoEvent})
          /\ Aborts([client EXCEPT !.current = NoEvent, !.pending = NoEvent, !.state = "Ready",
                                   !.timer = FALSE, !.cooldown = FALSE, !.call = "none"])
     ELSE Aborts(FailedClient(client)) /\ UNCHANGED posted
  /\ UNCHANGED <<check, supervisor, worker, launched, made, frames, events>>

\* The zero timer; nothing has been checked since it was posted.
PostedBegin ==
  \E event \in posted :
    /\ posted' = posted \ {event}
    /\ Aborts(Begun(client, event))
    /\ UNCHANGED <<check, supervisor, worker, launched, made, frames, events>>

\* The retry timer, which also runs out during a request begun from a zero timer.
CoolsDown ==
  /\ client.cooldown
  /\ LET cooled == [client EXCEPT !.cooldown = FALSE]
         ready == [cooled EXCEPT !.state = "Ready", !.pending = NoEvent]
     IN  \/ ~Enabled(client)
            /\ client' = [cooled EXCEPT !.state = "Disabled"] /\ UNCHANGED <<inbox, reply>>
         \/ Enabled(client) /\ client.pending = NoEvent
            /\ client' = ready /\ UNCHANGED <<inbox, reply>>
         \/ Enabled(client) /\ client.pending # NoEvent
            /\ Aborts(Begun(ready, client.pending))
  /\ UNCHANGED <<posted, check, supervisor, worker, launched, made, frames, events>>

\* setDisplayGeneration and resetForConfiguration: DisplaySession has a new
\* status, or none. A client that shows nothing does nothing, so a status that
\* comes late is one that came before the supervisor moved on.
ShowsGeneration ==
  \E g \in {0, supervisor.generation} \ {client.generation} :
    /\ Happens
    /\ Aborts([state |-> IF g = 0 THEN "Disabled" ELSE "Ready", current |-> NoEvent,
               pending |-> NoEvent, generation |-> g, timer |-> FALSE,
               cooldown |-> FALSE, call |-> "none"])
    /\ UNCHANGED <<posted, check, supervisor, worker, launched, made, frames>>

-----------------------------------------------------------------------------
(* The supervisor.                                                         *)

CanWrite(w) == Len(w.pipe) < PipeRoom

\* try_write_input: one atomic write, or none.
Written(w, m) == [w EXCEPT !.pipe = Append(@, m)]

\* Mutant of Queued: a message that waits stays when a newer one is written.
QueuedBehind(w, m) ==
  IF CanWrite(w) THEN Written(w, m) ELSE [w EXCEPT !.pending[m.stream] = m]

\* queue_control_message: a newer message takes the place of one that waits.
Queued(w, m) ==
  LET free == [w EXCEPT !.pending[m.stream] = NoMessage]
  IN  IF CanWrite(w) THEN Written(free, m) ELSE [free EXCEPT !.pending[m.stream] = m]

\* Mutant of Raised: the ceiling is the last generation sent.
RaisedOrLowered(w, g) == [w EXCEPT !.sequence = g]

\* raise_ack_ceiling.
Raised(w, g) == [w EXCEPT !.sequence = IF g > @ THEN g ELSE @]

\* forward_pointer_input.
Forwarded(w, event) ==
  [Queued(w, [stream |-> "pointer", sequence |-> w.sequence + 1, event |-> event])
    EXCEPT !.sequence = w.sequence + 1]

Accepts(r) == r.generation # 0 /\ r.generation = supervisor.generation /\ supervisor.active # NoWorker

\* renderer.input, for a client that may have hung up.
ServesInput ==
  /\ inbox # <<>> /\ inbox' = Tail(inbox)
  /\ LET r == Head(inbox)
     IN  /\ worker' = IF Accepts(r)
                      THEN [worker EXCEPT ![supervisor.active] = Forwarded(@, r.event)]
                      ELSE worker
         /\ reply' = IF ~r.open THEN reply ELSE IF Accepts(r) THEN "ok" ELSE "rejected"
  /\ UNCHANGED <<client, posted, check, supervisor, launched, made, frames, events>>

\* forward_audio_frame and forward_media_state: the wire sequence is the
\* generation. A frame without the audio grant changes nothing here.
ForwardsFrame ==
  /\ frames < MaxFrames /\ frames' = frames + 1
  /\ supervisor.active # NoWorker
  /\ worker' = [worker EXCEPT ![supervisor.active] =
       Raised(Queued(@, [stream |-> "frame", sequence |-> supervisor.generation,
                         event |-> NoEvent]),
              supervisor.generation)]
  /\ UNCHANGED <<client, posted, check, inbox, reply, supervisor, launched, made, events>>

\* Mutant of Flushed: a message that still does not fit is dropped.
FlushedOrDropped(w, s) ==
  LET free == [w EXCEPT !.pending[s] = NoMessage]
  IN  IF CanWrite(w) THEN Written(free, w.pending[s]) ELSE free

\* flush_pending: one attempt.
Flushed(w, s) ==
  IF CanWrite(w)
  THEN Written([w EXCEPT !.pending[s] = NoMessage], w.pending[s])
  ELSE w

\* drain_input_acks on one acknowledgement: anything up to the ceiling is taken.
Acknowledged(w) ==
  LET ack == Head(w.acks)
      rest == [w EXCEPT !.acks = Tail(@)]
  IN  IF ack <= w.sequence THEN [rest EXCEPT !.ackSequence = ack]
      ELSE [rest EXCEPT !.refused = TRUE]

\* service_active_input, one stream at a time; only the active worker is served.
FlushesPending ==
  \E s \in Streams :
    /\ supervisor.active # NoWorker
    /\ worker[supervisor.active].pending[s] # NoMessage
    /\ worker' = [worker EXCEPT ![supervisor.active] = Flushed(@, s)]
    /\ UNCHANGED <<client, posted, check, inbox, reply, supervisor, launched, made, frames, events>>

DrainsAcks ==
  /\ supervisor.active # NoWorker
  /\ worker[supervisor.active].acks # <<>>
  /\ worker' = [worker EXCEPT ![supervisor.active] = Acknowledged(@)]
  /\ UNCHANGED <<client, posted, check, inbox, reply, supervisor, launched, made, frames, events>>

Supervises(next) ==
  /\ Happens
  /\ supervisor' = next
  /\ UNCHANGED <<client, posted, check, inbox, reply, worker, made, frames>>

\* promote_candidate: the previous worker is kept until the handoff ends.
Promotes(w) ==
  /\ w \notin launched /\ supervisor.retired = NoWorker
  /\ Supervises([active |-> w, retired |-> supervisor.active,
                 generation |-> supervisor.generation + 1])
  /\ launched' = launched \cup {w}

\* The handoff is acknowledged or times out.
Commits ==
  /\ supervisor.retired # NoWorker
  /\ Supervises([supervisor EXCEPT !.retired = NoWorker])
  /\ UNCHANGED launched

\* The promoted worker fails: the retired one returns with what waited for it.
RollsBack ==
  /\ supervisor.retired # NoWorker
  /\ Supervises([active |-> supervisor.retired, retired |-> NoWorker,
                 generation |-> supervisor.generation + 1])
  /\ UNCHANGED launched

\* The only worker fails or is stopped.
SourceEnds ==
  /\ supervisor.active # NoWorker
  /\ Supervises([supervisor EXCEPT !.active = NoWorker, !.retired = NoWorker])
  /\ UNCHANGED launched

-----------------------------------------------------------------------------
(* A worker: reads its control pipe in order and acknowledges what it read. *)

WorkerReads(w) ==
  /\ w \in {supervisor.active, supervisor.retired}
  /\ worker[w].pipe # <<>>
  /\ LET m == Head(worker[w].pipe)
     IN  worker' = [worker EXCEPT ![w].pipe = Tail(@),
                                  ![w].acks = Append(@, m.sequence),
                                  ![w].read = IF m.stream = "pointer" THEN m ELSE @]
  /\ UNCHANGED <<client, posted, check, inbox, reply, supervisor, launched, made, frames, events>>

-----------------------------------------------------------------------------
Init ==
  /\ client = [state |-> "Disabled", current |-> NoEvent, pending |-> NoEvent,
               generation |-> 0, timer |-> FALSE, cooldown |-> FALSE, call |-> "none"]
  /\ posted = {} /\ check = FALSE
  /\ inbox = <<>> /\ reply = "none"
  /\ supervisor = [active |-> NoWorker, retired |-> NoWorker, generation |-> 0]
  /\ worker = [w \in Workers |-> NewWorker]
  /\ launched = {}
  /\ made = 0 /\ frames = 0 /\ events = 0

ClientSteps ==
  \/ SendsPointer \/ SendsRequest \/ SocketFails \/ TimesOut \/ Disconnects \/ PostedCheck
  \/ Receives \/ PostedBegin \/ CoolsDown \/ ShowsGeneration

SupervisorSteps ==
  \/ ServesInput \/ ForwardsFrame \/ FlushesPending \/ DrainsAcks
  \/ \E w \in Workers : Promotes(w)
  \/ Commits \/ RollsBack \/ SourceEnds

Next ==
  \/ ClientSteps \/ SupervisorSteps
  \/ \E w \in Workers : WorkerReads(w)

Spec == Init /\ [][Next]_vars

\* The display's event loop and the daemon's threads are scheduled, timers
\* expire, and a worker that stays reads its pipe (one that hangs is killed by
\* the heartbeat). Nothing makes a user move or a worker fail.
FairSpec ==
  /\ Spec
  /\ WF_vars(SendsRequest) /\ WF_vars(TimesOut) /\ WF_vars(PostedCheck) /\ WF_vars(Receives)
  /\ WF_vars(PostedBegin) /\ WF_vars(CoolsDown)
  /\ WF_vars(ServesInput) /\ WF_vars(FlushesPending) /\ WF_vars(DrainsAcks)
  /\ \A w \in Workers : WF_vars(WorkerReads(w))

-----------------------------------------------------------------------------
(* Properties.                                                             *)

\* Coalescing, backpressure, rollback and the generations that audio frames
\* carry never make a worker's pointer sequence repeat or go back
\* (queue_control_message, raise_ack_ceiling).
ReadsInOrder ==
  [][\A w \in Workers :
       worker'[w].read # worker[w].read => worker'[w].read.sequence > worker[w].read.sequence]_vars

\* The supervisor takes every acknowledgement of a message it wrote, of any
\* stream and however late: none is counted as a protocol error (raise_ack_ceiling
\* "only ever lifts" the ceiling drain_input_acks compares with).
AcksAreTaken ==
  /\ TypeOK
  /\ \A w \in Workers : ~worker[w].refused

\* An event that waited for room reaches its worker, or a newer one does,
\* while the worker remains the source (flush_pending).
PendingArrives ==
  \A w \in Workers, q \in 1..(MaxPointer + MaxEvents) :
    supervisor.active = w /\ worker[w].pending["pointer"].sequence = q ~>
      worker[w].read.sequence >= q \/ supervisor.active # w

\* The client does not stay in Error, or in a request nobody answers
\* (m_retryCooldown, m_requestTimeout).
ClientRecovers == client.state \in {"Sending", "Error"} ~> client.state \in {"Ready", "Disabled"}

-----------------------------------------------------------------------------
(* Refinement.                                                             *)

Later(generation) == generation + 1

Handoffs == INSTANCE SourceHandoff
  WITH First <- 0, Successor <- Later,
       active <- supervisor.active, retired <- supervisor.retired,
       generation <- supervisor.generation

\* The supervisor this module assumes does what SourceHandoff allows.
\* (promote_candidate, handle_active_failure, stop_all)
HandsOver == Handoffs!Spec
=============================================================================
