--------------------------- MODULE DisplaySession ---------------------------
(***************************************************************************)
(* DisplaySession, the display's client of the daemon                      *)
(* (modules/org/kde/kwe/display/displaysession.cpp), with the two parties  *)
(* it stands between: the supervisor's handoff, which keeps the previous   *)
(* worker until the display has acknowledged the promoted one, and         *)
(* FrameItem, which says when it has opened the frame file                 *)
(* (main.qml, onFrameFileOpened).                                          *)
(*                                                                         *)
(* The display is one event loop, so each slot is one step; the daemon     *)
(* answers one request at a time and carries out requests whose client has *)
(* given up on them. A frame path names one worker.                        *)
(*                                                                         *)
(* Left out: the phase, scaling and error texts, malformed replies (Fails, *)
(* as every other failed request), the exhausted request id.               *)
(***************************************************************************)
EXTENDS Naturals, Sequences

CONSTANTS
  Files,         \* frame paths of the workers
  NoFile,
  MaxEvents      \* bound on what happens to the daemon and to requests

ASSUME FilesAssumption == NoFile \notin Files
ASSUME EventsAssumption == MaxEvents \in Nat

VARIABLES
  source,        \* the supervisor's active and retired worker, and display_generation
  launched,      \* paths workers have used
  inbox,         \* requests written to the daemon, oldest first
  session,       \* DisplaySession's fields
  reply,         \* what the open connection has brought
  posted,        \* zero timers of the display: "refresh", "check"
  opened,        \* FrameItem has said that it opened session.file
  seen,          \* every file FrameItem said it opened
  events

daemon == <<source, launched>>
display == <<session, posted, opened, seen>>
vars == <<source, launched, inbox, session, reply, posted, opened, seen, events>>

Kinds == {"Status", "Acknowledge"}

\* What renderer.status says of the source; "awaiting" is awaiting_display_ack.
Answer == [ok : BOOLEAN, file : Files \cup {NoFile}, generation : Nat, awaiting : BOOLEAN]
Refused == [ok |-> FALSE, file |-> NoFile, generation |-> 0, awaiting |-> FALSE]
NoReply == [ok |-> TRUE, file |-> NoFile, generation |-> 0, awaiting |-> TRUE]

\* "open": the client still holds the connection the request came on.
Request == [kind : Kinds, generation : Nat, open : BOOLEAN]

\* "call": m_inFlight, and whether the request has been written.
Session == [file : Files \cup {NoFile}, generation : Nat, active : BOOLEAN,
            awaiting : BOOLEAN, ackPending : BOOLEAN,
            validFile : Files \cup {NoFile}, validGeneration : Nat,
            state : {"Waiting", "Connecting", "Ready", "Degraded"},
            call : {"none", "connecting", "sent"}, kind : Kinds]

NewSession == [file |-> NoFile, generation |-> 0, active |-> FALSE,
               awaiting |-> FALSE, ackPending |-> FALSE,
               validFile |-> NoFile, validGeneration |-> 0,
               state |-> "Waiting", call |-> "none", kind |-> "Status"]

TypeOK ==
  /\ source \in [file : Files \cup {NoFile}, generation : Nat, previous : Files \cup {NoFile}]
  /\ launched \subseteq Files /\ seen \subseteq Files
  /\ inbox \in Seq(Request)
  /\ session \in Session
  /\ reply \in Answer
  /\ posted \subseteq {"refresh", "check"}
  /\ opened \in BOOLEAN
  /\ events \in 0..MaxEvents

-----------------------------------------------------------------------------
(* The supervisor's side of a handoff.                                     *)

Happens == events < MaxEvents /\ events' = events + 1

Changes(next) ==
  /\ Happens
  /\ source' = next
  /\ UNCHANGED <<inbox, session, reply, posted, opened, seen>>

\* promote_candidate: only a worker with a predecessor waits for the display.
Promotes(f) ==
  /\ f \notin launched /\ source.previous = NoFile
  /\ Changes([file |-> f, generation |-> source.generation + 1, previous |-> source.file])
  /\ launched' = launched \cup {f}

\* The promoted worker fails, or its fallback cannot be written when the
\* handoff times out: the retired worker returns under a generation of its own.
RollsBack ==
  /\ source.previous # NoFile
  /\ Changes([file |-> source.previous, generation |-> source.generation + 1,
              previous |-> NoFile])
  /\ UNCHANGED launched

\* complete_handoff_timeout, committing without the display.
HandoffTimesOut ==
  /\ source.previous # NoFile
  /\ Changes([source EXCEPT !.previous = NoFile])
  /\ UNCHANGED launched

\* stop, or the only worker fails: status has no frame file, the generation stays.
SourceEnds ==
  /\ source.file # NoFile
  /\ Changes([source EXCEPT !.file = NoFile, !.previous = NoFile])
  /\ UNCHANGED launched

-----------------------------------------------------------------------------
(* The display's fields.                                                   *)

\* validatedSourceIsCurrent, as refresh and finishRequest use it.
AckDue(s) ==
  /\ s.ackPending /\ s.awaiting
  /\ s.validFile # NoFile /\ s.validFile = s.file /\ s.validGeneration = s.generation

Started(s, kind) ==
  [s EXCEPT !.call = "connecting", !.kind = kind,
            !.state = IF @ = "Waiting" THEN "Connecting" ELSE @]

\* refresh.
Refreshed(s) == Started(s, IF AckDue(s) THEN "Acknowledge" ELSE "Status")

\* failRequest.
Failed(s) == [s EXCEPT !.call = "none", !.active = FALSE, !.state = "Degraded"]

\* Mutant of Sourced: the same file under another generation is no new source.
SourcedByFile(s, a) ==
  IF a.file # NoFile /\ s.file # a.file
  THEN [s EXCEPT !.file = a.file, !.generation = a.generation] ELSE s

\* applyStatus: the last source stays while the daemon has none.
Sourced(s, a) ==
  IF a.file # NoFile
  THEN [s EXCEPT !.file = a.file, !.generation = a.generation] ELSE s

\* Mutant of Awaiting: the acknowledgement outlives the handoff it was meant for.
AwaitingOnly(s, a) == [s EXCEPT !.awaiting = a.awaiting, !.active = a.file # NoFile]

\* setAwaitingDisplayAck: the end of a handoff withdraws the acknowledgement.
Awaiting(s, a) ==
  [s EXCEPT !.awaiting = a.awaiting,
            !.ackPending = @ /\ (a.awaiting \/ ~s.awaiting),
            !.active = a.file # NoFile]

\* Mutant of Rearmed: an acknowledgement that was sent is not sent again.
RearmedOnce(s) == s

\* applyStatus: a handoff still open with the opened file asks for another acknowledgement.
Rearmed(s) ==
  IF AckDue([s EXCEPT !.ackPending = TRUE]) THEN [s EXCEPT !.ackPending = TRUE] ELSE s

Applied(s, a) == Rearmed(Sourced(Awaiting(s, a), a))

\* finishRequest.
Finished(s) == [s EXCEPT !.call = "none", !.state = "Ready"]

\* The display's socket is aborted: the daemon answers nobody.
Hangup == [i \in DOMAIN inbox |-> [inbox[i] EXCEPT !.open = FALSE]]

\* A slot that ends with the connection aborted (startRequest, failRequest).
Aborts(next) ==
  /\ session' = next
  /\ inbox' = Hangup /\ reply' = NoReply

-----------------------------------------------------------------------------
(* The display's slots.                                                    *)

\* The poll timer; refresh returns at once while a request is in flight.
Polls ==
  /\ session.call = "none"
  /\ Aborts(Refreshed(session))
  /\ UNCHANGED <<daemon, posted, opened, seen, events>>

PostedRefresh ==
  /\ "refresh" \in posted /\ posted' = posted \ {"refresh"}
  /\ IF session.call = "none" THEN Aborts(Refreshed(session))
     ELSE UNCHANGED <<session, inbox, reply>>
  /\ UNCHANGED <<daemon, opened, seen, events>>

\* acknowledgeFrameFile, on FrameItem's signal; the file exists while its worker does.
FrameFileOpens ==
  /\ session.file # NoFile /\ ~opened
  /\ session.file \in {source.file, source.previous}
  /\ opened' = TRUE /\ seen' = seen \cup {session.file}
  /\ LET s == [session EXCEPT !.validFile = session.file,
                              !.validGeneration = session.generation,
                              !.ackPending = @ \/ session.awaiting]
     IN  IF session.awaiting /\ session.call = "none"
         THEN Aborts(Started(s, "Acknowledge"))
         ELSE session' = s /\ UNCHANGED <<inbox, reply>>
  /\ UNCHANGED <<daemon, posted, events>>

\* FrameItem gives its file up and opens it again.
Reopens ==
  /\ Happens
  /\ opened /\ opened' = FALSE
  /\ UNCHANGED <<daemon, inbox, session, reply, posted, seen>>

\* sendRequest, on connected.
Connects ==
  /\ session.call = "connecting"
  /\ session' = [session EXCEPT !.call = "sent",
                                !.ackPending = @ /\ session.kind # "Acknowledge"]
  /\ inbox' = Append(inbox, [kind |-> session.kind, open |-> TRUE,
                             generation |-> session.validGeneration])
  /\ UNCHANGED <<daemon, reply, posted, opened, seen, events>>

\* A refused connection, the request timer, a reply that is no status.
Fails ==
  /\ Happens
  /\ session.call # "none"
  /\ Aborts(Failed(session))
  /\ UNCHANGED <<daemon, posted, opened, seen>>

\* The daemon closes the connection early; the check is posted.
Disconnects ==
  /\ Happens
  /\ session.call = "sent"
  /\ inbox' = Hangup /\ reply' = NoReply
  /\ posted' = posted \cup {"check"}
  /\ UNCHANGED <<daemon, session, opened, seen>>

\* The check fails whatever request is in flight by then.
PostedCheck ==
  /\ "check" \in posted /\ posted' = posted \ {"check"}
  /\ IF session.call # "none" THEN Aborts(Failed(session))
     ELSE UNCHANGED <<session, inbox, reply>>
  /\ UNCHANGED <<daemon, opened, seen, events>>

\* consumeResponse: a new path makes FrameItem open it.
Receives ==
  /\ reply # NoReply
  /\ LET next == IF reply.ok THEN Finished(Applied(session, reply)) ELSE Failed(session)
     IN  /\ Aborts(next)
         /\ posted' = IF reply.ok /\ AckDue(next) THEN posted \cup {"refresh"} ELSE posted
         /\ opened' = (opened /\ next.file = session.file)
  /\ UNCHANGED <<daemon, seen, events>>

\* setSocketPath, to a path of the same daemon.
SetSocketPath ==
  /\ Happens
  /\ Aborts(Refreshed([session EXCEPT !.ackPending = FALSE, !.active = FALSE,
                                      !.state = "Waiting"]))
  /\ UNCHANGED <<daemon, posted, opened, seen>>

-----------------------------------------------------------------------------
(* The daemon answers.                                                     *)

\* Mutant of Matches: any acknowledgement closes the handoff.
MatchesAny(r) == TRUE

\* acknowledge_display's guard; during a handoff the expected generation is
\* that of the promoted worker.
Matches(r) == r.generation = source.generation

Answers(s) ==
  [ok |-> TRUE, file |-> s.file, generation |-> s.generation,
   awaiting |-> s.previous # NoFile]

\* The reply goes to a connection that is still open.
Serves(next, answer) ==
  /\ inbox # <<>> /\ inbox' = Tail(inbox)
  /\ source' = next
  /\ reply' = IF Head(inbox).open THEN answer ELSE reply
  /\ UNCHANGED <<launched, display>>

ServesStatus ==
  /\ inbox # <<>> /\ Head(inbox).kind = "Status"
  /\ Serves(source, Answers(source))
  /\ UNCHANGED events

ServesAck ==
  /\ inbox # <<>> /\ Head(inbox).kind = "Acknowledge"
  /\ IF Matches(Head(inbox))
     THEN LET next == [source EXCEPT !.previous = NoFile] IN Serves(next, Answers(next))
     ELSE Serves(source, Refused)
  /\ UNCHANGED events

\* The promoted fallback cannot be written: the handoff stays open.
AckNotSaved ==
  /\ Happens
  /\ inbox # <<>> /\ Head(inbox).kind = "Acknowledge" /\ Matches(Head(inbox))
  /\ source.previous # NoFile
  /\ Serves(source, Refused)

-----------------------------------------------------------------------------
\* The constructor posts the first refresh.
Init ==
  /\ source = [file |-> NoFile, generation |-> 0, previous |-> NoFile]
  /\ launched = {} /\ seen = {}
  /\ inbox = <<>> /\ reply = NoReply
  /\ session = NewSession
  /\ posted = {"refresh"}
  /\ opened = FALSE
  /\ events = 0

Supervises ==
  \/ \E f \in Files : Promotes(f)
  \/ RollsBack \/ HandoffTimesOut \/ SourceEnds

Answering == ServesStatus \/ ServesAck \/ AckNotSaved

Displays ==
  \/ Polls \/ PostedRefresh \/ FrameFileOpens \/ Reopens
  \/ Connects \/ Fails \/ Disconnects \/ PostedCheck \/ Receives \/ SetSocketPath

Next == Supervises \/ Answering \/ Displays

Spec == Init /\ [][Next]_vars

\* Timers of both sides expire, the daemon serves its connections and a healthy
\* frame file is opened; nothing makes a handoff time out or a request fail.
FairSpec ==
  /\ Spec
  /\ WF_vars(Polls) /\ WF_vars(PostedRefresh) /\ WF_vars(PostedCheck)
  /\ WF_vars(FrameFileOpens)
  /\ WF_vars(Connects) /\ WF_vars(Receives)
  /\ WF_vars(ServesStatus) /\ WF_vars(ServesAck)

-----------------------------------------------------------------------------
(* Properties.                                                             *)

\* The fields have their types, and an acknowledgement waits to be sent only
\* while the last status said that a handoff is open, and for a file that was
\* opened: what withdraws the one withdraws the other, whatever answer, failure
\* or change of the socket comes between.  (setAwaitingDisplayAck)
PendingAckIsDue ==
  /\ TypeOK
  /\ session.ackPending => session.awaiting /\ session.validFile \in seen

\* An acknowledgement retires the previous wallpaper only if this display has
\* opened the new one, however late the request is carried out
\* (acknowledge_display's generation, acknowledgeFrameFile's path).
AckMeansSeen ==
  [][inbox' # inbox /\ source' # source => source.file \in seen]_vars

\* A handoff does not depend on its timeout: it ends even if no timer of the
\* supervisor ever fires, after refused, lost and late acknowledgements.
AckArrives == source.previous # NoFile ~> source.previous = NoFile

\* The display comes to name the source the daemon serves, path and generation,
\* also when a rollback brings a path back that the display never left.
DisplayFollows ==
  \A g \in 1..MaxEvents :
    source.generation = g /\ source.file # NoFile ~>
      \/ source.generation # g \/ source.file = NoFile
      \/ session.active /\ session.generation = g /\ session.file = source.file

-----------------------------------------------------------------------------
(* Refinement.                                                             *)

Later(generation) == generation + 1

Handoffs == INSTANCE SourceHandoff
  WITH Workers <- Files, NoWorker <- NoFile, First <- 0, Successor <- Later,
       active <- source.file, retired <- source.previous,
       generation <- source.generation

\* The supervisor this module assumes does what SourceHandoff allows, and nothing
\* a request of the display makes it do goes beyond that.  (acknowledge_display)
HandsOver == Handoffs!Spec
=============================================================================
