---------------------------- MODULE DisplayProofs ----------------------------
(***************************************************************************)
(* What an acknowledgement of the display means to the supervisor, for any *)
(* number of workers, requests and faults.                                 *)
(***************************************************************************)
EXTENDS DisplaySession, TLAPS

(***************************************************************************)
(* The inductive invariant.  A generation is a claim about one source: the *)
(* display, the reply on its connection and the requests in the daemon     *)
(* carry none that is newer than the source's, and the one of the source   *)
(* only with its file, or, for an acknowledgement, with its file seen.     *)
(***************************************************************************)
Current(w, file, generation) ==
  /\ generation <= w.generation
  /\ generation = w.generation /\ file # NoFile /\ w.file # NoFile => file = w.file

Known(w, files, generation) ==
  /\ generation <= w.generation
  /\ generation = w.generation /\ w.file # NoFile => w.file \in files

\* What holds of the display's fields.
Faithful(w, files, s) ==
  /\ Current(w, s.file, s.generation)
  /\ Known(w, files, s.validGeneration)
  /\ s.validFile # NoFile => s.validFile \in files
  /\ s.ackPending => s.awaiting /\ s.validFile # NoFile

Handoff == source.previous # NoFile => source.file # NoFile

Inv ==
  /\ TypeOK
  /\ Faithful(source, seen, session)
  /\ Current(source, reply.file, reply.generation)
  /\ \A i \in DOMAIN inbox : Known(source, seen, inbox[i].generation)
  /\ Handoff

-----------------------------------------------------------------------------
(* The display's fields.                                                   *)

\* The steps of applyStatus.
LEMMA StatusTypes ==
  ASSUME NEW s \in Session, NEW a \in Answer
  PROVE  Awaiting(s, a) \in Session /\ Sourced(s, a) \in Session
<1>1. /\ a.file \in Files \cup {NoFile} /\ a.generation \in Nat /\ a.awaiting \in BOOLEAN
      /\ (a.file # NoFile) \in BOOLEAN
      /\ (s.ackPending /\ (a.awaiting \/ ~s.awaiting)) \in BOOLEAN
  BY DEF Session, Answer
<1>2. Awaiting(s, a) \in Session
  BY <1>1 DEF Awaiting, Session
<1>3. [s EXCEPT !.file = a.file, !.generation = a.generation] \in Session
  BY <1>1 DEF Session
<1>4. QED
  BY <1>2, <1>3 DEF Sourced

LEMMA SessionTypes ==
  ASSUME NEW s \in Session, NEW kind \in Kinds, NEW a \in Answer
  PROVE  /\ Refreshed(s) \in Session /\ Started(s, kind) \in Session
         /\ Failed(s) \in Session /\ Finished(s) \in Session
         /\ Applied(s, a) \in Session
<1>1. Started(s, kind) \in Session /\ Failed(s) \in Session /\ Finished(s) \in Session
  BY DEF Started, Failed, Finished, Session
<1>2. Refreshed(s) \in Session
  BY DEF Refreshed, Started, Session, Kinds
<1>3. Awaiting(s, a) \in Session
  BY StatusTypes
<1>4. ASSUME NEW t \in Session PROVE Sourced(t, a) \in Session
  BY StatusTypes
<1>5. ASSUME NEW t \in Session PROVE Rearmed(t) \in Session
  BY DEF Rearmed, Session
<1>6. QED
  BY <1>1, <1>2, <1>3, <1>4, <1>5 DEF Applied

\* A request that begins, ends or fails leaves what the display knows.
LEMMA CallsFaithful ==
  ASSUME NEW w, NEW files, NEW s \in Session, Faithful(w, files, s), NEW kind \in Kinds
  PROVE  /\ Faithful(w, files, Refreshed(s)) /\ Faithful(w, files, Started(s, kind))
         /\ Faithful(w, files, Failed(s)) /\ Faithful(w, files, Finished(s))
<1>1. ASSUME NEW k \in Kinds PROVE Faithful(w, files, Started(s, k))
  BY DEF Started, Faithful, Session
<1>2. Faithful(w, files, Failed(s)) /\ Faithful(w, files, Finished(s))
  BY DEF Failed, Finished, Faithful, Session
<1>3. QED
  BY <1>1, <1>2 DEF Refreshed, Kinds

\* applyStatus: a status that says the handoff is over withdraws the
\* acknowledgement, and one that makes it due again has an opened file.
LEMMA AppliedFaithful ==
  ASSUME NEW w, NEW files, NEW s \in Session, Faithful(w, files, s),
         NEW a \in Answer, Current(w, a.file, a.generation)
  PROVE  Faithful(w, files, Applied(s, a))
<1> DEFINE t == Awaiting(s, a)
           u == Sourced(t, a)
<1>1. t \in Session /\ u \in Session
  BY StatusTypes
<1>2. Faithful(w, files, t)
  <2>1. /\ t.file = s.file /\ t.generation = s.generation
        /\ t.validFile = s.validFile /\ t.validGeneration = s.validGeneration
        /\ t.awaiting = a.awaiting
        /\ t.ackPending <=> s.ackPending /\ (a.awaiting \/ ~s.awaiting)
    BY DEF Awaiting, Session, Answer
  <2> HIDE DEF t
  <2>2. QED
    BY <2>1 DEF Faithful
<1>3. Faithful(w, files, u)
  <2>1. /\ u.validFile = t.validFile /\ u.validGeneration = t.validGeneration
        /\ u.awaiting = t.awaiting /\ u.ackPending = t.ackPending
        /\ \/ a.file # NoFile /\ u.file = a.file /\ u.generation = a.generation
           \/ u.file = t.file /\ u.generation = t.generation
    BY <1>1 DEF Sourced, Session
  <2> HIDE DEF t, u
  <2>2. QED
    BY <1>2, <2>1 DEF Faithful
<1> HIDE DEF u
<1>4. Faithful(w, files, Rearmed(u))
  <2>1. AckDue([u EXCEPT !.ackPending = TRUE]) => u.awaiting /\ u.validFile # NoFile
    BY <1>1 DEF AckDue, Session
  <2>2. QED
    BY <1>1, <1>3, <2>1 DEF Rearmed, Faithful, Session
<1>5. QED
  BY <1>4 DEF Applied, u

-----------------------------------------------------------------------------
(* The steps.                                                              *)

\* While the source stays, the claims about it do; the display only sees more.
LEMMA SourceStays ==
  ASSUME NEW w, NEW files, NEW more, files \subseteq more
  PROVE  /\ \A g : Known(w, files, g) => Known(w, more, g)
         /\ \A s : Faithful(w, files, s) => Faithful(w, more, s)
BY DEF Known, Faithful

\* A source that changes takes a new generation, or keeps its file, or loses it.
Follows(w, v) ==
  \/ v.generation = w.generation + 1
  \/ v.generation = w.generation /\ v.file \in {w.file, NoFile}

LEMMA SourceChanges ==
  ASSUME NEW w, NEW v, NEW files, w.generation \in Nat, Follows(w, v)
  PROVE  /\ \A f, g : g \in Nat /\ Current(w, f, g) => Current(v, f, g)
         /\ \A g \in Nat : Known(w, files, g) => Known(v, files, g)
         /\ \A s \in Session : Faithful(w, files, s) => Faithful(v, files, s)
<1>1. \A f, g : g \in Nat /\ Current(w, f, g) => Current(v, f, g)
  BY DEF Current, Follows
<1>2. \A g \in Nat : Known(w, files, g) => Known(v, files, g)
  BY DEF Known, Follows
<1>3. \A s \in Session : s.generation \in Nat /\ s.validGeneration \in Nat
  BY DEF Session
<1>4. QED
  BY <1>1, <1>2, <1>3 DEF Faithful

\* Only a display that has opened the source's file ends its handoff.
Acknowledges == inbox' # inbox /\ source' # source => source.file \in seen

\* Every step keeps what each party claims about the source.
LEMMA StepInv == Inv /\ [Next]_vars => Inv' /\ Acknowledges
<1> SUFFICES ASSUME Inv, [Next]_vars
             PROVE  Inv' /\ Acknowledges
  OBVIOUS
<1>t. /\ source \in [file : Files \cup {NoFile}, generation : Nat, previous : Files \cup {NoFile}]
      /\ launched \subseteq Files /\ seen \subseteq Files
      /\ inbox \in Seq(Request) /\ session \in Session /\ reply \in Answer
      /\ posted \subseteq {"refresh", "check"} /\ opened \in BOOLEAN
      /\ events \in 0..MaxEvents
      /\ Faithful(source, seen, session) /\ Current(source, reply.file, reply.generation) /\ Handoff
      /\ \A i \in DOMAIN inbox : Known(source, seen, inbox[i].generation)
      /\ source.file \in Files \cup {NoFile} /\ source.generation \in Nat
  BY DEF Inv, TypeOK
<1>n. NoReply \in Answer /\ Refused \in Answer
  BY DEF NoReply, Refused, Answer
<1>e. Happens => events' \in 0..MaxEvents
  BY <1>t, EventsAssumption DEF Happens
<1>i. \A i \in DOMAIN inbox : inbox[i] \in Request /\ inbox[i].generation \in Nat
  <2>1. \A i \in DOMAIN inbox : inbox[i] \in Request
    BY <1>t
  <2>2. QED
    BY <2>1 DEF Request
<1>h. /\ Hangup \in Seq(Request) /\ DOMAIN Hangup = DOMAIN inbox
      /\ \A i \in DOMAIN inbox : Hangup[i].generation = inbox[i].generation
  <2>1. \A i \in DOMAIN inbox : /\ [inbox[i] EXCEPT !.open = FALSE] \in Request
                                /\ [inbox[i] EXCEPT !.open = FALSE].generation = inbox[i].generation
    BY <1>i DEF Request
  <2>2. Len(inbox) \in Nat /\ DOMAIN inbox = 1..Len(inbox)
    BY <1>t
  <2>3. Hangup \in [1..Len(inbox) -> Request]
    BY <2>1, <2>2 DEF Hangup
  <2>4. DOMAIN Hangup = DOMAIN inbox /\ \A i \in DOMAIN inbox : Hangup[i] = [inbox[i] EXCEPT !.open = FALSE]
    BY DEF Hangup
  <2> HIDE DEF Hangup
  <2>5. Hangup \in Seq(Request)
    BY <2>2, <2>3
  <2>6. QED
    BY <2>1, <2>4, <2>5
\* A slot of the display: the source stays, and the session is faithful.
<1>d. ASSUME UNCHANGED <<source, launched>>,
             seen \subseteq seen', seen' \subseteq Files,
             session' \in Session, Faithful(source', seen', session'),
             inbox' \in Seq(Request), \A i \in DOMAIN inbox' : Known(source', seen', inbox'[i].generation),
             reply' \in {reply, NoReply},
             posted' \subseteq {"refresh", "check"}, opened' \in BOOLEAN,
             events' \in 0..MaxEvents
      PROVE  Inv' /\ Acknowledges
  <2>1. TypeOK'
    BY <1>d, <1>t, <1>n DEF TypeOK
  <2>2. Current(source', reply'.file, reply'.generation)
    BY <1>d, <1>t DEF Current, NoReply
  <2>3. QED
    BY <1>d, <1>t, <2>1, <2>2 DEF Inv, Handoff, Acknowledges
<1>s. ASSUME UNCHANGED <<source, seen>>, NEW s, Faithful(source, seen, s), session' = s
      PROVE  Faithful(source', seen', session')
  BY <1>s DEF Faithful, Current, Known
<1>a. ASSUME UNCHANGED <<source, launched, seen>>,
             NEW s \in Session, Faithful(source, seen, s), Aborts(s),
             posted' \subseteq {"refresh", "check"}, opened' \in BOOLEAN,
             events' \in 0..MaxEvents
      PROVE  Inv' /\ Acknowledges
  <2>1. /\ session' = s /\ session' \in Session /\ Faithful(source', seen', session')
        /\ reply' \in {reply, NoReply}
    BY <1>a, <1>s DEF Aborts
  <2>2. inbox' \in Seq(Request) /\ \A i \in DOMAIN inbox' : Known(source', seen', inbox'[i].generation)
    BY <1>a, <1>t, <1>h, SourceStays DEF Aborts
  <2>3. QED
    BY <1>a, <1>d, <1>t, <2>1, <2>2
<1>q. ASSUME UNCHANGED <<source, launched, seen, inbox, session>>,
             reply' \in {reply, NoReply},
             posted' \subseteq {"refresh", "check"}, opened' \in BOOLEAN,
             events' \in 0..MaxEvents
      PROVE  Inv' /\ Acknowledges
  <2>1. Faithful(source', seen', session') /\ \A i \in DOMAIN inbox' : Known(source', seen', inbox'[i].generation)
    BY <1>q, <1>t, SourceStays DEF Faithful, Current, Known
  <2>2. QED
    BY <1>q, <1>d, <1>t, <2>1
<1>c. \A k \in Kinds : /\ Refreshed(session) \in Session /\ Faithful(source, seen, Refreshed(session))
                       /\ Started(session, k) \in Session /\ Faithful(source, seen, Started(session, k))
                       /\ Failed(session) \in Session /\ Faithful(source, seen, Failed(session))
  <2>1. NoReply \in Answer
    BY <1>n
  <2>2. QED
    BY <1>t, <2>1, SessionTypes, CallsFaithful
<1>f. /\ Refreshed(session) \in Session /\ Faithful(source, seen, Refreshed(session))
      /\ Failed(session) \in Session /\ Faithful(source, seen, Failed(session))
  BY <1>c DEF Kinds
<1>1. CASE UNCHANGED vars
  BY <1>1, <1>q, <1>t DEF vars
<1>2. CASE Polls
  BY <1>2, <1>a, <1>f, <1>t DEF Polls, daemon
<1>3. CASE PostedRefresh
  BY <1>3, <1>a, <1>q, <1>f, <1>t DEF PostedRefresh, daemon
<1>4. CASE FrameFileOpens
  <2> DEFINE s == [session EXCEPT !.validFile = session.file,
                                  !.validGeneration = session.generation,
                                  !.ackPending = @ \/ session.awaiting]
  <2>1. s \in Session
    BY <1>t DEF Session
  <2>2. /\ UNCHANGED <<source, launched, posted, events>>
        /\ session.file # NoFile /\ session.file \in {source.file, source.previous}
        /\ seen' = seen \cup {session.file} /\ opened' = TRUE
    BY <1>4 DEF FrameFileOpens, daemon
  <2>3. seen \subseteq seen' /\ seen' \subseteq Files
    BY <1>t, <2>2 DEF Session
  <2>4. ASSUME NEW u \in {s, Started(s, "Acknowledge")}, session' = u
        PROVE  session' \in Session /\ Faithful(source', seen', session')
    <3>0. /\ s.file = session.file /\ s.generation = session.generation
          /\ s.validFile = session.file /\ s.validGeneration = session.generation
          /\ s.awaiting = session.awaiting
          /\ s.ackPending <=> session.ackPending \/ session.awaiting
      BY <1>t DEF Session
    <3>k. "Acknowledge" \in Kinds
      BY DEF Kinds
    <3>u. /\ Started(s, "Acknowledge") \in Session
          /\ LET v == Started(s, "Acknowledge")
             IN  /\ v.file = s.file /\ v.generation = s.generation
                 /\ v.validFile = s.validFile /\ v.validGeneration = s.validGeneration
                 /\ v.awaiting = s.awaiting /\ v.ackPending = s.ackPending
      <4> HIDE DEF s
      <4>1. QED
        BY <2>1, <3>k DEF Started, Session
    <3>1. /\ u \in Session
          /\ u.file = session.file /\ u.generation = session.generation
          /\ u.validFile = session.file /\ u.validGeneration = session.generation
          /\ u.awaiting = session.awaiting
          /\ u.ackPending <=> session.ackPending \/ session.awaiting
      <4> HIDE DEF s
      <4>1. QED
        BY <2>1, <2>4, <3>0, <3>u
    <3>2. Current(source', u.file, u.generation) /\ Known(source', seen', u.validGeneration)
      BY <1>t, <2>2, <3>1 DEF Faithful, Current, Known
    <3> HIDE DEF s
    <3>3. u.validFile \in seen' /\ (u.ackPending => u.awaiting /\ u.validFile # NoFile)
      BY <1>t, <2>2, <3>1 DEF Faithful
    <3>4. QED
      BY <2>4, <3>1, <3>2, <3>3 DEF Faithful, Current, Known
  <2>5. /\ inbox' \in Seq(Request) /\ \A i \in DOMAIN inbox' : Known(source', seen', inbox'[i].generation)
        /\ reply' \in {reply, NoReply}
    BY <1>4, <1>t, <1>h, <2>2, <2>3, SourceStays DEF FrameFileOpens, Aborts
  <2>6. session' \in {s, Started(s, "Acknowledge")}
    BY <1>4 DEF FrameFileOpens, Aborts
  <2> HIDE DEF s
  <2>7. session' \in Session /\ Faithful(source', seen', session')
    BY <2>4, <2>6
  <2>8. QED
    BY <1>d, <1>t, <2>2, <2>3, <2>5, <2>7
<1>5. CASE Reopens
  BY <1>5, <1>q, <1>e, <1>t DEF Reopens, daemon
<1>6. CASE Connects
  <2> DEFINE s == [session EXCEPT !.call = "sent",
                                  !.ackPending = @ /\ session.kind # "Acknowledge"]
             r == [kind |-> session.kind, open |-> TRUE, generation |-> session.validGeneration]
  <2>1. s \in Session /\ Faithful(source, seen, s)
    BY <1>t DEF Session, Faithful
  <2>2. r \in Request /\ r.generation = session.validGeneration
    BY <1>t DEF Session, Request
  <2>3. /\ session' = s /\ inbox' = Append(inbox, r)
        /\ UNCHANGED <<source, launched, reply, posted, opened, seen, events>>
    BY <1>6 DEF Connects, daemon
  <2> HIDE DEF s, r
  <2>4. /\ inbox' \in Seq(Request)
        /\ \A i \in DOMAIN inbox' : (i \in DOMAIN inbox /\ inbox'[i] = inbox[i]) \/ inbox'[i] = r
    BY <1>t, <2>2, <2>3
  <2>5. \A i \in DOMAIN inbox' : Known(source', seen', inbox'[i].generation)
    BY <1>t, <2>2, <2>3, <2>4, SourceStays DEF Faithful
  <2>6. session' \in Session /\ Faithful(source', seen', session')
    BY <1>s, <2>1, <2>3
  <2>7. QED
    BY <1>d, <1>t, <2>3, <2>4, <2>5, <2>6
<1>7. CASE Fails
  BY <1>7, <1>a, <1>f, <1>e, <1>t DEF Fails, daemon
<1>8. CASE Disconnects
  <2>1. /\ UNCHANGED <<source, launched, seen, session, opened>>
        /\ inbox' = Hangup /\ reply' = NoReply /\ events' \in 0..MaxEvents
        /\ posted' \subseteq {"refresh", "check"}
    BY <1>8, <1>e, <1>t DEF Disconnects, daemon
  <2>2. session' \in Session /\ Faithful(source', seen', session')
    BY <1>s, <1>t, <2>1
  <2>3. inbox' \in Seq(Request) /\ \A i \in DOMAIN inbox' : Known(source', seen', inbox'[i].generation)
    BY <1>h, <1>t, <2>1, SourceStays
  <2>4. QED
    BY <1>d, <1>t, <2>1, <2>2, <2>3
<1>9. CASE PostedCheck
  BY <1>9, <1>a, <1>q, <1>f, <1>t DEF PostedCheck, daemon
<1>10. CASE Receives
  <2> DEFINE next == IF reply.ok THEN Finished(Applied(session, reply)) ELSE Failed(session)
  <2>1. next \in Session /\ Faithful(source, seen, next)
    <3>1. Applied(session, reply) \in Session /\ Faithful(source, seen, Applied(session, reply))
      <4>1. "Status" \in Kinds
        BY DEF Kinds
      <4>2. QED
        BY <1>t, <4>1, SessionTypes, AppliedFaithful
    <3>2. Finished(Applied(session, reply)) \in Session /\ Faithful(source, seen, Finished(Applied(session, reply)))
      <4>1. "Status" \in Kinds
        BY DEF Kinds
      <4>2. QED
        BY <1>t, <3>1, <4>1, SessionTypes, CallsFaithful
    <3>3. QED
      BY <1>f, <3>2
  <2>2. /\ Aborts(next) /\ UNCHANGED <<source, launched, seen, events>>
        /\ posted' \subseteq {"refresh", "check"} /\ opened' \in BOOLEAN
    BY <1>10, <1>t DEF Receives, daemon
  <2> HIDE DEF next
  <2>3. QED
    BY <1>a, <1>t, <2>1, <2>2
<1>11. CASE SetSocketPath
  <2> DEFINE s == [session EXCEPT !.ackPending = FALSE, !.active = FALSE, !.state = "Waiting"]
  <2>1. s \in Session /\ Faithful(source, seen, s)
    BY <1>t DEF Session, Faithful
  <2>2. Refreshed(s) \in Session /\ Faithful(source, seen, Refreshed(s))
    <3>1. "Status" \in Kinds
      BY DEF Kinds
    <3> HIDE DEF s
    <3>2. QED
      BY <1>n, <2>1, <3>1, SessionTypes, CallsFaithful
  <2>3. Aborts(Refreshed(s)) /\ UNCHANGED <<source, launched, seen, posted, opened>>
        /\ events' \in 0..MaxEvents
    BY <1>11, <1>e DEF SetSocketPath, daemon
  <2> HIDE DEF s
  <2>4. QED
    BY <1>a, <1>t, <2>2, <2>3
\* The supervisor moves on.
<1>m. ASSUME NEW next, Changes(next), launched' \subseteq Files,
             next \in [file : Files \cup {NoFile}, generation : Nat, previous : Files \cup {NoFile}],
             \/ next.generation = source.generation + 1
             \/ next.generation = source.generation /\ next.file \in {source.file, NoFile},
             next.previous # NoFile => next.file # NoFile
      PROVE  Inv' /\ Acknowledges
  <2>1. /\ source' = next /\ UNCHANGED <<inbox, session, reply, posted, opened, seen>>
        /\ events' \in 0..MaxEvents
    BY <1>m, <1>e DEF Changes
  <2>2. Follows(source, source')
    BY <1>m, <2>1 DEF Follows
  <2>3. TypeOK'
    BY <1>m, <1>t, <2>1 DEF TypeOK
  <2>5. Faithful(source', seen', session')
    BY <1>t, <2>1, <2>2, SourceChanges
  <2>6. Current(source', reply'.file, reply'.generation)
    BY <1>t, <2>1, <2>2, SourceChanges DEF Answer
  <2>7. \A i \in DOMAIN inbox' : Known(source', seen', inbox'[i].generation)
    BY <1>i, <1>t, <2>1, <2>2, SourceChanges
  <2>8. QED
    BY <1>m, <2>1, <2>3, <2>5, <2>6, <2>7 DEF Inv, Handoff, Acknowledges
<1>12. ASSUME NEW f \in Files, Promotes(f) PROVE Inv' /\ Acknowledges
  <2>1. launched' \subseteq Files /\ source.generation + 1 \in Nat /\ f # NoFile
    BY <1>12, <1>t, FilesAssumption DEF Promotes
  <2>2. QED
    BY <1>12, <1>m, <1>t, <2>1 DEF Promotes
<1>13. CASE RollsBack
  <2>1. source.generation + 1 \in Nat /\ launched' \subseteq Files
    BY <1>13, <1>t DEF RollsBack
  <2>2. QED
    BY <1>13, <1>m, <1>t, <2>1 DEF RollsBack
<1>14. CASE HandoffTimesOut
  BY <1>14, <1>m, <1>t DEF HandoffTimesOut
<1>15. CASE SourceEnds
  BY <1>15, <1>m, <1>t DEF SourceEnds
\* The daemon answers a request.
<1>v. ASSUME NEW next, NEW answer \in Answer, Serves(next, answer),
             next \in {source, [source EXCEPT !.previous = NoFile]},
             next # source => source.file \in seen,
             answer.generation <= source.generation,
             answer.file \in {source.file, NoFile},
             events' \in 0..MaxEvents
      PROVE  Inv' /\ Acknowledges
  <2>1. /\ inbox # <<>> /\ inbox' = Tail(inbox) /\ source' = next
        /\ UNCHANGED <<launched, session, posted, opened, seen>>
        /\ reply' \in {answer, reply}
    BY <1>v DEF Serves, display
  <2>2. /\ source' \in [file : Files \cup {NoFile}, generation : Nat, previous : Files \cup {NoFile}]
        /\ source'.file = source.file /\ source'.generation = source.generation
        /\ source'.previous \in {source.previous, NoFile}
    BY <1>v, <1>t, <2>1
  <2>3. /\ inbox' \in Seq(Request)
        /\ \A i \in DOMAIN inbox' : i + 1 \in DOMAIN inbox /\ inbox'[i] = inbox[i + 1]
    BY <1>t, <2>1
  <2>4. TypeOK'
    BY <1>v, <1>t, <2>1, <2>2, <2>3 DEF TypeOK
  <2>5. Faithful(source', seen', session')
    BY <1>t, <2>1, <2>2 DEF Faithful, Current, Known
  <2>6. \A i \in DOMAIN inbox' : Known(source', seen', inbox'[i].generation)
    BY <1>t, <2>1, <2>2, <2>3 DEF Known
  <2>7. Current(source', reply'.file, reply'.generation)
    BY <1>v, <1>t, <2>1, <2>2 DEF Current
  <2>8. Handoff'
    BY <1>t, <2>2 DEF Handoff
  <2>9. Acknowledges
    BY <1>v, <2>1 DEF Acknowledges
  <2>10. QED
    BY <2>4, <2>5, <2>6, <2>7, <2>8, <2>9 DEF Inv
<1>b. /\ Answers(source) \in Answer
      /\ Answers(source).generation = source.generation /\ Answers(source).file = source.file
      /\ Refused.generation <= source.generation /\ Refused.file = NoFile
  BY <1>t DEF Answers, Answer, Refused
<1>16. CASE ServesStatus
  BY <1>16, <1>v, <1>b, <1>t DEF ServesStatus
<1>17. CASE ServesAck
  <2>1. CASE ~Matches(Head(inbox))
    BY <1>17, <1>v, <1>b, <1>n, <1>t, <2>1 DEF ServesAck
  <2>2. CASE Matches(Head(inbox))
    <3> DEFINE next == [source EXCEPT !.previous = NoFile]
    <3>1. Serves(next, Answers(next)) /\ events' \in 0..MaxEvents
      BY <1>17, <1>t, <2>2 DEF ServesAck
    <3>2. /\ Answers(next) \in Answer
          /\ Answers(next).generation = source.generation /\ Answers(next).file = source.file
      BY <1>t DEF Answers, Answer
    <3>3. next # source => source.file \in seen
      <4>1. Head(inbox) = inbox[1] /\ 1 \in DOMAIN inbox
        BY <1>17, <1>t DEF ServesAck
      <4>2. Known(source, seen, source.generation)
        BY <1>t, <2>2, <4>1 DEF Matches
      <4>3. next # source => source.file # NoFile
        BY <1>t DEF Handoff
      <4>4. QED
        BY <4>2, <4>3 DEF Known
    <3> HIDE DEF next
    <3>4. next \in {source, [source EXCEPT !.previous = NoFile]}
      BY DEF next
    <3>5. QED
      BY <1>v, <1>t, <3>1, <3>2, <3>3, <3>4
  <2>3. QED
    BY <2>1, <2>2
<1>18. CASE AckNotSaved
  BY <1>18, <1>v, <1>b, <1>n, <1>e, <1>t DEF AckNotSaved
<1>19. QED
  BY <1>1, <1>2, <1>3, <1>4, <1>5, <1>6, <1>7, <1>8, <1>9, <1>10, <1>11, <1>12, <1>13,
     <1>14, <1>15, <1>16, <1>17, <1>18 DEF Next, Supervises, Answering, Displays

LEMMA InitInv == Init => Inv
<1> SUFFICES ASSUME Init
             PROVE  Inv
  OBVIOUS
<1>1. NewSession \in Session /\ NoReply \in Answer
  BY DEF NewSession, Session, NoReply, Answer, Kinds
<1>2. /\ source \in [file : Files \cup {NoFile}, generation : Nat, previous : Files \cup {NoFile}]
      /\ launched = {} /\ seen = {} /\ inbox = <<>> /\ posted = {"refresh"} /\ opened \in BOOLEAN
      /\ session = NewSession /\ reply = NoReply
      /\ events \in 0..MaxEvents
  <2>1. source \in [file : Files \cup {NoFile}, generation : Nat, previous : Files \cup {NoFile}]
    BY DEF Init
  <2>2. events = 0 /\ opened = FALSE
    BY Zenon DEF Init
  <2>3. events \in 0..MaxEvents
    BY <2>2, EventsAssumption
  <2>4. opened \in BOOLEAN
    BY <2>2
  <2>5. QED
    BY <2>1, <2>3, <2>4 DEF Init
<1>3. TypeOK
  BY <1>1, <1>2 DEF TypeOK
<1>4. Faithful(source, seen, session) /\ Current(source, reply.file, reply.generation) /\ Handoff
  BY DEF Init, Faithful, Current, Known, Handoff, NewSession, NoReply
<1>5. QED
  BY <1>2, <1>3, <1>4 DEF Inv

-----------------------------------------------------------------------------
(* The theorems.                                                           *)

\* A pending acknowledgement is one the last status asked for, of a file that was
\* opened (setAwaitingDisplayAck).
THEOREM PendingAcksAreDue == Spec => []PendingAckIsDue
<1>1. Inv => PendingAckIsDue
  BY DEF Inv, PendingAckIsDue, Faithful
<1>2. Inv /\ [Next]_vars => Inv'
  BY StepInv
<1>3. QED
  BY <1>1, <1>2, InitInv, PTL DEF Spec

\* A handoff that an acknowledgement ends is one whose file this display has
\* opened (acknowledge_display).
THEOREM AcksAreEarned == Spec => AckMeansSeen
<1>1. Inv /\ [Next]_vars => [inbox' # inbox /\ source' # source => source.file \in seen]_vars
  BY StepInv DEF Acknowledges
<1>2. Inv /\ [Next]_vars => Inv'
  BY StepInv
<1>3. QED
  BY <1>1, <1>2, InitInv, PTL DEF Spec, AckMeansSeen

-----------------------------------------------------------------------------
(* The supervisor this module assumes is SourceHandoff.                    *)

Sources == [file : Files \cup {NoFile}, generation : Nat, previous : Files \cup {NoFile}]

\* The workers that are or were on screen have been launched.
Slots == {source.file, source.previous} \subseteq launched \cup {NoFile}

LEMMA SlotsStep == Inv /\ Slots /\ [Next]_vars => Slots'
<1> SUFFICES ASSUME Inv, Slots, [Next]_vars
             PROVE  Slots'
  OBVIOUS
<1>t. source \in Sources
  BY DEF Inv, TypeOK, Sources
<1>1. ASSUME NEW f \in Files, Promotes(f) PROVE Slots'
  BY <1>1, <1>t DEF Promotes, Changes, Slots, Sources
<1>2. CASE RollsBack \/ HandoffTimesOut \/ SourceEnds
  <2>1. CASE RollsBack
    BY <2>1, <1>t DEF RollsBack, Changes, Slots, Sources
  <2>2. CASE HandoffTimesOut
    BY <2>2, <1>t DEF HandoffTimesOut, Changes, Slots, Sources
  <2>3. CASE SourceEnds
    BY <2>3, <1>t DEF SourceEnds, Changes, Slots, Sources
  <2>4. QED
    BY <1>2, <2>1, <2>2, <2>3
<1>3. ASSUME NEW next \in {source, [source EXCEPT !.previous = NoFile]}, NEW answer,
             Serves(next, answer)
      PROVE  Slots'
  BY <1>3, <1>t DEF Serves, Slots, Sources
<1>4. CASE Answering
  BY <1>3, <1>4 DEF Answering, ServesStatus, ServesAck, AckNotSaved
<1>5. CASE Displays \/ UNCHANGED vars
  <2>1. UNCHANGED daemon
    BY <1>5 DEF Displays, Polls, PostedRefresh, FrameFileOpens, Reopens, Connects, Fails,
                Disconnects, PostedCheck, Receives, SetSocketPath, vars, daemon
  <2>2. QED
    BY <2>1 DEF daemon, Slots
<1>6. QED
  BY <1>1, <1>2, <1>4, <1>5 DEF Next, Supervises

\* What the supervisor does of its own, what a request makes it do, and what the
\* display does are moves of the handoff or invisible to it.
LEMMA HandoffMoves ==
  ASSUME Inv, Slots, [Next]_vars
  PROVE  [Handoffs!Next]_(Handoffs!source)
<1> USE DEF Handoffs!Next, Handoffs!Moves, Handoffs!source
<1>t. source \in Sources /\ launched \subseteq Files /\ NoFile \notin Files
  BY FilesAssumption DEF Inv, TypeOK, Sources
<1>1. ASSUME NEW f \in Files, Promotes(f) PROVE Handoffs!Promotes(f)
  BY <1>1, <1>t DEF Promotes, Changes, Slots, Handoffs!Promotes, Later
<1>2. ASSUME source.previous # NoFile, source' = [source EXCEPT !.previous = NoFile]
      PROVE  Handoffs!Commits
  BY <1>2, <1>t DEF Handoffs!Commits, Sources
<1>3. CASE RollsBack
  <2>1. Handoffs!RollsBack
    BY <1>3, <1>t DEF RollsBack, Changes, Handoffs!RollsBack, Later
  <2>2. QED
    BY <2>1
<1>4. CASE HandoffTimesOut
  BY <1>2, <1>4 DEF HandoffTimesOut, Changes
<1>5. CASE SourceEnds
  <2>1. Handoffs!Ends
    BY <1>5, <1>t DEF SourceEnds, Changes, Handoffs!Ends, Sources
  <2>2. QED
    BY <2>1
<1>6. ASSUME NEW next \in {source, [source EXCEPT !.previous = NoFile]}, NEW answer,
             Serves(next, answer)
      PROVE  Handoffs!Commits \/ UNCHANGED Handoffs!source
  <2>1. source' = source \/ source' = [source EXCEPT !.previous = NoFile]
    BY <1>6 DEF Serves
  <2>2. source' = [source EXCEPT !.previous = NoFile] /\ source.previous = NoFile
          => source' = source
    BY <1>t DEF Sources
  <2>3. QED
    BY <1>2, <2>1, <2>2
<1>7. CASE Answering
  BY <1>6, <1>7 DEF Answering, ServesStatus, ServesAck, AckNotSaved
<1>8. CASE Displays \/ UNCHANGED vars
  <2>1. UNCHANGED daemon
    BY <1>8 DEF Displays, Polls, PostedRefresh, FrameFileOpens, Reopens, Connects, Fails,
                Disconnects, PostedCheck, Receives, SetSocketPath, vars, daemon
  <2>2. QED
    BY <2>1 DEF daemon
<1>9. QED
  BY <1>1, <1>3, <1>4, <1>5, <1>7, <1>8 DEF Next, Supervises

\* The module assumes no more than SourceHandoff, which the supervisor implements:
\* its own steps, and those a request makes it take, are moves of the handoff.
THEOREM SourceHandsOver == Spec => HandsOver
<1>1. Init => Slots /\ Handoffs!Init
  BY DEF Init, Slots, Handoffs!Init
<1>2. Inv /\ [Next]_vars => Inv'
  BY StepInv
<1>3. QED
  BY <1>1, <1>2, InitInv, SlotsStep, HandoffMoves, PTL DEF Spec, HandsOver, Handoffs!Spec

\* Nor does it assume less: while events are left, every move of the handoff that
\* brings no frame path back is a step of Supervises, so the display is checked
\* against all a supervisor does between its start and its end.
THEOREM EveryMoveIsMet ==
  ASSUME TypeOK, Slots, Handoffs!Moves, source' \in Sources,
         source'.file \in launched => source'.file \in {source.file, source.previous},
         launched' = (launched \cup {source'.file}) \ {NoFile},
         Happens, UNCHANGED <<inbox, session, reply, posted, opened, seen>>
  PROVE  Supervises
<1>t. source \in Sources /\ launched \subseteq Files /\ NoFile \notin Files
  BY FilesAssumption DEF TypeOK, Sources
<1>c. ASSUME NEW next \in Sources, source'.file = next.file,
             source'.generation = next.generation, source'.previous = next.previous
      PROVE  Changes(next)
  <2>1. source' = next
    BY <1>c DEF Sources
  <2>2. QED
    BY <2>1 DEF Changes
<1>1. ASSUME NEW f \in Files, Handoffs!Promotes(f) PROVE Promotes(f)
  <2>1. /\ source'.file = f /\ source'.previous = source.file
        /\ source'.generation = source.generation + 1
        /\ f # source.file /\ source.previous = NoFile
    BY <1>1 DEF Handoffs!Promotes, Later
  <2>2. f \notin launched /\ launched' = launched \cup {f}
    BY <1>t, <2>1
  <2>3. [file |-> f, generation |-> source.generation + 1, previous |-> source.file] \in Sources
    BY <1>t DEF Sources
  <2>4. QED
    BY <1>c, <2>1, <2>2, <2>3 DEF Promotes
<1>l. source'.file \in {source.file, source.previous, NoFile} => launched' = launched
  BY <1>t DEF Slots
<1>2. CASE Handoffs!Commits
  <2>1. [source EXCEPT !.previous = NoFile] \in Sources
    BY <1>t DEF Sources
  <2>2. HandoffTimesOut
    BY <1>2, <1>c, <1>l, <1>t, <2>1 DEF Handoffs!Commits, HandoffTimesOut, Sources
  <2>3. QED
    BY <2>2 DEF Supervises
<1>3. CASE Handoffs!RollsBack
  <2>1. [file |-> source.previous, generation |-> source.generation + 1,
         previous |-> NoFile] \in Sources
    BY <1>t DEF Sources
  <2>2. RollsBack
    BY <1>3, <1>c, <1>l, <2>1 DEF Handoffs!RollsBack, Later, RollsBack
  <2>3. QED
    BY <2>2 DEF Supervises
<1>4. CASE Handoffs!Ends
  <2>1. [source EXCEPT !.file = NoFile, !.previous = NoFile] \in Sources
    BY <1>t DEF Sources
  <2>2. SourceEnds
    BY <1>4, <1>c, <1>l, <1>t, <2>1 DEF Handoffs!Ends, SourceEnds, Sources
  <2>3. QED
    BY <2>2 DEF Supervises
<1>5. QED
  BY <1>1, <1>2, <1>3, <1>4 DEF Handoffs!Moves, Supervises
=============================================================================
