----------------------------- MODULE ApplyProofs -----------------------------
(***************************************************************************)
(* What the transactions of apply.rs keep of an output's record, for any   *)
(* outputs, wallpapers, configurations, queue length and write outcomes.   *)
(***************************************************************************)
EXTENDS Apply, TLAPS

(***************************************************************************)
(* The inductive invariant.  A transaction whose output nobody else has    *)
(* touched knows what it found there: its locals, the store and the file   *)
(* are what its step has made of that.                                     *)
(***************************************************************************)
Before == {"check", "enumerate", "record"}
Underway == {"start", "starting", "wait", "promoted", "persist", "switch", "verify",
             "failed", "ours", "stopping", "revert"}
Restoring == {"restore", "confirm", "forget"}
Waiting == {"starting", "stopping", "calling"}

\* The configuration a success has to keep.
Original(t) ==
  IF t.found.desktop = KWE /\ t.found.record # NoAssignment
  THEN t.found.record.previous ELSE t.found.desktop

Remembers(t) ==
  /\ t.step \in Before \cup Underway => t.spec \in Specs
  /\ Undisturbed(t) =>
       /\ t.step \in Before =>
            t.found.desktop = desktop[t.output] /\ t.found.record = store[t.output]
       /\ t.step = "record" => t.previous = t.found.desktop
       /\ t.step \in Underway => t.old = t.found.record /\ t.previous = Original(t)
       /\ t.step \in {"switch", "verify"} =>
            file[t.output] = [wallpaper |-> t.spec, previous |-> t.previous]
       /\ t.step \in Restoring /\ t.found.record # NoAssignment =>
            t.previous = t.found.record.previous
       /\ t.step = "forget" => desktop[t.output] = t.previous

RecordsRemembered == \A a \in Actors : Remembers(txn[a])

\* A command in the queue belongs to a thread that waits for it, or to nobody,
\* and no thread waits for two.
CallersWait ==
  /\ \A i \in DOMAIN queue : queue[i].by # Nobody => txn[queue[i].by].step \in Waiting
  /\ \A i, j \in DOMAIN queue :
       queue[i].by # Nobody /\ queue[i].by = queue[j].by => i = j

Inv == TypeOK /\ CallersWait /\ RecordsRemembered

-----------------------------------------------------------------------------
(* The helpers.                                                            *)

\* What the supervisor does leaves its own variables in their types.
LEMMA ServiceTypes ==
  ASSUME ServiceTypeOK,
         \/ \E s \in Specs \cup {NoSpec} : StartAnswered(s)
         \/ RetryNotSaved \/ StopAnswered \/ AckAnswered \/ ServiceSteps \/ ServiceEnds
         \/ UNCHANGED service
  PROVE  ServiceTypeOK'
<1> USE DEF ServiceTypeOK, WorkerPhases
<1>1. ASSUME NEW s \in Specs \cup {NoSpec}, StartAnswered(s) PROVE ServiceTypeOK'
  BY <1>1 DEF StartAnswered, Launch, StruckDown
<1>2. CASE RetryNotSaved \/ StopAnswered \/ AckAnswered \/ ServiceEnds
  BY <1>2 DEF RetryNotSaved, StopAnswered, AckAnswered, ServiceEnds
<1>3. CASE HandoffCommits
  BY <1>3 DEF HandoffCommits
<1>4. CASE HandoffRollsBack
  BY <1>4 DEF HandoffRollsBack, StruckDown
<1>5. CASE RestartRuns
  BY <1>5 DEF RestartRuns, Launch, StruckDown
<1>6. CASE SourceFails
  BY <1>6 DEF SourceFails
<1>7. CASE Promotes
  BY <1>7 DEF Promotes
<1>8. CASE CandidateLost \/ CandidateRefused
  BY <1>8 DEF CandidateLost, CandidateRefused, StruckDown
<1>9. CASE UNCHANGED service
  BY <1>9 DEF service
<1>10. QED
  BY <1>1, <1>2, <1>3, <1>4, <1>5, <1>6, <1>7, <1>8, <1>9 DEF ServiceSteps, Settling

LEMMA IdleType == Idle \in Transaction
<1>1. (CHOOSE o \in Outputs : TRUE) \in Outputs
  BY OutputsAssumption
<1>2. QED
  BY <1>1 DEF Idle, Transaction, Steps, Desktops, Records

\* A new transaction, as Begin and RestoreBegins make it.
LEMMA TransactionType ==
  ASSUME TypeOK, NEW t \in Transaction
  PROVE  /\ t.step \in Steps /\ t.output \in Outputs /\ t.spec \in Specs \cup {NoSpec}
         /\ t.previous \in Desktops /\ t.old \in Records
         /\ \A step \in Steps : [t EXCEPT !.step = step] \in Transaction
         /\ desktop[t.output] \in Desktops /\ store[t.output] \in Records
BY DEF Transaction, TypeOK

\* What a thread notes of its output.
LEMMA NotedType ==
  ASSUME NEW t \in Transaction, NEW step \in Steps, NEW seen \in Desktops, NEW old \in Records
  PROVE  /\ [t EXCEPT !.step = step, !.previous = seen] \in Transaction
         /\ [t EXCEPT !.step = step, !.old = old, !.previous = seen] \in Transaction
BY DEF Transaction

LEMMA NoAssignmentType == NoAssignment \in Records
BY DEF Records

\* The output of the others changes, and nothing else of theirs.
LEMMA DisturbType ==
  ASSUME NEW ts \in [Actors -> Transaction], NEW o, NEW by
  PROVE  /\ Disturb(ts, o, by) \in [Actors -> Transaction]
         /\ \A a \in Actors :
              /\ Disturb(ts, o, by)[a].step = ts[a].step
              /\ Disturb(ts, o, by)[a].spec = ts[a].spec
              /\ a = by \/ ts[a].output # o => Disturb(ts, o, by)[a] = ts[a]
              /\ a # by /\ ts[a].output = o => Disturb(ts, o, by)[a].found = Disturbed
BY DEF Disturb, Transaction

LEMMA TransactionStep ==
  ASSUME NEW d \in [Actors -> Transaction], NEW a \in Actors, NEW step \in Steps
  PROVE  [d EXCEPT ![a].step = step] \in [Actors -> Transaction]
BY DEF Transaction

\* The step of a writing thread: it moves on, and disturbs the others.
LEMMA DisturbGoto ==
  ASSUME NEW ts \in [Actors -> Transaction], NEW o, NEW a \in Actors, NEW step \in Steps,
         NEW next, next = [Disturb(ts, o, a) EXCEPT ![a].step = step]
  PROVE  /\ next \in [Actors -> Transaction]
         /\ next[a] = [ts[a] EXCEPT !.step = step]
         /\ \A b \in Actors \ {a} : next[b] = Disturb(ts, o, a)[b]
<1> DEFINE d == Disturb(ts, o, a)
<1>1. d \in [Actors -> Transaction] /\ d[a] = ts[a]
  BY DisturbType
<1>2. next = [d EXCEPT ![a].step = step]
  OBVIOUS
<1>3. d \in [Actors -> Transaction] => [d EXCEPT ![a].step = step] \in [Actors -> Transaction]
  BY TransactionStep
<1> HIDE DEF d
<1>4. next[a] = [d[a] EXCEPT !.step = step]
  BY <1>1, <1>2
<1>5. \A b \in Actors \ {a} : next[b] = d[b]
  BY <1>1, <1>2
<1>6. QED
  BY <1>1, <1>2, <1>3, <1>4, <1>5 DEF d

LEMMA WatchedType ==
  ASSUME NEW ts \in [Actors -> Transaction]
  PROVE  /\ Watched(ts) \in [Actors -> Transaction]
         /\ \A a \in Actors :
              LET next == Watched(ts)[a]
              IN  /\ next.step = ts[a].step /\ next.output = ts[a].output
                  /\ next.spec = ts[a].spec /\ next.previous = ts[a].previous
                  /\ next.old = ts[a].old /\ next.found = ts[a].found
<1>1. ASSUME NEW a \in Actors
      PROVE  LET next == [ts[a] EXCEPT !.wasShown = TRUE]
             IN  /\ next \in Transaction
                 /\ next.step = ts[a].step /\ next.output = ts[a].output
                 /\ next.spec = ts[a].spec /\ next.previous = ts[a].previous
                 /\ next.old = ts[a].old /\ next.found = ts[a].found
  <2>1. ts[a] \in Transaction
    OBVIOUS
  <2>2. QED
    BY <2>1 DEF Transaction
<1>2. \A a \in Actors : Watched(ts)[a] \in {ts[a], [ts[a] EXCEPT !.wasShown = TRUE]}
  BY DEF Watched
<1>3. Watched(ts) \in [Actors -> Transaction]
  BY <1>1 DEF Watched
<1>4. QED
  BY <1>1, <1>2, <1>3

\* A write changes one output's record, in the store as in the file.
LEMMA WrittenType ==
  ASSUME TypeOK, NEW o \in Outputs, NEW record \in Records, NEW outcome,
         Written(o, record, outcome)
  PROVE  /\ store' \in [Outputs -> Records] /\ file' \in [Outputs -> Records]
         /\ \A p \in Outputs \ {o} : store'[p] = store[p] /\ file'[p] = file[p]
         /\ outcome = "saved" => store'[o] = record /\ file'[o] = record
BY DEF Written, TypeOK

LEMMA RemoveType ==
  ASSUME TypeOK, NEW o \in Outputs, NEW outcome, Remove(o, outcome)
  PROVE  /\ store' \in [Outputs -> Records] /\ file' \in [Outputs -> Records]
         /\ \A p \in Outputs \ {o} : store'[p] = store[p] /\ file'[p] = file[p]
         /\ outcome = "saved" => store'[o] = NoAssignment
<1>1. NoAssignment \in Records
  BY DEF Records
<1>2. CASE store[o] = NoAssignment
  BY <1>2 DEF Remove, TypeOK
<1>3. CASE store[o] # NoAssignment
  BY <1>1, <1>3, WrittenType DEF Remove
<1>4. QED
  BY <1>2, <1>3

\* A rollback whose write succeeds puts the old record back.
LEMMA RevertedType ==
  ASSUME TypeOK, NEW t \in Transaction, NEW outcome, Reverted(t, outcome)
  PROVE  /\ store' \in [Outputs -> Records] /\ file' \in [Outputs -> Records]
         /\ \A p \in Outputs \ {t.output} : store'[p] = store[p] /\ file'[p] = file[p]
         /\ outcome = "saved" => store'[t.output] = t.old
<1>1. t.output \in Outputs /\ t.old \in Records
  BY DEF Transaction
<1>2. CASE t.old = NoAssignment
  BY <1>1, <1>2, RemoveType DEF Reverted
<1>3. CASE t.old # NoAssignment
  BY <1>1, <1>3, WrittenType DEF Reverted, Set
<1>4. QED
  BY <1>2, <1>3

\* A caller that goes on stops waiting.
LEMMA AfterReplyType ==
  ASSUME NEW step \in Waiting, NEW ok \in BOOLEAN
  PROVE  AfterReply(step, ok) \in {"wait", "failed", "revert", "idle"}
BY DEF AfterReply, Waiting

-----------------------------------------------------------------------------
(* Type correctness, and who waits for an answer.                          *)

\* Every step of a thread, of the supervisor, of the user and of the daemon keeps
\* every variable in its type, and answers only threads that wait.
LEMMA TypeStep == TypeOK /\ CallersWait /\ RecordsRemembered /\ [Next]_vars => TypeOK'
<1> SUFFICES ASSUME TypeOK, CallersWait, RecordsRemembered, [Next]_vars
             PROVE  TypeOK'
  OBVIOUS
<1>t. /\ ServiceTypeOK
      /\ queue \in Seq(Command) /\ Len(queue) <= QueueMax
      /\ lock \in Actors \cup {Nobody}
      /\ txn \in [Actors -> Transaction]
      /\ store \in [Outputs -> Records] /\ file \in [Outputs -> Records]
      /\ desktop \in [Outputs -> Desktops]
  BY DEF TypeOK
<1>o. \A a \in Actors : txn[a].output \in Outputs
  BY <1>t, TransactionType
<1>s. UNCHANGED service => ServiceTypeOK'
  BY <1>t DEF ServiceTypeOK, service
<1>g. ASSUME NEW a \in Actors, NEW step \in Steps, Goto(a, step)
      PROVE  txn' \in [Actors -> Transaction]
  BY <1>g, <1>t, TransactionType DEF Goto
<1>i. ASSUME NEW a \in Actors, txn' = [txn EXCEPT ![a] = Idle]
      PROVE  txn' \in [Actors -> Transaction]
  BY <1>i, <1>t, IdleType
<1>q. ASSUME NEW a \in Actors, NEW cmd \in {"start", "retry", "stop", "ack"},
             NEW s \in Specs \cup {NoSpec}, Send(a, cmd, s)
      PROVE  queue' \in Seq(Command) /\ Len(queue') <= QueueMax
  <2>1. [by |-> a, cmd |-> cmd, spec |-> s] \in Command
    BY DEF Command
  <2>2. QED
    BY <1>q, <1>t, <2>1, QueueAssumption DEF Send
<1>1. CASE UNCHANGED vars
  BY <1>1, <1>t, <1>s DEF vars, applyVars, TypeOK
<1>2. ASSUME NEW a \in Actors, NEW step \in {"check", "enumerate"}, NEW o \in Outputs,
             NEW s \in Specs, Begin(a, step, o, s)
      PROVE  TypeOK'
  <2>1. [Idle EXCEPT !.step = step, !.output = o, !.spec = s,
                     !.found = [desktop |-> desktop[o], record |-> store[o]]] \in Transaction
    BY <1>t, IdleType DEF Transaction, Steps
  <2>2. QED
    BY <1>2, <1>t, <1>s, <2>1 DEF Begin, TypeOK
<1>3. ASSUME NEW applied, LanePasses(applied) PROVE TypeOK'
  BY <1>3, <1>t, <1>s, <1>g DEF LanePasses, TypeOK, Actors, Steps
<1>4. ASSUME NEW a \in Actors, Refuses(a) PROVE TypeOK'
  BY <1>4, <1>t, <1>s, <1>i DEF Refuses, TypeOK
<1>5. ASSUME NEW a \in Actors, Enumerates(a) PROVE TypeOK'
  <2>1. [txn[a] EXCEPT !.step = "record", !.previous = desktop[txn[a].output]] \in Transaction
    <3>1. "record" \in Steps
      BY DEF Steps
    <3>2. desktop[txn[a].output] \in Desktops /\ txn[a] \in Transaction
      BY <1>t, <1>o
    <3>3. \A step \in Steps, seen \in Desktops :
            [txn[a] EXCEPT !.step = step, !.previous = seen] \in Transaction
      BY <3>2, NotedType, NoAssignmentType
    <3>4. QED
      BY <3>1, <3>2, <3>3
  <2>2. txn' = [txn EXCEPT ![a] = [txn[a] EXCEPT !.step = "record",
                                                !.previous = desktop[txn[a].output]]]
    BY <1>5, <1>t DEF Enumerates
  <2>3. QED
    BY <1>5, <1>t, <1>s, <2>1, <2>2 DEF Enumerates, TypeOK
<1>6. ASSUME NEW a \in Actors, ReadsRecord(a) PROVE TypeOK'
  <2> DEFINE o == txn[a].output
             next == [txn[a] EXCEPT !.step = "start", !.old = store[o],
                                    !.previous = PreviousFor(o, txn[a].previous)]
  <2>1. PreviousFor(o, txn[a].previous) \in Desktops
    BY <1>t, <1>o DEF PreviousFor, Transaction, Records, Assignment
  <2>2. next \in Transaction
    <3>1. "start" \in Steps
      BY DEF Steps
    <3>2. store[o] \in Records /\ txn[a] \in Transaction
      BY <1>t, <1>o
    <3>3. QED
      BY <2>1, <3>1, <3>2, NotedType
  <2>3. txn' = [txn EXCEPT ![a] = next]
    BY <1>6, <1>t DEF ReadsRecord
  <2>4. QED
    BY <1>6, <1>t, <1>s, <2>2, <2>3 DEF ReadsRecord, TypeOK
<1>7. ASSUME NEW a \in Actors, SendsStart(a) PROVE TypeOK'
  <2>1. txn[a].spec \in Specs \cup {NoSpec}
    BY <1>t, TransactionType
  <2>2. QED
    BY <1>7, <1>t, <1>s, <1>q, <1>g, <2>1 DEF SendsStart, TypeOK, Steps
<1>8. ASSUME NEW a \in Actors, SeesPromotion(a) \/ SeesFailure(a) \/ EnsuresOurs(a) PROVE TypeOK'
  BY <1>8, <1>t, <1>s, <1>g DEF SeesPromotion, SeesFailure, EnsuresOurs, TypeOK, Steps
<1>9. ASSUME NEW a \in Actors, Persists(a) PROVE TypeOK'
  <2> DEFINE o == txn[a].output
             record == [wallpaper |-> txn[a].spec, previous |-> txn[a].previous]
  <2>1. PICK outcome \in WriteOutcomes :
          /\ Set(o, record, outcome)
          /\ txn' = [Disturb(txn, o, a) EXCEPT
                       ![a].step = IF outcome = "saved" THEN "switch" ELSE "failed"]
    BY <1>9 DEF Persists
  <2>2. store' \in [Outputs -> Records] /\ file' \in [Outputs -> Records]
    <3>1. record \in Records
      <4>1. txn[a].spec \in Specs
        BY <1>9 DEF RecordsRemembered, Remembers, Persists, At, Underway
      <4>2. QED
        BY <1>t, <4>1, TransactionType DEF Records, Assignment
    <3>2. QED
      BY <2>1, <3>1, <1>o, WrittenType DEF Set
  <2>3. txn' \in [Actors -> Transaction]
    <3>1. (IF outcome = "saved" THEN "switch" ELSE "failed") \in Steps
      BY DEF Steps
    <3>2. QED
      BY <1>t, <2>1, <3>1, DisturbGoto
  <2>4. QED
    BY <1>9, <1>t, <1>s, <2>2, <2>3 DEF Persists, TypeOK
<1>10. ASSUME NEW a \in Actors, Switches(a) PROVE TypeOK'
  <2>1. desktop' \in [Outputs -> Desktops]
    BY <1>10, <1>t DEF Switches, Desktops
  <2>2. txn' \in [Actors -> Transaction]
    <3>1. PICK step \in {"verify", "failed"} :
            txn' = [Disturb(txn, txn[a].output, a) EXCEPT ![a].step = step]
      BY <1>10 DEF Switches
    <3>2. step \in Steps
      BY DEF Steps
    <3>3. QED
      BY <1>t, <3>1, <3>2, DisturbGoto
  <2>3. QED
    BY <1>10, <1>t, <1>s, <2>1, <2>2 DEF Switches, TypeOK
<1>11. ASSUME NEW a \in Actors, Succeeds(a) PROVE TypeOK'
  BY <1>11, <1>t, <1>s, <1>i DEF Succeeds, TypeOK
<1>12. ASSUME NEW a \in Actors, VerifyFails(a) \/ FindsOurs(a) \/ LeavesRenderer(a) \/ QueueFull(a)
       PROVE  TypeOK'
  BY <1>12, <1>t, <1>s, <1>g DEF VerifyFails, FindsOurs, LeavesRenderer, QueueFull, TypeOK, Steps
<1>13. ASSUME NEW a \in Actors, SendsStop(a) PROVE TypeOK'
  BY <1>13, <1>t, <1>s, <1>q, <1>g DEF SendsStop, TypeOK, Steps
<1>14. ASSUME NEW a \in Actors, RevertsStore(a) PROVE TypeOK'
  <2>1. txn' \in [Actors -> Transaction]
    BY <1>14, <1>t, DisturbType, IdleType DEF RevertsStore
  <2>2. store' \in [Outputs -> Records] /\ file' \in [Outputs -> Records]
    BY <1>14, <1>t, RevertedType DEF RevertsStore
  <2>3. lock' \in Actors \cup {Nobody}
    BY <1>14 DEF RevertsStore
  <2>4. QED
    BY <1>14, <1>t, <1>s, <2>1, <2>2, <2>3 DEF RevertsStore, TypeOK
<1>15. ASSUME NEW o \in Outputs, RestoreBegins(o) PROVE TypeOK'
  <2> DEFINE target == IF store[o] = NoAssignment THEN StockConfig ELSE store[o].previous
             next == [Idle EXCEPT !.step = "restore", !.output = o, !.old = store[o],
                        !.found = [desktop |-> desktop[o], record |-> store[o]],
                        !.previous = target]
  <2>1. target \in Desktops
    BY <1>t, ConfigsAssumption DEF Records, Assignment, Desktops
  <2>2. next \in Transaction
    BY <1>t, <2>1, IdleType DEF Transaction, Steps
  <2>3. txn' = [txn EXCEPT !["api"] = next]
    BY <1>15 DEF RestoreBegins
  <2> HIDE DEF next
  <2>4. txn' \in [Actors -> Transaction]
    BY <1>t, <2>2, <2>3 DEF Actors
  <2>5. QED
    BY <1>15, <1>t, <1>s, <2>4 DEF RestoreBegins, TypeOK
<1>16. CASE Restores
  <2>1. desktop' \in [Outputs -> Desktops]
    <3>1. txn["api"].previous \in Desktops
      BY <1>t, TransactionType DEF Actors
    <3>2. QED
      BY <1>16, <1>t, <3>1 DEF Restores
  <2>2. txn' \in [Actors -> Transaction]
    <3> DEFINE d == Disturb(txn, txn["api"].output, "api")
    <3>1. "api" \in Actors /\ "confirm" \in Steps
      BY DEF Actors, Steps
    <3>2. CASE txn' = [d EXCEPT !["api"].step = "confirm"]
      BY <1>t, <3>1, <3>2, DisturbGoto
    <3>3. CASE txn' = [d EXCEPT !["api"] = Idle]
      BY <1>t, <3>1, <3>3, DisturbType, IdleType
    <3>4. QED
      BY <1>16, <3>2, <3>3 DEF Restores
  <2>3. QED
    BY <1>16, <1>t, <1>s, <2>1, <2>2 DEF Restores, TypeOK
<1>17. CASE RestoreConfirms
  BY <1>17, <1>t, <1>s, <1>g, <1>i DEF RestoreConfirms, TypeOK, Actors, Steps
<1>18. CASE Forgets
  <2>1. txn' \in [Actors -> Transaction]
    BY <1>18, <1>t, DisturbType, IdleType DEF Forgets, Actors
  <2>2. store' \in [Outputs -> Records] /\ file' \in [Outputs -> Records]
    BY <1>18, <1>t, <1>o, RemoveType DEF Forgets, Actors
  <2>3. QED
    BY <1>18, <1>t, <1>s, <2>1, <2>2 DEF Forgets, TypeOK
<1>19. ASSUME NEW cmd \in RawCommands, NEW s \in Specs \cup {NoSpec}, RawCommand(cmd, s) PROVE TypeOK'
  <2>1. cmd \in {"start", "retry", "stop", "ack"} /\ "api" \in Actors /\ "calling" \in Steps
    BY RawAssumption DEF Actors, Steps
  <2>2. txn' \in [Actors -> Transaction]
    BY <1>19, <1>g, <2>1 DEF RawCommand
  <2>3. queue' \in Seq(Command) /\ Len(queue') <= QueueMax
    BY <1>19, <1>q, <2>1 DEF RawCommand
  <2>4. QED
    BY <1>19, <1>t, <1>s, <2>2, <2>3 DEF RawCommand, TypeOK
<1>r. ASSUME NEW ok \in BOOLEAN, queue # <<>>, Replies(ok)
      PROVE  /\ queue' \in Seq(Command) /\ Len(queue') <= QueueMax
             /\ txn' \in [Actors -> Transaction]
             /\ UNCHANGED <<lock, store, file, desktop>>
  <2>1. queue' \in Seq(Command) /\ Len(queue') <= QueueMax
    BY <1>r, <1>t, QueueAssumption DEF Replies
  <2>2. Head(queue) = queue[1] /\ 1 \in DOMAIN queue /\ Head(queue) \in Command
    BY <1>r, <1>t
  <2>3. CASE Head(queue).by = Nobody
    BY <1>r, <1>t, <2>1, <2>3 DEF Replies
  <2>4. CASE Head(queue).by # Nobody
    <3> DEFINE a == Head(queue).by
               step == AfterReply(txn[a].step, ok)
    <3>1. a \in Actors /\ txn[a].step \in Waiting
      BY <2>2, <2>4 DEF CallersWait, Command
    <3>2. step \in Steps
      BY <3>1, AfterReplyType DEF Steps
    <3>3. txn' = [txn EXCEPT ![a] = IF step = "idle" THEN Idle ELSE [txn[a] EXCEPT !.step = step]]
      BY <1>r, <1>t, <2>4, <3>1 DEF Replies
    <3> HIDE DEF step
    <3>4. (IF step = "idle" THEN Idle ELSE [txn[a] EXCEPT !.step = step]) \in Transaction
      BY <1>t, <3>1, <3>2, IdleType, TransactionType
    <3>5. QED
      BY <1>r, <1>t, <2>1, <3>1, <3>3, <3>4 DEF Replies
  <2>5. QED
    BY <2>3, <2>4
<1>20. CASE SupervisorExecutes
  <2>1. ASSUME queue # <<>>
        PROVE  Head(queue).spec \in Specs \cup {NoSpec}
    <3>1. Head(queue) \in Command
      BY <1>t, <2>1
    <3>2. QED
      BY <3>1 DEF Command
  <2>2. CASE ExecutesStart
    BY <2>2, <1>t, <1>r, <2>1, ServiceTypes DEF ExecutesStart, TypeOK
  <2>3. CASE StartErrs
    BY <2>3, <1>t, <1>r, <1>s, ServiceTypes DEF StartErrs, TypeOK
  <2>4. CASE ExecutesStop
    BY <2>4, <1>t, <1>r, ServiceTypes DEF ExecutesStop, TypeOK
  <2>5. CASE ExecutesAck
    BY <2>5, <1>t, <1>r, <1>s, ServiceTypes DEF ExecutesAck, TypeOK
  <2>6. QED
    BY <1>20, <2>2, <2>3, <2>4, <2>5 DEF SupervisorExecutes
<1>21. ASSUME NEW a \in Actors, CallTimesOut(a) PROVE TypeOK'
  <2>1. PICK i \in DOMAIN queue : queue[i].by = a /\ queue' = [queue EXCEPT ![i].by = Nobody]
    BY <1>21 DEF CallTimesOut
  <2>2. [queue[i] EXCEPT !.by = Nobody] \in Command
    <3>1. queue[i] \in Command
      BY <1>t
    <3>2. QED
      BY <3>1 DEF Command
  <2>3. queue' \in Seq(Command) /\ Len(queue') <= QueueMax
    BY <1>t, <2>1, <2>2
  <2> DEFINE step == AfterReply(txn[a].step, FALSE)
  <2>4. txn[a].step \in Waiting
    <3>1. a # Nobody
      BY DEF Actors, Nobody
    <3>2. QED
      BY <2>1, <3>1 DEF CallersWait
  <2>5. step \in Steps
    BY <2>4, AfterReplyType DEF Steps
  <2>6. txn' = [txn EXCEPT ![a] = IF step = "idle" THEN Idle ELSE [txn[a] EXCEPT !.step = step]]
    BY <1>21, <1>t DEF CallTimesOut
  <2> HIDE DEF step
  <2>7. (IF step = "idle" THEN Idle ELSE [txn[a] EXCEPT !.step = step]) \in Transaction
    BY <1>t, <2>5, IdleType, TransactionType
  <2>8. txn' \in [Actors -> Transaction]
    BY <1>t, <2>6, <2>7
  <2>9. QED
    BY <1>21, <1>t, <1>s, <2>3, <2>8 DEF CallTimesOut, TypeOK
<1>22. CASE SupervisorSteps
  BY <1>22, <1>t, WatchedType, ServiceTypes DEF SupervisorSteps, TypeOK
<1>23. ASSUME NEW o \in Outputs, NEW c \in Configs, UserPicks(o, c) PROVE TypeOK'
  BY <1>23, <1>t, <1>s, DisturbType DEF UserPicks, TypeOK, Desktops
<1>24. CASE DaemonRestarts
  BY <1>24, <1>t, IdleType, ServiceTypes, QueueAssumption DEF DaemonRestarts, TypeOK
<1>25. QED
  <2>1. CASE Clients
    BY <2>1, <1>2, <1>15, <1>19 DEF Clients, ApplyBegins, LaneBegins, Actors
  <2>2. ASSUME NEW a \in Actors, Proceeds(a) PROVE TypeOK'
    BY <2>2, <1>4, <1>5, <1>6, <1>7, <1>8, <1>9, <1>10, <1>11, <1>12, <1>13, <1>14 DEF Proceeds
  <2>3. CASE LaneChecks
    BY <2>3, <1>3 DEF LaneChecks
  <2>4. CASE RestoreProceeds
    BY <2>4, <1>16, <1>17, <1>18 DEF RestoreProceeds
  <2>5. QED
    BY <1>1, <1>20, <1>21, <1>22, <1>23, <1>24, <2>1, <2>2, <2>3, <2>4 DEF Next

\* While no command is sent or answered, those who wait go on waiting.
LEMMA QueueKept ==
  ASSUME TypeOK, CallersWait, UNCHANGED queue,
         \A b \in Actors : txn[b].step \in Waiting => txn'[b].step = txn[b].step
  PROVE  CallersWait'
<1>1. \A i \in DOMAIN queue : queue[i].by \in Actors \cup {Nobody}
  <2>1. queue \in Seq(Command)
    BY DEF TypeOK
  <2>2. \A i \in DOMAIN queue : queue[i] \in Command
    BY <2>1
  <2>3. QED
    BY <2>2 DEF Command
<1>2. QED
  BY <1>1 DEF CallersWait

\* A thread that sends its command begins to wait for it.
LEMMA QueueSent ==
  ASSUME TypeOK, CallersWait,
         NEW a \in Actors, txn[a].step \notin Waiting,
         NEW cmd, NEW s, Send(a, cmd, s),
         NEW step \in Waiting, Goto(a, step)
  PROVE  CallersWait'
<1> DEFINE c == [by |-> a, cmd |-> cmd, spec |-> s]
<1>1. /\ queue \in Seq(Command) /\ txn \in [Actors -> Transaction]
      /\ queue' = Append(queue, c) /\ c.by = a
  BY DEF TypeOK, Send
<1>2. /\ Len(queue') = Len(queue) + 1 /\ queue'[Len(queue) + 1] = c
      /\ \A i \in 1..Len(queue) : queue'[i] = queue[i]
      /\ Len(queue) \in Nat
      /\ DOMAIN queue' = 1..(Len(queue) + 1) /\ DOMAIN queue = 1..Len(queue)
  BY <1>1
<1>3. \A i \in 1..Len(queue) :
        /\ queue[i].by \in Actors \cup {Nobody} /\ queue[i].by # a
        /\ queue[i].by # Nobody => txn[queue[i].by].step \in Waiting
  <2>1. \A i \in 1..Len(queue) : queue[i] \in Command
    BY <1>1
  <2>2. a # Nobody
    BY DEF Actors, Nobody
  <2>3. QED
    BY <1>2, <2>1, <2>2 DEF CallersWait, Command
<1>4. /\ txn'[a].step = step
      /\ \A b \in Actors \ {a} : txn'[b] = txn[b]
  BY <1>1 DEF Goto, Transaction
<1> HIDE DEF c
<1>5. ASSUME NEW i \in DOMAIN queue', queue'[i].by # Nobody PROVE txn'[queue'[i].by].step \in Waiting
  <2>1. CASE i = Len(queue) + 1
    BY <1>1, <1>2, <1>4, <2>1
  <2>2. CASE i \in 1..Len(queue)
    BY <1>2, <1>3, <1>4, <1>5, <2>2
  <2>3. QED
    BY <1>2, <2>1, <2>2
<1>6. ASSUME NEW i \in DOMAIN queue', NEW j \in DOMAIN queue',
             queue'[i].by # Nobody, queue'[i].by = queue'[j].by
      PROVE  i = j
  <2>1. CASE i \in 1..Len(queue) /\ j \in 1..Len(queue)
    BY <1>2, <1>6, <2>1 DEF CallersWait
  <2>2. CASE i = Len(queue) + 1 \/ j = Len(queue) + 1
    BY <1>1, <1>2, <1>3, <1>6, <2>2
  <2>3. QED
    BY <1>2, <2>1, <2>2
<1>7. QED
  BY <1>5, <1>6 DEF CallersWait

\* An answer reaches the thread that waits for it, and it has no other command.
LEMMA QueueAnswered ==
  ASSUME TypeOK, CallersWait, NEW ok \in BOOLEAN, queue # <<>>, Replies(ok)
  PROVE  CallersWait'
<1>1. /\ queue \in Seq(Command) /\ txn \in [Actors -> Transaction]
      /\ queue' = Tail(queue) /\ 1 \in DOMAIN queue /\ Head(queue) = queue[1]
  BY DEF TypeOK, Replies
<1>2. /\ DOMAIN queue' = 1..(Len(queue) - 1) /\ DOMAIN queue = 1..Len(queue)
      /\ \A i \in 1..(Len(queue) - 1) :
           queue'[i] = queue[i + 1] /\ i + 1 \in 1..Len(queue)
      /\ Len(queue) \in Nat /\ Len(queue) > 0
  BY <1>1
<1>3. \A i \in 1..(Len(queue) - 1) : queue'[i].by # Nobody => queue'[i].by # queue[1].by
  BY <1>1, <1>2 DEF CallersWait
<1>4. \A b \in Actors : b # queue[1].by => txn'[b] = txn[b]
  BY <1>1 DEF Replies
<1>5. \A i \in 1..(Len(queue) - 1) : queue'[i].by \in Actors \cup {Nobody}
  <2>1. \A i \in 1..Len(queue) : queue[i] \in Command
    BY <1>1
  <2>2. QED
    BY <1>2, <2>1 DEF Command
<1>6. ASSUME NEW i \in DOMAIN queue', queue'[i].by # Nobody PROVE txn'[queue'[i].by].step \in Waiting
  <2>1. txn'[queue'[i].by] = txn[queue[i + 1].by]
    <3>1. i \in 1..(Len(queue) - 1) /\ queue'[i].by = queue[i + 1].by
      BY <1>2, <1>6
    <3>2. queue'[i].by \in Actors
      BY <1>5, <1>6, <3>1
    <3>3. queue'[i].by # queue[1].by
      BY <1>3, <1>6, <3>1
    <3>4. QED
      BY <1>4, <3>1, <3>2, <3>3
  <2>2. queue[i + 1].by # Nobody
    BY <1>2, <1>6
  <2>3. QED
    BY <1>2, <2>1, <2>2 DEF CallersWait
<1>7. ASSUME NEW i \in DOMAIN queue', NEW j \in DOMAIN queue',
             queue'[i].by # Nobody, queue'[i].by = queue'[j].by
      PROVE  i = j
  <2>1. /\ i + 1 \in DOMAIN queue /\ j + 1 \in DOMAIN queue
        /\ queue[i + 1].by # Nobody /\ queue[i + 1].by = queue[j + 1].by
    BY <1>2, <1>7
  <2>2. \A k, l \in DOMAIN queue :
          queue[k].by # Nobody /\ queue[k].by = queue[l].by => k = l
    BY DEF CallersWait
  <2>3. i + 1 = j + 1
    BY <2>1, <2>2
  <2>4. QED
    BY <1>2, <2>3
<1>8. QED
  BY <1>6, <1>7 DEF CallersWait

\* A thread that gives up waiting leaves its command to nobody.
LEMMA QueueAbandoned ==
  ASSUME TypeOK, CallersWait, NEW a \in Actors, CallTimesOut(a)
  PROVE  CallersWait'
<1>1. PICK i \in DOMAIN queue : queue[i].by = a /\ queue' = [queue EXCEPT ![i].by = Nobody]
  BY DEF CallTimesOut
<1>2. queue \in Seq(Command) /\ txn \in [Actors -> Transaction] /\ a # Nobody
  BY DEF TypeOK, Actors, Nobody
<1>3. \A j \in DOMAIN queue : queue[j].by \in Actors \cup {Nobody} /\ queue[j] \in Command
  <2>1. \A j \in DOMAIN queue : queue[j] \in Command
    BY <1>2
  <2>2. QED
    BY <2>1 DEF Command
<1>4. /\ DOMAIN queue' = DOMAIN queue
      /\ queue'[i].by = Nobody
      /\ \A j \in DOMAIN queue \ {i} : queue'[j] = queue[j] /\ queue[j].by # a
  <2>1. DOMAIN queue' = DOMAIN queue /\ \A j \in DOMAIN queue \ {i} : queue'[j] = queue[j]
    BY <1>1, <1>2
  <2>2. queue'[i].by = Nobody
    BY <1>1, <1>3 DEF Command
  <2>3. \A j \in DOMAIN queue \ {i} : queue[j].by # a
    BY <1>1, <1>2 DEF CallersWait
  <2>4. QED
    BY <2>1, <2>2, <2>3
<1>5. \A b \in Actors \ {a} : txn'[b] = txn[b]
  BY <1>2 DEF CallTimesOut
<1>6. \A j \in DOMAIN queue' : queue'[j].by # Nobody => txn'[queue'[j].by].step \in Waiting
  BY <1>1, <1>3, <1>4, <1>5 DEF CallersWait
<1>7. \A j, k \in DOMAIN queue' : queue'[j].by # Nobody /\ queue'[j].by = queue'[k].by => j = k
  BY <1>4 DEF CallersWait
<1>8. QED
  BY <1>6, <1>7 DEF CallersWait

\* Only a thread that does not wait moves of its own.
LEMMA CallersStep == TypeOK /\ CallersWait /\ [Next]_vars => CallersWait'
<1> SUFFICES ASSUME TypeOK, CallersWait, [Next]_vars
             PROVE  CallersWait'
  OBVIOUS
<1> DEFINE Keeps == UNCHANGED queue /\
                    \A b \in Actors : txn[b].step \in Waiting => txn'[b].step = txn[b].step
<1>t. txn \in [Actors -> Transaction]
  BY DEF TypeOK
<1>k. Keeps => CallersWait'
  BY QueueKept
<1>g. ASSUME NEW a \in Actors, NEW step, txn[a].step \notin Waiting, Goto(a, step), UNCHANGED queue
      PROVE  CallersWait'
  <2>1. Keeps
    BY <1>g, <1>t DEF Goto
  <2>2. QED
    BY <1>k, <2>1
<1>i. ASSUME NEW a \in Actors, NEW t, txn[a].step \notin Waiting, UNCHANGED queue,
             \/ txn' = [txn EXCEPT ![a] = t]
             \/ \E o : txn' = [Disturb(txn, o, a) EXCEPT ![a] = t]
      PROVE  CallersWait'
  <2>1. Keeps
    BY <1>i, <1>t, DisturbType
  <2>2. QED
    BY <1>k, <2>1
<1>d. ASSUME NEW a \in Actors, NEW step \in Steps, NEW o, txn[a].step \notin Waiting, UNCHANGED queue,
             txn' = [Disturb(txn, o, a) EXCEPT ![a].step = step]
      PROVE  CallersWait'
  <2>1. Keeps
    BY <1>d, <1>t, DisturbGoto, DisturbType
  <2>2. QED
    BY <1>k, <2>1
<1>1. CASE UNCHANGED vars
  <2>1. Keeps
    BY <1>1 DEF vars, applyVars
  <2>2. QED
    BY <1>k, <2>1
<1>2. ASSUME NEW a \in Actors, NEW step, NEW o, NEW s, Begin(a, step, o, s)
      PROVE  CallersWait'
  BY <1>2, <1>i DEF Begin, At, Waiting
<1>3. CASE LaneChecks
  BY <1>3, <1>g DEF LaneChecks, LanePasses, At, Waiting, Actors
<1>4. ASSUME NEW a \in Actors, Refuses(a) \/ Succeeds(a) PROVE CallersWait'
  BY <1>4, <1>i DEF Refuses, Succeeds, At, Waiting
<1>5. ASSUME NEW a \in Actors, Enumerates(a) \/ ReadsRecord(a) PROVE CallersWait'
  <2>1. Keeps
    BY <1>5, <1>t DEF Enumerates, ReadsRecord, At, Waiting
  <2>2. QED
    BY <1>k, <2>1
<1>6. ASSUME NEW a \in Actors,
             \/ SeesPromotion(a) \/ SeesFailure(a) \/ EnsuresOurs(a)
             \/ VerifyFails(a) \/ FindsOurs(a) \/ LeavesRenderer(a) \/ QueueFull(a)
      PROVE  CallersWait'
  BY <1>6, <1>g DEF SeesPromotion, SeesFailure, EnsuresOurs, VerifyFails, FindsOurs,
                    LeavesRenderer, QueueFull, At, Waiting
<1>7. ASSUME NEW a \in Actors, Persists(a) PROVE CallersWait'
  <2>1. PICK step \in Steps : txn' = [Disturb(txn, txn[a].output, a) EXCEPT ![a].step = step]
    BY <1>7 DEF Persists, Steps
  <2>2. QED
    BY <1>7, <1>d, <2>1 DEF Persists, At, Waiting
<1>8. ASSUME NEW a \in Actors, Switches(a) PROVE CallersWait'
  <2>1. PICK step \in Steps : txn' = [Disturb(txn, txn[a].output, a) EXCEPT ![a].step = step]
    BY <1>8 DEF Switches, Steps
  <2>2. QED
    BY <1>8, <1>d, <2>1 DEF Switches, At, Waiting
<1>9. ASSUME NEW a \in Actors, RevertsStore(a) PROVE CallersWait'
  BY <1>9, <1>i DEF RevertsStore, At, Waiting
<1>10. ASSUME NEW o \in Outputs, RestoreBegins(o) PROVE CallersWait'
  BY <1>10, <1>i DEF RestoreBegins, At, Waiting, Actors
<1>11. CASE Restores
  <2>1. "api" \in Actors /\ "confirm" \in Steps
    BY DEF Actors, Steps
  <2>2. QED
    BY <1>11, <1>i, <1>d, <2>1 DEF Restores, At, Waiting
<1>12. CASE RestoreConfirms
  BY <1>12, <1>i, <1>g DEF RestoreConfirms, At, Waiting, Actors
<1>13. CASE Forgets
  BY <1>13, <1>i DEF Forgets, At, Waiting, Actors
<1>14. ASSUME NEW a \in Actors, SendsStart(a) \/ SendsStop(a) PROVE CallersWait'
  BY <1>14, QueueSent DEF SendsStart, SendsStop, At, Waiting
<1>15. ASSUME NEW cmd, NEW s, RawCommand(cmd, s) PROVE CallersWait'
  BY <1>15, QueueSent DEF RawCommand, At, Waiting, Actors
<1>16. CASE SupervisorExecutes
  <2>1. queue # <<>> /\ \E ok \in BOOLEAN : Replies(ok)
    BY <1>16 DEF SupervisorExecutes, ExecutesStart, StartErrs, ExecutesStop, ExecutesAck
  <2>2. QED
    BY <2>1, QueueAnswered
<1>17. ASSUME NEW a \in Actors, CallTimesOut(a) PROVE CallersWait'
  BY <1>17, QueueAbandoned
<1>18. CASE SupervisorSteps
  <2>1. Keeps
    BY <1>18, <1>t, WatchedType DEF SupervisorSteps, Transaction
  <2>2. QED
    BY <1>k, <2>1
<1>19. ASSUME NEW o, NEW c, UserPicks(o, c) PROVE CallersWait'
  <2>1. Keeps
    BY <1>19, <1>t, DisturbType DEF UserPicks
  <2>2. QED
    BY <1>k, <2>1
<1>20. CASE DaemonRestarts
  BY <1>20 DEF DaemonRestarts, CallersWait
<1>21. QED
  <2>1. CASE Clients
    BY <2>1, <1>2, <1>10, <1>15 DEF Clients, ApplyBegins, LaneBegins, Actors
  <2>2. ASSUME NEW a \in Actors, Proceeds(a) PROVE CallersWait'
    BY <2>2, <1>4, <1>5, <1>6, <1>7, <1>8, <1>9, <1>14 DEF Proceeds
  <2>3. CASE RestoreProceeds
    BY <2>3, <1>11, <1>12, <1>13 DEF RestoreProceeds
  <2>4. QED
    BY <1>1, <1>3, <1>16, <1>17, <1>18, <1>19, <1>20, <2>1, <2>2, <2>3 DEF Next

-----------------------------------------------------------------------------
(* What a transaction remembers.                                           *)

\* A thread that has not moved on, while the store, the file and the desktop
\* stay as they are.
LEMMA SameRemembered ==
  ASSUME NEW a \in Actors, Remembers(txn[a]), UNCHANGED <<store, file, desktop>>,
         /\ txn'[a].step = txn[a].step /\ txn'[a].output = txn[a].output
         /\ txn'[a].spec = txn[a].spec /\ txn'[a].previous = txn[a].previous
         /\ txn'[a].old = txn[a].old /\ txn'[a].found = txn[a].found
  PROVE  Remembers(txn[a])'
BY DEF Remembers, Undisturbed, Original

\* A thread at another output, or one whose output is disturbed, when one
\* output changes.
LEMMA OthersRemembered ==
  ASSUME TypeOK, RecordsRemembered, NEW a, NEW b \in Actors \ {a}, NEW o \in Outputs,
         txn'[b] = Disturb(txn, o, a)[b],
         \A p \in Outputs \ {o} :
           store'[p] = store[p] /\ file'[p] = file[p] /\ desktop'[p] = desktop[p]
  PROVE  Remembers(txn[b])'
<1>t. txn \in [Actors -> Transaction] /\ txn[b].output \in Outputs /\ Remembers(txn[b])
  BY DEF TypeOK, Transaction, RecordsRemembered
<1>1. CASE txn[b].output = o
  BY <1>1, <1>t, DisturbType DEF Remembers, Undisturbed
<1>2. CASE txn[b].output # o
  BY <1>2, <1>t, DisturbType DEF Remembers, Undisturbed, Original
<1>3. QED
  BY <1>1, <1>2

\* An idle thread has nothing to remember.
LEMMA IdleRemembered ==
  ASSUME NEW a \in Actors, txn'[a] = Idle
  PROVE  Remembers(txn[a])'
BY DEF Idle, Remembers, Undisturbed, Before, Underway

\* A thread that goes on from a step where the same is remembered.
LEMMA GoesOn ==
  ASSUME NEW a \in Actors, txn[a] \in Transaction, Remembers(txn[a]), NEW step,
         txn'[a] = [txn[a] EXCEPT !.step = step],
         UNCHANGED <<store, file, desktop>>,
         \/ step = "idle" \/ step = "calling"
         \/ step = "enumerate" /\ txn[a].step = "check"
         \/ step \in Underway \ {"switch", "verify"} /\ txn[a].step \in Underway
         \/ step = "forget" /\ txn[a].step = "confirm"
            /\ desktop[txn[a].output] = txn[a].previous
  PROVE  Remembers(txn[a])'
<1>1. /\ txn'[a].step = step /\ txn'[a].output = txn[a].output
      /\ txn'[a].spec = txn[a].spec /\ txn'[a].previous = txn[a].previous
      /\ txn'[a].old = txn[a].old /\ txn'[a].found = txn[a].found
  BY DEF Transaction
<1>2. QED
  BY <1>1 DEF Remembers, Undisturbed, Original, Before, Underway, Restoring

\* Every step keeps what each undisturbed transaction found on record.
LEMMA RecordsStep == TypeOK /\ CallersWait /\ RecordsRemembered /\ [Next]_vars => RecordsRemembered'
<1> SUFFICES ASSUME TypeOK, CallersWait, RecordsRemembered, [Next]_vars
             PROVE  RecordsRemembered'
  OBVIOUS
<1>t. /\ txn \in [Actors -> Transaction]
      /\ \A a \in Actors : txn[a] \in Transaction /\ txn[a].output \in Outputs /\ Remembers(txn[a])
      /\ store \in [Outputs -> Records] /\ file \in [Outputs -> Records]
      /\ desktop \in [Outputs -> Desktops]
  BY DEF TypeOK, Transaction, RecordsRemembered
<1>k. ASSUME NEW a \in Actors, NEW t, txn' = [txn EXCEPT ![a] = t],
             UNCHANGED <<store, file, desktop>>, Remembers(txn[a])'
      PROVE  RecordsRemembered'
  BY <1>k, <1>t, SameRemembered DEF RecordsRemembered
<1>d. ASSUME NEW a \in Actors, NEW o \in Outputs,
             \A b \in Actors \ {a} : txn'[b] = Disturb(txn, o, a)[b],
             \A p \in Outputs \ {o} :
               store'[p] = store[p] /\ file'[p] = file[p] /\ desktop'[p] = desktop[p],
             Remembers(txn[a])'
      PROVE  RecordsRemembered'
  BY <1>d, OthersRemembered DEF RecordsRemembered
<1>g. ASSUME NEW a \in Actors, NEW step, Goto(a, step), UNCHANGED <<store, file, desktop>>,
             \/ step = "calling"
             \/ step = "enumerate" /\ txn[a].step = "check"
             \/ step \in Underway \ {"switch", "verify"} /\ txn[a].step \in Underway
             \/ step = "forget" /\ txn[a].step = "confirm"
                /\ desktop[txn[a].output] = txn[a].previous
      PROVE  RecordsRemembered'
  <2>1. txn' = [txn EXCEPT ![a] = [txn[a] EXCEPT !.step = step]]
    BY <1>g, <1>t DEF Goto
  <2>2. Remembers(txn[a])'
    <3>1. txn'[a] = [txn[a] EXCEPT !.step = step]
      BY <2>1, <1>t
    <3>2. QED
      BY <1>g, <1>t, <3>1, GoesOn
  <2>3. QED
    BY <1>g, <1>k, <2>1, <2>2
<1>i. ASSUME NEW a \in Actors, txn' = [txn EXCEPT ![a] = Idle], UNCHANGED <<store, file, desktop>>
      PROVE  RecordsRemembered'
  <2>1. Remembers(txn[a])'
    BY <1>i, <1>t, IdleRemembered
  <2>2. QED
    BY <1>i, <1>k, <2>1
<1>1. CASE UNCHANGED vars
  BY <1>1, <1>t, SameRemembered DEF vars, applyVars, RecordsRemembered
<1>2. ASSUME NEW a \in Actors, NEW step \in {"check", "enumerate"}, NEW o \in Outputs,
             NEW s \in Specs, Begin(a, step, o, s)
      PROVE  RecordsRemembered'
  <2> DEFINE next == [Idle EXCEPT !.step = step, !.output = o, !.spec = s,
                        !.found = [desktop |-> desktop[o], record |-> store[o]]]
  <2>1. /\ next.step = step /\ next.output = o /\ next.spec = s
        /\ next.found = [desktop |-> desktop[o], record |-> store[o]]
    BY DEF Idle
  <2>2. txn' = [txn EXCEPT ![a] = next] /\ UNCHANGED <<store, file, desktop>>
    BY <1>2 DEF Begin
  <2> HIDE DEF next
  <2>3. Remembers(txn[a])'
    BY <1>t, <2>1, <2>2 DEF Remembers, Before, Underway, Restoring
  <2>4. QED
    BY <1>k, <2>2, <2>3
<1>3. CASE LaneChecks
  BY <1>3, <1>g DEF LaneChecks, LanePasses, At, Actors
<1>4. ASSUME NEW a \in Actors, Refuses(a) \/ Succeeds(a) PROVE RecordsRemembered'
  BY <1>4, <1>i DEF Refuses, Succeeds
<1>5. ASSUME NEW a \in Actors, Enumerates(a) PROVE RecordsRemembered'
  <2> DEFINE next == [txn[a] EXCEPT !.step = "record", !.previous = desktop[txn[a].output]]
  <2>1. txn' = [txn EXCEPT ![a] = next] /\ UNCHANGED <<store, file, desktop>>
        /\ txn[a].step = "enumerate"
    BY <1>5, <1>t DEF Enumerates, At
  <2>2. /\ next.step = "record" /\ next.previous = desktop[txn[a].output]
        /\ next.output = txn[a].output /\ next.found = txn[a].found /\ next.spec = txn[a].spec
    BY <1>t DEF Transaction
  <2> HIDE DEF next
  <2>3. /\ txn[a].spec \in Specs
        /\ Undisturbed(txn[a]) => /\ txn[a].found.desktop = desktop[txn[a].output]
                                  /\ txn[a].found.record = store[txn[a].output]
    <3>1. Remembers(txn[a])
      BY <1>t
    <3>2. QED
      BY <2>1, <3>1 DEF Remembers, Before
  <2>4. Remembers(txn[a])'
    <3>1. txn'[a] = next
      BY <1>t, <2>1
    <3>2. QED
      BY <2>1, <2>2, <2>3, <3>1 DEF Remembers, Undisturbed, Before, Underway, Restoring
  <2>5. QED
    BY <1>k, <2>1, <2>4
<1>6. ASSUME NEW a \in Actors, ReadsRecord(a) PROVE RecordsRemembered'
  <2> DEFINE o == txn[a].output
             next == [txn[a] EXCEPT !.step = "start", !.old = store[o],
                                    !.previous = PreviousFor(o, txn[a].previous)]
  <2>1. txn' = [txn EXCEPT ![a] = next] /\ UNCHANGED <<store, file, desktop>>
        /\ txn[a].step = "record"
    BY <1>6, <1>t DEF ReadsRecord, At
  <2>2. /\ next.step = "start" /\ next.previous = PreviousFor(o, txn[a].previous)
        /\ next.old = store[o] /\ next.spec = txn[a].spec
        /\ next.output = o /\ next.found = txn[a].found
    BY <1>t DEF Transaction
  <2> HIDE DEF next
  <2>3. /\ txn[a].spec \in Specs
        /\ Undisturbed(txn[a]) => /\ txn[a].found.record = store[o]
                                  /\ PreviousFor(o, txn[a].previous) = Original(txn[a])
    <3>1. Remembers(txn[a])
      BY <1>t
    <3>2. QED
      BY <2>1, <3>1 DEF Remembers, PreviousFor, Original, Before
  <2>4. Remembers(txn[a])'
    <3>1. txn'[a] = next
      BY <1>t, <2>1
    <3>2. QED
      BY <2>2, <2>3, <3>1 DEF Remembers, Undisturbed, Original, Before, Underway, Restoring
  <2>5. QED
    BY <1>k, <2>1, <2>4
<1>7. ASSUME NEW a \in Actors,
             \/ SendsStart(a) \/ SeesPromotion(a) \/ SeesFailure(a) \/ EnsuresOurs(a)
             \/ VerifyFails(a) \/ FindsOurs(a) \/ LeavesRenderer(a) \/ SendsStop(a) \/ QueueFull(a)
      PROVE  RecordsRemembered'
  BY <1>7, <1>g DEF SendsStart, SeesPromotion, SeesFailure, EnsuresOurs, VerifyFails,
                    FindsOurs, LeavesRenderer, SendsStop, QueueFull, At, Underway
<1>8. ASSUME NEW a \in Actors, Persists(a) PROVE RecordsRemembered'
  <2> DEFINE o == txn[a].output
             record == [wallpaper |-> txn[a].spec, previous |-> txn[a].previous]
  <2>1. PICK outcome \in WriteOutcomes :
          /\ Set(o, record, outcome)
          /\ txn' = [Disturb(txn, o, a) EXCEPT
                       ![a].step = IF outcome = "saved" THEN "switch" ELSE "failed"]
    BY <1>8 DEF Persists
  <2>2. txn[a].step = "persist" /\ UNCHANGED desktop
    BY <1>8 DEF Persists, At
  <2>3. /\ \A p \in Outputs \ {o} : store'[p] = store[p] /\ file'[p] = file[p]
        /\ outcome = "saved" => file'[o] = record
    <3>1. record \in Records
      BY <1>t, <2>2, TransactionType DEF Remembers, Underway, Records, Assignment
    <3>2. QED
      BY <2>1, <3>1, <1>t, WrittenType DEF Set
  <2>4. PICK step \in {"switch", "failed"} :
          /\ step = "switch" => outcome = "saved"
          /\ txn' = [Disturb(txn, o, a) EXCEPT ![a].step = step]
    BY <2>1
  <2>5. step \in Steps
    BY DEF Steps
  <2>6. /\ txn'[a] = [txn[a] EXCEPT !.step = step]
        /\ \A b \in Actors \ {a} : txn'[b] = Disturb(txn, o, a)[b]
    BY <1>t, <2>4, <2>5, DisturbGoto
  <2>7. Remembers(txn[a])'
    <3>1. /\ txn'[a].step = step /\ txn'[a].output = txn[a].output
          /\ txn'[a].spec = txn[a].spec /\ txn'[a].previous = txn[a].previous
          /\ txn'[a].old = txn[a].old /\ txn'[a].found = txn[a].found
      BY <1>t, <2>6 DEF Transaction
    <3>2. /\ txn[a].spec \in Specs
          /\ Undisturbed(txn[a]) => /\ txn[a].old = txn[a].found.record
                                    /\ txn[a].previous = Original(txn[a])
      <4>1. Remembers(txn[a])
        BY <1>t
      <4>2. QED
        BY <2>2, <4>1 DEF Remembers, Underway
    <3>3. step = "switch" => file'[txn'[a].output] = record
      BY <2>3, <2>4, <3>1
    <3>4. Original(txn'[a]) = Original(txn[a])
      BY <3>1 DEF Original
    <3>5. Undisturbed(txn'[a]) <=> Undisturbed(txn[a])
      BY <3>1 DEF Undisturbed
    <3>6. step \notin Before \cup Restoring \cup {"verify", "record", "forget"}
      BY DEF Before, Restoring
    <3>7. QED
      BY <3>1, <3>2, <3>3, <3>4, <3>5, <3>6 DEF Remembers
  <2>8. QED
    BY <1>d, <1>t, <2>2, <2>3, <2>6, <2>7
<1>9. ASSUME NEW a \in Actors, Switches(a) PROVE RecordsRemembered'
  <2> DEFINE o == txn[a].output
  <2>1. PICK step \in {"verify", "failed"} :
          txn' = [Disturb(txn, o, a) EXCEPT ![a].step = step]
    BY <1>9 DEF Switches
  <2>2. /\ txn[a].step = "switch" /\ UNCHANGED <<store, file>>
        /\ \A p \in Outputs \ {o} : desktop'[p] = desktop[p]
    BY <1>9, <1>t DEF Switches, At
  <2>3. step \in Steps
    BY DEF Steps
  <2>4. /\ txn'[a] = [txn[a] EXCEPT !.step = step]
        /\ \A b \in Actors \ {a} : txn'[b] = Disturb(txn, o, a)[b]
    BY <1>t, <2>1, <2>3, DisturbGoto
  <2>5. Remembers(txn[a])'
    <3>1. /\ txn'[a].step = step /\ txn'[a].output = txn[a].output
          /\ txn'[a].spec = txn[a].spec /\ txn'[a].previous = txn[a].previous
          /\ txn'[a].old = txn[a].old /\ txn'[a].found = txn[a].found
      BY <1>t, <2>4 DEF Transaction
    <3>2. /\ txn[a].spec \in Specs
          /\ Undisturbed(txn[a]) =>
               /\ txn[a].old = txn[a].found.record
               /\ txn[a].previous = Original(txn[a])
               /\ file[txn[a].output] = [wallpaper |-> txn[a].spec, previous |-> txn[a].previous]
      <4>1. Remembers(txn[a])
        BY <1>t
      <4>2. QED
        BY <2>2, <4>1 DEF Remembers, Underway
    <3>3. Original(txn'[a]) = Original(txn[a])
      BY <3>1 DEF Original
    <3>4. Undisturbed(txn'[a]) <=> Undisturbed(txn[a])
      BY <3>1 DEF Undisturbed
    <3>5. step \notin Before \cup Restoring \cup {"record", "forget"}
      BY DEF Before, Restoring
    <3>6. QED
      BY <2>2, <3>1, <3>2, <3>3, <3>4, <3>5 DEF Remembers
  <2>6. QED
    BY <1>d, <1>t, <2>2, <2>4, <2>5
<1>10. ASSUME NEW a \in Actors, RevertsStore(a) PROVE RecordsRemembered'
  <2> DEFINE o == txn[a].output
  <2>1. \A p \in Outputs \ {o} : store'[p] = store[p] /\ file'[p] = file[p] /\ desktop'[p] = desktop[p]
    BY <1>10, <1>t, RevertedType DEF RevertsStore
  <2>2. txn'[a] = Idle /\ \A b \in Actors \ {a} : txn'[b] = Disturb(txn, o, a)[b]
    BY <1>10, <1>t, DisturbType DEF RevertsStore
  <2>3. QED
    BY <1>d, <1>t, <2>1, <2>2, IdleRemembered
<1>11. ASSUME NEW o \in Outputs, RestoreBegins(o) PROVE RecordsRemembered'
  <2> DEFINE target == IF store[o] = NoAssignment THEN StockConfig ELSE store[o].previous
             next == [Idle EXCEPT !.step = "restore", !.output = o, !.old = store[o],
                        !.found = [desktop |-> desktop[o], record |-> store[o]],
                        !.previous = target]
  <2>1. /\ next.step = "restore" /\ next.output = o /\ next.previous = target
        /\ next.found.record = store[o]
    BY DEF Idle
  <2>2. /\ "api" \in Actors /\ txn' = [txn EXCEPT !["api"] = next]
        /\ UNCHANGED <<store, file, desktop>>
    BY <1>11 DEF RestoreBegins, Actors
  <2> HIDE DEF next
  <2>3. Remembers(txn["api"])'
    BY <1>t, <2>1, <2>2 DEF Remembers, Before, Underway, Restoring
  <2>4. QED
    BY <1>k, <2>2, <2>3
<1>12. CASE Restores
  <2> DEFINE a == "api"
             o == txn["api"].output
  <2>1. /\ a \in Actors /\ "confirm" \in Steps /\ txn[a].step = "restore"
        /\ UNCHANGED <<store, file>>
        /\ \A p \in Outputs \ {o} : desktop'[p] = desktop[p]
    BY <1>12, <1>t DEF Restores, At, Actors, Steps
  <2>2. CASE txn' = [Disturb(txn, o, "api") EXCEPT !["api"] = Idle]
    <3>1. txn'[a] = Idle /\ \A b \in Actors \ {a} : txn'[b] = Disturb(txn, o, a)[b]
      BY <1>t, <2>1, <2>2, DisturbType
    <3>2. QED
      BY <1>d, <1>t, <2>1, <3>1, IdleRemembered
  <2>3. CASE txn' = [Disturb(txn, o, "api") EXCEPT !["api"].step = "confirm"]
    <3>1. /\ txn'[a] = [txn[a] EXCEPT !.step = "confirm"]
          /\ \A b \in Actors \ {a} : txn'[b] = Disturb(txn, o, a)[b]
      BY <1>t, <2>1, <2>3, DisturbGoto
    <3>2. /\ txn'[a].step = "confirm" /\ txn'[a].previous = txn[a].previous
          /\ txn'[a].found = txn[a].found
      BY <1>t, <2>1, <3>1 DEF Transaction
    <3>3. Remembers(txn[a])'
      BY <1>t, <2>1, <3>2 DEF Remembers, Undisturbed, Before, Underway, Restoring
    <3>4. QED
      BY <1>d, <1>t, <2>1, <3>1, <3>3
  <2>4. QED
    BY <1>12, <2>2, <2>3 DEF Restores
<1>13. CASE RestoreConfirms
  BY <1>13, <1>g, <1>i DEF RestoreConfirms, RestoreVerified, At, Actors
<1>14. CASE Forgets
  <2> DEFINE a == "api"
             o == txn["api"].output
  <2>1. a \in Actors /\ txn'[a] = Idle /\ \A b \in Actors \ {a} : txn'[b] = Disturb(txn, o, a)[b]
    BY <1>14, <1>t, DisturbType DEF Forgets, Actors
  <2>2. \A p \in Outputs \ {o} : store'[p] = store[p] /\ file'[p] = file[p] /\ desktop'[p] = desktop[p]
    BY <1>14, <1>t, <2>1, RemoveType DEF Forgets
  <2>3. QED
    BY <1>d, <1>t, <2>1, <2>2, IdleRemembered
<1>15. ASSUME NEW cmd, NEW s, RawCommand(cmd, s) PROVE RecordsRemembered'
  BY <1>15, <1>g DEF RawCommand, Actors
<1>r. ASSUME NEW a \in Actors, NEW ok \in BOOLEAN, txn[a].step \in Waiting,
             NEW step, step = AfterReply(txn[a].step, ok),
             txn' = [txn EXCEPT ![a] = IF step = "idle" THEN Idle ELSE [txn[a] EXCEPT !.step = step]],
             UNCHANGED <<store, file, desktop>>
      PROVE  RecordsRemembered'
  <2>1. \/ step = "idle"
        \/ step \in {"wait", "failed", "revert"} /\ txn[a].step \in Underway
    BY <1>r DEF AfterReply, Waiting, Underway
  <2>2. CASE step = "idle"
    BY <1>r, <1>i, <2>2
  <2>3. CASE step \in {"wait", "failed", "revert"} /\ txn[a].step \in Underway
    <3>1. Goto(a, step)
      BY <1>r, <1>t, <2>3 DEF Goto
    <3>2. QED
      BY <1>r, <1>g, <2>3, <3>1 DEF Underway
  <2>4. QED
    BY <2>1, <2>2, <2>3
<1>16. CASE SupervisorExecutes
  <2>1. queue # <<>> /\ \E ok \in BOOLEAN : Replies(ok)
    BY <1>16 DEF SupervisorExecutes, ExecutesStart, StartErrs, ExecutesStop, ExecutesAck
  <2>2. PICK ok \in BOOLEAN : Replies(ok)
    BY <2>1
  <2>3. CASE Head(queue).by = Nobody
    BY <2>2, <2>3, <1>t, SameRemembered DEF Replies, RecordsRemembered
  <2>4. CASE Head(queue).by # Nobody
    <3> DEFINE a == Head(queue).by
    <3>1. a \in Actors /\ txn[a].step \in Waiting
      <4>1. queue \in Seq(Command) /\ 1 \in DOMAIN queue /\ Head(queue) = queue[1]
        BY <2>1 DEF TypeOK
      <4>2. queue[1] \in Command
        BY <4>1
      <4>3. QED
        BY <2>4, <4>1, <4>2 DEF CallersWait, Command
    <3>2. /\ UNCHANGED <<store, file, desktop>>
          /\ txn' = [txn EXCEPT ![a] =
               IF AfterReply(txn[a].step, ok) = "idle" THEN Idle
               ELSE [txn[a] EXCEPT !.step = AfterReply(txn[a].step, ok)]]
      BY <2>2, <2>4, <3>1, <1>t DEF Replies
    <3>3. QED
      BY <1>r, <3>1, <3>2
  <2>5. QED
    BY <2>3, <2>4
<1>17. ASSUME NEW a \in Actors, CallTimesOut(a) PROVE RecordsRemembered'
  <2>1. txn[a].step \in Waiting
    BY <1>17 DEF CallTimesOut, CallersWait, Actors, Nobody
  <2>2. /\ UNCHANGED <<store, file, desktop>>
        /\ txn' = [txn EXCEPT ![a] =
             IF AfterReply(txn[a].step, FALSE) = "idle" THEN Idle
             ELSE [txn[a] EXCEPT !.step = AfterReply(txn[a].step, FALSE)]]
    BY <1>17, <1>t DEF CallTimesOut
  <2>3. QED
    BY <1>r, <2>1, <2>2
<1>18. CASE SupervisorSteps
  BY <1>18, <1>t, WatchedType, SameRemembered DEF SupervisorSteps, RecordsRemembered
<1>19. ASSUME NEW o \in Outputs, NEW c \in Configs, UserPicks(o, c) PROVE RecordsRemembered'
  <2>1. \A b \in Actors : b # Nobody
    BY DEF Actors, Nobody
  <2>2. \A p \in Outputs \ {o} : store'[p] = store[p] /\ file'[p] = file[p] /\ desktop'[p] = desktop[p]
    BY <1>19, <1>t DEF UserPicks
  <2>3. txn' = Disturb(txn, o, Nobody)
    BY <1>19 DEF UserPicks
  <2>4. QED
    BY <2>1, <2>2, <2>3, OthersRemembered DEF RecordsRemembered
<1>20. CASE DaemonRestarts
  BY <1>20, IdleRemembered DEF DaemonRestarts, RecordsRemembered
<1>21. QED
  <2>1. CASE Clients
    BY <2>1, <1>2, <1>11, <1>15 DEF Clients, ApplyBegins, LaneBegins, Actors
  <2>2. ASSUME NEW a \in Actors, Proceeds(a) PROVE RecordsRemembered'
    BY <2>2, <1>4, <1>5, <1>6, <1>7, <1>8, <1>9, <1>10 DEF Proceeds
  <2>3. CASE RestoreProceeds
    BY <2>3, <1>12, <1>13, <1>14 DEF RestoreProceeds
  <2>4. QED
    BY <1>1, <1>3, <1>16, <1>17, <1>18, <1>19, <1>20, <2>1, <2>2, <2>3 DEF Next

-----------------------------------------------------------------------------
(* The theorems.                                                           *)

LEMMA InitInv == Init => Inv
<1> SUFFICES ASSUME Init
             PROVE  Inv
  OBVIOUS
<1>1. TypeOK
  <2>1. NoAssignment \in Records /\ Configs \subseteq Desktops
    BY DEF Records, Desktops
  <2>2. QED
    BY <2>1, IdleType, QueueAssumption
       DEF Init, ServiceInit, TypeOK, ServiceTypeOK, WorkerPhases
<1>2. CallersWait
  BY DEF Init, CallersWait
<1>3. RecordsRemembered
  BY DEF Init, RecordsRemembered, Remembers, Undisturbed, Idle, Before, Underway
<1>4. QED
  BY <1>1, <1>2, <1>3 DEF Inv

LEMMA StepInv == Inv /\ [Next]_vars => Inv'
BY TypeStep, CallersStep, RecordsStep DEF Inv

\* The states of the transactions, of the queue between them and the supervisor,
\* and of the assignment store and its file keep their types through any order of
\* answers, timeouts, failing writes and restarts.
THEOREM ApplyTypes == Spec => []TypeOK
<1>1. Inv => TypeOK
  BY DEF Inv
<1>2. QED
  BY <1>1, InitInv, StepInv, PTL DEF Spec

\* A transaction that fails puts the record it found back, unless the write of
\* the rollback fails (rollback_after_failure).
THEOREM FailuresAreUndone == Spec => FailureLeavesRecord
<1>1. Inv /\ [Next]_vars
        => [\A a \in Actors :
              RevertsStore(a) /\ Undisturbed(txn[a])
                => \/ store'[txn[a].output] = txn[a].found.record
                   \/ \E outcome \in WriteOutcomes \ {"saved"} : Reverted(txn[a], outcome)]_vars
  <2> SUFFICES ASSUME Inv, NEW a \in Actors, RevertsStore(a), Undisturbed(txn[a])
               PROVE  \/ store'[txn[a].output] = txn[a].found.record
                      \/ \E outcome \in WriteOutcomes \ {"saved"} : Reverted(txn[a], outcome)
    OBVIOUS
  <2>1. PICK outcome \in WriteOutcomes : Reverted(txn[a], outcome)
    BY DEF RevertsStore
  <2>2. TypeOK /\ txn[a] \in Transaction
    BY DEF Inv, TypeOK
  <2>3. txn[a].old = txn[a].found.record
    BY DEF Inv, RecordsRemembered, Remembers, RevertsStore, At, Underway
  <2>4. CASE outcome = "saved"
    BY <2>1, <2>2, <2>3, <2>4, RevertedType
  <2>5. QED
    BY <2>1, <2>4
<1>2. QED
  BY <1>1, InitInv, StepInv, PTL DEF Spec, FailureLeavesRecord

\* A transaction that answers Ok has the user's original configuration on record,
\* through any number of re-applies (previous_for).
THEOREM OriginalIsKept == Spec => SuccessKeepsOriginal
<1>1. Inv /\ [Next]_vars
        => [\A a \in Actors :
              Succeeds(a) /\ Undisturbed(txn[a])
                => LET t == txn[a]
                   IN  file[t.output] =
                         [wallpaper |-> t.spec,
                          previous  |-> IF t.found.desktop = KWE /\ t.found.record # NoAssignment
                                        THEN t.found.record.previous ELSE t.found.desktop]]_vars
  <2> SUFFICES ASSUME Inv, NEW a \in Actors, Succeeds(a), Undisturbed(txn[a])
               PROVE  file[txn[a].output] =
                        [wallpaper |-> txn[a].spec, previous |-> Original(txn[a])]
    BY DEF Original
  <2>1. Remembers(txn[a]) /\ txn[a].step = "verify"
    BY DEF Inv, RecordsRemembered, Succeeds, At
  <2>2. QED
    BY <2>1 DEF Remembers, Underway
<1>2. QED
  BY <1>1, InitInv, StepInv, PTL DEF Spec, SuccessKeepsOriginal

\* A restore drops a record only with the desktop showing what the record said
\* (verify_restore).
THEOREM RecordsAreUsed == Spec => RecordOutlivesNoOp
<1>1. Inv /\ [Next]_vars
        => [Forgets /\ Undisturbed(txn["api"]) /\ txn["api"].found.record # NoAssignment
              => desktop[txn["api"].output] = txn["api"].found.record.previous]_vars
  <2> SUFFICES ASSUME Inv, Forgets, Undisturbed(txn["api"]),
                      txn["api"].found.record # NoAssignment
               PROVE  desktop[txn["api"].output] = txn["api"].found.record.previous
    OBVIOUS
  <2>1. Remembers(txn["api"]) /\ txn["api"].step = "forget"
    BY DEF Inv, RecordsRemembered, Forgets, At, Actors
  <2>2. QED
    BY <2>1 DEF Remembers, Restoring
<1>2. QED
  BY <1>1, InitInv, StepInv, PTL DEF Spec, RecordOutlivesNoOp

-----------------------------------------------------------------------------
(* A promotion that is seen has happened: two more invariants.             *)

\* A thread of apply or of the lane has the lock; only the api thread restores
\* and sends raw commands.
LockHeld ==
  /\ txn["api"].step \in Before \cup Underway => lock = "api"
  /\ txn["lane"].step # "idle" =>
       lock = "lane" /\ txn["lane"].step \in Before \cup Underway

\* What the supervisor's state is from the answer to start(s) until s comes on
\* screen: no handoff is open, and what does not lead to s is a failure's
\* restart of the wallpaper that was on screen, which is then requested.
NotYetShown(s) ==
  /\ previous = NoSpec
  /\ coming \notin {NoSpec, s} => requested # s /\ shown = NoSpec
  /\ waiting \notin {NoSpec, s} => requested # s /\ shown = NoSpec
  /\ ~(requested = s /\ phase \in {"Live", "AwaitingAck"})

\* The api thread's start is the last command in the queue.
StartIsLast(q, s) ==
  /\ q # <<>>
  /\ q[Len(q)].by = "api" /\ q[Len(q)].cmd \in {"start", "retry"} /\ q[Len(q)].spec = s

\* While the api thread waits for its promotion no other command is queued, and
\* beyond that its wallpaper has come on screen.
PromotionIsSeen ==
  /\ txn["api"].step = "starting" => StartIsLast(queue, txn["api"].spec)
  /\ txn["api"].step = "wait" =>
       queue = <<>> /\ (txn["api"].wasShown \/ NotYetShown(txn["api"].spec))
  /\ txn["api"].step \in {"promoted", "persist", "switch", "verify"} => txn["api"].wasShown

Same(next, t) ==
  next.step = t.step /\ next.spec = t.spec /\ next.wasShown = t.wasShown

LEMMA DisturbSame ==
  ASSUME NEW ts \in [Actors -> Transaction], NEW o, NEW by, NEW a \in Actors
  PROVE  Same(Disturb(ts, o, by)[a], ts[a])
BY DEF Disturb, Transaction, Same

\* What a step of a transaction's thread changes.
LEMMA ThreadMoves ==
  ASSUME TypeOK, NEW a \in Actors, Proceeds(a)
  PROVE  /\ UNCHANGED service
         /\ \A b \in Actors \ {a} : Same(txn'[b], txn[b])
         /\ txn[a].step \in Before \cup Underway
         /\ \/ txn'[a] = Idle
            \/ /\ lock' = lock /\ txn'[a].step \in (Before \cup Underway) \ {"wait"}
               /\ txn'[a].spec = txn[a].spec /\ txn'[a].wasShown = txn[a].wasShown
               /\ txn'[a].step = "starting" =>
                    \E cmd \in {"start", "retry"} : Send(a, cmd, txn[a].spec)
               /\ txn'[a].step \in {"promoted", "persist", "switch", "verify"} =>
                    SeesPromotion(a) \/ txn[a].step \in {"promoted", "persist", "switch"}
<1>t. txn \in [Actors -> Transaction]
  BY DEF TypeOK
<1> DEFINE Others == \A b \in Actors \ {a} : Same(txn'[b], txn[b])
           Moved(step) == /\ txn'[a].step = step /\ txn'[a].spec = txn[a].spec
                          /\ txn'[a].wasShown = txn[a].wasShown
<1>g. ASSUME NEW step \in Steps, Goto(a, step) PROVE Others /\ Moved(step)
  BY <1>g, <1>t DEF Goto, Transaction, Same
<1>i. ASSUME txn' = [txn EXCEPT ![a] = Idle] PROVE Others /\ txn'[a] = Idle
  BY <1>i, <1>t DEF Same
<1>d. ASSUME NEW o, NEW step \in Steps, txn' = [Disturb(txn, o, a) EXCEPT ![a].step = step]
      PROVE  Others /\ Moved(step)
  <2>1. /\ txn'[a] = [txn[a] EXCEPT !.step = step]
        /\ \A b \in Actors \ {a} : txn'[b] = Disturb(txn, o, a)[b]
    BY <1>d, <1>t, DisturbGoto
  <2>2. QED
    BY <1>t, <2>1, DisturbSame DEF Transaction
<1> USE DEF Before, Underway, Steps, At
<1> HIDE DEF Others, Moved
<1>1. CASE Refuses(a) \/ Succeeds(a)
  BY <1>1, <1>i DEF Refuses, Succeeds, Others
<1>2. CASE Enumerates(a) \/ ReadsRecord(a)
  <2>1. \E t : /\ txn' = [txn EXCEPT ![a] = t] /\ t.step \in {"record", "start"}
               /\ t.spec = txn[a].spec /\ t.wasShown = txn[a].wasShown
    <3>1. CASE Enumerates(a)
      <4> DEFINE next == [txn[a] EXCEPT !.step = "record", !.previous = desktop[txn[a].output]]
      <4>1. txn' = [txn EXCEPT ![a] = next]
        BY <1>t, <3>1 DEF Enumerates
      <4>2. /\ next.step = "record" /\ next.spec = txn[a].spec
            /\ next.wasShown = txn[a].wasShown
        BY <1>t DEF Transaction
      <4> HIDE DEF next
      <4>3. QED
        BY <4>1, <4>2
    <3>2. CASE ReadsRecord(a)
      <4> DEFINE o == txn[a].output
                 next == [txn[a] EXCEPT !.step = "start", !.old = store[o],
                                        !.previous = PreviousFor(o, txn[a].previous)]
      <4>1. txn' = [txn EXCEPT ![a] = next]
        BY <1>t, <3>2 DEF ReadsRecord
      <4>2. next.step = "start" /\ next.spec = txn[a].spec /\ next.wasShown = txn[a].wasShown
        BY <1>t DEF Transaction
      <4> HIDE DEF next
      <4>3. QED
        BY <4>1, <4>2
    <3>3. QED
      BY <1>2, <3>1, <3>2
  <2>2. PICK t : /\ txn' = [txn EXCEPT ![a] = t] /\ t.step \in {"record", "start"}
                 /\ t.spec = txn[a].spec /\ t.wasShown = txn[a].wasShown
    BY <2>1
  <2>3. Others /\ txn'[a] = t
    BY <1>t, <2>2 DEF Others, Same
  <2>4. txn[a].step \in Before /\ lock' = lock /\ UNCHANGED service
    BY <1>2 DEF Enumerates, ReadsRecord
  <2>5. QED
    BY <2>2, <2>3, <2>4 DEF Others
<1>3. CASE SendsStart(a)
  BY <1>3, <1>g DEF SendsStart, Others, Moved
<1>4. CASE \/ SeesPromotion(a) \/ SeesFailure(a) \/ EnsuresOurs(a)
           \/ VerifyFails(a) \/ FindsOurs(a) \/ LeavesRenderer(a) \/ SendsStop(a) \/ QueueFull(a)
  <2>1. PICK step \in {"promoted", "failed", "persist", "ours", "revert", "stopping"} :
          /\ Goto(a, step)
          /\ step = "promoted" => SeesPromotion(a)
          /\ step = "persist" => txn[a].step = "promoted"
    BY <1>4 DEF SeesPromotion, SeesFailure, EnsuresOurs, VerifyFails, FindsOurs,
                LeavesRenderer, SendsStop, QueueFull
  <2>2. Others /\ Moved(step)
    BY <1>g, <2>1
  <2>3. txn[a].step \in Underway /\ lock' = lock /\ UNCHANGED service
    BY <1>4 DEF SeesPromotion, SeesFailure, EnsuresOurs, VerifyFails, FindsOurs,
                LeavesRenderer, SendsStop, QueueFull
  <2>4. QED
    BY <2>1, <2>2, <2>3 DEF Others, Moved
<1>5. CASE Persists(a) \/ Switches(a)
  <2>1. PICK step \in {"switch", "verify", "failed"} :
          txn' = [Disturb(txn, txn[a].output, a) EXCEPT ![a].step = step]
    BY <1>5 DEF Persists, Switches
  <2>2. Others /\ Moved(step)
    BY <1>d, <2>1
  <2>3. txn[a].step \in {"persist", "switch"} /\ lock' = lock /\ UNCHANGED service
    BY <1>5 DEF Persists, Switches
  <2>4. QED
    BY <2>1, <2>2, <2>3 DEF Others, Moved
<1>6. CASE RevertsStore(a)
  <2>1. txn' = [Disturb(txn, txn[a].output, a) EXCEPT ![a] = Idle] /\ txn[a].step = "revert"
        /\ UNCHANGED service
    BY <1>6 DEF RevertsStore
  <2>2. txn'[a] = Idle /\ \A b \in Actors \ {a} : txn'[b] = Disturb(txn, txn[a].output, a)[b]
    BY <1>t, <2>1, DisturbType
  <2>3. QED
    BY <1>t, <2>1, <2>2, DisturbSame
<1>7. QED
  BY <1>1, <1>2, <1>3, <1>4, <1>5, <1>6 DEF Proceeds

\* The supervisor of its own keeps what is not yet shown so, until it promotes it.
LEMMA NotYetStep ==
  ASSUME NEW s \in Specs, NotYetShown(s), ServiceSteps, ~(Promotes /\ coming = s)
  PROVE  NotYetShown(s)'
<1> USE SpecsAssumption DEF NotYetShown
<1>1. CASE RestartRuns
  BY <1>1 DEF RestartRuns, Launch, StruckDown
<1>2. CASE SourceFails
  BY <1>2 DEF SourceFails
<1>3. CASE Promotes
  BY <1>3 DEF Promotes
<1>4. CASE CandidateLost
  BY <1>4 DEF CandidateLost, StruckDown
<1>5. CASE CandidateRefused
  BY <1>5 DEF CandidateRefused
<1>6. CASE HandoffCommits \/ HandoffRollsBack
  BY <1>6 DEF HandoffCommits, HandoffRollsBack
<1>7. QED
  BY <1>1, <1>2, <1>3, <1>4, <1>5, <1>6 DEF ServiceSteps, Settling

\* The answer to a start.
LEMMA NotYetAtFirst ==
  ASSUME NEW s \in Specs, StartAnswered(s)
  PROVE  NotYetShown(s)'
BY DEF StartAnswered, NotYetShown, Launch, StruckDown

\* The lock and what the api thread has seen, one step later.
LEMMA PromotionStep ==
  ASSUME Inv, LockHeld, PromotionIsSeen, [Next]_vars
  PROVE  LockHeld' /\ PromotionIsSeen'
<1>t. /\ TypeOK /\ CallersWait /\ txn \in [Actors -> Transaction]
      /\ queue \in Seq(Command) /\ \A i \in DOMAIN queue : queue[i] \in Command
      /\ "api" \in Actors /\ "lane" \in Actors
  <2>1. queue \in Seq(Command)
    BY DEF Inv, TypeOK
  <2>2. \A i \in DOMAIN queue : queue[i] \in Command
    BY <2>1
  <2>3. QED
    BY <2>1, <2>2 DEF Inv, TypeOK, Actors
\* An idle api thread, or one that does not apply, has seen nothing yet.
<1>a. ASSUME txn'["api"].step \notin Before \cup Underway PROVE PromotionIsSeen'
  BY <1>a DEF PromotionIsSeen, Underway
\* Everything the two invariants are about stays.
<1>k. ASSUME Same(txn'["api"], txn["api"]), Same(txn'["lane"], txn["lane"]), lock' = lock,
             UNCHANGED <<queue, service>>
      PROVE  LockHeld' /\ PromotionIsSeen'
  <2>1. NotYetShown(txn["api"].spec) => NotYetShown(txn["api"].spec)'
    BY <1>k DEF NotYetShown, service, Same
  <2>2. QED
    BY <1>k, <2>1 DEF Same, LockHeld, PromotionIsSeen
<1>1. CASE UNCHANGED vars
  BY <1>1, <1>k DEF vars, applyVars, Same
<1>2. ASSUME NEW step \in {"check", "enumerate"}, NEW a \in Actors, NEW o, NEW s, Begin(a, step, o, s)
      PROVE  LockHeld' /\ PromotionIsSeen'
  <2>1. /\ lock = Nobody /\ lock' = a /\ txn[a].step = "idle"
        /\ \A b \in Actors \ {a} : txn'[b] = txn[b]
        /\ txn'[a].step = step
    BY <1>2, <1>t DEF Begin, At, Idle
  <2>2. txn["api"].step \notin Before \cup Underway /\ txn["lane"].step = "idle"
    BY <2>1 DEF LockHeld, Actors, Nobody
  <2>3. LockHeld'
    BY <2>1, <2>2 DEF LockHeld, Before, Underway, Actors
  <2>4. txn'["api"].step \in {"check", "enumerate"} \/ txn'["api"].step \notin Before \cup Underway
    BY <1>2, <2>1, <2>2 DEF Actors
  <2>5. PromotionIsSeen'
    BY <2>4 DEF PromotionIsSeen, Underway
  <2>6. QED
    BY <2>3, <2>5
<1>3. ASSUME NEW a \in Actors, Proceeds(a) PROVE LockHeld' /\ PromotionIsSeen'
  <2>1. /\ UNCHANGED service
        /\ \A b \in Actors \ {a} : Same(txn'[b], txn[b])
        /\ txn[a].step \in Before \cup Underway
        /\ \/ txn'[a] = Idle
           \/ /\ lock' = lock /\ txn'[a].step \in (Before \cup Underway) \ {"wait"}
              /\ txn'[a].spec = txn[a].spec /\ txn'[a].wasShown = txn[a].wasShown
              /\ txn'[a].step = "starting" =>
                   \E cmd \in {"start", "retry"} : Send(a, cmd, txn[a].spec)
              /\ txn'[a].step \in {"promoted", "persist", "switch", "verify"} =>
                   SeesPromotion(a) \/ txn[a].step \in {"promoted", "persist", "switch"}
    BY <1>3, <1>t, ThreadMoves
  <2>2. Idle.step = "idle" /\ "idle" \notin Before \cup Underway
    BY DEF Idle, Before, Underway
  <2>3. CASE a = "lane"
    <3>1. lock = "lane" /\ txn["api"].step \notin Before \cup Underway
      BY <2>1, <2>2, <2>3 DEF LockHeld
    <3>2. txn'["api"].step = txn["api"].step
      BY <2>1, <2>3 DEF Actors, Same
    <3>3. LockHeld'
      BY <2>1, <2>2, <2>3, <3>1, <3>2 DEF LockHeld
    <3>4. QED
      BY <1>a, <3>1, <3>2, <3>3
  <2>4. CASE a = "api"
    <3>1. lock = "api" /\ txn["lane"].step = "idle"
      BY <2>1, <2>4 DEF LockHeld
    <3>2. txn'["lane"].step = "idle"
      BY <2>1, <2>4, <3>1 DEF Actors, Same
    <3>3. LockHeld'
      BY <2>1, <2>2, <2>4, <3>1, <3>2 DEF LockHeld
    <3>4. txn'["api"].step = "starting" => StartIsLast(queue', txn'["api"].spec)
      <4>1. SUFFICES ASSUME txn'["api"].step = "starting"
                     PROVE  StartIsLast(queue', txn'["api"].spec)
        OBVIOUS
      <4>2. PICK cmd \in {"start", "retry"} : Send("api", cmd, txn["api"].spec)
        BY <2>1, <2>2, <2>4, <4>1 DEF Underway
      <4> DEFINE c == [by |-> "api", cmd |-> cmd, spec |-> txn["api"].spec]
      <4>3. queue' = Append(queue, c) /\ txn'["api"].spec = txn["api"].spec
        BY <2>1, <2>2, <2>4, <4>1, <4>2 DEF Send, Underway
      <4>4. c.by = "api" /\ c.cmd = cmd /\ c.spec = txn["api"].spec
        OBVIOUS
      <4> HIDE DEF c
      <4>5. queue' # <<>> /\ queue'[Len(queue')] = c
        BY <1>t, <4>3
      <4>6. QED
        BY <4>3, <4>4, <4>5 DEF StartIsLast
    <3>5. txn'["api"].step \in {"promoted", "persist", "switch", "verify"} => txn'["api"].wasShown
      <4>1. SUFFICES ASSUME txn'["api"].step \in {"promoted", "persist", "switch", "verify"}
                     PROVE  txn'["api"].wasShown
        OBVIOUS
      <4>2. /\ txn'["api"].wasShown = txn["api"].wasShown
            /\ SeesPromotion("api") \/ txn["api"].step \in {"promoted", "persist", "switch"}
        BY <2>1, <2>2, <2>4, <4>1 DEF Underway
      <4>3. SeesPromotion("api") => txn["api"].wasShown
        BY DEF SeesPromotion, At, ReadsPromoted, Promoted, PromotionIsSeen, NotYetShown
      <4>4. QED
        BY <4>2, <4>3 DEF PromotionIsSeen
    <3>6. txn'["api"].step # "wait"
      BY <2>1, <2>2, <2>4 DEF Idle
    <3>7. PromotionIsSeen'
      BY <3>4, <3>5, <3>6 DEF PromotionIsSeen
    <3>8. QED
      BY <3>3, <3>7
  <2>5. QED
    BY <2>3, <2>4 DEF Actors
\* A step that leaves the lane as it is, and the api thread outside apply.
<1>p. ASSUME txn'["api"].step \notin Before \cup Underway,
             txn'["lane"].step = txn["lane"].step, lock' = lock
      PROVE  LockHeld' /\ PromotionIsSeen'
  BY <1>p, <1>a DEF LockHeld
<1>4. CASE LaneChecks
  <2>1. /\ txn["lane"].step = "check" /\ Goto("lane", "enumerate") /\ lock' = lock
    BY <1>4 DEF LaneChecks, LanePasses, At
  <2>2. txn'["lane"].step = "enumerate" /\ txn'["api"] = txn["api"]
    BY <1>t, <2>1 DEF Goto, Transaction
  <2>3. lock = "lane" /\ txn["api"].step \notin Before \cup Underway
    BY <2>1 DEF LockHeld
  <2>4. LockHeld'
    BY <2>1, <2>2, <2>3 DEF LockHeld, Before
  <2>5. QED
    BY <1>a, <2>2, <2>3, <2>4
<1>5. ASSUME NEW o \in Outputs, RestoreBegins(o) PROVE LockHeld' /\ PromotionIsSeen'
  <2>1. txn'["api"].step = "restore" /\ txn'["lane"] = txn["lane"] /\ lock' = lock
    BY <1>5, <1>t DEF RestoreBegins, Idle
  <2>2. QED
    BY <1>p, <2>1 DEF Before, Underway
<1>6. CASE RestoreProceeds
  <2>1. /\ lock' = lock
        /\ \E step \in {"confirm", "forget"} : \E o :
             \/ txn' = [Disturb(txn, o, "api") EXCEPT !["api"].step = step]
             \/ txn' = [Disturb(txn, o, "api") EXCEPT !["api"] = Idle]
             \/ Goto("api", step)
             \/ txn' = [txn EXCEPT !["api"] = Idle]
    BY <1>6 DEF RestoreProceeds, Restores, RestoreConfirms, Forgets
  <2>2. PICK step \in {"confirm", "forget"} : \E o :
          \/ txn' = [Disturb(txn, o, "api") EXCEPT !["api"].step = step]
          \/ txn' = [Disturb(txn, o, "api") EXCEPT !["api"] = Idle]
          \/ Goto("api", step)
          \/ txn' = [txn EXCEPT !["api"] = Idle]
    BY <2>1
  <2>o. PICK o :
          \/ txn' = [Disturb(txn, o, "api") EXCEPT !["api"].step = step]
          \/ txn' = [Disturb(txn, o, "api") EXCEPT !["api"] = Idle]
          \/ Goto("api", step)
          \/ txn' = [txn EXCEPT !["api"] = Idle]
    BY <2>2
  <2>3. step \in Steps /\ "idle" \notin Before \cup Underway /\ Idle.step = "idle"
        /\ step \notin Before \cup Underway
    BY DEF Steps, Before, Underway, Idle
  <2>4. CASE txn' = [Disturb(txn, o, "api") EXCEPT !["api"].step = step]
    <3>1. txn'["api"] = [txn["api"] EXCEPT !.step = step]
          /\ txn'["lane"] = Disturb(txn, o, "api")["lane"]
      BY <1>t, <2>3, <2>4, DisturbGoto
    <3>2. txn'["api"].step = step
      BY <1>t, <3>1 DEF Transaction
    <3>3. txn'["lane"].step = txn["lane"].step
      BY <1>t, <3>1, DisturbSame DEF Same
    <3>4. QED
      BY <1>p, <2>1, <2>3, <3>2, <3>3
  <2>5. CASE txn' = [Disturb(txn, o, "api") EXCEPT !["api"] = Idle]
    <3>1. txn'["api"] = Idle /\ txn'["lane"] = Disturb(txn, o, "api")["lane"]
      BY <1>t, <2>5, DisturbType
    <3>2. txn'["lane"].step = txn["lane"].step
      BY <1>t, <3>1, DisturbSame DEF Same
    <3>3. QED
      BY <1>p, <2>1, <2>3, <3>1, <3>2
  <2>6. CASE Goto("api", step)
    <3>1. txn'["api"].step = step /\ txn'["lane"] = txn["lane"]
      BY <1>t, <2>6 DEF Goto, Transaction
    <3>2. QED
      BY <1>p, <2>1, <2>3, <3>1
  <2>7. CASE txn' = [txn EXCEPT !["api"] = Idle]
    BY <1>p, <1>t, <2>1, <2>3, <2>7
  <2>8. QED
    BY <2>o, <2>4, <2>5, <2>6, <2>7
<1>7. ASSUME NEW cmd, NEW s, RawCommand(cmd, s) PROVE LockHeld' /\ PromotionIsSeen'
  <2>1. txn'["api"].step = "calling" /\ txn'["lane"] = txn["lane"] /\ lock' = lock
    BY <1>7, <1>t DEF RawCommand, Goto, Transaction
  <2>2. QED
    BY <1>p, <2>1 DEF Before, Underway
\* A thread that has its answer, or gives up.
<1>r. ASSUME NEW a \in Actors, NEW ok \in BOOLEAN, txn[a].step \in Waiting,
             NEW step, step = AfterReply(txn[a].step, ok),
             txn' = [txn EXCEPT ![a] = IF step = "idle" THEN Idle ELSE [txn[a] EXCEPT !.step = step]]
      PROVE  /\ \A b \in Actors \ {a} : txn'[b] = txn[b]
             /\ txn[a].step = "calling" => txn'[a] = Idle
             /\ txn[a].step # "calling" =>
                  /\ txn'[a].step = step
                  /\ txn'[a].spec = txn[a].spec /\ txn'[a].wasShown = txn[a].wasShown
                  /\ step \in {"wait", "failed", "revert"}
                  /\ step = "wait" => ok /\ txn[a].step = "starting"
  <2>1. /\ txn[a].step = "calling" => step = "idle"
        /\ txn[a].step # "calling" =>
             step \in {"wait", "failed", "revert"} /\ (step = "wait" => ok /\ txn[a].step = "starting")
    BY <1>r DEF AfterReply, Waiting
  <2>2. CASE txn[a].step = "calling"
    BY <1>r, <1>t, <2>1, <2>2
  <2>3. CASE txn[a].step # "calling"
    <3>1. txn' = [txn EXCEPT ![a] = [txn[a] EXCEPT !.step = step]]
      BY <1>r, <2>1, <2>3
    <3>2. QED
      BY <1>t, <2>1, <2>3, <3>1 DEF Transaction
  <2>4. QED
    BY <2>2, <2>3
\* The lane's answer is nothing to the api thread.
<1>l. ASSUME NEW ok \in BOOLEAN, txn["lane"].step \in Waiting, lock' = lock,
             NEW step, step = AfterReply(txn["lane"].step, ok),
             txn' = [txn EXCEPT !["lane"] =
                       IF step = "idle" THEN Idle ELSE [txn["lane"] EXCEPT !.step = step]]
      PROVE  LockHeld' /\ PromotionIsSeen'
  <2>1. lock = "lane" /\ txn["lane"].step # "calling" /\ txn["api"].step \notin Before \cup Underway
    BY <1>l DEF LockHeld, Waiting, Before, Underway
  <2>2. txn'["api"] = txn["api"] /\ txn'["lane"].step \in {"wait", "failed", "revert"}
    <3>1. step \in {"wait", "failed", "revert"}
      BY <1>l, <2>1 DEF AfterReply, Waiting
    <3>2. txn' = [txn EXCEPT !["lane"] = [txn["lane"] EXCEPT !.step = step]]
      BY <1>l, <3>1
    <3>3. txn'["api"] = txn["api"] /\ txn'["lane"] = [txn["lane"] EXCEPT !.step = step]
      BY <1>t, <3>2 DEF Actors
    <3>4. txn["lane"] \in Transaction
      BY <1>t
    <3>5. [txn["lane"] EXCEPT !.step = step].step = step
      BY <3>4 DEF Transaction
    <3>6. QED
      BY <3>1, <3>3, <3>5
  <2>3. LockHeld'
    BY <1>l, <2>1, <2>2 DEF LockHeld, Underway
  <2>4. QED
    BY <1>a, <2>1, <2>2, <2>3
<1>8. CASE SupervisorExecutes
  <2>1. /\ queue # <<>>
        /\ \E ok \in BOOLEAN :
             /\ Replies(ok)
             /\ ok /\ Head(queue).cmd \in {"start", "retry"} => StartAnswered(Head(queue).spec)
    BY <1>8 DEF SupervisorExecutes, ExecutesStart, StartErrs, ExecutesStop, ExecutesAck
  <2>2. PICK ok \in BOOLEAN :
          /\ Replies(ok)
          /\ ok /\ Head(queue).cmd \in {"start", "retry"} => StartAnswered(Head(queue).spec)
    BY <2>1
  <2>3. /\ Len(queue) \in Nat \ {0} /\ 1 \in DOMAIN queue /\ Len(queue) \in DOMAIN queue
        /\ Head(queue) = queue[1] /\ queue' = Tail(queue) /\ lock' = lock
        /\ Head(queue).by \in Actors \cup {Nobody}
    <3>1. Len(queue) \in Nat \ {0} /\ DOMAIN queue = 1..Len(queue) /\ Head(queue) = queue[1]
      BY <1>t, <2>1
    <3>2. 1 \in DOMAIN queue /\ Len(queue) \in DOMAIN queue
      BY <3>1
    <3>3. queue[1].by \in Actors \cup {Nobody}
      BY <1>t, <3>2 DEF Command
    <3>4. QED
      BY <2>2, <3>1, <3>2, <3>3 DEF Replies
  <2>4. Head(queue).by \in Actors =>
          /\ txn[Head(queue).by].step \in Waiting
          /\ txn' = [txn EXCEPT ![Head(queue).by] =
               IF AfterReply(txn[Head(queue).by].step, ok) = "idle" THEN Idle
               ELSE [txn[Head(queue).by] EXCEPT !.step = AfterReply(txn[Head(queue).by].step, ok)]]
    <3>1. Nobody \notin Actors
      BY DEF Actors, Nobody
    <3>2. QED
      BY <1>t, <2>2, <2>3, <3>1 DEF Replies, CallersWait
  <2>5. CASE Head(queue).by = Nobody
    <3>1. txn' = txn
      BY <2>2, <2>5 DEF Replies
    <3>2. LockHeld'
      BY <2>3, <3>1 DEF LockHeld
    <3>3. ASSUME txn["api"].step = "starting" PROVE StartIsLast(queue', txn["api"].spec)
      <4>1. StartIsLast(queue, txn["api"].spec)
        BY <3>3 DEF PromotionIsSeen
      <4>2. Len(queue) # 1
        BY <2>3, <2>5, <4>1 DEF StartIsLast, Nobody
      <4>3. queue' # <<>> /\ queue'[Len(queue')] = queue[Len(queue)]
        <5>1. /\ Len(queue') = Len(queue) - 1
              /\ \A i \in 1..(Len(queue) - 1) : queue'[i] = queue[i + 1]
          BY <1>t, <2>1, <2>3
        <5> DEFINE k == Len(queue) - 1
        <5>2. k \in Nat /\ k \in 1..k /\ k + 1 = Len(queue) /\ Len(queue') = k
          BY <2>3, <4>2, <5>1
        <5>3. \A i \in 1..k : queue'[i] = queue[i + 1]
          BY <5>1
        <5> HIDE DEF k
        <5>4. queue'[k] = queue[k + 1] /\ queue' # <<>>
          BY <5>2, <5>3
        <5>5. QED
          BY <5>2, <5>4
      <4>4. QED
        BY <4>1, <4>3 DEF StartIsLast
    <3>4. txn["api"].step # "wait"
      BY <2>1 DEF PromotionIsSeen
    <3>5. PromotionIsSeen'
      BY <3>1, <3>3, <3>4 DEF PromotionIsSeen
    <3>6. QED
      BY <3>2, <3>5
  <2>6. CASE Head(queue).by = "lane"
    BY <1>l, <1>t, <2>3, <2>4, <2>6
  <2>7. CASE Head(queue).by = "api"
    <3> DEFINE step == AfterReply(txn["api"].step, ok)
    <3>1. txn["api"].step \in Waiting
      BY <1>t, <2>4, <2>7
    <3>2. /\ txn'["lane"] = txn["lane"]
          /\ txn["api"].step = "calling" => txn'["api"] = Idle
          /\ txn["api"].step # "calling" =>
               /\ txn'["api"].step = step
               /\ txn'["api"].spec = txn["api"].spec
               /\ txn'["api"].wasShown = txn["api"].wasShown
               /\ step \in {"wait", "failed", "revert"}
               /\ step = "wait" => ok /\ txn["api"].step = "starting"
      BY <1>r, <1>t, <2>4, <2>7
    <3> HIDE DEF step
    <3>3. CASE txn["api"].step = "calling"
      BY <1>p, <2>3, <3>2, <3>3 DEF Idle, Before, Underway
    <3>4. CASE txn["api"].step # "calling"
      <4>1. txn["api"].step \in Underway
        BY <3>1, <3>4 DEF Waiting, Underway
      <4>2. lock = "api" /\ txn["lane"].step = "idle"
        BY <4>1 DEF LockHeld
      <4>3. LockHeld'
        BY <2>3, <3>2, <4>2 DEF LockHeld
      <4>4. ASSUME step = "wait"
            PROVE  queue' = <<>> /\ NotYetShown(txn["api"].spec)'
        <5>1. StartIsLast(queue, txn["api"].spec)
          BY <3>2, <3>4, <4>4 DEF PromotionIsSeen
        <5>2. Len(queue) = 1
          BY <2>3, <2>7, <1>t, <5>1 DEF StartIsLast, CallersWait, Nobody
        <5>3. queue' = <<>>
          BY <1>t, <2>3, <5>2
        <5>4. ok /\ Head(queue).cmd \in {"start", "retry"} /\ Head(queue).spec = txn["api"].spec
          BY <2>3, <3>2, <3>4, <4>4, <5>1, <5>2 DEF StartIsLast
        <5>5. PICK s \in Specs : s = txn["api"].spec
          BY <1>t, <4>1 DEF Inv, RecordsRemembered, Remembers
        <5>6. NotYetShown(s)'
          BY <2>2, <5>4, <5>5, NotYetAtFirst
        <5>7. txn'["api"].spec = s
          BY <3>2, <3>4, <5>5
        <5>8. QED
          BY <5>3, <5>6, <5>7 DEF NotYetShown
      <4>5. PromotionIsSeen'
        BY <3>2, <3>4, <4>4 DEF PromotionIsSeen
      <4>6. QED
        BY <4>3, <4>5
    <3>5. QED
      BY <3>3, <3>4
  <2>8. QED
    BY <2>3, <2>5, <2>6, <2>7 DEF Actors
<1>9. ASSUME NEW a \in Actors, CallTimesOut(a) PROVE LockHeld' /\ PromotionIsSeen'
  <2>1. /\ txn[a].step \in Waiting /\ lock' = lock
        /\ txn' = [txn EXCEPT ![a] =
             IF AfterReply(txn[a].step, FALSE) = "idle" THEN Idle
             ELSE [txn[a] EXCEPT !.step = AfterReply(txn[a].step, FALSE)]]
    <3>1. a # Nobody
      BY DEF Actors, Nobody
    <3>2. QED
      BY <1>9, <1>t, <3>1 DEF CallTimesOut, CallersWait
  <2>2. CASE a = "lane"
    BY <1>l, <2>1, <2>2
  <2>3. CASE a = "api"
    <3> DEFINE step == AfterReply(txn["api"].step, FALSE)
    <3>0. txn["api"].step \in Waiting /\ lock' = lock
      BY <2>1, <2>3
    <3>1. /\ txn'["lane"] = txn["lane"]
          /\ txn["api"].step = "calling" => txn'["api"] = Idle
          /\ txn["api"].step # "calling" =>
               txn'["api"].step = step /\ step \in {"failed", "revert"}
      <4>1. step = "idle" <=> txn["api"].step = "calling"
        BY <3>0 DEF AfterReply, Waiting
      <4>2. step \in {"failed", "revert", "idle"}
        BY <3>0 DEF AfterReply, Waiting
      <4>3. txn' = [txn EXCEPT !["api"] =
                      IF step = "idle" THEN Idle ELSE [txn["api"] EXCEPT !.step = step]]
        BY <2>1, <2>3
      <4> HIDE DEF step
      <4>4. QED
        BY <1>t, <4>1, <4>2, <4>3 DEF Transaction
    <3> HIDE DEF step
    <3>2. CASE txn["api"].step = "calling"
      BY <1>p, <3>0, <3>1, <3>2 DEF Idle, Before, Underway
    <3>3. CASE txn["api"].step # "calling"
      <4>1. txn["api"].step \in Underway
        BY <3>0, <3>3 DEF Waiting, Underway
      <4>2. lock = "api" /\ txn["lane"].step = "idle"
        BY <4>1 DEF LockHeld
      <4>3. QED
        BY <3>0, <3>1, <3>3, <4>2 DEF LockHeld, PromotionIsSeen
    <3>4. QED
      BY <3>2, <3>3
  <2>4. QED
    BY <2>2, <2>3 DEF Actors
<1>10. CASE SupervisorSteps
  <2>1. ServiceSteps /\ txn' = Watched(txn) /\ lock' = lock /\ queue' = queue
    BY <1>10 DEF SupervisorSteps
  <2>2. /\ \A a \in Actors : txn'[a].step = txn[a].step /\ txn'[a].spec = txn[a].spec
        /\ txn["api"].wasShown => txn'["api"].wasShown
        /\ txn["api"].step = "wait" /\ Promotes /\ coming = txn["api"].spec => txn'["api"].wasShown
    BY <1>t, <2>1 DEF Watched, Transaction
  <2>3. LockHeld'
    BY <1>t, <2>1, <2>2 DEF LockHeld
  <2>4. ASSUME txn["api"].step = "wait", ~txn'["api"].wasShown
        PROVE  NotYetShown(txn["api"].spec)'
    <3>1. PICK s \in Specs : s = txn["api"].spec
      BY <1>t, <2>4 DEF Inv, RecordsRemembered, Remembers, Underway
    <3>2. NotYetShown(s) /\ ~(Promotes /\ coming = s)
      BY <2>2, <2>4, <3>1 DEF PromotionIsSeen
    <3>3. NotYetShown(s)'
      BY <2>1, <3>2, NotYetStep
    <3>4. txn'["api"].spec = s
      BY <1>t, <2>2, <3>1
    <3>5. QED
      BY <3>3, <3>4 DEF NotYetShown
  <2>5. PromotionIsSeen'
    BY <1>t, <2>1, <2>2, <2>4 DEF PromotionIsSeen
  <2>6. QED
    BY <2>3, <2>5
<1>11. ASSUME NEW o \in Outputs, NEW c \in Configs, UserPicks(o, c)
       PROVE  LockHeld' /\ PromotionIsSeen'
  BY <1>11, <1>k, <1>t, DisturbSame DEF UserPicks
<1>12. CASE DaemonRestarts
  <2>1. txn'["api"].step = "idle" /\ txn'["lane"].step = "idle"
    BY <1>12, <1>t DEF DaemonRestarts, Idle
  <2>2. LockHeld'
    BY <2>1 DEF LockHeld, Before, Underway
  <2>3. QED
    BY <1>a, <2>1, <2>2 DEF Before, Underway
<1>13. QED
  <2>1. CASE Clients
    BY <2>1, <1>2, <1>5, <1>7, <1>t DEF Clients, ApplyBegins, LaneBegins
  <2>2. QED
    BY <2>1, <1>1, <1>3, <1>4, <1>6, <1>8, <1>9, <1>10, <1>11, <1>12 DEF Next

\* An apply that answers Ok had its wallpaper come on screen after it began,
\* whatever was left in the queue and whoever else was promoted.
THEOREM SuccessesWereShown == Spec => SuccessWasShown
<1> DEFINE Watching == Inv /\ LockHeld /\ PromotionIsSeen
<1>1. Init => Watching
  <2>1. Init => LockHeld /\ PromotionIsSeen
    BY DEF Init, Idle, LockHeld, PromotionIsSeen, Actors, Before, Underway
  <2>2. QED
    BY <2>1, InitInv
<1>2. Watching /\ [Next]_vars => Watching'
  BY PromotionStep, StepInv
<1>3. Watching /\ [Next]_vars => [Succeeds("api") => txn["api"].wasShown]_vars
  BY DEF Succeeds, At, PromotionIsSeen
<1>4. QED
  BY <1>1, <1>2, <1>3, PTL DEF Spec, SuccessWasShown

-----------------------------------------------------------------------------
(* The transactions over the supervisor's promises.                        *)

\* A start in the queue names a wallpaper.
StartsNamed == \A i \in DOMAIN queue : queue[i].cmd \in {"start", "retry"} => queue[i].spec \in Specs

LEMMA StartsSent ==
  ASSUME TypeOK, StartsNamed, NEW a, NEW cmd, NEW s, Send(a, cmd, s),
         cmd \in {"start", "retry"} => s \in Specs
  PROVE  StartsNamed'
<1> DEFINE c == [by |-> a, cmd |-> cmd, spec |-> s]
<1>1. queue \in Seq(Command) /\ queue' = Append(queue, c)
  BY DEF TypeOK, Send
<1>2. c.cmd = cmd /\ c.spec = s
  OBVIOUS
<1> HIDE DEF c
<1>3. /\ DOMAIN queue' = 1..(Len(queue) + 1) /\ DOMAIN queue = 1..Len(queue)
      /\ Len(queue) \in Nat /\ queue'[Len(queue) + 1] = c
      /\ \A i \in 1..Len(queue) : queue'[i] = queue[i]
  BY <1>1
<1>4. QED
  BY <1>2, <1>3 DEF StartsNamed

LEMMA StartsTaken ==
  ASSUME TypeOK, StartsNamed, NEW ok, queue # <<>>, Replies(ok)
  PROVE  StartsNamed'
<1>1. queue \in Seq(Command) /\ queue' = Tail(queue)
  BY DEF TypeOK, Replies
<1>2. /\ DOMAIN queue' = 1..(Len(queue) - 1) /\ DOMAIN queue = 1..Len(queue)
      /\ \A i \in 1..(Len(queue) - 1) : queue'[i] = queue[i + 1] /\ i + 1 \in 1..Len(queue)
  BY <1>1
<1>3. QED
  BY <1>2 DEF StartsNamed

\* The commands come from transactions that carry a wallpaper, and from clients
\* whose requests are parsed.
LEMMA StartsStep == Inv /\ StartsNamed /\ [Next]_vars => StartsNamed'
<1> SUFFICES ASSUME Inv, StartsNamed, [Next]_vars
             PROVE  StartsNamed'
  OBVIOUS
<1>t. TypeOK /\ queue \in Seq(Command)
  BY DEF Inv, TypeOK
<1>u. UNCHANGED queue => StartsNamed'
  BY DEF StartsNamed
<1>1. CASE UNCHANGED vars
  BY <1>1, <1>u DEF vars, applyVars
<1>2. CASE Clients
  <2>1. CASE \E o \in Outputs, s \in Specs : ApplyBegins(o, s) \/ LaneBegins(o, s)
    BY <2>1, <1>u DEF ApplyBegins, LaneBegins, Begin
  <2>2. CASE \E o \in Outputs : RestoreBegins(o)
    BY <2>2, <1>u DEF RestoreBegins
  <2>3. ASSUME NEW cmd \in RawCommands, NEW s \in Specs \cup {NoSpec}, RawCommand(cmd, s)
        PROVE  StartsNamed'
    <3>1. cmd \in {"start", "retry"} => s \in Specs
      BY <2>3 DEF RawCommand
    <3>2. QED
      BY <1>t, <2>3, <3>1, StartsSent DEF RawCommand
  <2>4. QED
    BY <1>2, <2>1, <2>2, <2>3 DEF Clients
<1>3. ASSUME NEW a \in Actors, SendsStart(a) \/ SendsStop(a) PROVE StartsNamed'
  <2>1. CASE SendsStart(a)
    <3>1. txn[a].spec \in Specs
      BY <2>1 DEF SendsStart, At, Inv, RecordsRemembered, Remembers, Underway
    <3>2. QED
      BY <1>t, <2>1, <3>1, StartsSent DEF SendsStart
  <2>2. CASE SendsStop(a)
    BY <1>t, <2>2, StartsSent DEF SendsStop
  <2>3. QED
    BY <1>3, <2>1, <2>2
<1>4. ASSUME NEW a \in Actors, Proceeds(a), ~SendsStart(a), ~SendsStop(a) PROVE StartsNamed'
  BY <1>4, <1>u DEF Proceeds, Refuses, Enumerates, ReadsRecord, SeesPromotion, SeesFailure,
       EnsuresOurs, Persists, Switches, Succeeds, VerifyFails, FindsOurs, LeavesRenderer,
       QueueFull, RevertsStore
<1>5. CASE LaneChecks \/ RestoreProceeds
  BY <1>5, <1>u DEF LaneChecks, LanePasses, RestoreProceeds, Restores, RestoreConfirms, Forgets
<1>6. ASSUME NEW a \in Actors, CallTimesOut(a) PROVE StartsNamed'
  <2>1. PICK i \in DOMAIN queue : queue' = [queue EXCEPT ![i].by = Nobody]
    BY <1>6 DEF CallTimesOut
  <2>2. \A j \in DOMAIN queue : queue[j] \in Command
    BY <1>t
  <2>3. /\ DOMAIN queue' = DOMAIN queue
        /\ \A j \in DOMAIN queue : queue'[j].cmd = queue[j].cmd /\ queue'[j].spec = queue[j].spec
    BY <2>1, <2>2 DEF Command
  <2>4. QED
    BY <2>3 DEF StartsNamed
<1>7. CASE SupervisorExecutes
  BY <1>7, <1>t, StartsTaken
     DEF SupervisorExecutes, ExecutesStart, StartErrs, ExecutesStop, ExecutesAck
<1>8. CASE SupervisorSteps \/ (\E o \in Outputs, c \in Configs : UserPicks(o, c))
  BY <1>8, <1>u DEF SupervisorSteps, UserPicks
<1>9. CASE DaemonRestarts
  BY <1>9 DEF DaemonRestarts, StartsNamed
<1>10. QED
  BY <1>1, <1>2, <1>3, <1>4, <1>5, <1>6, <1>7, <1>8, <1>9 DEF Next

\* Whatever the clients, the playlist, the user and the time limits do, the
\* supervisor is used only by calls it answers, with wallpapers that exist: what
\* it promises (Supervisor!ServesClients) is all the transactions rest on.
THEOREM ApplyUsesService == Spec => ServiceSpec
<1>1. Init => ServiceInit /\ StartsNamed
  BY DEF Init, StartsNamed
<1>2. Inv /\ StartsNamed /\ [Next]_vars => [ServiceNext]_service
  <2> SUFFICES ASSUME Inv, StartsNamed, [Next]_vars
               PROVE  ServiceNext \/ UNCHANGED service
    BY DEF service
  <2>t. TypeOK /\ queue \in Seq(Command)
    BY DEF Inv, TypeOK
  <2>1. CASE UNCHANGED vars
    BY <2>1 DEF vars
  <2>2. CASE Clients
    BY <2>2 DEF Clients, ApplyBegins, LaneBegins, Begin, RestoreBegins, RawCommand
  <2>3. ASSUME NEW a \in Actors, Proceeds(a) \/ CallTimesOut(a) PROVE UNCHANGED service
    BY <2>3, <2>t, ThreadMoves DEF CallTimesOut
  <2>4. CASE LaneChecks \/ RestoreProceeds
    BY <2>4 DEF LaneChecks, LanePasses, RestoreProceeds, Restores, RestoreConfirms, Forgets
  <2>5. CASE ExecutesStart
    <3>1. 1 \in DOMAIN queue /\ Head(queue) = queue[1]
      BY <2>5, <2>t DEF ExecutesStart
    <3>2. Head(queue).spec \in Specs
      BY <2>5, <3>1 DEF ExecutesStart, StartsNamed
    <3>3. QED
      BY <2>5, <3>2 DEF ExecutesStart, ServiceNext
  <2>6. CASE StartErrs \/ ExecutesStop \/ ExecutesAck
    BY <2>6 DEF StartErrs, ExecutesStop, ExecutesAck, ServiceNext
  <2>7. CASE SupervisorSteps \/ DaemonRestarts
    BY <2>7 DEF SupervisorSteps, DaemonRestarts, ServiceNext
  <2>8. CASE \E o \in Outputs, c \in Configs : UserPicks(o, c)
    BY <2>8 DEF UserPicks
  <2>9. QED
    BY <2>1, <2>2, <2>3, <2>4, <2>5, <2>6, <2>7, <2>8 DEF Next, SupervisorExecutes
<1>3. Inv /\ StartsNamed /\ [Next]_vars => StartsNamed'
  BY StartsStep
<1>4. QED
  BY <1>1, <1>2, <1>3, InitInv, StepInv, PTL DEF Spec, ServiceSpec

=============================================================================
