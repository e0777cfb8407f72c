------------------------------- MODULE Apply -------------------------------
(***************************************************************************)
(* The apply and restore transactions of kwe-daemon (crates/kwe-daemon/    *)
(* src/apply.rs) over the supervisor's promises (RendererService).         *)
(*                                                                         *)
(* Two threads run them: "api", the accept loop, which serves one request  *)
(* at a time (wallpaper.apply, wallpaper.restore, the raw renderer         *)
(* commands), and "lane", the playlist's apply worker.  apply and the lane *)
(* share a lock; restore and the raw commands do not take it.  Between     *)
(* them: the supervisor's command queue, the assignment store and its      *)
(* file, and the desktop of each output.                                   *)
(*                                                                         *)
(* A command whose caller gave up after five seconds stays queued.  A      *)
(* status call changes nothing, so it is a step that finds the queue       *)
(* empty: every command sent before it has been executed.  Sizes, scaling, *)
(* the catalog's answer and the capability gate are choices of success or  *)
(* failure before the start.  The desktop is external: a script or a probe *)
(* may fail, and a script may fail after it took effect.                   *)
(***************************************************************************)
EXTENDS RendererService, Naturals, Sequences

CONSTANTS
  Outputs,
  Configs,       \* wallpaper configurations of other plugins
  StockConfig,   \* the stock image plugin's
  KWE,           \* the configuration with KWE_PLUGIN
  QueueMax,      \* COMMAND_CAPACITY
  RawCommands,   \* of renderer.start, retry, stop and ack, the ones clients send
  WriteOutcomes  \* of atomic_write, see Written

ASSUME OutputsAssumption == Outputs # {}
ASSUME ConfigsAssumption == StockConfig \in Configs /\ KWE \notin Configs
ASSUME SpecsAssumption == NoSpec \notin Specs
ASSUME QueueAssumption == QueueMax \in Nat \ {0}
ASSUME RawAssumption == RawCommands \subseteq {"start", "retry", "stop", "ack"}
ASSUME WriteAssumption ==
  "saved" \in WriteOutcomes /\ WriteOutcomes \subseteq {"saved", "lost", "unsynced"}

VARIABLES
  queue,     \* commands the supervisor has not executed
  lock,      \* apply_lock
  txn,       \* what each thread is doing
  store,     \* AssignmentStore in memory
  file,      \* assignments-v1.json
  desktop    \* the configuration each output's desktop shows

applyVars == <<queue, lock, txn, store, file, desktop>>
vars == <<service, applyVars>>

Actors == {"api", "lane"}
Nobody == "nobody"

Desktops == Configs \cup {KWE}
Assignment == [wallpaper : Specs, previous : Desktops]
NoAssignment == [wallpaper |-> NoSpec, previous |-> KWE]
Records == Assignment \cup {NoAssignment}

Steps == {"idle",
          "check", "enumerate", "record", "start", "starting", "wait",
          "promoted", "persist", "switch", "verify",
          "failed", "ours", "stopping", "revert",
          "restore", "confirm", "forget",
          "calling"}

\* What "found" is once it is void.
Disturbed == [desktop |-> "changed", record |-> NoAssignment]

\* The locals of a transaction; "found" (what the desktop showed and the record
\* was when it began, until a restore or the user changes the output) and
\* "wasShown" (its wallpaper has come on screen) are history.
Transaction ==
  [step : Steps, output : Outputs, spec : Specs \cup {NoSpec},
   previous : Desktops, old : Records,
   found : [desktop : Desktops, record : Records] \cup {Disturbed}, wasShown : BOOLEAN]

Idle ==
  [step |-> "idle", output |-> CHOOSE o \in Outputs : TRUE, spec |-> NoSpec,
   previous |-> KWE, old |-> NoAssignment, found |-> Disturbed, wasShown |-> FALSE]

Command == [by : Actors \cup {Nobody}, cmd : {"start", "retry", "stop", "ack"}, spec : Specs \cup {NoSpec}]

TypeOK ==
  /\ ServiceTypeOK
  /\ queue \in Seq(Command) /\ Len(queue) <= QueueMax
  /\ lock \in Actors \cup {Nobody}
  /\ txn \in [Actors -> Transaction]
  /\ store \in [Outputs -> Records] /\ file \in [Outputs -> Records]
  /\ desktop \in [Outputs -> Desktops]

-----------------------------------------------------------------------------
(* Helpers.                                                                *)

At(a, step) == txn[a].step = step
Goto(a, step) == txn' = [txn EXCEPT ![a].step = step]

\* A history update: "by" has done something to the output of the others.
Disturb(ts, o, by) ==
  [a \in Actors |->
     IF a # by /\ ts[a].output = o THEN [ts[a] EXCEPT !.found = Disturbed] ELSE ts[a]]

Undisturbed(t) == t.found # Disturbed

\* AssignmentStore::set and remove: the memory follows a write that succeeded;
\* an error after the rename leaves the new contents in the file.  Removing a
\* record that does not exist writes nothing.
Written(o, record, outcome) ==
  /\ store' = IF outcome = "saved" THEN [store EXCEPT ![o] = record] ELSE store
  /\ file' = IF outcome = "lost" THEN file ELSE [file EXCEPT ![o] = record]

Set(o, record, outcome) == Written(o, record, outcome)

Remove(o, outcome) ==
  IF store[o] = NoAssignment
  THEN outcome = "saved" /\ UNCHANGED <<store, file>>
  ELSE Written(o, NoAssignment, outcome)

\* Mutant of PreviousFor: what the desktop shows is always what is saved.
PreviousAsSeen(o, seen) == seen

\* previous_for: under our own plugin the stored record's previous is carried.
PreviousFor(o, seen) ==
  IF seen = KWE /\ store[o] # NoAssignment THEN store[o].previous ELSE seen

\* Mutant of Reverted: a failed transaction always drops the record.
RevertedToNothing(t, outcome) == Remove(t.output, outcome)

\* The store half of rollback_after_failure.
Reverted(t, outcome) ==
  IF t.old = NoAssignment THEN Remove(t.output, outcome) ELSE Set(t.output, t.old, outcome)

\* A command takes its place in the queue; "by" waits for its answer.
Send(a, cmd, spec) ==
  /\ Len(queue) < QueueMax
  /\ queue' = Append(queue, [by |-> a, cmd |-> cmd, spec |-> spec])

\* Every command sent before has been executed: the status call is answered.
StatusAnswers == queue = <<>>

-----------------------------------------------------------------------------
(* apply and apply_playlist, up to the start.                              *)

Begin(a, step, o, s) ==
  /\ At(a, "idle") /\ lock = Nobody
  /\ lock' = a
  /\ txn' = [txn EXCEPT ![a] =
       [Idle EXCEPT !.step = step, !.output = o, !.spec = s,
                    !.found = [desktop |-> desktop[o], record |-> store[o]]]]
  /\ UNCHANGED <<service, queue, store, file, desktop>>

\* wallpaper.apply; with the lock taken it answers Busy and changes nothing.
ApplyBegins(o, s) == Begin("api", "enumerate", o, s)

\* The playlist's request.
LaneBegins(o, s) == Begin("lane", "check", o, s)

\* The check with the lock held: not foreign, or status did not answer.
LanePasses(applied) ==
  /\ At("lane", "check")
  /\ \/ StatusAnswers /\ ~ForeignLive(txn["lane"].spec, applied)
     \/ ~StatusAnswers
  /\ Goto("lane", "enumerate")
  /\ UNCHANGED <<service, queue, lock, store, file, desktop>>

\* An answer before the start: Yielded, a rejected request, a missing output, a
\* gate that refuses.  Nothing has been touched.
Refuses(a) ==
  /\ txn[a].step \in {"check", "enumerate", "record"}
  /\ lock' = Nobody
  /\ txn' = [txn EXCEPT ![a] = Idle]
  /\ UNCHANGED <<service, queue, store, file, desktop>>

\* enumerate_fresh: the desktop as the probe saw it.
Enumerates(a) ==
  /\ At(a, "enumerate")
  /\ txn' = [txn EXCEPT ![a].step = "record", ![a].previous = desktop[txn[a].output]]
  /\ UNCHANGED <<service, queue, lock, store, file, desktop>>

\* previous_for, then stored_assignment: two reads of the store, here one.
ReadsRecord(a) ==
  /\ At(a, "record")
  /\ LET o == txn[a].output
     IN  txn' = [txn EXCEPT ![a].step = "start", ![a].old = store[o],
                            ![a].previous = PreviousFor(o, @)]
  /\ UNCHANGED <<service, queue, lock, store, file, desktop>>

-----------------------------------------------------------------------------
(* complete_apply.                                                         *)

SendsStart(a) ==
  /\ At(a, "start")
  /\ \E cmd \in IF a = "api" THEN {"start", "retry"} ELSE {"start"} : Send(a, cmd, txn[a].spec)
  /\ Goto(a, "starting")
  /\ UNCHANGED <<service, lock, store, file, desktop>>

\* Mutant of ReadsPromoted: a worker that is on its way counts.
ReadsLiveWorker(a) == HasLiveWorker /\ requested = txn[a].spec

\* wait_for_promotion reads our renderer as promoted.
ReadsPromoted(a) == Promoted(txn[a].spec)

SeesPromotion(a) ==
  /\ At(a, "wait") /\ StatusAnswers
  /\ ReadsPromoted(a)
  /\ Goto(a, "promoted")
  /\ UNCHANGED <<service, queue, lock, store, file, desktop>>

\* A terminal phase, another owner, a status call that fails, or the deadline.
SeesFailure(a) ==
  /\ At(a, "wait")
  /\ Goto(a, "failed")
  /\ UNCHANGED <<service, queue, lock, store, file, desktop>>

\* ensure_ours
EnsuresOurs(a) ==
  /\ At(a, "promoted")
  /\ \/ StatusAnswers /\ requested = txn[a].spec /\ Goto(a, "persist")
     \/ (StatusAnswers => requested # txn[a].spec) /\ Goto(a, "failed")
  /\ UNCHANGED <<service, queue, lock, store, file, desktop>>

Persists(a) ==
  /\ At(a, "persist")
  /\ \E outcome \in WriteOutcomes :
       /\ Set(txn[a].output, [wallpaper |-> txn[a].spec, previous |-> txn[a].previous], outcome)
       /\ txn' = [Disturb(txn, txn[a].output, a) EXCEPT
                    ![a].step = IF outcome = "saved" THEN "switch" ELSE "failed"]
  /\ UNCHANGED <<service, queue, lock, desktop>>

\* The switch script: it may do nothing (a stale index, an exception), and its
\* caller may get an error although it took effect.
Switches(a) ==
  /\ At(a, "switch")
  /\ desktop' \in {desktop, [desktop EXCEPT ![txn[a].output] = KWE]}
  /\ \E step \in {"verify", "failed"} :
       txn' = [Disturb(txn, txn[a].output, a) EXCEPT ![a].step = step]
  /\ UNCHANGED <<service, queue, lock, store, file>>

\* verify_switch confirms: the transaction answers Ok.
Succeeds(a) ==
  /\ At(a, "verify")
  /\ desktop[txn[a].output] = KWE
  /\ lock' = Nobody
  /\ txn' = [txn EXCEPT ![a] = Idle]
  /\ UNCHANGED <<service, queue, store, file, desktop>>

\* It reports another plugin or index, or the probe fails.
VerifyFails(a) ==
  /\ At(a, "verify")
  /\ Goto(a, "failed")
  /\ UNCHANGED <<service, queue, lock, store, file, desktop>>

-----------------------------------------------------------------------------
(* rollback_after_failure.                                                 *)

\* Still ours by identity: it will be stopped.
FindsOurs(a) ==
  /\ At(a, "failed") /\ StatusAnswers
  /\ requested = txn[a].spec
  /\ Goto(a, "ours")
  /\ UNCHANGED <<service, queue, lock, store, file, desktop>>

\* Not ours, or status did not answer.
LeavesRenderer(a) ==
  /\ At(a, "failed")
  /\ StatusAnswers => requested # txn[a].spec
  /\ Goto(a, "revert")
  /\ UNCHANGED <<service, queue, lock, store, file, desktop>>

SendsStop(a) ==
  /\ At(a, "ours")
  /\ Send(a, "stop", NoSpec)
  /\ Goto(a, "stopping")
  /\ UNCHANGED <<service, lock, store, file, desktop>>

\* try_send on a full queue: the start is an error, the rollback goes on.
QueueFull(a) ==
  /\ Len(queue) = QueueMax
  /\ \/ At(a, "start") /\ Goto(a, "failed")
     \/ At(a, "ours") /\ Goto(a, "revert")
  /\ UNCHANGED <<service, queue, lock, store, file, desktop>>

\* The record from before is put back; the error is the transaction's answer.
RevertsStore(a) ==
  /\ At(a, "revert")
  /\ \E outcome \in WriteOutcomes : Reverted(txn[a], outcome)
  /\ lock' = Nobody
  /\ txn' = [Disturb(txn, txn[a].output, a) EXCEPT ![a] = Idle]
  /\ UNCHANGED <<service, queue, desktop>>

-----------------------------------------------------------------------------
(* restore, on the api thread, without the lock.                           *)

\* The enumeration gives only the desktop's index; the target is the stored
\* previous configuration, or the stock image.
RestoreBegins(o) ==
  /\ At("api", "idle")
  /\ txn' = [txn EXCEPT !["api"] =
       [Idle EXCEPT !.step = "restore", !.output = o, !.old = store[o],
          !.found = [desktop |-> desktop[o], record |-> store[o]],
          !.previous = IF store[o] = NoAssignment THEN StockConfig ELSE store[o].previous]]
  /\ UNCHANGED <<service, queue, lock, store, file, desktop>>

\* The restore script.
Restores ==
  /\ At("api", "restore")
  /\ LET o == txn["api"].output
     IN  /\ desktop' \in {desktop, [desktop EXCEPT ![o] = txn["api"].previous]}
         /\ \/ txn' = [Disturb(txn, o, "api") EXCEPT !["api"].step = "confirm"]
            \/ txn' = [Disturb(txn, o, "api") EXCEPT !["api"] = Idle]
  /\ UNCHANGED <<service, queue, lock, store, file>>

\* Mutant of RestoreVerified: the script's answer is enough.
ScriptAnswered(o) == TRUE

\* verify_restore compares the plugin, so any of its configurations will do for
\* the stock image; the model tells the others apart.
RestoreVerified(o) == desktop[o] = txn["api"].previous

RestoreConfirms ==
  /\ At("api", "confirm")
  /\ \/ RestoreVerified(txn["api"].output) /\ Goto("api", "forget")
     \/ txn' = [txn EXCEPT !["api"] = Idle]
  /\ UNCHANGED <<service, queue, lock, store, file, desktop>>

\* The record is cleared, best-effort, if there was one.
Forgets ==
  /\ At("api", "forget")
  /\ IF txn["api"].old = NoAssignment
     THEN UNCHANGED <<store, file>>
     ELSE \E outcome \in WriteOutcomes : Remove(txn["api"].output, outcome)
  /\ txn' = [Disturb(txn, txn["api"].output, "api") EXCEPT !["api"] = Idle]
  /\ UNCHANGED <<service, queue, lock, desktop>>

-----------------------------------------------------------------------------
(* The supervisor's side of the queue, and the callers' time limit.        *)

\* renderer.start, retry, stop and ack.
RawCommand(cmd, s) ==
  /\ At("api", "idle")
  /\ s = NoSpec <=> cmd \in {"stop", "ack"}
  /\ Send("api", cmd, s)
  /\ Goto("api", "calling")
  /\ UNCHANGED <<service, lock, store, file, desktop>>

\* What the caller does with the answer: complete_apply fails on an error and
\* on a terminal phase; rollback ignores it.
AfterReply(step, ok) ==
  CASE step = "starting" -> IF ok THEN "wait" ELSE "failed"
    [] step = "stopping" -> "revert"
    [] step = "calling"  -> "idle"

\* History: a wallpaper that comes on screen while its transaction runs.
Watched(ts) ==
  [a \in Actors |->
     IF ts[a].step \in {"starting", "wait", "promoted"} /\ Promotes /\ coming = ts[a].spec
     THEN [ts[a] EXCEPT !.wasShown = TRUE] ELSE ts[a]]

Replies(ok) ==
  LET c == Head(queue)
  IN  /\ queue' = Tail(queue)
      /\ IF c.by # Nobody
         THEN LET step == AfterReply(txn[c.by].step, ok)
              IN  txn' = [txn EXCEPT ![c.by] = IF step = "idle" THEN Idle ELSE [@ EXCEPT !.step = step]]
         ELSE UNCHANGED txn
      /\ UNCHANGED <<lock, store, file, desktop>>

\* A start that is answered; RolledBack and Quarantined are refusals.
ExecutesStart ==
  /\ queue # <<>> /\ Head(queue).cmd \in {"start", "retry"}
  /\ StartAnswered(Head(queue).spec)
  /\ Replies(phase' \notin {"RolledBack", "Quarantined"})

\* An error: a handoff is open, or the retry's save failed.
StartErrs ==
  /\ queue # <<>> /\ Head(queue).cmd \in {"start", "retry"}
  /\ \/ previous # NoSpec /\ UNCHANGED service
     \/ Head(queue).cmd = "retry" /\ RetryNotSaved
  /\ Replies(FALSE)

ExecutesStop ==
  /\ queue # <<>> /\ Head(queue).cmd = "stop"
  /\ StopAnswered
  /\ Replies(TRUE)

ExecutesAck ==
  /\ queue # <<>> /\ Head(queue).cmd = "ack"
  /\ AckAnswered \/ UNCHANGED service
  /\ Replies(TRUE)

\* COMMAND_TIMEOUT: the caller goes on, its command stays queued.
CallTimesOut(a) ==
  /\ \E i \in DOMAIN queue :
       /\ queue[i].by = a
       /\ queue' = [queue EXCEPT ![i].by = Nobody]
  /\ LET step == AfterReply(txn[a].step, FALSE)
     IN  txn' = [txn EXCEPT ![a] = IF step = "idle" THEN Idle ELSE [@ EXCEPT !.step = step]]
  /\ UNCHANGED <<service, lock, store, file, desktop>>

\* What the supervisor does of its own.
SupervisorSteps ==
  /\ ServiceSteps
  /\ txn' = Watched(txn)
  /\ UNCHANGED <<queue, lock, store, file, desktop>>

-----------------------------------------------------------------------------
(* The user and the daemon.                                                *)

\* The user picks another wallpaper in the desktop's own settings.
UserPicks(o, c) ==
  /\ desktop[o] # c
  /\ desktop' = [desktop EXCEPT ![o] = c]
  /\ txn' = Disturb(txn, o, Nobody)
  /\ UNCHANGED <<service, queue, lock, store, file>>

\* The daemon dies and comes back: AssignmentStore::open loads the file.
DaemonRestarts ==
  /\ ServiceEnds
  /\ queue' = <<>> /\ lock' = Nobody
  /\ txn' = [a \in Actors |-> Idle]
  /\ store' = file
  /\ UNCHANGED <<file, desktop>>

-----------------------------------------------------------------------------
Init ==
  /\ ServiceInit
  /\ queue = <<>> /\ lock = Nobody
  /\ txn = [a \in Actors |-> Idle]
  /\ store = [o \in Outputs |-> NoAssignment]
  /\ file = store
  /\ desktop \in [Outputs -> Configs]

Clients ==
  \/ \E o \in Outputs, s \in Specs : ApplyBegins(o, s) \/ LaneBegins(o, s)
  \/ \E o \in Outputs : RestoreBegins(o)
  \/ \E cmd \in RawCommands, s \in Specs \cup {NoSpec} : RawCommand(cmd, s)

\* What a transaction's thread does next.
Proceeds(a) ==
  \/ Refuses(a) \/ Enumerates(a) \/ ReadsRecord(a) \/ SendsStart(a)
  \/ SeesPromotion(a) \/ SeesFailure(a) \/ EnsuresOurs(a)
  \/ Persists(a) \/ Switches(a) \/ Succeeds(a) \/ VerifyFails(a)
  \/ FindsOurs(a) \/ LeavesRenderer(a) \/ SendsStop(a) \/ QueueFull(a)
  \/ RevertsStore(a)

LaneChecks == \E applied \in Specs \cup {NoSpec} : LanePasses(applied)
RestoreProceeds == Restores \/ RestoreConfirms \/ Forgets
SupervisorExecutes == ExecutesStart \/ StartErrs \/ ExecutesStop \/ ExecutesAck

Next ==
  \/ Clients
  \/ \E a \in Actors : Proceeds(a) \/ CallTimesOut(a)
  \/ LaneChecks \/ RestoreProceeds
  \/ SupervisorExecutes \/ SupervisorSteps
  \/ \E o \in Outputs, c \in Configs : UserPicks(o, c)
  \/ DaemonRestarts

Spec == Init /\ [][Next]_vars

-----------------------------------------------------------------------------
(* Properties.                                                             *)

\* "EVERY failure from here on rolls back": a transaction that fails after its
\* start leaves the record as it was when the transaction began, previous
\* configuration included, unless the write of the rollback itself fails or a
\* restore or the user changed the output meanwhile.  (rollback_after_failure)
FailureLeavesRecord ==
  [][\A a \in Actors :
       RevertsStore(a) /\ Undisturbed(txn[a])
         => \/ store'[txn[a].output] = txn[a].found.record
            \/ \E outcome \in WriteOutcomes \ {"saved"} : Reverted(txn[a], outcome)]_vars

\* A transaction that answers Ok has the configuration it replaced on record, in
\* the file: what the desktop showed when it began or, under our own plugin, the
\* one on record then; a re-apply never loses the original.  (previous_for)
SuccessKeepsOriginal ==
  [][\A a \in Actors :
       Succeeds(a) /\ Undisturbed(txn[a])
         => LET t == txn[a]
            IN  file[t.output] =
                  [wallpaper |-> t.spec,
                   previous  |-> IF t.found.desktop = KWE /\ t.found.record # NoAssignment
                                 THEN t.found.record.previous ELSE t.found.desktop]]_vars

\* A wallpaper.apply that answers Ok had its wallpaper come on screen after it
\* began: no older renderer, late acknowledgement or command left in the queue
\* is taken for its promotion.  (wait_for_promotion, ensure_ours)
SuccessWasShown ==
  [][Succeeds("api") => txn["api"].wasShown]_vars

\* The saved configuration outlives a restore that did nothing: when restore drops
\* a record, the desktop shows what the record said, unless the lane or the user
\* has changed the output meanwhile.  (verify_restore)
RecordOutlivesNoOp ==
  [][Forgets /\ Undisturbed(txn["api"]) /\ txn["api"].found.record # NoAssignment
       => desktop[txn["api"].output] = txn["api"].found.record.previous]_vars

\* restore: it "never leaves a desktop assigned to a daemon-owned renderer".
RestoreGivesBack ==
  [][Forgets /\ Undisturbed(txn["api"]) => desktop[txn["api"].output] # KWE]_vars

=============================================================================
