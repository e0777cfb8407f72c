# kwe: a verification development

This directory models the control core of kwe (a wallpaper engine: a daemon that
runs untrusted renderers, and thin display clients) in TLA+.  The modules are
translated from the sources under `crates/` and `modules/`; every definition
that stands for code is listed with its lines in `PROJECT.json` ("map").

## 1. Inventory

The daemon (`crates/kwe-daemon`) is one process with four long-lived threads: the
API loop, the renderer supervisor, the playlist session (with an apply worker of
its own, "the lane") and the audio capture service.  Threads talk through bounded
command channels (capacity 16) with a 5 s reply timeout; a caller that gives up
does not withdraw its command.  Renderers are separate processes that publish
frames in a shared file and take input on pipes.  The display is another process
again (Plasma, or an agent on macOS), polling the daemon's socket twice a second.

| Component | State | Operations | Hard behaviours | What makes it correct |
|---|---|---|---|---|
| Renderer supervisor (`supervisor.rs`) | active, candidate and retired worker, pending restart, requested spec, phase, display generation, strikes, last good still, state file | start, retry, stop, acknowledge, status; a tick of four stages; daemon crash and restart | commands interleaved with ticks, a deadline racing an acknowledgement and a crash, writes that fail at any point | no process is lost or shown twice, the old source stays until the new one is committed, a generation names one source, phases are true, recovery ends |
| State file and still slots (`persist.rs`, `supervisor.rs`) | JSON state file, stills a and b | atomic write, alternate slot, quarantine a corrupt file | crash between two writes, error after the rename | the file always names a complete still |
| Worker pipes (`supervisor.rs`, `kwe-input-protocol`) | one pending pointer event, audio frame and media state per worker, sequence numbers | forward, coalesce, flush, read acknowledgements | coalescing, would-block, a retired worker restored with an old event | order, no acknowledgement beyond what was sent |
| Frame transport (`kwe-frame-protocol`, `frameitem.cpp`) | a mapped file: generation, active slot, producer state, two slots; reader's last image | publish, set state, snapshot, poll, reopen | torn reads, producer killed inside a publish, file replaced | an accepted image is one whole published frame, in order; a stall is noticed |
| Apply transaction (`apply.rs`) | apply lock, assignment store and file, desktop configuration | apply, restore, rollback, promotion wait | timeouts with the command still queued, ownership lost between steps, failing scripts and writes | store, desktop and renderer agree or are rolled back; the original configuration is never lost |
| Playlist runtime and store (`playlist_runtime.rs`, `playlist.rs`) | position, deadline or remaining time, seed, history; playlists | start, tick, pause, resume, snapshot, restore, edits | edits and availability changing under a position, pauses and restarts, clock jumps | time shown is the duration, nothing is replayed, every entry gets its turn |
| Playlist session (`playlist_session.rs`) | active playlist, runtimes, snapshots on disk, backoff, in-flight apply | list, put, remove, activate, pause, next, import, tick | asynchronous applies completing late, foreign renderers, backoff | what is shown is the active entry, or the user's choice; one transaction at a time |
| Display session, input client (`modules/org/kde/kwe/display`) | source, validated source, pending acknowledgement, request in flight; pending event | poll, acknowledge, send | answers to old questions, deferred calls, aborted connections | acknowledges only what it opened; follows the daemon; recovers |
| Playback policy (`policy.rs`) | none | evaluate rules | time windows over midnight, precedence | equals its reference definition |
| Grants (`grants.rs`) | bounded map, file | get, set, list | failed write, corrupt file | memory never ahead of the file |
| Audio capture (`audio.rs`) | child, restart window, disabled flag | spawn, reap, budget, shutdown | failing spawns, exits in a burst | bounded restarts, one worker |
| Workshop cache (`workshop_cache.rs`) | cached items with stamps | merge a scan, age, evict | libraries vanishing and returning | an unsubscribed item fades, real metadata is not overwritten |
| API server, inspection, macOS backend, CDP client, report protocol, renderers, shader helper, parsers, CLI, manager | see `PROJECT.json` | | | |

`PROJECT.json` lists the components with their sources, and under "hazards" the
places in the code where a test would hardly reach what can go wrong.

## 2. Structure

| Module | Models | Relation to the others |
|---|---|---|
| `Supervisor`, `MCSupervisor`, `SupervisorProofs` | the supervisor thread, its clients, crash and restart | implements `RendererService` (`ServesClients`) and `SourceHandoff` (`HandsOver`) |
| `RendererService` | what the supervisor promises to the threads that call it | extended by `Apply` and `PlaylistSession` |
| `SourceHandoff` | what the supervisor promises to the display: the source, the one it replaced, the generation | implemented by `Supervisor`, `DisplaySession` and `InputPath` (`HandsOver` in each) |
| `FrameSource`, `FrameTransport`, `MCFrame`, `FrameProofs` | the shared frame file, its writer and its readers | `FrameTransport` implements `FrameSource` (`AtomicFrames`) |
| `FrameDisplay`, `ItemProofs` | the display's frame item: opening, polling, status | takes a poll's copy as atomic, as `AtomicFrames` allows |
| `Apply`, `MCApply`, `ApplyProofs` | apply, the lane's apply, restore, raw renderer commands | runs over `RendererService` |
| `PlaylistRuntime`, `MCPlaylist`, `PlaylistProofs` | selection and timing of a playlist, what the session saves and restores | |
| `PlaylistSession`, `MCSession`, `SessionProofs` | the session thread, its lane, backoff, the user | runs over `RendererService`; a tick's choice of an entry is left open, as `PlaylistRuntime` decides it |
| `DisplaySession`, `MCDisplay`, `DisplayProofs` | the display's client of the daemon, between a handoff and a frame item | its handoff is `SourceHandoff` at the grain of paths and generations; its opened-file signal is `FrameDisplay`'s |
| `InputPath`, `MCInput`, `InputProofs` | `InputClient`, the daemon's server and a worker's control pipes, end to end | the same handoff, `SourceHandoff` at the grain of workers |

Three abstract specifications carry the composition.  `FrameSource` is the atomic
register a frame file promises to be.  `RendererService` is what a caller of the
supervisor can observe, at the grain of identities; `Apply` and `PlaylistSession`
run over these promises and not over the supervisor.  That `Supervisor` implements
them, and that every behaviour of the two modules is one of `RendererService`
(`ApplyUsesService`, `SessionUsesService`), is what makes them statements about the
daemon.  `SourceHandoff` is what the display observes: `DisplaySession` and
`InputPath` use a supervisor reduced to the handoff, which is neither freer nor,
within the life of a daemon, more restricted than `SourceHandoff`
(`SourceHandsOver` and `EveryMoveIsMet` in the proofs of both), and the full
supervisor implements it too (`SupervisorHandsOver`).

Not done, and worth doing: a module for the still slots, and the daemon's end in the
two display modules (see "Also seen" for both).

## 3. The modules

### Supervisor

State is that of `SupervisorRuntime`: `active`, `candidate`, `retired`
(`RetiredWorker` with the generation it offered), `pending` (the delayed
restart), `requested`, `phase`, `displayGeneration`, the failure `records` and
`lastGood` in memory, and `stored`, what the state file holds.  `children` is
the operating system's view: processes spawned and not yet reaped.  A worker is
its process id, its identity (`id:hash:kind`, what quarantine is keyed by) and
the canary frames it has shown.

`run` is a loop of `recv_timeout` and `tick`.  `loop` is its program counter:
one command (or a timeout), then the four stages of `tick` in order, each an
action or a choice of actions.  No command can run between two stages, as in the
code; any number of stages may find nothing due.  What a clock decides (a
deadline passed or not) and what an inspection of a process finds (a frame, an
exit, exit code 73 or 74) is a choice, so every race of a command, a deadline
and an exit is explored.

The branches of `start_selected` (handoff open, quarantined, launch failed, retry
whose save failed), of `acknowledge_display`, `complete_handoff_timeout`,
`handle_active_failure` (inside and outside a handoff), `handle_candidate_failure`
and `promote_candidate` are actions of their own.  A save of the state file has
three outcomes: `"saved"`, `"lost"` (an error, the old file stays), `"unsynced"`
(an error after the rename: `atomic_write` reports a failed directory fsync
although the new file is in place).  `Crash` may happen between any two actions,
and `Restart` loads the file, with or without its failure records.

Left out of it: legacy `id:hash` failure records (a file of the running build
holds none, and the records of any other build are dropped when it is opened),
the control pipes (`InputPath`), the grants, and the two slot files behind a
still.

### RendererService

The identities on screen, coming, retired and waiting for a restart, the
requested one and the phase.  Commands and what the supervisor does on its own
are actions; a quarantine, a failure, a deadline and a failed write are choices.

### SourceHandoff

The worker on screen, the one it replaced until the handoff is settled, and the
display generation: a promotion (over nothing, or opening a handoff), its commit,
its rollback, the end of the source, and the end of the daemon, whose successor
counts from the start again.  A worker is a process id in `Supervisor`, a frame path
in `DisplaySession` and a set of pipes in `InputPath`; `Successor` is the wrapping
increment in the first and a plain one in the others, where nothing runs long enough
to wrap.

### FrameSource and FrameTransport

`FrameSource` is what a frame file promises: an atomic register of numbered
images.  `FrameTransport` is the seqlock, one step per access to the mapping:
the producer's `publish` (mark the generation odd, copy the words of the slot in
any order, select the slot, mark it running, make the generation even) and
`set_state`; a reader's call (read the generation, the slot, the words in any
order, recheck), with retries.  The Rust reader tries eight times, the display
once per poll: `Attempts`.  The producer may be killed between any two accesses.
Both sides fence their accesses with sequentially consistent or acquire and
release operations; the model takes each side's accesses in program order.

`PROPERTY AtomicFrames` is the refinement: an accepted frame is the one a read of
the register would return at the recheck.

### FrameDisplay

`FrameItem` over several frame files.  Because a copy accepted by the seqlock is
atomic (above), an image is its file and sequence number, and a poll has three
steps (generation, state, recheck), between which the producers run; the Qt
event loop keeps `setFrameFile`, the reopen timer and polls apart.  Files appear
(missing, all zero, valid header), are published to, stopped, corrupted and
abandoned.

### Apply

Two threads, `"api"` (the accept loop: `wallpaper.apply`, `wallpaper.restore` and
the raw `renderer.*` commands, one request at a time) and `"lane"` (the
playlist's apply worker).  `apply` and the lane hold the apply lock from their
first check to their answer; `restore` and the raw commands do not take it.
`txn[a]` is what a thread has in its locals and the step it is at: every store
write, every script, every supervisor call and every poll of the promotion wait
is a step, and the rollback is the chain `failed`, `ours`, `stopping`, `revert`.

A call puts its command in `queue`; `ExecutesStart`, `ExecutesStop` and
`ExecutesAck` carry it out and answer.  `CallTimesOut` gives up and leaves the
command in the queue without an owner, so it is carried out later, under
whatever has happened since.  `store` is the assignment store in memory, `file`
its file; a write has the outcomes of the supervisor's.  The `desktop` of an
output is external: a script may fail before or after it took effect, and the
user may change the configuration at any time.

`found`, `wasShown` are history: what the transaction found, until somebody else
(a restore, the lane, the user) has touched its output.

### PlaylistRuntime

One playlist: `runtime` is `PlaylistRuntime` (index, identity, deadline, paused
remainder, seed, history), `playlist` its stored definition, `saved` the snapshot
in the session's map and in the state file, `decision` the session's
`last_decision`.  `Ticked`, `Started`, `PausedAt`, `ResumedAt`, `Snapshot` and
`Restored` are the runtime's operations as functions of it; the actions are the
session's: `Tick` (with `maybe_persist`), `Activate`, `Deactivate`, `PutPlaylist`
(which leaves the runtime alone, so that the next operation meets a stale
position), `SetUnavailable`, `Crash`, `Shutdown`.  `Pause` and `Resume` are
operations of the runtime that the session does not call today; they are
included because the runtime offers them and its documentation makes promises
about them.  Time is kept as the time left, which is all the code ever computes
from its two clocks, so behaviours are unbounded.  `shown` and `played` are
history variables: how long the entry has really been up, and what has ever been
selected.

The draw of a shuffle is exact for up to three alternatives: with
`seed < 53020` the product `(seed ^ rotl(seed, 17)) * 0x9E3779B9` does not
overflow, it has the parity of the seed and is divisible by three.  That limits
what TLC may be asked; the theorems use of a draw among n only that it is below n,
and hold for playlists of any length.

### PlaylistSession

The session thread (`Tick`: fold the lane's completion, decide, take the
supervisor's verdict, dispatch), the lane (which takes the apply lock, checks
again for a foreign renderer and runs the transaction) and the user (apply, stop,
acknowledge, activate, deactivate, remove).  A transaction here is its start, its
wait and its answer; the store and the desktop are in `Apply`.  `memory` is the
session's apply state: the applied wallpaper, the backoff gate and the refused
identities.  A quarantined entry is skipped and its start refused; nothing a
session does lifts a quarantine.  A restart reads the active playlist, its
position and the quarantine back, and forgets the rest.

### DisplaySession

`session` has the fields of `DisplaySession`; each slot is one action
(`Polls`, `PostedRefresh`, `FrameFileOpens`, `Connects`, `Receives`, `Fails`,
`Disconnects`, `PostedCheck`, `SetSocketPath`).  A slot that aborts the socket
leaves the requests that were written in the daemon's `inbox`, where they are
carried out and answered to nobody; `posted` holds the zero timers, which may
fire during a later request.  On the daemon's side `source` is the handoff
(the source's path and generation, the previous worker's path), which promotes,
rolls back, times out and ends on its own.

### InputPath

An event goes from `InputClient` (one in flight, one waiting, a cooldown after an
error) to the daemon's `inbox`, to the active worker if the request names the
current generation, into its pipe (`PipeRoom` messages) or the place of its
stream's pending message, and comes back as an acknowledgement the supervisor compares with the ceiling of
what it wrote.  Audio frames and media states, which share sequence numbers and
the pipe with the pointer, are the second stream.  Handoffs and rollbacks change
the worker under way: a retired worker keeps its pipe and its pending message and
may become the source again.

## 4. Runs

| Run | Instance | What it shows |
|---|---|---|
| `supervisor_core` | 2 identities, 3 process ids, 3 strikes, 1 record, 3 canary frames, generations wrap at 3, every write succeeds; fairness | handoff exclusion, exact process table, phases backed by workers, state file never behind memory, generations name sources, candidates never cost the source; a handoff resolves; with quiet clients recovery ends |
| `supervisor_faults` | 2 strikes, 2 records, 2 canary frames, writes `"saved"` or `"lost"` | the supervisor implements `RendererService`; an uncommitted handoff keeps the old source and the old fallback; no failure schedules a quarantined identity |
| `frame_transport` | 2 words, two images, 3 publishes, one reader with 2 attempts; fairness | refinement of `FrameSource`; the last frame of a producer that ended outside publish is read |
| `frame_display` | 2 files of up to 2 frames; fairness | status and signal are about the image on display, the last good image stays, late files open, a producer that ended outside publish does not stay `Live` |
| `playlist_core` | entries 1-2-3 in all four modes, 3-1 in two; duration 2, two events (edit, report, pause), two activations or restarts; fairness | time is neither lost nor given, no entry is cut short, repeat-off replays nothing over crashes, shuffle does not repeat at once, exhausted is true; everything that stays available is played (ordered, or repeat off) |
| `apply_core` | 2 wallpapers, 1 output, 1 other configuration, a queue of 1, raw start, stop and acknowledge, writes `"saved"` or `"lost"` | a failed transaction leaves the record it found, a successful one has the original configuration in the file and did bring its wallpaper on screen, a restore that did nothing drops no record |
| `session_core` | 2 playlists over 2 wallpapers, one of which the user may choose, 5 events; fairness | two transactions never overlap, the user's live choice is not displaced, a refused entry is not dispatched again; once the world is quiet the playlist's entry is what is asked for |
| `display_session` | 3 workers, 5 events; fairness | an acknowledgement pends only while it is due, closes only handoffs whose file was opened, arrives without the supervisor's timer; the display follows the source through rollbacks |
| `input_path` | 2 workers, a pipe of one message, 3 pointer events, 1 frame, 4 events; fairness | no acknowledgement is refused, no worker reads a sequence twice or backwards, what waits for room arrives, the client leaves `Error` and `Sending` |

Runs that are expected to fail, each on one property that a document or a comment
states (`PROJECT.json`, "findings", quotes the line):

| Run | The code |
|---|---|
| `restore_keeps_kwe` | under our own plugin with no record, `previous_for` saves that plugin as the previous configuration, and a later restore "succeeds" onto it |
| `switch_yields` | `reset_apply` forgets the renderer the session itself started, which the next verdict takes for the user's: a switched playlist yields for ever |
| `shuffle_starves` | a repeating shuffle of three entries never plays the middle one |

The arithmetic of the last one carries over to other lengths: evaluated over the
first thousand selections, the daemon's draw plays two of four entries (the
first two) and two of seven (the first and the fifth).

### Bounds

- `supervisor_core`: two identities let one replace the other and itself; three
  process ids are the most that can be alive at once (active, candidate or
  retired, and the one being spawned over a stopped one); one record with two
  identities makes eviction happen; three canary frames allow a partial canary; a
  generation that wraps at 3 reuses numbers early.  Nothing else is bounded.
- `frame_transport`: three publishes use both slots and come back to the first,
  which is what can tear a copy; readers share nothing, so one suffices here, and
  the theorem covers any set.  `MaxGeneration` replaces the wrap of a 64-bit
  counter, which does not happen in the life of a file.
- `frame_display`: two frames per file let sequence numbers of two files be
  equal, less or greater.
- `playlist_core`: two events are enough for an edit of a paused playlist or an
  edit that meets an unavailable entry; two restores for an activation followed
  by a crash, a shutdown or a reactivation.  The history's limit of 1024 is out
  of reach here.
- `apply_core`: nothing counts up, so behaviours are unbounded.  One output is
  where transactions meet; several change nothing but independence.  A queue of
  one holds a command whose caller has given up while another thread meets the
  queue full.  `"unsynced"` writes are left to the theorems and to "Also seen".
- `session_core`: five events are a user's choice, a failure of it, a switch of
  the playlist and a failure of the entry, with one to spare.  Retries after
  backoff are free of charge, failures are not, so a behaviour ends quiet.
- `display_session`: a promotion over nothing, one over it, its rollback, and two
  faults; three workers so that a rolled back path differs from a new one.
- `input_path`: two workers give a handoff and a rollback; three pointer events
  are one in the pipe, one waiting and one that takes its place; a frame's
  generation can be above or below the pointer sequence.  The run checks no
  deadlock: when the bounds are spent and all has been delivered, every party
  waits.

### Fairness

- `Supervisor`: the thread keeps looping (weak fairness of the command stage and
  of the tick), and time passes: deadlines, restart delays and canary timeouts
  are strong-fairness choices because the loop tests them again and again and
  they do not stay in the future.  Clients and crashes are never fair.
  `RecoverySettles` asks only for behaviours in which, from some point on, the
  command stage changes nothing.
- `FrameTransport`: a reader's call continues while its thread runs.  The
  producer is not fair: it may stop anywhere.
- `FrameDisplay`: Qt's timers fire and time passes.
- `PlaylistRuntime`: the session ticks while a playlist is active (the 500 ms
  cadence) and time passes.
- `PlaylistSession`: the session ticks, its backoff ends, the lane and the accept
  loop go on with what they began, and what the supervisor has under way settles
  (`HandoffResolves` and `RecoverySettles` of the supervisor).  That the tick is
  reached although clients keep the command queue full is assumed: `recv_timeout`
  takes a queued command first, and how often there is one is a question of rates.
- `DisplaySession`: the poll timer and the posted calls fire, a connection that
  was opened connects and its reply is read, the daemon answers its requests, and
  a frame file that exists is opened.  Nothing makes the handoff's deadline pass
  or a request fail, so `AckArrives` is due to the acknowledgement alone.
- `InputPath`: the display's event loop, the daemon's server and the supervisor's
  loop run, and a worker that stays reads its pipe (one that hangs is killed by
  the heartbeat).

## 5. Proofs

Every safety property of the runs that pass (invariant, action property or
refinement) is stated by a theorem; the theorems hold for all values of the
constants that satisfy the assumptions named with them.

`SupervisorProofs`, for any sets of identities and process ids, any limits that
satisfy `BoundsAssumption`, and every mix of write outcomes except where a theorem
names one:

- `HandoffInvariant`: `TypeOK` and `HandoffShape`.  They are inductive only
  together: `TypeOK` of a commit needs to know that an open handoff has an active
  worker, and `HandoffShape` needs types to tell a worker from no worker.
- `ProcessesAccounted`: `NoOrphans`, inductive relative to those two (a rollback
  puts the retired worker in the active place, and is safe because no candidate
  can be there).
- `StepKinds` sorts every step by what it does to the source: it stays, a handoff
  commits, rolls back, the source dies, a candidate is promoted, all is stopped.
  From it follow the action properties `CandidatesAreHarmless`,
  `PreviousSourceKept` and `GenerationsNameSources`; the last uses that the
  counter takes at least two values, so a wrapped successor differs.
- `SupervisorServes`: `Spec => ServesClients`, the step simulation of
  `RendererService` under the handoff invariant and `CandidatePhase` (a candidate
  runs only in the phases that say so).
- `QuarantinesStand` (`QuarantineStands`), a case per action: who launches, who
  schedules, and whether the records allow it.
- `SupervisorHandsOver`: `Spec => HandsOver`, the step simulation of
  `SourceHandoff` from the same kinds of step.
- `PhasesAreBacked` (`PhaseIsBacked`) and `NothingIsLost` (`StoredIsCurrent`) are
  about a daemon whose writes succeed (`SaveOutcomes = {"saved"}`), and
  `FallbackWaits` (`FallbackAwaitsCommit`) about one whose writes fail without
  taking effect (`"unsynced"` excluded).  These hypotheses are not for the proof:
  the code breaks the properties without them, as section 6 tells, and a best-effort
  save that fails is a difference of file and memory by definition.  The lemma
  `PhaseStep` says how little of the first is needed: under any writes, only
  `RetrySaveFails` can leave a phase that nothing backs.  `FallbackWaits` needs the
  invariant `FallbackStored`: a save writes the whole state, so a strike saved while
  a handoff is open would carry an uncommitted still into the file if memory had
  one.

`FrameProofs`, for any frame size, pixels, set of readers and attempts:

- `FrameTypes`, then the seqlock invariant `FrameInv`: the generation is odd
  exactly inside publish, what has been copied is in the slot that will be
  selected (`WriterInv`), and while a reader's first generation still stands the
  words it has are those of the active slot (`Coherent`).  The recheck compares
  the generation, so an accepted copy is the active slot.
- `TransportIsAtomic`: `Spec => AtomicFrames`, the step simulation of
  `FrameSource` under that invariant.  The assumption it rests on is that the
  generation counts without wrapping.

`ApplyProofs`, for any outputs, wallpapers, configurations and raw commands, any
queue length, and every mix of write outcomes, `"unsynced"` included:

- The invariant is `TypeOK`, `CallersWait` (a queued command belongs to a thread
  that waits for it, or to nobody, and none waits for two) and
  `RecordsRemembered`.  The last says, step by step, what the locals of a
  transaction nobody has disturbed know of its output: before the start that what
  it found is still there, up to the rollback that `old` is the record it found
  and `previous` the configuration a success has to keep, after the store write
  that the file holds both.  It needs `CallersWait` because an answer moves the
  thread it is for from one of these steps to the next.
- `ApplyTypes`; `FailuresAreUndone` (`FailureLeavesRecord`), `OriginalIsKept`
  (`SuccessKeepsOriginal`) and `RecordsAreUsed` (`RecordOutlivesNoOp`) follow
  from the invariant in the step at hand.
- `SuccessesWereShown` (`SuccessWasShown`) needs two more invariants.  `LockHeld`:
  apply and the lane have the apply lock, so the lane starts nothing while an apply
  waits.  `PromotionIsSeen`: an apply's start is the last command of the queue, so
  when it is answered no command of a caller that gave up is left behind it;
  and from that answer on either its wallpaper has come on screen, or
  `NotYetShown` holds, under which whatever else is coming was not requested.  The
  promotion wait reads the requested identity and the phase, and `NotYetShown`
  denies what it looks for.  This is also why leftovers *before* the start do no
  harm: they are carried out first.
- `ApplyUsesService`: `Spec => ServiceSpec`.  A command leaves the queue long after
  it was put there, so this needs `StartsNamed`: a start in the queue names a
  wallpaper, because a transaction that has come so far carries one and a client's
  request is parsed.

`ItemProofs`, for any files and number of frames:

- The invariant is `DisplayInv` with three relations between the item, its poll
  and the files: only an open file is polled, what was received is the image of
  the current file, and `InOrder`: the image is not ahead of its file, and the
  sequence number a poll began with is between the two.  The last is what keeps a
  poll that spans several publications, or a file that was closed and reopened,
  from going back.
- `StatusIsHonest` (`DisplayInv`) and `LastGoodIsKept` (`LastGoodKept`).

`PlaylistProofs`, for any playlists over a finite set of wallpapers, any duration
and any number of events and restores.  `NoneIsApart` only says that the constant
standing for an absent value is no value; `DefinitionsAreValid` is what
`Playlist::validate` enforces:

- Lemmas about the operators come first.  `NthMember`: a finite set of numbers has
  a member of every rank below its size, since ranks are distinct; `DrawInRange`
  and `NextIsEligible`: a choice is an entry that is available and not excluded,
  and none is made only if there is no such entry.  `SelectKinds`, `TickedKinds`
  and the like sum up what an operation can return, and the actions are proved from
  those.
- The invariant relates four things: the runtime, its snapshot, the decision last
  reported, and what has really happened (`shown`, `played`).  `PlayingIsCounted`
  and `SavedIsCounted` say that the runtime and the snapshot know all that was
  played and owe the entry no less than its duration leaves.  They are not
  inductive, because a tick whose decision is the reported one is not saved:
  `ChoiceIsSaved` says that while a choice stands reported, the snapshot is that
  choice, as it was made.
- `TimesAreKept`, `EntriesAreNotCutShort`, `EntriesAreNotReplayed`,
  `EntriesAreNotRepeated` and `ExhaustionIsTrue`.

`SessionProofs`, for any playlists, wallpapers and number of events:

- `TransactionsAlternate` (`OneTransaction`) is the apply lock (`LockHeldOnce`).
- `ChoicesStand` (`ChoiceStands`): the lane checks for a foreign renderer once,
  with the lock held, and starts its own a step later.  `CheckStands` says that
  the check is still good then, although the supervisor fails, restarts and
  promotes in between; for that `ChoiceLaunched` has to say that a choice which is
  no longer asked for is nowhere it could come back from, and `UserLaunched` that
  it was so from the moment the user's transaction started it.
- `RefusalsStand` (`RefusedNotRetried`): the fold comes before the decision.
- `SessionUsesService`: `Spec => ServiceSpec`, from `ServiceKinds`, which sorts the
  steps by what they ask of the supervisor.

`InputProofs`, for any workers, pipe size and bounds:

- The invariant is, for each worker, `BelowCeiling` (no message in its pipe,
  waiting or read, and no acknowledgement on its way back, is above the ceiling)
  and `PointersOrdered` (what was read is before what is in the pipe, which is in
  order, and that before what waits), with `Generated`, which keeps a frame's
  generation from being 0.  A lemma per pipe operation shows that it keeps both.
- `NoAckIsRefused` and `PointersAreInOrder`.
- `SourceHandsOver` and `EveryMoveIsMet`: the supervisor here makes the moves of
  `SourceHandoff` only, and all of them that launch a worker anew, while events are
  left.  The reservation matters: a worker that ended is not launched again.

`DisplayProofs`, for any workers and any number of requests and faults:

- The invariant treats a generation as a claim about one source: the display, the
  reply on its connection and every request in the daemon carry none that is
  newer than the source's, and the source's own only with its file (`Current`) or,
  for an acknowledgement, with its file opened (`Known`).  A promotion and a
  rollback take a new generation, which makes every claim an old one; a stop
  keeps the generation and leaves no file to be wrong about.
- `PendingAcksAreDue` and `AcksAreEarned`.  The second is the safety of the
  handoff: an acknowledgement carried out long after its client gave up still
  means that this display had opened the file.
- `SourceHandsOver` and `EveryMoveIsMet`, as for `InputPath`, with the
  acknowledgement's commit among the moves.

The composition theorems (`HandsOver` of three modules, `ServiceSpec` of two) were
evaluated by TLC on the instances of section 4 before they were proved; they are
not among the runs' properties.  For what the display is shown to survive,
`EveryMoveIsMet` is the theorem to read: a refinement alone would hold of a
supervisor that never rolls back.

Only model-checked: the liveness properties, since fairness and ENABLED are outside
the prover: `HandoffResolves` and `RecoverySettles`, `LastFrameArrives`,
`LateFileOpens` and `EndIsShown`, `EntriesGetTheirTurn`, `PlaylistFollowed`,
`AckArrives` and `DisplayFollows`, `PendingArrives` and `ClientRecovers`.

## 6. Also seen

Disagreements of code and documentation met while modelling, each reproduced with
TLC or read off the code, and not kept as a run:

- A restart waiting when the same identity is quarantined is launched all the same
  (`supervisor.rs:1649`); `QuarantineStands` excuses exactly this launch.
- An acknowledgement that no handoff waits for reports `Live` for an identity that
  was refused (`supervisor.rs:1153`).
- A retry whose save fails leaves a recovering phase with nothing behind it
  (`supervisor.rs:1087`); `BETA_M4.md:406-410` trusts the phase.  This is why
  `PhaseIsBacked` is checked, and proved, for writes that succeed.
- Promotion clears the strikes (`supervisor.rs:1592`), so a wallpaper that dies
  after every canary restarts for ever; `SUPERVISOR_API_V1.md:589` bounds it.
- An error after the rename (`persist.rs:57`) leaves an uncommitted still in the
  state file while memory takes the old one back (`supervisor.rs:1843`), against
  `ARCHITECTURE.md:103`.  Then memory and file name different slots, and the next
  save overwrites the slot the file names: an interrupted commit loses the still
  `SUPERVISOR_API_V1.md:598-600` promises to keep.
- A producer killed inside publish leaves the display `Live` for ever
  (`frameitem.cpp:271`, `FRAME_PROTOCOL_V1.md:61`).
- `InputClient` begins a waiting event from a zero timer (`inputclient.cpp:228`)
  and reads the generation when it is connected, so an event of the previous
  generation can be sent under the new one (`INPUT_PROTOCOL_V1.md:32-35`); a newer
  event that began meanwhile is replaced by the older (`ALPHA_M1E.md:17`).
- A frame's acknowledgement may be lower than the pointer's before it, and lowers
  `input_ack_sequence`, which `INPUT_PROTOCOL_V1.md:60` calls monotonic.
- In the session: a renderer of its own is also foreign after a completion that
  was busy; `Wait` lasts for ever when a restarted candidate is refused; a gate
  refusal is folded into a playlist that was switched to meanwhile; a status call
  that fails lets the lane's foreign-renderer check pass.
- In apply: a rollback's `stop()` stops the old source too; ownership is compared
  by identity, with a gap between `status` and `stop`; when the write of a first
  record fails after its rename, the rollback finds no record in memory, writes
  nothing, and the record of the failed wallpaper returns with the next start; a
  restore racing the lane can drop the record the lane has just written.
- `requested_*` is overwritten when the active worker fails
  (`supervisor.rs:1650`), although `SUPERVISOR_API_V1.md:142` presents it as the
  request.
- An ordered playlist with repeat off can report `exhausted` for one tick although
  an entry skipped before is available again; the next tick plays it, which is why
  `ExhaustedIsTrue` speaks of shuffle.
- The display generation starts at 0 with every daemon (`supervisor.rs:984`) and is
  not saved, and the display keeps a pending acknowledgement over failed
  connections and sends it before it asks for the status
  (`displaysession.cpp:117`).  A daemon that restarts and promotes twice before the
  display's next connection can therefore be acknowledged a handoff whose file this
  display never opened: the old number is the new one.  It takes a display whose
  event loop stalls for two canaries while it polls twice a second.
  `SUPERVISOR_API_V1.md:153` has a stale generation rejected.  Found with TLC on
  `DisplaySession` with a daemon that ends as `SourceHandoff` says (`Resets`).

## 7. Not modelled

- `DisplaySession` and `InputPath` end with the daemon they began with: of
  `SourceHandoff` they lack `Resets`.  What a restart adds is the case above; the
  restart itself is in `Supervisor`, `Apply` and `PlaylistSession`.
- Still slots: a source has one still in `Supervisor`, whose commit is atomic
  with the state file except for the outcome `"unsynced"`.  What the two slots add
  is described above.
- The daemon's small parts (grants, audio capture's restart window, the workshop
  cache, playback policy, the API loop's dispatch) are sequential: one thread, one
  file or none, and no party whose steps could come between theirs.  The grants'
  write outcomes are those of `Apply`'s store.
- The text of the desktop scripts, the probe's parsing, the catalog and the
  capability gate are choices of success and failure in `Apply`.  The macOS backend
  answers those scripts from a record of its own, within the same choices.
- Renderers (web, video, scene), the shader helper, the CDP client and the report
  protocol are, for the rest of the system, workers that publish frames, fall
  silent, refuse or exit, which `Supervisor` and `FrameDisplay` allow at any time.
- Content and protocol parsers, shader preprocessing, layout arithmetic, command
  line tools and the manager's user interface are pure transformations, I/O or
  windowing.

These last two groups are most of the repository's lines, which is why the
definitions of this project stand for about one line in twenty: nearly all of the
daemon's and the display's concurrent state, and little of what they render,
parse or print.
