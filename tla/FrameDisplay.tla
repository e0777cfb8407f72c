---------------------------- MODULE FrameDisplay ----------------------------
(***************************************************************************)
(* FrameItem, the display's frame reader and status                        *)
(* (modules/org/kde/kwe/display/frameitem.cpp), over frame files that      *)
(* producers create, fill, stop, corrupt and abandon.                      *)
(*                                                                         *)
(* FrameTransport shows that an accepted copy is the latest frame, so a    *)
(* frame is its file and sequence number here, and the copy is one step.   *)
(* FrameItem lives in the display's event loop: setFrameFile and the two   *)
(* timers never run inside a poll, but the producers do.                   *)
(*                                                                         *)
(* Left out: short reads and size changes (Invalid, as a bad header is),   *)
(* and what paint and the pointer do with the image.                       *)
(***************************************************************************)
EXTENDS Naturals

CONSTANTS
  Files,         \* paths a source may name; each is created at most once
  NoFile,
  MaxSequence    \* bound on the frames a producer publishes

ASSUME FilesAssumption == NoFile \notin Files
ASSUME MaxSequenceAssumption == MaxSequence \in Nat

VARIABLES
  file,          \* the frame files
  frameFile,     \* m_frameFile
  open,          \* m_file.isOpen(), and with it m_pollTimer
  received,      \* m_receivedSequence
  image,         \* m_image: the file and sequence it came from
  expired,       \* m_frameAge.elapsed() > FrozenAfterMilliseconds
  status,
  signaled,      \* m_frameFileReadySignaled
  reopening,     \* m_reopenTimer is active
  poll           \* the poll under way

display == <<frameFile, open, received, image, expired, status, signaled, reopening, poll>>
vars == <<file, display>>

\* "publishing" is an odd generation, and "sequence" the generation halved.
File == [header : {"missing", "blank", "valid", "corrupt"}, alive : BOOLEAN,
         sequence : 0..MaxSequence, publishing : BOOLEAN, stopping : BOOLEAN]

NewFile == [header |-> "missing", alive |-> TRUE, sequence |-> 0,
            publishing |-> FALSE, stopping |-> FALSE]

Image == [file : Files, sequence : 0..MaxSequence]
NoImage == [file |-> NoFile, sequence |-> 0]

\* A poll: whether one is under way, the generation it read (halved), whether
\* it has read the state, and whether that said Stopping.
Poll == [pc : {"idle", "state", "check"}, before : 0..MaxSequence, stopping : BOOLEAN]
NoPoll == [pc |-> "idle", before |-> 0, stopping |-> FALSE]

Statuses == {"Waiting", "Live", "Frozen", "Invalid", "Stopped"}

TypeOK ==
  /\ file \in [Files -> File]
  /\ frameFile \in Files \cup {NoFile}
  /\ open \in BOOLEAN /\ received \in BOOLEAN /\ expired \in BOOLEAN
  /\ signaled \in BOOLEAN /\ reopening \in BOOLEAN
  /\ image \in Image \cup {NoImage}
  /\ status \in Statuses
  /\ poll \in Poll

-----------------------------------------------------------------------------
(* The producers (SharedFrameWriter), as the display meets them.           *)

Produce(f, guard, next) ==
  /\ file[f].alive /\ guard
  /\ file' = [file EXCEPT ![f] = next]
  /\ UNCHANGED display

\* create: the file exists, all zero.
CreateFile(f) ==
  Produce(f, file[f].header = "missing", [file[f] EXCEPT !.header = "blank"])

\* create: initialize_header.
InitializeHeader(f) ==
  Produce(f, file[f].header = "blank", [file[f] EXCEPT !.header = "valid"])

BeginPublish(f) ==
  Produce(f, /\ file[f].header = "valid" /\ file[f].sequence < MaxSequence
             /\ ~file[f].publishing,
          [file[f] EXCEPT !.publishing = TRUE])

EndPublish(f) ==
  Produce(f, file[f].publishing,
          [file[f] EXCEPT !.publishing = FALSE, !.sequence = @ + 1])

\* set_state(Stopping): the producer ends.
StopProducer(f) ==
  Produce(f, file[f].header = "valid" /\ ~file[f].publishing,
          [file[f] EXCEPT !.stopping = TRUE, !.alive = FALSE])

\* A bad producer breaks its header.
CorruptHeader(f) ==
  Produce(f, file[f].header = "valid", [file[f] EXCEPT !.header = "corrupt"])

KillProducer(f) == Produce(f, TRUE, [file[f] EXCEPT !.alive = FALSE])

-----------------------------------------------------------------------------
(* FrameItem.                                                              *)

\* Mutant of Closed: the new source counts as announced.
ClosedKeepingSignal == received' = FALSE /\ UNCHANGED signaled

\* closeFrameFile; the caller says whether the file is open afterwards.
Closed == signaled' = FALSE /\ received' = FALSE

\* Whether openFrameFile finds the file and a header it accepts.
Openable(f) == file[f].header = "valid"

\* Mutant of Opened: a file that cannot be opened is given up.
OpenedOnce(f) ==
  IF Openable(f)
  THEN open' = TRUE /\ status' = "Waiting" /\ reopening' = FALSE
  ELSE open' = FALSE /\ status' = "Invalid" /\ UNCHANGED reopening

\* openFrameFile, and setFrameFile starting the reopen timer when it fails (the
\* timer's own attempt leaves it running).
Opened(f) ==
  IF Openable(f)
  THEN open' = TRUE /\ status' = "Waiting" /\ reopening' = FALSE
  ELSE open' = FALSE /\ status' = "Invalid" /\ reopening' = TRUE

\* Mutant of SetFrameFile: the old image goes with its file.
SetFrameFileClearing(f) ==
  /\ poll.pc = "idle"
  /\ f # frameFile
  /\ frameFile' = f
  /\ Closed
  /\ Opened(f)
  /\ image' = NoImage
  /\ UNCHANGED <<file, expired, poll>>

\* setFrameFile with a path.  The poll that openFrameFile makes at once is the
\* next poll here.
SetFrameFile(f) ==
  /\ poll.pc = "idle"
  /\ f # frameFile
  /\ frameFile' = f
  /\ Closed
  /\ Opened(f)
  /\ UNCHANGED <<file, image, expired, poll>>

\* setFrameFile with an empty path.
ClearFrameFile ==
  /\ poll.pc = "idle"
  /\ frameFile # NoFile
  /\ frameFile' = NoFile
  /\ Closed
  /\ open' = FALSE /\ status' = "Waiting" /\ reopening' = FALSE
  /\ UNCHANGED <<file, image, expired, poll>>

\* m_reopenTimer.
Reopen ==
  /\ poll.pc = "idle"
  /\ reopening /\ ~open /\ frameFile # NoFile
  /\ Closed
  /\ Opened(frameFile)
  /\ UNCHANGED <<file, frameFile, image, expired, poll>>

\* More than FrozenAfterMilliseconds pass after the last accepted frame.
Expire ==
  /\ image # NoImage /\ ~expired
  /\ expired' = TRUE
  /\ UNCHANGED <<file, frameFile, open, received, image, status, signaled, reopening, poll>>

Source == file[frameFile]

\* pollFrame: the header is no longer valid.
PollInvalid ==
  /\ poll.pc = "idle" /\ open
  /\ Source.header # "valid"
  /\ status' = "Invalid"
  /\ UNCHANGED <<file, frameFile, open, received, image, expired, signaled, reopening, poll>>

\* pollFrame: an even generation.  An odd one ends the poll at once, without a
\* change.
PollGeneration ==
  /\ poll.pc = "idle" /\ open
  /\ Source.header = "valid"
  /\ ~Source.publishing
  /\ poll' = [pc |-> "state", before |-> Source.sequence, stopping |-> FALSE]
  /\ UNCHANGED <<file, frameFile, open, received, image, expired, status, signaled, reopening>>

\* Mutant of Seen: sequence numbers of another file count.
SeenAnywhere == image # NoImage /\ poll.before = image.sequence

\* The frame is the one on display.
Seen == received /\ poll.before = image.sequence

\* Mutant of Age: the age of the last frame is not looked at.
AgeIgnoringTime == IF Source.stopping THEN "Stopped" ELSE status

\* The status a poll without a new frame leaves.
Age == IF Source.stopping THEN "Stopped" ELSE IF expired THEN "Frozen" ELSE status

\* pollFrame: the producer state, and the end of a poll that has no new frame.
PollSeen ==
  /\ poll.pc = "state" /\ Seen
  /\ status' = Age
  /\ poll' = NoPoll
  /\ UNCHANGED <<file, frameFile, open, received, image, expired, signaled, reopening>>

\* pollFrame: the producer state before the copy of a new frame.
PollState ==
  /\ poll.pc = "state" /\ ~Seen
  /\ poll' = [poll EXCEPT !.pc = "check", !.stopping = Source.stopping]
  /\ UNCHANGED <<file, frameFile, open, received, image, expired, status, signaled, reopening>>

Unchanged == ~Source.publishing /\ Source.sequence = poll.before

\* pollFrame: the copy is accepted, and frameFileOpened emitted for the first.
PollAccept ==
  /\ poll.pc = "check" /\ Unchanged
  /\ image' = [file |-> frameFile, sequence |-> poll.before]
  /\ received' = TRUE
  /\ expired' = FALSE
  /\ status' = IF poll.stopping THEN "Stopped" ELSE "Live"
  /\ signaled' = TRUE
  /\ poll' = NoPoll
  /\ UNCHANGED <<file, frameFile, open, reopening>>

\* pollFrame: the generation moved on.
PollReject ==
  /\ poll.pc = "check" /\ ~Unchanged
  /\ poll' = NoPoll
  /\ UNCHANGED <<file, frameFile, open, received, image, expired, status, signaled, reopening>>

-----------------------------------------------------------------------------
Init ==
  /\ file = [f \in Files |-> NewFile]
  /\ frameFile = NoFile
  /\ open = FALSE /\ received = FALSE /\ expired = FALSE
  /\ signaled = FALSE /\ reopening = FALSE
  /\ image = NoImage
  /\ status = "Waiting"
  /\ poll = NoPoll

Producer(f) ==
  \/ CreateFile(f) \/ InitializeHeader(f) \/ BeginPublish(f) \/ EndPublish(f)
  \/ StopProducer(f) \/ CorruptHeader(f) \/ KillProducer(f)

PollStep == PollInvalid \/ PollGeneration \/ PollSeen \/ PollState
            \/ PollAccept \/ PollReject

Next ==
  \/ \E f \in Files : (Producer(f) \/ SetFrameFile(f))
  \/ ClearFrameFile \/ Reopen \/ Expire \/ PollStep

Spec == Init /\ [][Next]_vars

\* The event loop runs its timers and time passes; nobody else owes anything.
Fairness == WF_vars(PollStep) /\ WF_vars(Reopen) /\ WF_vars(Expire)

FairSpec == Spec /\ Fairness

-----------------------------------------------------------------------------
(* Properties.                                                             *)

\* A status that speaks of the source's frames is about the source: the image
\* came from it.  Switching sources leaves Live, Frozen and Stopped behind even
\* when both files have the same sequence number (setFrameFile, pollFrame).
StatusIsAboutSource ==
  status \in {"Live", "Frozen", "Stopped"} => image.file = frameFile

\* frameFileOpened, which DisplaySession turns into the acknowledgement of a
\* handoff, is only sent for a source whose frame is on display.
SignalMeansShown == signaled => open /\ image.file = frameFile

\* What the display says is about what it shows: its status to the user and its
\* signal to DisplaySession (statusText, frameFileOpened).
DisplayInv == TypeOK /\ StatusIsAboutSource /\ SignalMeansShown

\* FRAME_PROTOCOL_V1.md, "Purpose and boundary": the last good image stays
\* through stalls, exits, corruption and switches, until a newer frame of its
\* source or one of the new source is there.
LastGoodKept ==
  [][image' # image =>
       /\ image'.file = frameFile
       /\ (image'.file = image.file => image'.sequence >= image.sequence)]_vars

\* A source whose header appears after its path was announced is opened: the
\* reopen timer does not stop before.
LateFileOpens ==
  \A f \in Files :
    (frameFile = f /\ file[f].header = "valid") ~>
      (frameFile # f \/ open \/ file[f].header = "corrupt")

StopIsShown ==
  \A f \in Files :
    (open /\ frameFile = f /\ ~file[f].alive /\ file[f].stopping
       /\ file[f].header = "valid") ~>
      (frameFile # f \/ (status = "Stopped" /\ image.sequence = file[f].sequence))

CleanStallFreezes ==
  \A f \in Files :
    (expired /\ frameFile = f /\ ~file[f].alive /\ ~file[f].publishing)
      ~> (frameFile # f \/ status # "Live" \/ ~expired)

\* A producer that ended outside publish is not reported as Live for ever: its
\* last frame is shown, as Stopped when it said so, and no longer as Live when it
\* died silently (pollFrame).
EndIsShown == StopIsShown /\ CleanStallFreezes
=============================================================================
