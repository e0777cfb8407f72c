----------------------------- MODULE ItemProofs -----------------------------
(***************************************************************************)
(* What FrameItem shows and says, for any files and any number of frames.  *)
(***************************************************************************)
EXTENDS FrameDisplay, TLAPS

(***************************************************************************)
(* The inductive invariant.                                                *)
(***************************************************************************)

\* A frame that is being published has a number left.
Counted == {r \in File : r.publishing => r.sequence < MaxSequence}

FilesCounted == file \in [Files -> Counted]

\* An open file has a path, and only an open file is polled.
PollsOpenFile ==
  /\ open => frameFile \in Files
  /\ poll.pc # "idle" => open

\* m_receivedSequence is about the image.
ReceivedIsShown == received => image.file = frameFile

\* Sequence numbers only grow: the image is not ahead of its file, and the poll
\* under way is between the two.
InOrder ==
  /\ image.file \in Files => image.sequence <= file[image.file].sequence
  /\ poll.pc # "idle" =>
       /\ poll.before <= file[frameFile].sequence
       /\ image.file = frameFile => image.sequence <= poll.before

Inv == DisplayInv /\ FilesCounted /\ PollsOpenFile /\ ReceivedIsShown /\ InOrder

-----------------------------------------------------------------------------
(* The producers.                                                          *)

\* A producer keeps its file's type and never takes a frame back.
LEMMA ProducerStep ==
  ASSUME FilesCounted, NEW f \in Files, Producer(f)
  PROVE  /\ FilesCounted'
         /\ \A g \in Files : file[g].sequence <= file'[g].sequence
         /\ UNCHANGED display
<1> DEFINE Grown == {r \in Counted : file[f].sequence <= r.sequence}
<1>1. file \in [Files -> Counted] /\ file[f] \in Counted /\ file[f] \in File
  BY DEF FilesCounted, Counted
<1>2. \A g \in Files : file[g].sequence \in 0..MaxSequence
  BY <1>1 DEF Counted, File
<1>3. ASSUME NEW next \in Grown, file' = [file EXCEPT ![f] = next]
      PROVE  /\ FilesCounted'
             /\ \A g \in Files : file[g].sequence <= file'[g].sequence
  <2>1. FilesCounted'
    BY <1>1, <1>3 DEF FilesCounted
  <2>2. ASSUME NEW g \in Files PROVE file[g].sequence <= file'[g].sequence
    <3>1. CASE g = f
      BY <1>1, <1>3, <3>1
    <3>2. CASE g # f
      <4>1. file'[g] = file[g]
        BY <1>1, <1>3, <3>2
      <4>2. QED
        BY <1>2, <4>1
    <3>3. QED
      BY <3>1, <3>2
  <2>3. QED
    BY <2>1, <2>2
<1>4. file[f].sequence \in 0..MaxSequence /\ MaxSequence \in Nat
  BY <1>2, MaxSequenceAssumption
<1>5. ASSUME NEW next \in File, next.sequence = file[f].sequence,
             next.publishing = file[f].publishing \/ file[f].sequence < MaxSequence
      PROVE  next \in Grown
  BY <1>1, <1>4, <1>5 DEF Counted
<1>6. /\ [file[f] EXCEPT !.header = "blank"] \in Grown
      /\ [file[f] EXCEPT !.header = "valid"] \in Grown
      /\ [file[f] EXCEPT !.header = "corrupt"] \in Grown
      /\ [file[f] EXCEPT !.stopping = TRUE, !.alive = FALSE] \in Grown
      /\ [file[f] EXCEPT !.alive = FALSE] \in Grown
      /\ file[f].sequence < MaxSequence => [file[f] EXCEPT !.publishing = TRUE] \in Grown
  <2>1. \A header \in {"blank", "valid", "corrupt"} : [file[f] EXCEPT !.header = header] \in Grown
    <3>1. \A header \in {"blank", "valid", "corrupt"} :
            /\ [file[f] EXCEPT !.header = header] \in File
            /\ [file[f] EXCEPT !.header = header].sequence = file[f].sequence
            /\ [file[f] EXCEPT !.header = header].publishing = file[f].publishing
      BY <1>1 DEF File
    <3>2. QED
      BY <3>1, <1>5
  <2>2. [file[f] EXCEPT !.stopping = TRUE, !.alive = FALSE] \in Grown
    <3>1. /\ [file[f] EXCEPT !.stopping = TRUE, !.alive = FALSE] \in File
          /\ [file[f] EXCEPT !.stopping = TRUE, !.alive = FALSE].sequence = file[f].sequence
          /\ [file[f] EXCEPT !.stopping = TRUE, !.alive = FALSE].publishing = file[f].publishing
      BY <1>1 DEF File
    <3>2. QED
      BY <3>1, <1>5
  <2>3. [file[f] EXCEPT !.alive = FALSE] \in Grown
    <3>1. /\ [file[f] EXCEPT !.alive = FALSE] \in File
          /\ [file[f] EXCEPT !.alive = FALSE].sequence = file[f].sequence
          /\ [file[f] EXCEPT !.alive = FALSE].publishing = file[f].publishing
      BY <1>1 DEF File
    <3>2. QED
      BY <3>1, <1>5
  <2>4. file[f].sequence < MaxSequence => [file[f] EXCEPT !.publishing = TRUE] \in Grown
    <3>1. /\ [file[f] EXCEPT !.publishing = TRUE] \in File
          /\ [file[f] EXCEPT !.publishing = TRUE].sequence = file[f].sequence
      BY <1>1 DEF File
    <3>2. QED
      BY <3>1, <1>5
  <2>5. QED
    BY <2>1, <2>2, <2>3, <2>4
<1>7. file[f].publishing => [file[f] EXCEPT !.publishing = FALSE, !.sequence = @ + 1] \in Grown
  <2> DEFINE next == [file[f] EXCEPT !.publishing = FALSE, !.sequence = @ + 1]
  <2> SUFFICES ASSUME file[f].publishing PROVE next \in Grown
    OBVIOUS
  <2>1. file[f].sequence < MaxSequence
    BY <1>1 DEF Counted
  <2>2. file[f].sequence + 1 \in 0..MaxSequence /\ file[f].sequence <= file[f].sequence + 1
    BY <1>4, <2>1
  <2>3. next \in File /\ next.sequence = file[f].sequence + 1 /\ next.publishing = FALSE
    BY <1>1, <2>2 DEF File
  <2> HIDE DEF next
  <2>4. QED
    BY <2>2, <2>3 DEF Counted
<1>8. PICK next \in Grown : file' = [file EXCEPT ![f] = next] /\ UNCHANGED display
  BY <1>5, <1>6, <1>7 DEF Producer, CreateFile, InitializeHeader, BeginPublish, EndPublish,
     StopProducer, CorruptHeader, KillProducer, Produce
<1>9. QED
  BY <1>3, <1>8

LEMMA NumbersAreNumbers ==
  ASSUME Inv
  PROVE  /\ \A f \in Files : file[f].sequence \in 0..MaxSequence
         /\ image.sequence \in 0..MaxSequence /\ poll.before \in 0..MaxSequence
         /\ image.file \in Files \cup {NoFile}
<1>1. \A f \in Files : file[f] \in File
  BY DEF Inv, DisplayInv, TypeOK
<1>2. image \in Image \cup {NoImage} /\ poll \in Poll
  BY DEF Inv, DisplayInv, TypeOK
<1>3. QED
  BY <1>1, <1>2, MaxSequenceAssumption DEF File, Image, NoImage, Poll

-----------------------------------------------------------------------------
(* FrameItem.                                                              *)

\* Whatever closes the file says nothing any more of the old source.
LEMMA CloseStep ==
  ASSUME Inv, poll.pc = "idle", Closed,
         frameFile' \in Files \cup {NoFile},
         \/ open' = FALSE /\ status' \in {"Waiting", "Invalid"} /\ reopening' \in BOOLEAN
         \/ frameFile' \in Files /\ open' = TRUE /\ status' = "Waiting" /\ reopening' = FALSE,
         UNCHANGED <<file, image, expired, poll>>
  PROVE  Inv'
<1> USE DEF Inv, DisplayInv
<1>1. TypeOK'
  BY DEF TypeOK, Closed, Statuses
<1>2. StatusIsAboutSource' /\ SignalMeansShown' /\ ReceivedIsShown'
  BY DEF Closed, StatusIsAboutSource, SignalMeansShown, ReceivedIsShown
<1>3. PollsOpenFile' /\ FilesCounted' /\ InOrder'
  BY DEF PollsOpenFile, FilesCounted, InOrder
<1>4. QED
  BY <1>1, <1>2, <1>3

LEMMA PollTypes ==
  ASSUME Inv
  PROVE  /\ [poll EXCEPT !.pc = "check", !.stopping = Source.stopping].pc = "check"
         /\ [poll EXCEPT !.pc = "check", !.stopping = Source.stopping].before = poll.before
         /\ poll.pc # "idle" => [poll EXCEPT !.pc = "check", !.stopping = Source.stopping] \in Poll
         /\ NoPoll \in Poll /\ NoPoll.pc = "idle"
<1>1. poll \in Poll
  BY DEF Inv, DisplayInv, TypeOK
<1>2. poll.pc # "idle" => file[frameFile] \in File
  BY DEF Inv, DisplayInv, TypeOK, PollsOpenFile
<1>3. poll.pc # "idle" => Source.stopping \in BOOLEAN
  BY <1>2 DEF Source, File
<1>4. NoPoll \in Poll /\ NoPoll.pc = "idle"
  BY MaxSequenceAssumption DEF Poll, NoPoll
<1>5. QED
  BY <1>1, <1>3, <1>4 DEF Poll

LEMMA InvStep == Inv /\ [Next]_vars => Inv'
<1> SUFFICES ASSUME Inv, [Next]_vars PROVE Inv'
  OBVIOUS
<1> USE DEF Inv, DisplayInv
<1>n. /\ \A f \in Files : file[f].sequence \in 0..MaxSequence
      /\ image.sequence \in 0..MaxSequence /\ poll.before \in 0..MaxSequence
      /\ MaxSequence \in Nat /\ NoFile \notin Files
  BY NumbersAreNumbers, MaxSequenceAssumption, FilesAssumption
<1>1. ASSUME NEW f \in Files, Producer(f) PROVE Inv'
  <2>1. /\ FilesCounted'
        /\ \A g \in Files : file[g].sequence <= file'[g].sequence
        /\ UNCHANGED display
    BY <1>1, ProducerStep
  <2>2. file' \in [Files -> File]
    BY <2>1 DEF FilesCounted, Counted
  <2>3. \A g \in Files : file'[g].sequence \in 0..MaxSequence
    BY <2>2 DEF File
  <2>4. InOrder'
    <3>1. image' = image /\ poll' = poll /\ frameFile' = frameFile
      BY <2>1 DEF display
    <3>2. image.file \in Files => image.sequence <= file'[image.file].sequence
      BY <2>1, <2>3, <1>n DEF InOrder
    <3>3. poll.pc # "idle" => poll.before <= file'[frameFile].sequence
      BY <2>1, <2>3, <1>n DEF InOrder, PollsOpenFile
    <3>4. QED
      BY <3>1, <3>2, <3>3 DEF InOrder
  <2>5. QED
    BY <2>1, <2>2, <2>4 DEF display, TypeOK, StatusIsAboutSource, SignalMeansShown, PollsOpenFile,
                            ReceivedIsShown
<1>2. ASSUME NEW f \in Files, SetFrameFile(f) PROVE Inv'
  BY <1>2, CloseStep DEF SetFrameFile, Opened
<1>3. CASE ClearFrameFile
  BY <1>3, CloseStep DEF ClearFrameFile
<1>4. CASE Reopen
  BY <1>4, CloseStep DEF Reopen, Opened, TypeOK
<1>5. CASE Expire
  BY <1>5 DEF Expire, TypeOK, StatusIsAboutSource, SignalMeansShown, FilesCounted, PollsOpenFile,
              ReceivedIsShown, InOrder
<1>6. CASE PollInvalid
  BY <1>6 DEF PollInvalid, TypeOK, Statuses, StatusIsAboutSource, SignalMeansShown, FilesCounted,
              PollsOpenFile, ReceivedIsShown, InOrder
<1>7. CASE PollGeneration
  <2>1. frameFile \in Files
    BY <1>7 DEF PollGeneration, PollsOpenFile
  <2>2. poll' \in Poll /\ poll'.before = file[frameFile].sequence
    BY <1>7, <1>n, <2>1 DEF PollGeneration, Source, Poll
  <2>3. InOrder'
    BY <1>7, <1>n, <2>1, <2>2 DEF PollGeneration, InOrder
  <2>4. QED
    BY <1>7, <2>2, <2>3 DEF PollGeneration, TypeOK, StatusIsAboutSource, SignalMeansShown,
       FilesCounted, PollsOpenFile, ReceivedIsShown
<1>8. CASE PollSeen
  <2>1. image.file = frameFile
    BY <1>8 DEF PollSeen, Seen, ReceivedIsShown
  <2>2. status' \in Statuses
    BY <1>8 DEF PollSeen, Age, TypeOK, Statuses
  <2>3. QED
    BY <1>8, <2>1, <2>2, PollTypes DEF PollSeen, TypeOK, StatusIsAboutSource, SignalMeansShown,
       FilesCounted, PollsOpenFile, ReceivedIsShown, InOrder
<1>9. CASE PollState
  BY <1>9, PollTypes DEF PollState, TypeOK, StatusIsAboutSource, SignalMeansShown,
     FilesCounted, PollsOpenFile, ReceivedIsShown, InOrder
<1>10. CASE PollAccept
  <2>1. open /\ frameFile \in Files /\ poll.pc # "idle"
    BY <1>10 DEF PollAccept, PollsOpenFile
  <2>2. image' \in Image /\ image'.file = frameFile /\ image'.sequence = poll.before
    BY <1>10, <1>n, <2>1 DEF PollAccept, Image
  <2>3. QED
    BY <1>10, <2>1, <2>2, PollTypes DEF PollAccept, TypeOK, Statuses, StatusIsAboutSource,
       SignalMeansShown, FilesCounted, PollsOpenFile, ReceivedIsShown, InOrder
<1>11. CASE PollReject
  BY <1>11, PollTypes DEF PollReject, TypeOK, StatusIsAboutSource, SignalMeansShown,
     FilesCounted, PollsOpenFile, ReceivedIsShown, InOrder
<1>12. CASE UNCHANGED vars
  BY <1>12 DEF vars, display, TypeOK, StatusIsAboutSource, SignalMeansShown,
     FilesCounted, PollsOpenFile, ReceivedIsShown, InOrder
<1>13. QED
  BY <1>1, <1>2, <1>3, <1>4, <1>5, <1>6, <1>7, <1>8, <1>9, <1>10, <1>11, <1>12 DEF Next, PollStep

LEMMA InvInit == Init => Inv
<1> SUFFICES ASSUME Init PROVE Inv
  OBVIOUS
<1>1. NewFile \in Counted /\ NoPoll \in Poll /\ NoPoll.pc = "idle" /\ NoImage.file = NoFile
  BY MaxSequenceAssumption DEF NewFile, Counted, File, NoPoll, Poll, NoImage
<1>2. FilesCounted /\ file \in [Files -> File]
  BY <1>1 DEF Init, FilesCounted, Counted
<1>3. QED
  BY <1>1, <1>2, FilesAssumption DEF Init, Inv, DisplayInv, TypeOK, Statuses, StatusIsAboutSource,
     SignalMeansShown, PollsOpenFile, ReceivedIsShown, InOrder

LEMMA InvAlways == Spec => []Inv
BY InvInit, InvStep, PTL DEF Spec

\* Live, Frozen and Stopped speak of the source whose frame is shown, and
\* frameFileOpened is never sent before that frame is on display, for any switches
\* and any producers.
THEOREM StatusIsHonest == Spec => []DisplayInv
<1>1. Inv => DisplayInv
  BY DEF Inv
<1>2. QED
  BY <1>1, InvAlways, PTL

\* The image only changes to a frame of the source, and never to an older one of
\* the same file, not even after the file was closed and reopened.
THEOREM LastGoodIsKept == Spec => LastGoodKept
<1> DEFINE Kept == image' # image =>
             /\ image'.file = frameFile
             /\ (image'.file = image.file => image'.sequence >= image.sequence)
<1>1. Inv /\ [Next]_vars => [Kept]_vars
  <2> SUFFICES ASSUME Inv, Next PROVE Kept
    BY DEF vars
  <2>1. CASE PollAccept
    <3>1. image'.file = frameFile /\ image'.sequence = poll.before /\ poll.pc # "idle"
      BY <2>1 DEF PollAccept
    <3>2. image.file = frameFile => image.sequence <= poll.before
      BY <3>1 DEF Inv, InOrder
    <3>3. QED
      BY <3>1, <3>2, NumbersAreNumbers
  <2>2. CASE ~PollAccept
    <3>1. \A f \in Files : Producer(f) => UNCHANGED display
      BY ProducerStep DEF Inv
    <3>2. image' = image
      BY <2>2, <3>1 DEF Next, PollStep, SetFrameFile, ClearFrameFile, Reopen, Expire, PollInvalid,
         PollGeneration, PollSeen, PollState, PollReject, display
    <3>3. QED
      BY <3>2
  <2>3. QED
    BY <2>1, <2>2
<1>2. QED
  BY <1>1, InvAlways, PTL DEF Spec, LastGoodKept

=============================================================================
