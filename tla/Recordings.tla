------------------------------ MODULE Recordings ------------------------------
(***************************************************************************)
(* The two recorders side by side: McapRecorder, which acquire writes       *)
(* encoded messages with, and RecordingWriter, which keeps raw frames.  A   *)
(* program has one of them.  The third is one message of the first: its     *)
(* encoding by the thread that pushes it, and its decoding.  Which of them  *)
(* it is is chosen at the start, and the variables of the others stay as    *)
(* they are.                                                                *)
(***************************************************************************)
EXTENDS McapRecorder, RawRecording, CdrMessages

VARIABLES recorder    \* which of them: "mcap", "raw" or "message"

vars == <<recorder, recorderVars, rawVars, cdrVars>>

Init ==
  /\ RecorderInit /\ RawInit
  /\ \/ recorder \in {"mcap", "raw"} /\ NothingEncoded
     \/ recorder = "message" /\ CdrInit

Encoded(step) == recorder = "mcap" /\ step /\ UNCHANGED <<recorder, rawVars, cdrVars>>
Rawly(step) == recorder = "raw" /\ step /\ UNCHANGED <<recorder, recorderVars, cdrVars>>
OneMessage == recorder = "message" /\ CdrNext /\ UNCHANGED <<recorder, recorderVars, rawVars>>

Next == Encoded(RecorderNext) \/ Rawly(RawNext) \/ OneMessage

\* A writer thread (the raw recorder has one per stream), and the caller of close().
WriterThread(s) == Rawly(RawWriterStep(s)) \/ (s = 1 /\ Encoded(WriterStep))
Closer == Encoded(CloseEnds) \/ Rawly(CloseStep)

\* They go on with what they have begun.
FairSpec ==
  /\ Init /\ [][Next]_vars
  /\ WF_vars(Closer) /\ \A s \in Streams : WF_vars(WriterThread(s))

\* Nothing points at anything but the whole frame it names, at any moment; and a frame
\* whose push() returned before close() is in the closed recording unless its write failed.
RawRecordingInv == RecordingInv /\ NothingLeftBehind

\* What the readers make of a recording is so: the epoch, gaps and pairs of the raw one, and
\* of the other every message that is whole, in the format it was taken in; and a message
\* fits the buffer its topic reserved for it.
ReadersTrue == ReaderTrue /\ ReadBack /\ FormatKept /\ Fits

\* close() returns, of either recorder, whatever the writers and the pushing threads are at.
ClosesReturn == (closed \/ closing # Open) ~> (sealed \/ closing = Closed)
=============================================================================
