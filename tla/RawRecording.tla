---------------------------- MODULE RawRecording ----------------------------
(***************************************************************************)
(* The raw recording: RecordingWriter with one StreamWriter per camera      *)
(* (recording/src/recording_writer.cpp), and what RecordingReader makes of  *)
(* the files (recording_reader.cpp).  A stream's acquisition thread copies  *)
(* its frames into a ring of staging buffers; a writer thread per stream    *)
(* writes each to the .dat and then its record to the .idx; close() drains  *)
(* the writers one after the other and writes the manifest.                 *)
(*                                                                         *)
(* A step is a region under mutex_, a copy, or a write to a file.  A frame  *)
(* is its place in the stream, which is its frame_id, and has a camera      *)
(* stamp.  Offsets count payloads of record_stride_bytes.  A file is what   *)
(* was written to it: the page cache of a machine that lost its power is    *)
(* not modelled.                                                            *)
(***************************************************************************)
EXTENDS FramePairing, SequencesExt

CONSTANTS
  Cameras,     \* what the cameras deliver: a sequence of sequences of stamps, one per stream
  Staging,     \* staging_frames
  Tolerance,   \* the tolerance a reader pairs with
  MaxErrors    \* bound: how many writes fail

ASSUME StagingAssumption == Staging \in Nat \ {0}
ASSUME CamerasAssumption == Cameras \in Seq(Seq(Int))

Streams == DOMAIN Cameras
None == -1
Part == [frame |-> 0, stamp |-> 0, offset |-> None]
\* How far close() is: not called, at a stream, at the manifest, through.
Open == 0
AtManifest == Len(Cameras) + 1
Closed == Len(Cameras) + 2

VARIABLES
  ring,      \* a StreamWriter's head_, count_, published_, running_ and error_
  staging,   \* the frame in each staging buffer; 0 is a buffer half copied
  push,      \* the acquisition thread: its program counter, slot and frame
  rawWriter,    \* the writer thread: its program counter and slot
  data,      \* camN.dat: what lies at each offset
  index,     \* camN.idx: the records, and Part for a record that broke off
  offset, rawWritten, first,   \* offset_, written_, first_ts_
  rawDrops,     \* drops_
  lost,      \* history: the frames whose write failed
  rawAccepted,  \* history: the frames push() returned true for, and when close() was called
  closing,   \* how far close() is
  manifest,  \* manifest.yaml: the frame counts and the epoch
  errors     \* history: how many writes failed

rawFileVars == <<data, index, offset, rawWritten, first, lost, errors>>
closeVars == <<closing, manifest>>
rawVars == <<ring, staging, push, rawWriter, rawFileVars, rawDrops, rawAccepted, closeVars>>

RawInit ==
  /\ ring = [s \in Streams |->
               [head |-> 0, count |-> 0, published |-> 0, running |-> TRUE, error |-> FALSE]]
  /\ staging = [s \in Streams |-> [i \in 0 .. Staging - 1 |-> 0]]
  /\ push = [s \in Streams |-> [pc |-> "idle", slot |-> None, frame |-> 0]]
  /\ rawWriter = [s \in Streams |-> [pc |-> "wait", slot |-> None]]
  /\ data = [s \in Streams |-> <<>>] /\ index = [s \in Streams |-> <<>>]
  /\ offset = [s \in Streams |-> 0] /\ rawWritten = [s \in Streams |-> 0]
  /\ first = [s \in Streams |-> 0] /\ rawDrops = [s \in Streams |-> 0]
  /\ lost = [s \in Streams |-> {}]
  /\ rawAccepted = [s \in Streams |-> [all |-> <<>>, before |-> None]]
  /\ closing = Open /\ manifest = [frames |-> <<>>, epoch |-> 0]
  /\ errors = 0

-----------------------------------------------------------------------------
(* push(). *)

\* A frame is taken as long as the ring has a buffer that is not reserved.
HasRoom(s) == ring[s].count < Staging

Takes(s) == ring[s].running /\ ~ring[s].error /\ HasRoom(s)

NextFrame(s) == push[s].pc = "idle" /\ push[s].frame < Len(Cameras[s])

Drop(s) ==
  /\ NextFrame(s) /\ ~Takes(s)
  /\ push' = [push EXCEPT ![s].frame = @ + 1]
  /\ rawDrops' = [rawDrops EXCEPT ![s] = @ + 1]
  /\ UNCHANGED <<ring, staging, rawWriter, rawFileVars, rawAccepted, closeVars>>

Reserve(s) ==
  /\ NextFrame(s) /\ Takes(s)
  /\ push' = [push EXCEPT ![s] = [pc |-> "copy", frame |-> @.frame + 1,
                                  slot |-> (ring[s].head + ring[s].count) % Staging]]
  /\ ring' = [ring EXCEPT ![s].count = @ + 1]
  /\ UNCHANGED <<staging, rawWriter, rawFileVars, rawDrops, rawAccepted, closeVars>>

\* The copy runs outside the lock; until it ends the buffer holds no frame.
StartCopy(s) ==
  /\ push[s].pc = "copy"
  /\ staging' = [staging EXCEPT ![s][push[s].slot] = 0]
  /\ push' = [push EXCEPT ![s].pc = "copying"]
  /\ UNCHANGED <<ring, rawWriter, rawFileVars, rawDrops, rawAccepted, closeVars>>

EndCopy(s) ==
  /\ push[s].pc = "copying"
  /\ staging' = [staging EXCEPT ![s][push[s].slot] = push[s].frame]
  /\ push' = [push EXCEPT ![s].pc = "publish"]
  /\ UNCHANGED <<ring, rawWriter, rawFileVars, rawDrops, rawAccepted, closeVars>>

Publish(s) ==
  /\ push[s].pc = "publish"
  /\ ring' = [ring EXCEPT ![s].published = @ + 1]
  /\ push' = [push EXCEPT ![s].pc = "idle"]
  /\ rawAccepted' = [rawAccepted EXCEPT ![s].all = Append(@, push[s].frame)]
  /\ UNCHANGED <<staging, rawWriter, rawFileVars, rawDrops, closeVars>>

-----------------------------------------------------------------------------
(* run() and write_frame(). *)

\* Seeded fault: a stopped writer waits for the reserved buffers too.
LeavesWhenEmpty(s) == ~ring[s].running /\ ring[s].count = 0

\* What the writer thread may take, and when it leaves: after it has drained the ring.
Waits(s) == ring[s].published > 0
Leaves(s) == ~ring[s].running /\ ring[s].published = 0

Take(s) ==
  /\ rawWriter[s].pc = "wait"
  /\ Waits(s) /\ ~Leaves(s)
  /\ rawWriter' = [rawWriter EXCEPT ![s] = [pc |-> "data", slot |-> ring[s].head]]
  /\ UNCHANGED <<ring, staging, push, rawFileVars, rawDrops, rawAccepted, closeVars>>

Exit(s) ==
  /\ rawWriter[s].pc = "wait"
  /\ Leaves(s)
  /\ rawWriter' = [rawWriter EXCEPT ![s].pc = "exited"]
  /\ UNCHANGED <<ring, staging, push, rawFileVars, rawDrops, rawAccepted, closeVars>>

Staged(s) == staging[s][rawWriter[s].slot]
Stamp(s, frame) == IF frame = 0 THEN 0 ELSE Cameras[s][frame]

\* Seeded fault: the record first.
RecordFirst == <<"index", "data">>

\* The payload is written before the record that points to it.
FileOrder == <<"data", "index">>

\* What the writer does with the buffer when it is through with it.
Done(s, ok) ==
  /\ ring' = [ring EXCEPT ![s].head = (@ + 1) % Staging, ![s].count = @ - 1,
                          ![s].published = @ - 1, ![s].error = @ \/ ~ok]
  /\ rawWriter' = [rawWriter EXCEPT ![s] = [pc |-> "wait", slot |-> None]]

\* The payload at offset_, and the record that points to it.
PutData(s) ==
  /\ data' = [data EXCEPT ![s] = [o \in DOMAIN data[s] \cup {offset[s]} |->
                                   IF o = offset[s] THEN Staged(s) ELSE data[s][o]]]
  /\ UNCHANGED index
PutRecord(s) ==
  /\ index' = [index EXCEPT ![s] =
       Append(@, [frame |-> Staged(s), stamp |-> Stamp(s, Staged(s)), offset |-> offset[s]])]
  /\ UNCHANGED data
Put(s, file) == IF file = "data" THEN PutData(s) ELSE PutRecord(s)

WriteFirst(s) ==
  /\ rawWriter[s].pc = "data"
  /\ Put(s, FileOrder[1])
  /\ rawWriter' = [rawWriter EXCEPT ![s].pc = "index"]
  /\ UNCHANGED <<ring, staging, push, offset, rawWritten, first, lost, errors, rawDrops, rawAccepted,
                 closeVars>>

\* Both are written, and only then does offset_ advance.
WriteSecond(s) ==
  /\ rawWriter[s].pc = "index"
  /\ Put(s, FileOrder[2])
  /\ offset' = [offset EXCEPT ![s] = @ + 1]
  /\ rawWritten' = [rawWritten EXCEPT ![s] = @ + 1]
  /\ first' = [first EXCEPT ![s] = IF rawWritten[s] = 0 THEN Stamp(s, Staged(s)) ELSE @]
  /\ Done(s, TRUE)
  /\ UNCHANGED <<staging, push, lost, errors, rawDrops, rawAccepted, closeVars>>

\* A write fails, the record's perhaps after a part of it.  error_ is set, which no
\* longer lets push() in; what is queued is still written.
RawWriteFails(s) ==
  /\ rawWriter[s].pc \in {"data", "index"} /\ errors < MaxErrors
  /\ errors' = errors + 1
  /\ \/ UNCHANGED index
     \/ rawWriter[s].pc = "index" /\ index' = [index EXCEPT ![s] = Append(@, Part)]
  /\ lost' = [lost EXCEPT ![s] = @ \cup {Staged(s)}]
  /\ Done(s, FALSE)
  /\ UNCHANGED <<staging, push, data, offset, rawWritten, first, rawDrops, rawAccepted, closeVars>>

-----------------------------------------------------------------------------
(* RecordingWriter::close(). *)

StartClose ==
  /\ closing = Open
  /\ closing' = 1
  /\ rawAccepted' = [s \in Streams |-> [rawAccepted[s] EXCEPT !.before = Len(rawAccepted[s].all)]]
  /\ UNCHANGED <<ring, staging, push, rawWriter, rawFileVars, rawDrops, manifest>>

CloseStream(s) ==
  /\ closing = s /\ ring[s].running
  /\ ring' = [ring EXCEPT ![s].running = FALSE]
  /\ UNCHANGED <<staging, push, rawWriter, rawFileVars, rawDrops, rawAccepted, closeVars>>

\* The join has returned, and the files are closed.
Joined(s) ==
  /\ closing = s /\ ~ring[s].running /\ rawWriter[s].pc = "exited"
  /\ closing' = s + 1
  /\ UNCHANGED <<ring, staging, push, rawWriter, rawFileVars, rawDrops, rawAccepted, manifest>>

\* Seeded fault: the epoch of the first stream that has one.
FirstStreamsEpoch == LET S == {s \in Streams : first[s] # 0}
                     IN IF S = {} THEN 0 ELSE first[Min(S)]

\* The shared epoch: the smallest first stamp of any stream.
Epoch == LET S == {first[s] : s \in Streams} \ {0} IN IF S = {} THEN 0 ELSE Min(S)

WriteManifest ==
  /\ closing = AtManifest
  /\ manifest' = [frames |-> rawWritten, epoch |-> Epoch]
  /\ closing' = Closed
  /\ UNCHANGED <<ring, staging, push, rawWriter, rawFileVars, rawDrops, rawAccepted>>

-----------------------------------------------------------------------------
RawPushStep(s) == Drop(s) \/ Reserve(s) \/ StartCopy(s) \/ EndCopy(s) \/ Publish(s)
RawWriterStep(s) == Take(s) \/ Exit(s) \/ WriteFirst(s) \/ WriteSecond(s) \/ RawWriteFails(s)
CloseStep == (\E s \in Streams : CloseStream(s) \/ Joined(s)) \/ WriteManifest

RawNext == (\E s \in Streams : RawPushStep(s) \/ RawWriterStep(s)) \/ StartClose \/ CloseStep

RawSpec == RawInit /\ [][RawNext]_rawVars

-----------------------------------------------------------------------------
(* RecordingReader. *)

\* An index of whole records opens, and then its length is what counts.
Readable(s) == \A i \in DOMAIN index[s] : index[s][i] # Part
Stamps(s) == [i \in DOMAIN index[s] |-> index[s][i].stamp]
FrameIds(s) == [i \in DOMAIN index[s] |-> index[s][i].frame]

\* read_frame; a record that points past the end of the .dat is a short read.
ReadFrame(s, i) ==
  IF index[s][i].offset \in DOMAIN data[s] THEN data[s][index[s][i].offset] ELSE 0

\* info(): two neighbours more than one and a half (median) periods apart are a gap.
Deltas(s) == [i \in 1 .. Len(index[s]) - 1 |-> Stamps(s)[i + 1] - Stamps(s)[i]]
Median(q) == SortSeq(q, <)[Len(q) \div 2 + 1]

GapThreshold(m) == m + m \div 2

Gaps(s) ==
  LET d == Deltas(s) IN
  IF d = <<>> THEN 0
  ELSE Cardinality({i \in DOMAIN d : Median(d) # 0 /\ d[i] > GapThreshold(Median(d))})

-----------------------------------------------------------------------------
(* Properties. *)

RawTypeOK ==
  /\ \A s \in Streams :
       /\ ring[s].head \in 0 .. Staging - 1 /\ ring[s].count \in 0 .. Staging
       /\ ring[s].published \in 0 .. ring[s].count
       /\ rawWriter[s].pc \in {"wait", "data", "index", "exited"}
       /\ push[s].pc \in {"idle", "copy", "copying", "publish"}
  /\ closing \in Open .. Closed

\* Reserving and publishing keep the writer off a buffer whose copy is still running, and
\* the copy off a buffer that is being written.
ApartInStaging ==
  \A s \in Streams :
    (push[s].pc # "idle" /\ rawWriter[s].pc \in {"data", "index"}) => push[s].slot # rawWriter[s].slot

\* A process killed at any moment leaves no record that points at anything but the whole
\* frame it names; and the records are in the order of the camera, none twice.
IndexTrue ==
  \A s \in Streams :
    Readable(s) =>
      \A i \in DOMAIN index[s] :
        /\ ReadFrame(s, i) = index[s][i].frame /\ index[s][i].frame # 0
        /\ \A j \in 1 .. i - 1 : index[s][j].frame < index[s][i].frame

\* A frame is in the file, was dropped, was lost to a failed write, or is on its way.
FramesAccounted ==
  \A s \in Streams :
    push[s].frame = rawWritten[s] + rawDrops[s] + Cardinality(lost[s]) + ring[s].count

RecordingInv == RawTypeOK /\ ApartInStaging /\ IndexTrue /\ FramesAccounted

\* A frame whose push() returned before close() was called is in the closed recording,
\* with the ones before and after it, unless its own write failed.  (One more per stream,
\* whose copy close() overtook, may be reported as taken and never be written.)
NothingLeftBehind ==
  (closing = Closed /\ \A s \in Streams : Readable(s)) =>
    \A s \in Streams :
      LET pushed == rawAccepted[s].all
          there == ToSet(FrameIds(s))
      IN /\ \A i \in 1 .. rawAccepted[s].before : pushed[i] \in lost[s] \cup there
         /\ there \subseteq ToSet(pushed) \ lost[s]
         /\ \A i, j \in DOMAIN pushed : (i < j /\ pushed[j] \in there) => pushed[i] \in lost[s] \cup there

\* What a reader derives from a closed recording is true: no frame lies before the epoch
\* (so that a late stream replays late), the merge pairs all that can be paired, and where
\* most neighbours are one period apart every place with frames missing is a gap.
OnePeriod(s) == \A i \in 1 .. Len(Cameras[s]) - 1 : Cameras[s][i + 1] - Cameras[s][i] = 2
ReaderTrue ==
  (closing = Closed /\ \A s \in Streams : Readable(s)) =>
    /\ \A s \in Streams : manifest.frames[s] = Len(index[s])
    /\ \A s \in Streams : \A i \in DOMAIN index[s] : Stamps(s)[i] >= manifest.epoch
    /\ PairsAllItCan(Stamps(1), Stamps(2), Tolerance)
    /\ \A s \in Streams :
         LET near == {i \in DOMAIN Deltas(s) : FrameIds(s)[i + 1] = FrameIds(s)[i] + 1} IN
         (OnePeriod(s) /\ 2 * Cardinality(near) > Len(Deltas(s))) =>
           Gaps(s) = Len(Deltas(s)) - Cardinality(near)
=============================================================================
