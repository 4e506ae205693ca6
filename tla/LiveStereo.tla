------------------------------ MODULE LiveStereo ------------------------------
(***************************************************************************)
(* Two cameras and their readers: spinnaker/src/stereo_live.cpp over        *)
(* capture/src/heap_frame_sink.cpp.  A camera fills an idle buffer of its   *)
(* sink and commits it; one reader thread per camera takes the buffers in   *)
(* that order, hands each to the tool's callback and gives it back.  stop() *)
(* runs on the tool's main thread.                                         *)
(*                                                                         *)
(* A step is a region under the sink's mutex_ or a load or store of         *)
(* running_.  The inside of SpinnakerSource is in SpinnakerSource.tla: here *)
(* a camera commits, fails, or waits in stop() until its buffers are back.  *)
(* That wait gives up after two seconds in the code; readers that only copy *)
(* do not take that long, so a wait that would give up is one that never    *)
(* ends here.                                                              *)
(***************************************************************************)
EXTENDS Integers, Sequences, FiniteSets

CONSTANTS
  Shots,     \* what the cameras expose: a sequence of sequences of stamps
  Buffers,   \* buffer_count
  Failing    \* bound: the streams whose camera may give up

ASSUME ShotsAssumption == Shots \in Seq(Seq(Nat \ {0})) /\ Shots # <<>>
ASSUME BuffersAssumption == Buffers \in Nat \ {0} /\ Failing \subseteq DOMAIN Shots

Streams == DOMAIN Shots
Idle == 0                   \* a buffer with no frame in flight; otherwise its frame
NoBuffer == 0

VARIABLES
  camera,    \* per stream: "off", "on", "failed", "draining" or "stopped"
  exposed,   \* how many frames a camera has exposed
  buffer,    \* the sink's state_ and meta_: Idle, or the frame in flight
  ready,     \* the sink's ready_
  open,      \* the sink's running_
  reader,    \* the reader thread: its program counter and buffer
  running,   \* LiveStereo's running
  stop       \* stop(): the phase it is in and the stream it is at

cameraVars == <<camera, exposed>>
sinkVars == <<buffer, ready, open>>
controlVars == <<running, stop>>
liveVars == <<cameraVars, sinkVars, reader, controlVars>>

LiveInit ==
  /\ camera = [s \in Streams |-> "off"] /\ exposed = [s \in Streams |-> 0]
  /\ buffer = [s \in Streams |-> [b \in 1 .. Buffers |-> Idle]]
  /\ ready = [s \in Streams |-> <<>>] /\ open = [s \in Streams |-> TRUE]
  /\ reader = [s \in Streams |-> [pc |-> "none", buffer |-> NoBuffer]]
  /\ running = FALSE /\ stop = [phase |-> 0, stream |-> 1]

-----------------------------------------------------------------------------
(* The cameras. *)

\* commit().  The transport fills a buffer nobody has in flight.
Commit(s) ==
  /\ camera[s] = "on" /\ exposed[s] < Len(Shots[s])
  /\ \E b \in 1 .. Buffers :
       /\ buffer[s][b] = Idle /\ \A a \in 1 .. b - 1 : buffer[s][a] # Idle
       /\ buffer' = [buffer EXCEPT ![s][b] = exposed[s] + 1]
       /\ ready' = [ready EXCEPT ![s] = Append(@, b)]
  /\ exposed' = [exposed EXCEPT ![s] = @ + 1]
  /\ UNCHANGED <<camera, open, reader, controlVars>>

\* The camera has no buffer to put a frame into.  (A frame lost on the link is one that
\* Shots leaves out.)
Starve(s) ==
  /\ camera[s] = "on" /\ exposed[s] < Len(Shots[s])
  /\ \A b \in 1 .. Buffers : buffer[s][b] # Idle
  /\ exposed' = [exposed EXCEPT ![s] = @ + 1]
  /\ UNCHANGED <<camera, sinkVars, reader, controlVars>>

GiveUp(s) ==
  /\ s \in Failing /\ camera[s] = "on"
  /\ camera' = [camera EXCEPT ![s] = "failed"]
  /\ UNCHANGED <<exposed, sinkVars, reader, controlVars>>

Failed == \E s \in Streams : camera[s] = "failed"

-----------------------------------------------------------------------------
(* read_loop. *)

\* The head of its loop: another frame is waited for while running is set.
Again == IF running THEN "pop" ELSE "exited"

Pop(s) ==
  /\ reader[s].pc = "pop" /\ open[s] /\ ready[s] # <<>>
  /\ reader' = [reader EXCEPT ![s] = [pc |-> "call", buffer |-> Head(ready[s])]]
  /\ ready' = [ready EXCEPT ![s] = Tail(@)]
  /\ UNCHANGED <<cameraVars, buffer, open, controlVars>>

\* The wait timed out, or the sink was stopped.
PopNothing(s) ==
  /\ reader[s].pc = "pop" /\ (~open[s] \/ ready[s] = <<>>)
  /\ reader' = [reader EXCEPT ![s].pc = Again]
  /\ UNCHANGED <<cameraVars, sinkVars, controlVars>>

\* The callback is given this frame; whether it throws makes no difference here.
Delivered(s) == buffer[s][reader[s].buffer]
Callback(s) ==
  /\ reader[s].pc = "call"
  /\ reader' = [reader EXCEPT ![s].pc = "release"]
  /\ UNCHANGED <<cameraVars, sinkVars, controlVars>>

Release(s) ==
  /\ reader[s].pc = "release"
  /\ buffer' = [buffer EXCEPT ![s][reader[s].buffer] = Idle]
  /\ reader' = [reader EXCEPT ![s] = [pc |-> Again, buffer |-> NoBuffer]]
  /\ UNCHANGED <<cameraVars, ready, open, controlVars>>

ReaderAlone(s) == Pop(s) \/ PopNothing(s) \/ Release(s)

-----------------------------------------------------------------------------
(* start() and stop(). *)

Started == \A s \in Streams : camera[s] # "off"

\* The next stream's thread is created and its source started.
StartStream(s) ==
  /\ camera[s] = "off" /\ \A r \in Streams : r < s => camera[r] # "off"
  /\ running' = TRUE
  /\ reader' = [reader EXCEPT ![s].pc = "pop"]
  /\ camera' = [camera EXCEPT ![s] = "on"]
  /\ UNCHANGED <<exposed, sinkVars, stop>>

\* Starting its source throws: the thread is there, the camera is not.
StartThrows(s) ==
  /\ camera[s] = "off" /\ \A r \in Streams : r < s => camera[r] # "off"
  /\ running' = TRUE
  /\ reader' = [reader EXCEPT ![s].pc = "pop"]
  /\ UNCHANGED <<cameraVars, sinkVars, stop>>

\* Seeded fault: "which is what this used to do".
RunningFirst == <<"running", "sources", "sinks">>

\* Acquisition ends first, with the readers still draining behind it.
StopOrder == <<"sources", "running", "sinks">>

Phase == IF stop.phase \in DOMAIN StopOrder THEN StopOrder[stop.phase] ELSE ""
Stopped == stop.phase > Len(StopOrder)

\* stop() is called a first time; with nothing running it returns.
StopLive ==
  /\ stop.phase = 0
  /\ stop' = [phase |-> IF running THEN 1 ELSE Len(StopOrder) + 1, stream |-> 1]
  /\ UNCHANGED <<cameraVars, sinkVars, reader, running>>

NextStream == IF stop.stream < Len(Shots) THEN [stop EXCEPT !.stream = @ + 1]
              ELSE [phase |-> stop.phase + 1, stream |-> 1]

StopSource ==
  /\ Phase = "sources" /\ camera[stop.stream] \notin {"draining", "stopped"}
  /\ camera' = [camera EXCEPT ![stop.stream] = IF @ = "off" THEN "stopped" ELSE "draining"]
  /\ UNCHANGED <<exposed, sinkVars, reader, controlVars>>

\* The source waits until consumed() holds of every buffer.
Drained ==
  /\ Phase = "sources" /\ camera[stop.stream] \in {"draining", "stopped"}
  /\ camera[stop.stream] = "draining" => \A b \in 1 .. Buffers : buffer[stop.stream][b] = Idle
  /\ camera' = [camera EXCEPT ![stop.stream] = "stopped"]
  /\ stop' = NextStream
  /\ UNCHANGED <<exposed, sinkVars, reader, running>>

ClearRunning ==
  /\ Phase = "running"
  /\ running' = FALSE
  /\ stop' = [stop EXCEPT !.phase = @ + 1]
  /\ UNCHANGED <<cameraVars, sinkVars, reader>>

CloseSink ==
  /\ Phase = "sinks" /\ open[stop.stream]
  /\ open' = [open EXCEPT ![stop.stream] = FALSE]
  /\ UNCHANGED <<cameraVars, buffer, ready, reader, controlVars>>

JoinReader ==
  /\ Phase = "sinks" /\ ~open[stop.stream] /\ reader[stop.stream].pc \in {"none", "exited"}
  /\ stop' = NextStream
  /\ UNCHANGED <<cameraVars, sinkVars, reader, running>>

StopStep == StopSource \/ Drained \/ ClearRunning \/ CloseSink \/ JoinReader

-----------------------------------------------------------------------------
LiveTypeOK ==
  /\ camera \in [Streams -> {"off", "on", "failed", "draining", "stopped"}]
  /\ buffer \in [Streams -> [1 .. Buffers -> Nat]]
  /\ running \in BOOLEAN /\ open \in [Streams -> BOOLEAN]
  /\ \A s \in Streams : reader[s].pc \in {"none", "pop", "call", "release", "exited"}

\* A buffer in flight is queued for the reader or in its hands, once; the frames the
\* reader is still to see are the oldest in flight, in order.
InFlightOnce ==
  \A s \in Streams :
    LET hands == IF reader[s].buffer = NoBuffer THEN <<>> ELSE <<reader[s].buffer>>
        line == hands \o ready[s]
    IN /\ {line[i] : i \in DOMAIN line} = {b \in 1 .. Buffers : buffer[s][b] # Idle}
       /\ \A i \in 1 .. Len(line) - 1 : buffer[s][line[i]] < buffer[s][line[i + 1]]

LiveInv == LiveTypeOK /\ InFlightOnce
=============================================================================
