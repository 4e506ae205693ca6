----------------------------- MODULE EngineUsers -----------------------------
(***************************************************************************)
(* Who drives an engine, each from one thread and on one stream: the pair   *)
(* callback of acquire, the disparity window (EssViewerConsumer), the       *)
(* window with boxes (YoloViewerConsumer), which does without when its      *)
(* engine does not load, the camera's window (ViewerConsumer), which never  *)
(* has one, and HeadlessYoloConsumer.  The two ways there are to close a    *)
(* cycle are that the result is drawn (GlViewer) or copied to the host.     *)
(*                                                                         *)
(* The rings publish frame after frame; a consumer leases what is newest,   *)
(* in a pair consumer both eyes of it.                                      *)
(***************************************************************************)
EXTENDS InferenceEngine

VARIABLES
  user,       \* which of them, and its configuration
  at,         \* its thread's program counter
  frame,      \* the frame it works on
  seen,       \* last_slot_, last_seq_: the newest frame it does not look at again
  copied,     \* output_host_
  boxes,      \* boxes_ and the frame they are of
  sent,       \* <<stamp, content>> of the last frame a DownloadStage was given
  texture,    \* the picture and what is drawn on it, in the mapped texture
  screen,     \* what the window shows: <<frame of the latency, texture>>
  told,       \* the last timing or sample reported, with its cycle
  spread      \* the cycles counted in infer_ms and total_ms

shownVars == <<copied, boxes, sent, texture, screen>>
userVars == <<user, at, frame, seen, shownVars, told, spread>>
usersVars == <<engineVars, userVars>>

Paired == user.name \in {"callback", "ess_viewer"}
Windowed == user.name \in {"ess_viewer", "yolo_viewer", "camera_viewer"}
HasEngine == wiring # <<>>

Users ==
  [name : {"callback"}, reference : {0, 1}, download : BOOLEAN]
    \cup [name : {"ess_viewer"}, reference : {0, 1}]
    \cup [name : {"yolo_viewer", "camera_viewer"}, reference : {0}]
    \cup [name : {"headless"}, reference : {0}, location : {"host", "device"}]

NoBoxes == [frame |-> 0, content |-> Lost]
Untold == [cycle |-> -1, timed |-> {}, sample |-> Lost]
Clear == [base |-> Lost, drawn |-> Lost]

UsersInit ==
  /\ EngineInit
  /\ user \in Users /\ at = IF user.name = "camera_viewer" THEN "idle" ELSE "constructing"
  /\ frame = 0 /\ seen = 0
  /\ copied = Lost /\ boxes = NoBoxes /\ sent = <<0, Lost>> /\ texture = Clear
  /\ screen = <<0, Clear>> /\ told = Untold /\ spread = <<>>

Go(pc) == at' = pc

-----------------------------------------------------------------------------
\* The engine's constructor takes the plan or throws: that ends a program or its
\* window, except that the window with boxes goes on without them.
Construct ==
  /\ at = "constructing"
  /\ \/ Paired /\ \E ins \in Inputs(Pair), outs \in UpTo(OutputTensor, 3) :
                    BindEss(ins, outs) /\ Go("idle")
     \/ ~Paired /\ \E ins \in Inputs(Single), outs \in UpTo(OutputTensor, 3) :
                     BindYolo(ins, outs) /\ Go("idle")
     \/ wiring' = <<>> /\ Go(IF user.name = "yolo_viewer" THEN "idle" ELSE "gone")
  /\ UNCHANGED <<work, held, deviceVars, events, timing, cycles, preprocessed, of, faults,
                 user, frame, seen, shownVars, told, spread>>

\* Camera 0 is the left eye whichever of the two anchors the pairing.
LeftLease == <<IF user.reference = 0 THEN user.reference ELSE 1 - user.reference, frame>>
RightLease == <<IF user.reference = 0 THEN 1 - user.reference ELSE user.reference, frame>>
Picture == <<user.reference, frame>>

\* view_latest_inplace() has something new and lease_latest() takes it.
Take ==
  /\ at = "idle"
  /\ \E n \in seen + 1 .. MaxCycles :
       /\ frame' = n
       /\ held' = IF Paired THEN {0, 1} \X {n} ELSE {<<0, n>>}
       /\ seen' = IF user.name = "headless" THEN seen ELSE n
  /\ Go(CASE Paired -> "preprocess"
          [] user.name = "headless" -> "ask"
          [] OTHER -> IF HasEngine THEN "ask" ELSE "present")
  /\ UNCHANGED <<wiring, work, deviceVars, events, timing, cycles, preprocessed, of, faults,
                 user, shownVars, told, spread>>

\* drop_hold(): an event behind what is queued, for the ring to wait for.
Releases == [k \in 1 .. Cardinality(held) |->
               Release(IF Cardinality(held) = 1 THEN CHOOSE p \in held : TRUE
                       ELSE <<k - 1, frame>>)]

\* What is thrown unwinds the leases.  A window is closed by it; the consumers
\* with a loop of their own print it and go on.
Throws(ops) ==
  /\ Fails(ops, frame)
  /\ at' = "unwind"

Unwind ==
  /\ at = "unwind"
  /\ work' = work \o Releases /\ held' = {}
  /\ Go(IF Windowed THEN "closing" ELSE "idle")
  /\ UNCHANGED <<wiring, deviceVars, events, timing, cycles, preprocessed, of, faults,
                 user, frame, seen, shownVars, told, spread>>

\* An engine's call returns, or throws.
Calls(call, next) ==
  /\ call
  /\ Go(IF faults' = faults THEN next ELSE "unwind")
  /\ UNCHANGED <<user, frame, seen, shownVars, told, spread>>

-----------------------------------------------------------------------------
(* The pair callbacks.                                                      *)

PairPreprocess ==
  at = "preprocess" /\ Calls(Preprocess(LeftLease, RightLease, frame), "drop")

\* The pictures are on their way into the input buffers.
DropHolds ==
  /\ at = "drop"
  /\ work' = work \o Releases /\ held' = {}
  /\ Go("infer")
  /\ UNCHANGED <<wiring, deviceVars, events, timing, cycles, preprocessed, of, faults,
                 user, frame, seen, shownVars, told, spread>>

PairInfer ==
  /\ at = "infer"
  /\ Calls(Inference(frame), IF Windowed THEN "present" ELSE "download")

Download == [kind |-> "download", stamp |-> frame]

\* disparity_download->enqueue() on the same stream: queues the copy, finds no free
\* frame, or throws.  There is no stage unless somebody subscribed to the disparity.
PairDownload ==
  /\ at = "download"
  /\ \/ user.download /\ Queued(<<Download>>, frame) /\ Go("report")
     \/ Queued(<<>>, frame) /\ Go("report")
     \/ user.download /\ Throws(<<Download>>)
  /\ UNCHANGED <<wiring, held, deviceVars, timing, cycles, preprocessed, of,
                 user, frame, seen, shownVars, told, spread>>

-----------------------------------------------------------------------------
(* The loops around YoloEngine.                                             *)

\* last_timing(), of an earlier cycle; the window counts a cycle once per report.
Ask ==
  /\ at = "ask" /\ Go("enqueue")
  /\ LET i == Newest(Timed)
     IN IF Timed = {} THEN UNCHANGED <<told, spread>>
        ELSE /\ told' = [Untold EXCEPT !.cycle = i, !.timed = TimingOf(i)]
             /\ spread' = IF \/ user.name = "headless"
                             \/ spread # <<>> /\ spread[Len(spread)] = i
                          THEN spread ELSE Append(spread, i)
  /\ UNCHANGED <<engineVars, user, frame, seen, shownVars>>

YoloEnqueue ==
  /\ at = "enqueue"
  /\ Calls(Enqueue(Picture, frame),
           IF Windowed THEN "present" ELSE IF user.location = "host" THEN "decode" ELSE "mark")

CopyOut == [kind |-> "copy_out"]

\* decode(): the copy, and cudaStreamSynchronize() until all that is queued is done.
Decode ==
  /\ at = "decode"
  /\ \/ Queued(<<CopyOut>>, frame) /\ Go("wait")
     \/ Throws(<<CopyOut>>)
  /\ UNCHANGED <<wiring, held, deviceVars, timing, cycles, preprocessed, of,
                 user, frame, seen, shownVars, told, spread>>

Decoded ==
  /\ at = "wait" /\ work = <<>>
  /\ boxes' = [frame |-> frame, content |-> copied]
  /\ Go("done")
  /\ UNCHANGED <<engineVars, user, frame, seen, copied, sent, texture, screen, told, spread>>

\* OutputLocation::Device: ready_event_ behind the inference, for others to wait for.
Mark ==
  /\ at = "mark"
  /\ \/ Queued(<<>>, frame) /\ Go("done")
     \/ Throws(<<Compute>>)
  /\ UNCHANGED <<wiring, held, deviceVars, timing, cycles, preprocessed, of,
                 user, frame, seen, shownVars, told, spread>>

\* Only now is the frame one it has seen: after an exception it is tried again.
HeadlessDone ==
  /\ at = "done"
  /\ seen' = frame
  /\ work' = work \o Releases /\ held' = {}
  /\ Go("idle")
  /\ UNCHANGED <<wiring, deviceVars, events, timing, cycles, preprocessed, of, faults,
                 user, frame, shownVars, told, spread>>

-----------------------------------------------------------------------------
(* GlViewer::present_impl(): map the texture, copy the picture into it, draw   *)
(* on it, unmap, and show it with the latency of the frame.                    *)

Map == [kind |-> "map"]
Base == [kind |-> "base", picture |-> Picture]
Draw == [kind |-> "draw"]
Unmap == [kind |-> "unmap", of |-> frame]

\* draw_into() closes the timing of the cycle it belongs to.
DrawOps ==
  IF ~HasEngine THEN <<>>
  ELSE IF timing[Slot(cycles - 1)].armed THEN <<Draw, Record(Slot(cycles - 1), "draw_end")>>
  ELSE <<Draw>>

PresentOps == <<Map>> \o (IF Paired THEN <<>> ELSE <<Base>>) \o DrawOps \o <<Unmap>>

\* timing.drawn is set when draw_end has been recorded, whatever fails behind it.
Drawn ==
  timing' = IF HasEngine /\ Records(SubSeq(work', Len(work) + 1, Len(work')),
                                    Slot(cycles - 1), "draw_end")
            THEN [timing EXCEPT ![Slot(cycles - 1)].drawn = TRUE] ELSE timing

Present ==
  /\ at = "present"
  /\ \/ Queued(PresentOps, frame) /\ Go("report")
     \/ Throws(PresentOps)
  /\ Drawn
  /\ UNCHANGED <<wiring, held, deviceVars, cycles, preprocessed, of,
                 user, frame, seen, shownVars, told, spread>>

-----------------------------------------------------------------------------
\* Every so many frames a line is printed, and the figures of the boxes' window
\* start anew.  Behind it the leases that are still held go.
TellTiming ==
  /\ Paired /\ Timed # {}
  /\ told' = [Untold EXCEPT !.cycle = Newest(Timed), !.timed = TimingOf(Newest(Timed))]

TellSample ==
  /\ Paired /\ Sampled # {}
  /\ told' = [Untold EXCEPT !.cycle = Newest(Sampled), !.sample = sampled[Slot(Newest(Sampled))]]

Report ==
  /\ at = "report"
  /\ (TellTiming \/ TellSample \/ UNCHANGED told)
  /\ spread' \in {spread, <<>>}
  /\ work' = work \o Releases /\ held' = {}
  /\ Go("idle")
  /\ UNCHANGED <<wiring, deviceVars, events, timing, cycles, preprocessed, of, faults,
                 user, frame, seen, shownVars>>

\* The window was closed, or stop(): the thread leaves its loop, and waits for the
\* stream before the engine and the window go.
LeaveLoop ==
  /\ at = "idle" /\ Go("closing")
  /\ UNCHANGED <<engineVars, user, frame, seen, shownVars, told, spread>>

Synchronized ==
  /\ at = "closing" /\ work = <<>> /\ Go("gone")
  /\ UNCHANGED <<engineVars, user, frame, seen, shownVars, told, spread>>

UserStep ==
  \/ Construct \/ Take \/ Unwind \/ Present \/ Report \/ LeaveLoop \/ Synchronized
  \/ PairPreprocess \/ DropHolds \/ PairInfer \/ PairDownload
  \/ Ask \/ YoloEnqueue \/ Decode \/ Decoded \/ Mark \/ HeadlessDone

\* The device, at what the users queue besides the engines' own work.
Shows ==
  /\ \/ Doing("map") /\ texture' = Clear /\ UNCHANGED <<copied, sent, screen>>
     \/ /\ Doing("base") /\ texture' = [texture EXCEPT !.base = PictureIn(Head(work).picture)]
        /\ UNCHANGED <<copied, sent, screen>>
     \/ /\ Doing("draw") /\ texture' = [texture EXCEPT !.drawn = output]
        /\ UNCHANGED <<copied, sent, screen>>
     \/ /\ Doing("unmap") /\ screen' = <<Head(work).of, texture>>
        /\ UNCHANGED <<copied, sent, texture>>
     \/ Doing("copy_out") /\ copied' = output /\ UNCHANGED <<sent, texture, screen>>
     \/ /\ Doing("download") /\ sent' = <<Head(work).stamp, output>>
        /\ UNCHANGED <<copied, texture, screen>>
  /\ UNCHANGED <<wiring, held, deviceVars, events, timing, cycles, preprocessed, of, faults,
                 user, at, frame, seen, boxes, told, spread>>

DeviceStep == (EngineWorks /\ UNCHANGED userVars) \/ Shows

UsersNext == UserStep \/ DeviceStep
-----------------------------------------------------------------------------
EngineTypeOK ==
  /\ wiring \in {<<>>, [b \in Single |-> "left"]} \cup [Pair -> Pair]
  /\ held \subseteq {0, 1} \X {frame}
  /\ timing \in [TimedSlots -> [armed : BOOLEAN, drawn : BOOLEAN]]
  /\ events \in [TimedSlots -> [EventNames -> 0 .. MaxCycles]]
  /\ cycles = Len(of) /\ frame \in 0 .. MaxCycles /\ seen \in 0 .. MaxCycles

\* What is reported of a cycle was measured, and sampled, in that cycle: a slot used
\* again, or left half recorded by a call that failed, is not taken for it.
ToldTrue ==
  told.cycle >= 0 =>
    /\ told.timed \subseteq {of[told.cycle + 1]}
    /\ told.sample # Lost => told.sample = Own(of[told.cycle + 1])

\* What leaves an engine is its own frame's, made of both eyes of one pair, the left one in the
\* left input: the copy for a DownloadStage that stamps it, the boxes, and what is drawn on
\* the picture, whose latency is shown with it.
ResultsTrue ==
  /\ sent[2] # Lost => sent[2] = Own(sent[1])
  /\ boxes.frame # 0 => boxes.content = Own(boxes.frame)
  /\ screen[1] # 0 =>
       /\ screen[2].base = IF Paired THEN Lost ELSE <<0, screen[1]>>
       /\ HasEngine => screen[2].drawn = Own(screen[1])

\* One report does not count a cycle twice.
CountedOnce == \A i, j \in DOMAIN spread : i < j => spread[i] < spread[j]

\* The engine's buffers outlive what is queued on them.
FreedIdle == at = "gone" => work = <<>>

\* The buffers and events that cycles share do not mix them up.
EngineInv == EngineTypeOK /\ ToldTrue /\ ResultsTrue /\ CountedOnce /\ FreedIdle
=============================================================================
