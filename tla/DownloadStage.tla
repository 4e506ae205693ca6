---------------------------- MODULE DownloadStage ----------------------------
(***************************************************************************)
(* pipeline/src/download_stage.cpp and host_frame_pool.cpp: copies from one  *)
(* reused device buffer into a pool of pinned host frames, and a thread      *)
(* that hands each frame to the sinks once its copy has retired.             *)
(*                                                                         *)
(* The producer is the pair callback of acquire_main.cpp: it queues an       *)
(* inference that writes the device buffer, then enqueue(), on one stream.   *)
(* The stream runs its items in order; an event is the number of items still *)
(* to complete before it fires.  A frame is a slot of the pool and is free   *)
(* when nobody refers to it, so the pool's free list is a definition; which  *)
(* free slot is taken does not matter here.  What sinks keep is `kept`,      *)
(* theirs to change.  The gauges of the health line are left out, except     *)
(* the drops enqueue() promises to count.                                    *)
(***************************************************************************)
EXTENDS Integers, FiniteSets, Sequences

CONSTANTS
  SlotCount,    \* Config::slots
  SinkCount,    \* how many sinks add_sink() registered
  CudaMayFail,  \* whether calls into CUDA may fail
  MaxStarts,    \* bound: how often the stage is started
  MaxFrames     \* bound: how many frames are produced

ASSUME DownloadAssumption ==
  /\ SlotCount \in Nat \ {0} /\ SinkCount \in Nat
  /\ CudaMayFail \in BOOLEAN /\ MaxFrames \in Nat /\ MaxStarts \in Nat

Slots == 1 .. SlotCount
Events == 1 .. SlotCount
NoSlot == 0
NoEvent == 0

VARIABLES
  freeEvents,  \* free_events_
  inflight,    \* inflight_
  on,          \* running_
  starts,      \* how often start() was called
  stage,       \* the stage thread's program counter
  ready,       \* the frame it publishes
  sink,        \* how many sinks have returned from it
  producer,    \* the producer's program counter
  pslot,       \* the frame it has reserved
  pevent,      \* the event it has taken
  produced,    \* how many results it has made
  poolDrops,   \* drops of the pool
  enqueued,    \* history: the numbers of the frames enqueue() took
  published,   \* history: the numbers of the frames published
  leaked,      \* history: an event was taken that nobody will give back
  stamp,       \* stamp[s]: timestamp_ns of the frame in slot s, its number
  content,     \* content[s]: the number of the result in it
  device,      \* the number of the result in the device buffer
  stream,      \* what the producer's stream has still to do
  pending,     \* pending[e]: items to complete before event e fires
  kept         \* the slots that sinks refer to

stageVars == <<on, starts, stage, ready, sink, published>>
producerVars == <<producer, pslot, pevent, produced, poolDrops, enqueued, stamp>>
gpuVars == <<content, device, stream, pending>>
listVars == <<freeEvents, inflight>>
downloadVars == <<stageVars, producerVars, gpuVars, listVars, leaked, kept>>

DownloadInit ==
  /\ freeEvents = [i \in Events |-> i] /\ inflight = <<>>
  /\ on = FALSE /\ starts = 0 /\ stage = "none" /\ ready = NoSlot /\ sink = 0
  /\ producer = "idle" /\ pslot = NoSlot /\ pevent = NoEvent /\ produced = 0 /\ poolDrops = 0
  /\ enqueued = <<>> /\ published = <<>> /\ leaked = FALSE
  /\ stamp = [s \in Slots |-> 0] /\ content = [s \in Slots |-> 0] /\ device = 0
  /\ stream = <<>> /\ pending = [e \in Events |-> 0]
  /\ kept = {}

InFlightSlots == {inflight[i].slot : i \in DOMAIN inflight}

\* Seeded fault: a frame counts as free once the stage has it.
FreeWhenPublished == Slots \ (kept \cup InFlightSlots \cup {pslot})

\* The slots of HostFramePool's free list: those no shared_ptr refers to.
FreeSlots == Slots \ (kept \cup InFlightSlots \cup {ready, pslot})

-----------------------------------------------------------------------------
(* The producer: the inference, then enqueue().                             *)

Infer ==
  /\ producer = "idle" /\ produced < MaxFrames
  /\ produced' = produced + 1
  /\ stream' = Append(stream, [kind |-> "infer", slot |-> NoSlot, frame |-> produced + 1])
  /\ UNCHANGED <<content, device, pending>>

\* pool_.acquire()
Reserve ==
  /\ Infer
  /\ \E s \in FreeSlots :
       /\ pslot' = s
       /\ stamp' = [stamp EXCEPT ![s] = produced + 1]
  /\ producer' = "event"
  /\ UNCHANGED <<stageVars, listVars, pevent, poolDrops, enqueued, leaked, kept>>

PoolEmpty ==
  /\ Infer
  /\ FreeSlots = {}
  /\ poolDrops' = poolDrops + 1
  /\ UNCHANGED <<stageVars, listVars, producer, pslot, pevent, enqueued, leaked, stamp, kept>>

TakeEvent ==
  /\ producer = "event" /\ freeEvents # <<>>
  /\ pevent' = Head(freeEvents) /\ freeEvents' = Tail(freeEvents)
  /\ producer' = "copy"
  /\ UNCHANGED <<stageVars, gpuVars, inflight, pslot, produced, poolDrops, enqueued, leaked, stamp,
                 kept>>

GiveUp == producer' = "idle" /\ pslot' = NoSlot /\ pevent' = NoEvent

\* "Unreachable: ... a free slot implies a free event": see EventsSuffice.
NoFreeEvent ==
  /\ producer = "event" /\ freeEvents = <<>>
  /\ GiveUp
  /\ UNCHANGED <<stageVars, gpuVars, listVars, produced, poolDrops, enqueued, leaked, stamp, kept>>

CopyItem == [kind |-> "copy", slot |-> pslot, frame |-> produced]

\* cudaMemcpyAsync and cudaEventRecord.
CopyAndRecord ==
  /\ producer = "copy"
  /\ stream' = Append(stream, CopyItem)
  /\ pending' = [pending EXCEPT ![pevent] = Len(stream) + 1]
  /\ producer' = "append"
  /\ UNCHANGED <<stageVars, listVars, pslot, pevent, produced, poolDrops, enqueued, leaked, stamp,
                 content, device, kept>>

\* Either call throws: the frame goes back to the pool, the event to nobody.
\* RingPairConsumer::run() catches the exception and goes on.
CopyThrows ==
  /\ CudaMayFail /\ producer = "copy"
  /\ GiveUp /\ leaked' = TRUE
  /\ stream' \in {stream, Append(stream, CopyItem)}
  /\ UNCHANGED <<stageVars, listVars, produced, poolDrops, enqueued, stamp, content, device, pending,
                 kept>>

QueueFrame ==
  /\ producer = "append"
  /\ inflight' = Append(inflight, [slot |-> pslot, event |-> pevent])
  /\ enqueued' = Append(enqueued, produced)
  /\ GiveUp
  /\ UNCHANGED <<stageVars, gpuVars, freeEvents, produced, poolDrops, leaked, stamp, kept>>

ProducerStep ==
  Reserve \/ PoolEmpty \/ TakeEvent \/ NoFreeEvent \/ CopyAndRecord \/ CopyThrows \/ QueueFrame

-----------------------------------------------------------------------------
(* run(), the stage's thread.                                               *)

StartDownload ==
  /\ ~on /\ stage \in {"none", "stopped"} /\ starts < MaxStarts
  /\ on' = TRUE /\ starts' = starts + 1 /\ stage' = "starting"
  /\ UNCHANGED <<ready, sink, published, producerVars, gpuVars, listVars, leaked, kept>>

Begin ==
  /\ stage = "starting" /\ stage' = "top"
  /\ UNCHANGED <<on, starts, ready, sink, published, producerVars, gpuVars, listVars, leaked, kept>>

\* cudaSetDevice failed: "disabled", and enqueue() is not told.
Disabled ==
  /\ CudaMayFail /\ stage = "starting" /\ stage' = "exited"
  /\ UNCHANGED <<on, starts, ready, sink, published, producerVars, gpuVars, listVars, leaked, kept>>

Look ==
  /\ stage = "top"
  /\ stage' = IF on THEN "poll" ELSE "exited"
  /\ UNCHANGED <<on, starts, ready, sink, published, producerVars, gpuVars, listVars, leaked, kept>>

FrontRetired == inflight # <<>> /\ pending[Head(inflight).event] = 0

\* Nothing in flight, or not retired yet: wait or sleep for kPollInterval.
PollAgain ==
  /\ stage = "poll" /\ ~FrontRetired
  /\ stage' = "top"
  /\ UNCHANGED <<on, starts, ready, sink, published, producerVars, gpuVars, listVars, leaked, kept>>

\* Seeded fault: the event is not asked.
PublishUnasked ==
  /\ stage = "poll" /\ inflight # <<>>
  /\ ready' = Head(inflight).slot /\ sink' = 0
  /\ inflight' = Tail(inflight)
  /\ freeEvents' = Append(freeEvents, Head(inflight).event)
  /\ published' = Append(published, stamp[Head(inflight).slot])
  /\ stage' = "sinks"
  /\ UNCHANGED <<on, starts, producerVars, gpuVars, leaked, kept>>

\* Seeded fault: the event is not given back.
PublishKeepingEvent ==
  /\ stage = "poll" /\ FrontRetired
  /\ ready' = Head(inflight).slot /\ sink' = 0
  /\ inflight' = Tail(inflight)
  /\ published' = Append(published, stamp[Head(inflight).slot])
  /\ stage' = "sinks"
  /\ UNCHANGED <<on, starts, producerVars, gpuVars, freeEvents, leaked, kept>>

Publish ==
  /\ stage = "poll" /\ FrontRetired
  /\ ready' = Head(inflight).slot /\ sink' = 0
  /\ inflight' = Tail(inflight)
  /\ freeEvents' = Append(freeEvents, Head(inflight).event)
  /\ published' = Append(published, stamp[Head(inflight).slot])
  /\ stage' = "sinks"
  /\ UNCHANGED <<on, starts, producerVars, gpuVars, leaked, kept>>

\* The next sink returns; it may have kept the frame.
SinkReturns ==
  /\ stage = "sinks" /\ sink < SinkCount
  /\ sink' = sink + 1
  /\ UNCHANGED <<on, starts, stage, ready, published, producerVars, gpuVars, listVars, leaked>>

\* The last sink has returned and the thread drops its own reference.
DropReady ==
  /\ stage = "sinks" /\ sink = SinkCount
  /\ ready' = NoSlot /\ stage' = "top"
  /\ UNCHANGED <<on, starts, sink, published, producerVars, gpuVars, listVars, leaked, kept>>

\* What the thread does by itself; its sinks are somebody else's code.
StageStep == Begin \/ Disabled \/ Look \/ PollAgain \/ Publish \/ DropReady

-----------------------------------------------------------------------------
(* stop()                                                                   *)

StopDownload ==
  /\ on /\ on' = FALSE
  /\ UNCHANGED <<starts, stage, ready, sink, published, producerVars, gpuVars, listVars, leaked, kept>>

\* The join, then inflight_.clear(): the frames go back, their events do not.
ClearInFlight ==
  /\ ~on /\ stage = "exited"
  /\ inflight' = <<>>
  /\ leaked' = (leaked \/ inflight # <<>>)
  /\ stage' = "stopped"
  /\ UNCHANGED <<on, starts, ready, sink, published, producerVars, gpuVars, freeEvents, kept>>

-----------------------------------------------------------------------------
(* The stream, and sinks at large.                                          *)

Nearer(n) == IF n = 0 THEN 0 ELSE n - 1

StreamStep ==
  /\ stream # <<>>
  /\ stream' = Tail(stream)
  /\ pending' = [e \in Events |-> Nearer(pending[e])]
  /\ LET i == Head(stream) IN
       /\ device' = IF i.kind = "infer" THEN i.frame ELSE device
       /\ content' = IF i.kind = "copy" THEN [content EXCEPT ![i.slot] = device] ELSE content
  /\ UNCHANGED <<stageVars, producerVars, listVars, leaked, kept>>

SinkKeeps == SinkReturns /\ kept' \in {kept, kept \cup {ready}}

SinkLetsGo ==
  /\ \E s \in kept : kept' = kept \ {s}
  /\ UNCHANGED <<stageVars, producerVars, gpuVars, listVars, leaked>>

DownloadNext ==
  ProducerStep \/ StageStep \/ StartDownload \/ StopDownload \/ ClearInFlight \/ StreamStep
    \/ SinkKeeps \/ SinkLetsGo

DownloadSpec == DownloadInit /\ [][DownloadNext]_downloadVars
-----------------------------------------------------------------------------
InFlight == [slot : Slots, event : Events]
StreamItem == [kind : {"infer", "copy"}, slot : Slots \cup {NoSlot}, frame : Nat]

ProducerTypes ==
  /\ producer \in {"idle", "event", "copy", "append"}
  /\ pslot \in Slots \cup {NoSlot} /\ pevent \in Events \cup {NoEvent}
  /\ (pslot # NoSlot <=> producer # "idle")
  /\ (pevent # NoEvent <=> producer \in {"copy", "append"})
  /\ produced \in Nat /\ poolDrops \in Nat

StageTypes ==
  /\ on \in BOOLEAN /\ starts \in Nat /\ leaked \in BOOLEAN
  /\ stage \in {"none", "starting", "top", "poll", "sinks", "exited", "stopped"}
  /\ ready \in Slots \cup {NoSlot} /\ sink \in 0 .. SinkCount
  /\ (ready # NoSlot <=> stage = "sinks")

GpuTypes ==
  /\ stamp \in [Slots -> Nat] /\ content \in [Slots -> Nat] /\ device \in Nat
  /\ pending \in [Events -> Nat]
  /\ stream \in Seq(StreamItem)

DownloadTypeOK ==
  /\ freeEvents \in Seq(Events) /\ inflight \in Seq(InFlight) /\ kept \subseteq Slots
  /\ ProducerTypes /\ StageTypes /\ GpuTypes

\* A slot is with one of: the producer, the list in flight, the stage with its
\* sinks.  "two frames aliasing the same buffer is the failure this whole design
\* exists to prevent."
OneUse ==
  /\ \A i, j \in DOMAIN inflight : inflight[i].slot = inflight[j].slot => i = j
  /\ \A i \in DOMAIN inflight :
       inflight[i].slot \notin kept /\ inflight[i].slot # ready /\ inflight[i].slot # pslot
  /\ pslot # NoSlot => pslot \notin kept /\ pslot # ready

\* So is an event: free, with the producer or in flight; and unless one was
\* leaked, none is missing.
EventsAccounted ==
  /\ \A i, j \in DOMAIN freeEvents : freeEvents[i] = freeEvents[j] => i = j
  /\ \A i, j \in DOMAIN inflight : inflight[i].event = inflight[j].event => i = j
  /\ \A i \in DOMAIN freeEvents : freeEvents[i] # pevent
  /\ \A i \in DOMAIN inflight :
       /\ inflight[i].event # pevent
       /\ \A j \in DOMAIN freeEvents : inflight[i].event # freeEvents[j]
  /\ ~leaked => Len(freeEvents) + Len(inflight) + (IF pevent = NoEvent THEN 0 ELSE 1) = SlotCount

CopiesTo(s, k) == stream[k].kind = "copy" /\ stream[k].slot = s

\* Slot s has its result, and nothing queued will touch it.
Landed(s) == content[s] = stamp[s] /\ \A k \in DOMAIN stream : ~CopiesTo(s, k)

\* Event e fires when the last copy into s is through, and that is the right one.
Landing(s, e) ==
  /\ pending[e] \in DOMAIN stream
  /\ CopiesTo(s, pending[e]) /\ stream[pending[e]].frame = stamp[s]
  /\ \A k \in DOMAIN stream : k > pending[e] => ~CopiesTo(s, k)

EventTells(s, e) == IF pending[e] = 0 THEN Landed(s) ELSE Landing(s, e)

CopiesLand ==
  /\ \A s \in Slots : s = ready \/ s \in kept => Landed(s)
  /\ \A i \in DOMAIN inflight : EventTells(inflight[i].slot, inflight[i].event)
  /\ producer = "append" => EventTells(pslot, pevent)
  /\ pslot # NoSlot => stamp[pslot] = produced

\* A copy is queued right behind the inference whose result it takes, so that the
\* device buffer is not overwritten under it.
ResultsInOrder ==
  /\ (IF stream = <<>> THEN device ELSE stream[Len(stream)].frame) = produced
  /\ stream # <<>> /\ stream[1].kind = "copy" => stream[1].frame = device
  /\ \A k \in 2 .. Len(stream) :
       stream[k].kind = "copy" => stream[k].frame = stream[k - 1].frame

DownloadInv == DownloadTypeOK /\ OneUse /\ EventsAccounted /\ CopiesLand /\ ResultsInOrder

\* What a sink is given, and whatever it keeps, stays the result of its stamp.
FramesIntact == \A s \in Slots : s = ready \/ s \in kept => content[s] = stamp[s]

\* Frames are published in the order of enqueue(), each once.  (Frames left in
\* flight by stop() are not published.)
PublishedInOrder == \A i, j \in DOMAIN published : i < j => published[i] < published[j]

\* A producer that got a frame gets an event: the branch the code calls
\* unreachable is, unless an event was leaked by a call that threw or by stop().
EventsSuffice == ~leaked /\ producer = "event" => freeEvents # <<>>

\* "False means the pool was empty and nothing was enqueued.  That is a drop and
\* it is counted."
RefusalsCounted ==
  ~leaked => Len(enqueued) + poolDrops + (IF producer = "idle" THEN 0 ELSE 1) = produced
=============================================================================
