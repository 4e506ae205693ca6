---------------------------- MODULE GpuResultsProofs ----------------------------
(* The frame's way over the device, proved part by part: DownloadStage with its    *)
(* mailbox (HostPull), the upload stage (UploadPaths) and the engines with who     *)
(* drives them (EngineUsers); and from these, at the end, what GpuResults promises. *)
EXTENDS GpuResults, FiniteSetTheorems, SequenceTheorems, WellFoundedInduction, TLAPS

-----------------------------------------------------------------------------
(* HostPull: what DownloadStage guarantees for any number of slots and sinks,   *)
(* whatever CUDA call fails and however often the stage is stopped and started; *)
(* and what the consumer of a mailbox that is its sink can rely on.             *)

(* What an item of a stream and a frame in flight are. *)
LEMMA Parts ==
  /\ \A n \in Nat : LET item == [kind |-> "infer", slot |-> NoSlot, frame |-> n]
                    IN  item \in StreamItem /\ item.kind = "infer" /\ item.frame = n
  /\ \A s \in Slots, n \in Nat :
       LET item == [kind |-> "copy", slot |-> s, frame |-> n]
       IN  item \in StreamItem /\ item.kind = "copy" /\ item.slot = s /\ item.frame = n
  /\ \A item \in StreamItem : /\ item.kind \in {"infer", "copy"} /\ item.frame \in Nat
                              /\ item.slot \in Slots \cup {NoSlot}
  /\ \A s \in Slots, e \in Events :
       LET f == [slot |-> s, event |-> e] IN f \in InFlight /\ f.slot = s /\ f.event = e
  /\ \A f \in InFlight : f.slot \in Slots /\ f.event \in Events
  BY DEF StreamItem, InFlight

(* Slots and events are numbered from one. *)
LEMMA Numbers == NoSlot \notin Slots /\ NoEvent \notin Events
  BY DEF Slots, Events, NoSlot, NoEvent

(* A sequence that grows at its end. *)
LEMMA Grown ==
  ASSUME NEW S, NEW s \in Seq(S), NEW x \in S, NEW t, t = Append(s, x)
  PROVE  /\ t \in Seq(S) /\ Len(t) = Len(s) + 1 /\ Len(s) \in Nat
         /\ DOMAIN s = 1 .. Len(s) /\ DOMAIN t = 1 .. Len(s) + 1
         /\ \A i \in 1 .. Len(s) : t[i] = s[i]
         /\ t[Len(s) + 1] = x
  BY AppendProperties, LenProperties

(* A sequence that loses its head. *)
LEMMA Shrunk ==
  ASSUME NEW S, NEW s \in Seq(S), s # <<>>, NEW t, t = Tail(s)
  PROVE  /\ t \in Seq(S) /\ Len(t) = Len(s) - 1 /\ Len(s) \in Nat \ {0}
         /\ Head(s) = s[1] /\ Head(s) \in S
         /\ DOMAIN s = 1 .. Len(s) /\ DOMAIN t = 1 .. Len(s) - 1
         /\ \A i \in 1 .. Len(s) - 1 : t[i] = s[i + 1]
  BY HeadTailProperties, LenProperties, EmptySeq

-----------------------------------------------------------------------------
LEMMA DownloadInvInit == DownloadInit => DownloadInv
  <1> SUFFICES ASSUME DownloadInit
               PROVE  DownloadInv
    OBVIOUS
  <1> USE DEF DownloadInit
  <1>0. /\ SlotCount \in Nat /\ Len(freeEvents) = SlotCount /\ DOMAIN freeEvents = Events
        /\ freeEvents \in Seq(Events) /\ \A i \in Events : freeEvents[i] = i
        /\ inflight = <<>> /\ inflight \in Seq(InFlight) /\ Len(inflight) = 0
        /\ DOMAIN inflight = {}
        /\ stream = <<>> /\ stream \in Seq(StreamItem) /\ Len(stream) = 0
    <2>1. SlotCount \in Nat /\ Events = 1 .. SlotCount
      BY DownloadAssumption DEF Events
    <2>2. freeEvents \in [1 .. SlotCount -> Events]
      BY <2>1
    <2>3. freeEvents \in Seq(Events) /\ Len(freeEvents) = SlotCount
      BY <2>1, <2>2
    <2>4. QED
      BY <2>1, <2>2, <2>3
  <1>1. DownloadTypeOK
    <2>1. ProducerTypes
      BY DEF ProducerTypes
    <2>2. StageTypes
      <3>1. /\ on = FALSE /\ starts = 0 /\ leaked = FALSE /\ stage = "none"
            /\ ready = NoSlot /\ sink = 0 /\ SinkCount \in Nat
        BY DownloadAssumption
      <3>2. sink \in 0 .. SinkCount
        BY ONLY <3>1
      <3>3. on \in BOOLEAN /\ leaked \in BOOLEAN
        BY ONLY <3>1
      <3>4. QED
        BY ONLY <3>1, <3>2, <3>3 DEF StageTypes
    <2>3. GpuTypes
      BY <1>0 DEF GpuTypes
    <2>4. QED
      BY <1>0, <2>1, <2>2, <2>3 DEF DownloadTypeOK
  <1>2. OneUse
    BY <1>0, Numbers DEF OneUse
  <1>3. EventsAccounted
    <2>1. pevent = NoEvent /\ \A i \in DOMAIN freeEvents : freeEvents[i] # NoEvent
      BY <1>0, Numbers
    <2>2. QED
      BY <1>0, <2>1 DEF EventsAccounted
  <1>4. CopiesLand
    BY <1>0, Numbers DEF CopiesLand
  <1>5. ResultsInOrder
    BY <1>0 DEF ResultsInOrder
  <1>6. QED
    BY <1>1, <1>2, <1>3, <1>4, <1>5 DEF DownloadInv

-----------------------------------------------------------------------------
(* Steps of the stage's thread and of its owner that move no frame. *)
QuietStep ==
  /\ UNCHANGED <<ready, published, producerVars, gpuVars, listVars, leaked, kept>>
  /\ (stage = "sinks") = (stage' = "sinks")

LEMMA QuietSteps ==
  Begin \/ Disabled \/ Look \/ PollAgain \/ StartDownload \/ StopDownload => QuietStep
  BY DEF QuietStep, Begin, Disabled, Look, PollAgain, StartDownload, StopDownload

LEMMA StageTypesKept ==
  DownloadInv /\ [DownloadNext]_downloadVars => StageTypes'
  <1> SUFFICES ASSUME StageTypes, DownloadTypeOK, [DownloadNext]_downloadVars
               PROVE  StageTypes'
    BY DEF DownloadInv, DownloadTypeOK
  <1> USE DownloadAssumption DEF StageTypes, stageVars
  <1>1. CASE ProducerStep
    BY <1>1 DEF ProducerStep, Reserve, PoolEmpty, TakeEvent, NoFreeEvent, CopyAndRecord, CopyThrows,
                QueueFrame
  <1>2. CASE Begin \/ Disabled \/ Look \/ PollAgain
    BY <1>2 DEF Begin, Disabled, Look, PollAgain
  <1>3. CASE Publish
    <2>1. Head(inflight).slot \in Slots
      BY <1>3, Parts, HeadTailProperties DEF Publish, FrontRetired, DownloadTypeOK
    <2>2. QED
      BY <1>3, <2>1, Numbers DEF Publish
  <1>4. CASE DropReady
    BY <1>4 DEF DropReady
  <1>5. CASE StartDownload \/ StopDownload
    <2>1. on' \in BOOLEAN
      BY <1>5 DEF StartDownload, StopDownload
    <2>4. starts' \in Nat
      BY <1>5 DEF StartDownload, StopDownload
    <2>2. stage # "sinks" => stage' # "sinks"
      BY <1>5 DEF StartDownload, StopDownload
    <2>3. stage = "sinks" => stage' = "sinks"
      BY <1>5 DEF StartDownload, StopDownload
    <2>5. QED
      BY <1>5, <2>1, <2>4, <2>2, <2>3 DEF StartDownload, StopDownload
  <1>5a. CASE ClearInFlight
    <2>1. leaked' \in BOOLEAN
      BY <1>5a DEF ClearInFlight
    <2>2. QED
      BY <1>5a, <2>1 DEF ClearInFlight
  <1>6. CASE StreamStep
    BY <1>6 DEF StreamStep
  <1>7. CASE SinkKeeps \/ SinkLetsGo
    BY <1>7 DEF SinkKeeps, SinkReturns, SinkLetsGo
  <1>8. CASE UNCHANGED downloadVars
    BY <1>8 DEF downloadVars
  <1>9. QED
    BY <1>1, <1>2, <1>3, <1>4, <1>5, <1>6, <1>7, <1>8, <1>5a DEF DownloadNext, StageStep

LEMMA ProducerTypesKept ==
  DownloadInv /\ [DownloadNext]_downloadVars => ProducerTypes'
  <1> SUFFICES ASSUME ProducerTypes, DownloadTypeOK, [DownloadNext]_downloadVars
               PROVE  ProducerTypes'
    BY DEF DownloadInv, DownloadTypeOK
  <1> USE Numbers DEF ProducerTypes, producerVars
  <1>1. CASE Reserve
    <2>1. pslot' \in Slots
      BY <1>1 DEF Reserve, FreeSlots
    <2>2. QED
      BY <1>1, <2>1 DEF Reserve, Infer
  <1>2. CASE PoolEmpty
    BY <1>2 DEF PoolEmpty, Infer
  <1>3. CASE TakeEvent
    <2>1. pevent' \in Events
      BY <1>3, HeadTailProperties DEF TakeEvent, DownloadTypeOK
    <2>2. QED
      BY <1>3, <2>1 DEF TakeEvent
  <1>4. CASE NoFreeEvent \/ CopyThrows \/ QueueFrame
    BY <1>4 DEF NoFreeEvent, CopyThrows, QueueFrame, GiveUp
  <1>5. CASE CopyAndRecord
    BY <1>5 DEF CopyAndRecord
  <1>6. CASE StageStep \/ StartDownload \/ StopDownload
    BY <1>6 DEF StageStep, Begin, Disabled, Look, PollAgain, Publish, DropReady, StartDownload,
                StopDownload
  <1>7. CASE ClearInFlight \/ StreamStep \/ SinkKeeps \/ SinkLetsGo \/ UNCHANGED downloadVars
    BY <1>7 DEF ClearInFlight, StreamStep, SinkKeeps, SinkReturns, SinkLetsGo, downloadVars
  <1>8. QED
    BY <1>1, <1>2, <1>3, <1>4, <1>5, <1>6, <1>7 DEF DownloadNext, ProducerStep

(* What an inference adds to the stream. *)
LEMMA InferQueues ==
  ASSUME DownloadTypeOK, Infer
  PROVE  /\ produced' = produced + 1 /\ produced \in Nat
         /\ stream' = Append(stream, [kind |-> "infer", slot |-> NoSlot, frame |-> produced + 1])
         /\ [kind |-> "infer", slot |-> NoSlot, frame |-> produced + 1] \in StreamItem
         /\ stream' \in Seq(StreamItem)
         /\ UNCHANGED <<content, device, pending>>
  <1>1. produced \in Nat /\ stream \in Seq(StreamItem)
    BY DEF DownloadTypeOK, ProducerTypes, GpuTypes
  <1>2. [kind |-> "infer", slot |-> NoSlot, frame |-> produced + 1] \in StreamItem
    BY <1>1, Parts
  <1>3. stream' = Append(stream, [kind |-> "infer", slot |-> NoSlot, frame |-> produced + 1])
    BY DEF Infer
  <1>4. stream' \in Seq(StreamItem)
    BY <1>1, <1>2, <1>3, AppendProperties
  <1>5. QED
    BY <1>1, <1>2, <1>3, <1>4 DEF Infer

(* The copy a producer queues is one into its own slot. *)
LEMMA CopyItemIs ==
  ASSUME DownloadTypeOK, producer = "copy"
  PROVE  /\ pslot \in Slots /\ pevent \in Events
         /\ CopyItem \in StreamItem
         /\ CopyItem.kind = "copy" /\ CopyItem.slot = pslot /\ CopyItem.frame = produced
  BY Parts DEF CopyItem, DownloadTypeOK, ProducerTypes

LEMMA GpuTypesKept ==
  DownloadInv /\ [DownloadNext]_downloadVars => GpuTypes'
  <1> SUFFICES ASSUME GpuTypes, DownloadTypeOK, [DownloadNext]_downloadVars
               PROVE  GpuTypes'
    BY DEF DownloadInv, DownloadTypeOK
  <1>0. produced \in Nat
    BY DEF DownloadTypeOK, ProducerTypes
  <1>1. CASE Reserve
    <2>1. Infer
      BY <1>1 DEF Reserve
    <2>2. PICK s \in FreeSlots : stamp' = [stamp EXCEPT ![s] = produced + 1]
      BY <1>1 DEF Reserve
    <2>3. stamp' \in [Slots -> Nat]
      <3>1. stamp \in [Slots -> Nat] /\ produced + 1 \in Nat
        BY <1>0 DEF GpuTypes
      <3>2. QED
        BY <2>2, <3>1
    <2>4. QED
      BY <2>1, <2>3, InferQueues DEF GpuTypes
  <1>2. CASE PoolEmpty
    BY <1>2, InferQueues DEF PoolEmpty, GpuTypes
  <1>3. CASE CopyAndRecord
    <2>1. CopyItem \in StreamItem /\ pevent \in Events
      BY <1>3, CopyItemIs DEF CopyAndRecord
    <2>2. stream' \in Seq(StreamItem)
      BY <1>3, <2>1, AppendProperties DEF CopyAndRecord, GpuTypes
    <2>3. pending' \in [Events -> Nat]
      <3>1. Len(stream) + 1 \in Nat
        BY LenProperties DEF GpuTypes
      <3>2. pending' = [pending EXCEPT ![pevent] = Len(stream) + 1]
        BY <1>3 DEF CopyAndRecord
      <3>3. QED
        BY <3>1, <3>2 DEF GpuTypes
    <2>4. QED
      BY <1>3, <2>2, <2>3 DEF CopyAndRecord, GpuTypes
  <1>4. CASE CopyThrows
    <2>1. CopyItem \in StreamItem
      BY <1>4, CopyItemIs DEF CopyThrows
    <2>2. stream' \in Seq(StreamItem)
      <3>1. stream \in Seq(StreamItem) /\ Append(stream, CopyItem) \in Seq(StreamItem)
        BY <2>1, AppendProperties DEF GpuTypes
      <3>2. QED
        BY <1>4, <3>1 DEF CopyThrows
    <2>3. QED
      BY <1>4, <2>2 DEF CopyThrows, GpuTypes
  <1>5. CASE TakeEvent \/ NoFreeEvent \/ QueueFrame
    BY <1>5 DEF TakeEvent, NoFreeEvent, QueueFrame, gpuVars, GpuTypes
  <1>6. CASE Publish \/ DropReady
    BY <1>6 DEF Publish, DropReady, gpuVars, producerVars, GpuTypes
  <1>7. CASE Begin \/ Disabled \/ Look \/ PollAgain \/ StartDownload \/ StopDownload
    BY <1>7, QuietSteps DEF QuietStep, gpuVars, producerVars, GpuTypes
  <1>8. CASE StreamStep
    <2>1. stream \in Seq(StreamItem) /\ stream # <<>>
      BY <1>8 DEF StreamStep, GpuTypes
    <2>2. Head(stream) \in StreamItem /\ Tail(stream) \in Seq(StreamItem)
      BY <2>1, HeadTailProperties
    <2>3. device' \in Nat
      BY <1>8, <2>2, Parts DEF StreamStep, GpuTypes
    <2>4. content' \in [Slots -> Nat]
      BY <1>8 DEF StreamStep, GpuTypes
    <2>5. pending' \in [Events -> Nat]
      BY <1>8 DEF StreamStep, GpuTypes, Nearer
    <2>6. QED
      BY <1>8, <2>2, <2>3, <2>4, <2>5 DEF StreamStep, GpuTypes, producerVars
  <1>9. CASE ClearInFlight \/ SinkKeeps \/ SinkLetsGo \/ UNCHANGED downloadVars
    BY <1>9
       DEF ClearInFlight, SinkKeeps, SinkReturns, SinkLetsGo, downloadVars, gpuVars, producerVars,
           GpuTypes
  <1>10. QED
    BY <1>1, <1>2, <1>3, <1>4, <1>5, <1>6, <1>7, <1>8, <1>9
       DEF DownloadNext, ProducerStep, StageStep

(* The frame a producer adds to those in flight. *)
LEMMA QueuedFrame ==
  ASSUME DownloadTypeOK, QueueFrame
  PROVE  /\ pslot \in Slots /\ pevent \in Events
         /\ [slot |-> pslot, event |-> pevent] \in InFlight
         /\ inflight' \in Seq(InFlight)
         /\ Len(inflight) \in Nat /\ Len(inflight') = Len(inflight) + 1
         /\ DOMAIN inflight = 1 .. Len(inflight) /\ DOMAIN inflight' = 1 .. Len(inflight) + 1
         /\ \A i \in 1 .. Len(inflight) : inflight'[i] = inflight[i]
         /\ inflight'[Len(inflight) + 1].slot = pslot
         /\ inflight'[Len(inflight) + 1].event = pevent
  <1>1. pslot \in Slots /\ pevent \in Events /\ inflight \in Seq(InFlight)
    BY DEF QueueFrame, DownloadTypeOK, ProducerTypes
  <1>2. [slot |-> pslot, event |-> pevent] \in InFlight
    BY <1>1, Parts
  <1>3. inflight' = Append(inflight, [slot |-> pslot, event |-> pevent])
    BY DEF QueueFrame
  <1>4. QED
    BY <1>1, <1>2, <1>3, Grown

(* The frame the stage takes from those in flight. *)
LEMMA PublishedFrame ==
  ASSUME DownloadTypeOK, Publish
  PROVE  /\ inflight' \in Seq(InFlight) /\ freeEvents' \in Seq(Events)
         /\ Len(inflight) \in Nat \ {0} /\ Len(inflight') = Len(inflight) - 1
         /\ DOMAIN inflight = 1 .. Len(inflight) /\ DOMAIN inflight' = 1 .. Len(inflight) - 1
         /\ \A i \in 1 .. Len(inflight) - 1 : inflight'[i] = inflight[i + 1]
         /\ inflight[1] \in InFlight /\ ready' = inflight[1].slot
         /\ pending[inflight[1].event] = 0
         /\ Len(freeEvents) \in Nat /\ Len(freeEvents') = Len(freeEvents) + 1
         /\ DOMAIN freeEvents = 1 .. Len(freeEvents)
         /\ DOMAIN freeEvents' = 1 .. Len(freeEvents) + 1
         /\ \A i \in 1 .. Len(freeEvents) : freeEvents'[i] = freeEvents[i]
         /\ freeEvents'[Len(freeEvents) + 1] = inflight[1].event
  <1>1. inflight \in Seq(InFlight) /\ inflight # <<>> /\ inflight' = Tail(inflight)
        /\ pending[Head(inflight).event] = 0 /\ ready' = Head(inflight).slot
    BY DEF Publish, FrontRetired, DownloadTypeOK
  <1>2. /\ inflight' \in Seq(InFlight) /\ Len(inflight) \in Nat \ {0}
        /\ Len(inflight') = Len(inflight) - 1 /\ Head(inflight) = inflight[1]
        /\ inflight[1] \in InFlight
        /\ DOMAIN inflight = 1 .. Len(inflight) /\ DOMAIN inflight' = 1 .. Len(inflight) - 1
        /\ \A i \in 1 .. Len(inflight) - 1 : inflight'[i] = inflight[i + 1]
    BY <1>1, Shrunk
  <1>3. inflight[1].event \in Events /\ freeEvents \in Seq(Events)
        /\ freeEvents' = Append(freeEvents, inflight[1].event)
    BY <1>2, Parts DEF Publish, DownloadTypeOK
  <1>4. QED
    BY <1>1, <1>2, <1>3, Grown

(* The event a producer takes. *)
LEMMA TakenEvent ==
  ASSUME DownloadTypeOK, TakeEvent
  PROVE  /\ freeEvents' \in Seq(Events) /\ pevent' = freeEvents[1] /\ freeEvents[1] \in Events
         /\ Len(freeEvents) \in Nat \ {0} /\ Len(freeEvents') = Len(freeEvents) - 1
         /\ DOMAIN freeEvents = 1 .. Len(freeEvents)
         /\ DOMAIN freeEvents' = 1 .. Len(freeEvents) - 1
         /\ \A i \in 1 .. Len(freeEvents) - 1 : freeEvents'[i] = freeEvents[i + 1]
  <1>1. freeEvents \in Seq(Events) /\ freeEvents # <<>> /\ freeEvents' = Tail(freeEvents)
        /\ pevent' = Head(freeEvents)
    BY DEF TakeEvent, DownloadTypeOK
  <1>2. QED
    BY <1>1, Shrunk

LEMMA DownloadTypesKept ==
  DownloadInv /\ [DownloadNext]_downloadVars => DownloadTypeOK'
  <1> SUFFICES ASSUME DownloadInv, DownloadTypeOK, [DownloadNext]_downloadVars
               PROVE  DownloadTypeOK'
    BY DEF DownloadInv
  <1>0. ProducerTypes' /\ StageTypes' /\ GpuTypes'
    BY ProducerTypesKept, StageTypesKept, GpuTypesKept
  <1> SUFFICES freeEvents' \in Seq(Events) /\ inflight' \in Seq(InFlight) /\ kept' \subseteq Slots
    BY <1>0 DEF DownloadTypeOK
  <1>1. CASE TakeEvent
    BY <1>1, TakenEvent DEF TakeEvent, DownloadTypeOK
  <1>2. CASE QueueFrame
    BY <1>2, QueuedFrame DEF QueueFrame, DownloadTypeOK
  <1>3. CASE Publish
    BY <1>3, PublishedFrame DEF Publish, DownloadTypeOK
  <1>4. CASE Reserve \/ PoolEmpty \/ NoFreeEvent \/ CopyAndRecord \/ CopyThrows
    BY <1>4
       DEF Reserve, PoolEmpty, NoFreeEvent, CopyAndRecord, CopyThrows, listVars, DownloadTypeOK
  <1>5. CASE Begin \/ Disabled \/ Look \/ PollAgain \/ StartDownload \/ StopDownload
    BY <1>5, QuietSteps DEF QuietStep, listVars, DownloadTypeOK
  <1>6. CASE DropReady \/ StreamStep
    BY <1>6 DEF DropReady, StreamStep, listVars, DownloadTypeOK
  <1>7. CASE ClearInFlight
    BY <1>7 DEF ClearInFlight, DownloadTypeOK
  <1>8. CASE SinkKeeps
    <2>1. ready \in Slots
      BY <1>8 DEF SinkKeeps, SinkReturns, DownloadTypeOK, StageTypes
    <2>2. QED
      BY <1>8, <2>1 DEF SinkKeeps, SinkReturns, listVars, DownloadTypeOK
  <1>9. CASE SinkLetsGo \/ UNCHANGED downloadVars
    BY <1>9 DEF SinkLetsGo, downloadVars, listVars, DownloadTypeOK
  <1>10. QED
    BY <1>1, <1>2, <1>3, <1>4, <1>5, <1>6, <1>7, <1>8, <1>9
       DEF DownloadNext, ProducerStep, StageStep

-----------------------------------------------------------------------------
LEMMA UseKept ==
  DownloadInv /\ [DownloadNext]_downloadVars => OneUse'
  <1> SUFFICES ASSUME DownloadInv, DownloadTypeOK, OneUse, [DownloadNext]_downloadVars
               PROVE  OneUse'
    BY DEF DownloadInv
  <1>0. DOMAIN inflight = 1 .. Len(inflight) /\ \A i \in DOMAIN inflight : inflight[i] \in InFlight
    BY LenProperties DEF DownloadTypeOK
  <1>1. CASE Reserve
    <2>1. /\ pslot' \in Slots \ (kept \cup {ready}) /\ UNCHANGED <<inflight, kept, ready>>
          /\ \A i \in DOMAIN inflight : inflight[i].slot # pslot'
      BY <1>1 DEF Reserve, FreeSlots, InFlightSlots, listVars, stageVars
    <2>2. QED
      BY <2>1 DEF OneUse
  <1>2. CASE NoFreeEvent \/ CopyThrows
    <2>1. pslot' = NoSlot /\ UNCHANGED <<inflight, kept, ready>>
      BY <1>2 DEF NoFreeEvent, CopyThrows, GiveUp, listVars, stageVars
    <2>2. \A i \in DOMAIN inflight : inflight[i].slot # NoSlot
      BY <1>0, Parts, Numbers
    <2>3. QED
      BY <2>1, <2>2 DEF OneUse
  <1>3. CASE QueueFrame
    <2>1. pslot' = NoSlot /\ UNCHANGED <<kept, ready>>
      BY <1>3 DEF QueueFrame, GiveUp, stageVars
    <2>2. \A i \in DOMAIN inflight : inflight[i].slot # NoSlot /\ inflight[i].slot # pslot
      BY <1>0, Parts, Numbers DEF OneUse
    <2>3. pslot \notin kept /\ pslot # ready /\ pslot # NoSlot
      BY <1>3, QueuedFrame, Numbers DEF OneUse
    <2>4. QED
      BY <1>3, <2>1, <2>2, <2>3, QueuedFrame DEF OneUse
  <1>4. CASE Publish
    <2>1. UNCHANGED <<kept, pslot>>
      BY <1>4 DEF Publish, producerVars
    <2>2. /\ Len(inflight) \in Nat \ {0} /\ DOMAIN inflight' = 1 .. Len(inflight) - 1
          /\ \A i \in 1 .. Len(inflight) - 1 : inflight'[i] = inflight[i + 1]
      BY <1>4, PublishedFrame
    <2>5. \A i \in DOMAIN inflight' :
            i + 1 \in DOMAIN inflight /\ i + 1 # 1 /\ inflight'[i] = inflight[i + 1]
      BY <1>0, <2>2
    <2>6. /\ \A i, j \in DOMAIN inflight' : inflight'[i].slot = inflight'[j].slot => i + 1 = j + 1
          /\ \A i \in DOMAIN inflight' : inflight'[i].slot \notin kept /\ inflight'[i].slot # pslot
      BY <2>5 DEF OneUse
    <2>7. \A i \in DOMAIN inflight' : inflight'[i].slot # inflight[1].slot
      BY <1>0, <2>2, <2>5 DEF OneUse
    <2>8. \A i, j \in DOMAIN inflight' : i + 1 = j + 1 => i = j
      BY <2>2
    <2>3. pslot # inflight[1].slot
      BY <1>4, PublishedFrame DEF OneUse
    <2>4. QED
      BY <1>4, <2>1, <2>3, <2>6, <2>7, <2>8, PublishedFrame DEF OneUse
  <1>5. CASE DropReady
    <2>1. ready' = NoSlot /\ UNCHANGED <<inflight, kept, pslot>>
      BY <1>5 DEF DropReady, listVars, producerVars
    <2>2. \A i \in DOMAIN inflight : inflight[i].slot # NoSlot
      BY <1>0, Parts, Numbers
    <2>3. QED
      BY <2>1, <2>2 DEF OneUse
  <1>6. CASE ClearInFlight
    BY <1>6 DEF ClearInFlight, OneUse, producerVars
  <1>7. CASE SinkKeeps
    BY <1>7 DEF SinkKeeps, SinkReturns, OneUse, listVars, producerVars
  <1>8. CASE SinkLetsGo
    <2>1. kept' \subseteq kept /\ UNCHANGED <<inflight, ready, pslot>>
      BY <1>8 DEF SinkLetsGo, listVars, stageVars, producerVars
    <2>2. QED
      BY <2>1 DEF OneUse
  <1>9. CASE UNCHANGED <<inflight, ready, pslot, kept>>
    BY <1>9 DEF OneUse
  <1>10. PoolEmpty \/ TakeEvent \/ CopyAndRecord \/ StreamStep => UNCHANGED <<inflight, ready, pslot, kept>>
    BY DEF PoolEmpty, TakeEvent, CopyAndRecord, StreamStep, listVars, stageVars, producerVars
  <1>11. Begin \/ Disabled \/ Look \/ PollAgain \/ StartDownload \/ StopDownload
         => UNCHANGED <<inflight, ready, pslot, kept>>
    BY QuietSteps DEF QuietStep, listVars, producerVars
  <1>12. UNCHANGED downloadVars => UNCHANGED <<inflight, ready, pslot, kept>>
    BY DEF downloadVars, listVars, stageVars, producerVars
  <1>13. QED
    BY <1>1, <1>2, <1>3, <1>4, <1>5, <1>6, <1>7, <1>8, <1>9, <1>10, <1>11, <1>12
       DEF DownloadNext, ProducerStep, StageStep

LEMMA EventsKept ==
  DownloadInv /\ [DownloadNext]_downloadVars => EventsAccounted'
  <1> SUFFICES ASSUME DownloadInv, DownloadTypeOK, EventsAccounted, [DownloadNext]_downloadVars
               PROVE  EventsAccounted'
    BY DEF DownloadInv
  <1>0. /\ DOMAIN inflight = 1 .. Len(inflight) /\ \A i \in DOMAIN inflight : inflight[i].event \in Events
        /\ DOMAIN freeEvents = 1 .. Len(freeEvents) /\ \A i \in DOMAIN freeEvents : freeEvents[i] \in Events
        /\ Len(inflight) \in Nat /\ Len(freeEvents) \in Nat
    BY LenProperties, Parts DEF DownloadTypeOK
  <1>1. CASE TakeEvent
    <2>1. UNCHANGED <<inflight, leaked>> /\ pevent = NoEvent /\ pevent' # NoEvent
      BY <1>1, TakenEvent, Numbers DEF TakeEvent, DownloadTypeOK, ProducerTypes
    <2>6. /\ pevent' = freeEvents[1] /\ Len(freeEvents) \in Nat \ {0}
          /\ Len(freeEvents') = Len(freeEvents) - 1
          /\ DOMAIN freeEvents' = 1 .. Len(freeEvents) - 1
          /\ \A i \in 1 .. Len(freeEvents) - 1 : freeEvents'[i] = freeEvents[i + 1]
      BY <1>1, TakenEvent
    <2>7. \A i \in DOMAIN freeEvents' :
            i + 1 \in DOMAIN freeEvents /\ i + 1 # 1 /\ freeEvents'[i] = freeEvents[i + 1]
      BY <1>0, <2>6
    <2>8. \A i, j \in DOMAIN freeEvents' : i + 1 = j + 1 => i = j
      BY <2>6
    <2>2. /\ \A i, j \in DOMAIN freeEvents' : freeEvents'[i] = freeEvents'[j] => i = j
          /\ \A i \in DOMAIN freeEvents' : freeEvents'[i] # pevent'
      <3>1. \A i, j \in DOMAIN freeEvents' : freeEvents'[i] = freeEvents'[j] => i + 1 = j + 1
        BY <2>7 DEF EventsAccounted
      <3>2. 1 \in DOMAIN freeEvents
        BY <1>0, <2>6
      <3>3. QED
        BY <2>6, <2>7, <2>8, <3>1, <3>2 DEF EventsAccounted
    <2>3. \A i \in DOMAIN inflight :
            /\ inflight[i].event # pevent'
            /\ \A j \in DOMAIN freeEvents' : inflight[i].event # freeEvents'[j]
      BY <1>1, TakenEvent, SMTT(30) DEF EventsAccounted
    <2>4. ASSUME ~leaked
          PROVE  Len(freeEvents') + Len(inflight) + 1 = SlotCount
      <3>1. Len(freeEvents) + Len(inflight) + 0 = SlotCount
        BY <2>1, <2>4 DEF EventsAccounted
      <3>2. QED
        BY <1>0, <2>6, <3>1
    <2>5. QED
      BY <2>1, <2>2, <2>3, <2>4 DEF EventsAccounted
  <1>2. CASE CopyThrows
    <2>1. leaked' /\ pevent' = NoEvent /\ UNCHANGED <<freeEvents, inflight>>
      BY <1>2 DEF CopyThrows, GiveUp, listVars
    <2>2. QED
      BY <1>0, <2>1, Numbers DEF EventsAccounted
  <1>3. CASE QueueFrame
    <2>1. pevent' = NoEvent /\ pevent # NoEvent /\ UNCHANGED <<freeEvents, leaked>>
      BY <1>3, QueuedFrame, Numbers DEF QueueFrame, GiveUp
    <2>2. /\ \A i, j \in DOMAIN inflight' : inflight'[i].event = inflight'[j].event => i = j
          /\ \A i \in DOMAIN inflight' :
               \A j \in DOMAIN freeEvents : inflight'[i].event # freeEvents[j]
      BY <1>3, QueuedFrame DEF EventsAccounted
    <2>3. \A i \in DOMAIN inflight' : inflight'[i].event # NoEvent
      BY <1>0, <1>3, QueuedFrame, Numbers
    <2>4. \A i \in DOMAIN freeEvents : freeEvents[i] # NoEvent
      BY <1>0, Numbers
    <2>5. ~leaked => Len(freeEvents) + Len(inflight') + 0 = SlotCount
      BY <1>0, <1>3, <2>1, QueuedFrame, DownloadAssumption DEF EventsAccounted
    <2>6. QED
      BY <2>1, <2>2, <2>3, <2>4, <2>5 DEF EventsAccounted
  <1>4. CASE Publish
    <2>1. UNCHANGED <<pevent, leaked>>
      BY <1>4 DEF Publish, producerVars
    <2>2. /\ Len(inflight) \in Nat \ {0} /\ Len(inflight') = Len(inflight) - 1
          /\ DOMAIN inflight' = 1 .. Len(inflight) - 1
          /\ \A i \in 1 .. Len(inflight) - 1 : inflight'[i] = inflight[i + 1]
      BY <1>4, PublishedFrame
    <2>3. /\ Len(freeEvents') = Len(freeEvents) + 1
          /\ DOMAIN freeEvents' = 1 .. Len(freeEvents) + 1
          /\ \A i \in 1 .. Len(freeEvents) : freeEvents'[i] = freeEvents[i]
          /\ freeEvents'[Len(freeEvents) + 1] = inflight[1].event
      BY <1>4, PublishedFrame
    <2>4. /\ \A i \in DOMAIN inflight' :
               i + 1 \in DOMAIN inflight /\ i + 1 # 1 /\ inflight'[i] = inflight[i + 1]
          /\ 1 \in DOMAIN inflight
      BY <1>0, <2>2
    <2>5. \A i \in DOMAIN freeEvents' :
            \/ i \in DOMAIN freeEvents /\ freeEvents'[i] = freeEvents[i]
            \/ i = Len(freeEvents) + 1 /\ freeEvents'[i] = inflight[1].event
      BY <1>0, <2>3
    <2>6. /\ \A i, j \in DOMAIN freeEvents' : freeEvents'[i] = freeEvents'[j] => i = j
          /\ \A i \in DOMAIN freeEvents' : freeEvents'[i] # pevent
      BY <2>4, <2>5 DEF EventsAccounted
    <2>7. /\ \A i, j \in DOMAIN inflight' : inflight'[i].event = inflight'[j].event => i = j
          /\ \A i \in DOMAIN inflight' : inflight'[i].event # pevent
      <3>1. \A i, j \in DOMAIN inflight' : inflight'[i].event = inflight'[j].event => i + 1 = j + 1
        BY <2>4 DEF EventsAccounted
      <3>2. \A i, j \in DOMAIN inflight' : i + 1 = j + 1 => i = j
        BY <2>2
      <3>3. QED
        BY <2>4, <3>1, <3>2 DEF EventsAccounted
    <2>8. \A i \in DOMAIN inflight' :
            \A j \in DOMAIN freeEvents' : inflight'[i].event # freeEvents'[j]
      BY <2>4, <2>5 DEF EventsAccounted
    <2>9. Len(freeEvents') + Len(inflight') = Len(freeEvents) + Len(inflight)
      BY <1>0, <2>2, <2>3
    <2>10. QED
      BY <2>1, <2>6, <2>7, <2>8, <2>9, <1>0 DEF EventsAccounted
  <1>5. CASE ClearInFlight
    <2>1. inflight' = <<>> /\ UNCHANGED <<freeEvents, pevent>>
      BY <1>5 DEF ClearInFlight, producerVars
    <2>2. ~leaked' => ~leaked /\ inflight = <<>>
      BY <1>5 DEF ClearInFlight
    <2>3. QED
      BY <2>1, <2>2 DEF EventsAccounted
  <1>6. CASE UNCHANGED <<freeEvents, inflight, leaked, pevent>>
    BY <1>6 DEF EventsAccounted
  <1>7. CASE NoFreeEvent
    <2>1. pevent = NoEvent
      BY <1>7 DEF NoFreeEvent, DownloadTypeOK, ProducerTypes
    <2>2. QED
      BY <1>6, <1>7, <2>1 DEF NoFreeEvent, GiveUp, listVars
  <1>8. Reserve \/ PoolEmpty \/ CopyAndRecord \/ StreamStep
        => UNCHANGED <<freeEvents, inflight, leaked, pevent>>
    BY DEF Reserve, PoolEmpty, CopyAndRecord, StreamStep, listVars, producerVars
  <1>9. \/ Begin \/ Disabled \/ Look \/ PollAgain \/ StartDownload \/ StopDownload
        \/ DropReady \/ SinkKeeps \/ SinkLetsGo
        => UNCHANGED <<freeEvents, inflight, leaked, pevent>>
    BY QuietSteps DEF QuietStep, DropReady, SinkKeeps, SinkReturns, SinkLetsGo, listVars, producerVars
  <1>10. UNCHANGED downloadVars => UNCHANGED <<freeEvents, inflight, leaked, pevent>>
    BY DEF downloadVars, listVars, producerVars
  <1>11. QED
    BY <1>1, <1>2, <1>3, <1>4, <1>5, <1>6, <1>7, <1>8, <1>9, <1>10
       DEF DownloadNext, ProducerStep, StageStep

-----------------------------------------------------------------------------
(* What the stream does to the order of results. *)

LEMMA ResultQueued ==
  ASSUME DownloadTypeOK, ResultsInOrder, NEW item \in StreamItem, stream' = Append(stream, item),
         device' = device, item.frame = produced', item.kind = "copy" => produced' = produced
  PROVE  ResultsInOrder'
  <1>1. /\ stream \in Seq(StreamItem) /\ Len(stream) \in Nat /\ Len(stream') = Len(stream) + 1
        /\ \A k \in 1 .. Len(stream) : stream'[k] = stream[k]
        /\ stream'[Len(stream) + 1] = item /\ stream' # <<>>
    <2>1. stream \in Seq(StreamItem)
      BY DEF DownloadTypeOK, GpuTypes
    <2>2. QED
      BY <2>1, Grown, EmptySeq
  <1>2. (IF stream' = <<>> THEN device' ELSE stream'[Len(stream')].frame) = produced'
    BY <1>1
  <1>3. stream'[1].kind = "copy" => stream'[1].frame = device'
    <2>1. CASE stream = <<>>
      <3>1. stream'[1] = item /\ device = produced
        BY <1>1, <2>1 DEF ResultsInOrder
      <3>2. QED
        BY <3>1
    <2>2. CASE stream # <<>>
      <3>1. stream'[1] = stream[1]
        BY <1>1, <2>2, EmptySeq
      <3>2. QED
        BY <2>2, <3>1 DEF ResultsInOrder
    <2>3. QED
      BY <2>1, <2>2
  <1>4. ASSUME NEW k \in 2 .. Len(stream'), stream'[k].kind = "copy"
        PROVE  stream'[k].frame = stream'[k - 1].frame
    <2>1. CASE k \in 2 .. Len(stream)
      <3>1. stream'[k] = stream[k] /\ stream'[k - 1] = stream[k - 1]
        BY <1>1, <2>1
      <3>2. QED
        BY <1>4, <2>1, <3>1 DEF ResultsInOrder
    <2>2. CASE k = Len(stream) + 1
      <3>1. Len(stream) >= 1 /\ k - 1 = Len(stream)
        BY <1>1, <2>2
      <3>2. stream'[k] = item /\ stream'[k - 1] = stream[Len(stream)] /\ stream # <<>>
        BY <1>1, <2>2, <3>1
      <3>3. stream[Len(stream)].frame = produced
        BY <3>2 DEF ResultsInOrder
      <3>4. QED
        BY <1>4, <3>2, <3>3
    <2>3. QED
      BY <1>1, <2>1, <2>2
  <1>5. QED
    BY <1>2, <1>3, <1>4 DEF ResultsInOrder

(* The head of the stream, and what is left behind it. *)
LEMMA StreamAdvance ==
  ASSUME DownloadTypeOK, StreamStep
  PROVE  /\ stream # <<>> /\ Len(stream) \in Nat \ {0} /\ Len(stream') = Len(stream) - 1
         /\ DOMAIN stream = 1 .. Len(stream) /\ DOMAIN stream' = 1 .. Len(stream) - 1
         /\ stream[1] \in StreamItem /\ Head(stream) = stream[1]
         /\ \A k \in 1 .. Len(stream) - 1 : stream'[k] = stream[k + 1]
         /\ stream' \in Seq(StreamItem)
  <1>1. stream \in Seq(StreamItem) /\ stream # <<>> /\ stream' = Tail(stream)
    BY DEF StreamStep, DownloadTypeOK, GpuTypes
  <1>2. QED
    BY <1>1, Shrunk

LEMMA ResultsKept ==
  DownloadInv /\ [DownloadNext]_downloadVars => ResultsInOrder'
  <1> SUFFICES ASSUME DownloadInv, DownloadTypeOK, ResultsInOrder, [DownloadNext]_downloadVars
               PROVE  ResultsInOrder'
    BY DEF DownloadInv
  <1>1. ASSUME Infer
        PROVE  ResultsInOrder'
    <2> DEFINE item == [kind |-> "infer", slot |-> NoSlot, frame |-> produced + 1]
    <2>1. item \in StreamItem /\ stream' = Append(stream, item) /\ device' = device
          /\ produced' = produced + 1 /\ produced \in Nat
      BY <1>1, InferQueues
    <2>2. item.frame = produced' /\ item.kind # "copy"
      BY <2>1
    <2> HIDE DEF item
    <2>3. QED
      BY <2>1, <2>2, ResultQueued
  <1>2. ASSUME producer = "copy", stream' = Append(stream, CopyItem), UNCHANGED <<device, produced>>
        PROVE  ResultsInOrder'
    <2>1. CopyItem \in StreamItem /\ CopyItem.frame = produced
      BY <1>2, CopyItemIs
    <2>2. QED
      BY <1>2, <2>1, ResultQueued
  <1>3. CASE StreamStep
    <2>1. device' = stream[1].frame /\ produced' = produced
      <3>1. stream[1].kind \in {"infer", "copy"} /\ Head(stream) = stream[1] /\ stream # <<>>
        BY <1>3, StreamAdvance, Parts
      <3>2. device' = IF stream[1].kind = "infer" THEN stream[1].frame ELSE device
        BY <1>3, <3>1 DEF StreamStep
      <3>3. stream[1].kind = "copy" => stream[1].frame = device
        BY <3>1 DEF ResultsInOrder
      <3>4. QED
        BY <1>3, <3>1, <3>2, <3>3 DEF StreamStep, producerVars
    <2>2. /\ Len(stream) \in Nat \ {0} /\ Len(stream') = Len(stream) - 1 /\ stream # <<>>
          /\ \A k \in 1 .. Len(stream) - 1 : stream'[k] = stream[k + 1]
          /\ stream' \in Seq(StreamItem)
      BY <1>3, StreamAdvance
    <2>3. CASE stream' = <<>>
      <3>1. Len(stream) = 1
        BY <2>2, <2>3
      <3>2. device' = produced'
        BY <2>1, <2>2, <3>1 DEF ResultsInOrder
      <3>3. 2 .. Len(stream') = {}
        BY <2>2, <3>1
      <3>4. QED
        BY <2>3, <3>2, <3>3 DEF ResultsInOrder
    <2>4. CASE stream' # <<>>
      <3>1. Len(stream') \in Nat \ {0}
        BY <2>2, <2>4, EmptySeq
      <3>2. stream'[Len(stream')] = stream[Len(stream)]
        BY <2>2, <3>1
      <3>3. stream'[Len(stream')].frame = produced'
        BY <2>1, <2>2, <3>2 DEF ResultsInOrder
      <3>4. stream'[1].kind = "copy" => stream'[1].frame = device'
        <4>1. stream'[1] = stream[2] /\ 2 \in 2 .. Len(stream) /\ 2 - 1 = 1
          BY <2>2, <3>1
        <4>2. stream[2].kind = "copy" => stream[2].frame = stream[1].frame
          BY <4>1 DEF ResultsInOrder
        <4>3. QED
          BY <2>1, <4>1, <4>2
      <3>5. ASSUME NEW k \in 2 .. Len(stream'), stream'[k].kind = "copy"
            PROVE  stream'[k].frame = stream'[k - 1].frame
        <4>1. /\ stream'[k] = stream[k + 1] /\ stream'[k - 1] = stream[k]
              /\ k + 1 \in 2 .. Len(stream) /\ (k + 1) - 1 = k
          BY <2>2, <3>1
        <4>2. stream[k + 1].kind = "copy" => stream[k + 1].frame = stream[(k + 1) - 1].frame
          BY <4>1 DEF ResultsInOrder
        <4>3. QED
          BY <3>5, <4>1, <4>2
      <3>6. QED
        BY <2>4, <3>3, <3>4, <3>5 DEF ResultsInOrder
    <2>5. QED
      BY <2>3, <2>4
  <1>4. CASE UNCHANGED <<stream, device, produced>>
    BY <1>4 DEF ResultsInOrder
  <1>5. CASE Reserve \/ PoolEmpty
    BY <1>1, <1>5 DEF Reserve, PoolEmpty
  <1>6. CASE CopyAndRecord
    BY <1>2, <1>6 DEF CopyAndRecord
  <1>7. CASE CopyThrows
    BY <1>2, <1>4, <1>7 DEF CopyThrows
  <1>8. TakeEvent \/ NoFreeEvent \/ QueueFrame \/ Publish \/ DropReady \/ ClearInFlight
        => UNCHANGED <<stream, device, produced>>
    BY DEF TakeEvent, NoFreeEvent, QueueFrame, Publish, DropReady, ClearInFlight, gpuVars, producerVars
  <1>9. \/ Begin \/ Disabled \/ Look \/ PollAgain \/ StartDownload \/ StopDownload
        \/ SinkKeeps \/ SinkLetsGo
        => UNCHANGED <<stream, device, produced>>
    BY QuietSteps DEF QuietStep, SinkKeeps, SinkReturns, SinkLetsGo, gpuVars, producerVars
  <1>10. UNCHANGED downloadVars => UNCHANGED <<stream, device, produced>>
    BY DEF downloadVars, gpuVars, producerVars
  <1>11. QED
    BY <1>3, <1>4, <1>5, <1>6, <1>7, <1>8, <1>9, <1>10 DEF DownloadNext, ProducerStep, StageStep

-----------------------------------------------------------------------------
(* What the stream does to the content of slots. *)

LEMMA ItemIs == DownloadTypeOK => /\ Len(stream) \in Nat /\ DOMAIN stream = 1 .. Len(stream)
                                  /\ \A k \in DOMAIN stream : stream[k] \in StreamItem
  BY LenProperties DEF DownloadTypeOK, GpuTypes

(* A slot that has its result keeps it while nothing is queued into it. *)
LEMMA LandedGrows ==
  ASSUME DownloadTypeOK, NEW s \in Slots, NEW item \in StreamItem,
         stream' = Append(stream, item), ~(item.kind = "copy" /\ item.slot = s),
         content'[s] = content[s], stamp'[s] = stamp[s], Landed(s)
  PROVE  Landed(s)'
  <1>1. /\ DOMAIN stream = 1 .. Len(stream) /\ DOMAIN stream' = 1 .. Len(stream) + 1
        /\ Len(stream) \in Nat /\ stream'[Len(stream) + 1] = item
        /\ \A k \in 1 .. Len(stream) : stream'[k] = stream[k]
    <2>1. stream \in Seq(StreamItem)
      BY DEF DownloadTypeOK, GpuTypes
    <2>2. QED
      BY <2>1, Grown
  <1>2. ASSUME NEW k \in DOMAIN stream'
        PROVE  ~(stream'[k].kind = "copy" /\ stream'[k].slot = s)
    <2>1. CASE k \in DOMAIN stream
      BY <1>1, <2>1 DEF Landed, CopiesTo
    <2>2. CASE k = Len(stream) + 1
      BY <1>1, <2>2
    <2>3. QED
      BY <1>1, <2>1, <2>2
  <1>3. QED
    BY <1>2 DEF Landed, CopiesTo

(* An event that fires when a copy is through still does. *)
LEMMA EventTellsGrows ==
  ASSUME DownloadTypeOK, NEW s \in Slots, NEW e \in Events, NEW item \in StreamItem,
         stream' = Append(stream, item), ~(item.kind = "copy" /\ item.slot = s),
         content'[s] = content[s], stamp'[s] = stamp[s], pending'[e] = pending[e],
         EventTells(s, e)
  PROVE  EventTells(s, e)'
  <1>1. CASE pending[e] = 0
    BY <1>1, LandedGrows DEF EventTells
  <1>2. CASE pending[e] # 0
    <2>1. /\ DOMAIN stream = 1 .. Len(stream) /\ DOMAIN stream' = 1 .. Len(stream) + 1
          /\ Len(stream) \in Nat /\ stream'[Len(stream) + 1] = item
          /\ \A k \in 1 .. Len(stream) : stream'[k] = stream[k]
      <3>1. stream \in Seq(StreamItem)
        BY DEF DownloadTypeOK, GpuTypes
      <3>2. QED
        BY <3>1, Grown
    <2>2. Landing(s, e)
      BY <1>2 DEF EventTells
    <2>3. /\ pending'[e] \in DOMAIN stream' /\ stream'[pending[e]] = stream[pending[e]]
          /\ pending[e] \in DOMAIN stream
      BY <2>1, <2>2 DEF Landing
    <2>4. ASSUME NEW k \in DOMAIN stream', k > pending[e]
          PROVE  ~(stream'[k].kind = "copy" /\ stream'[k].slot = s)
      <3>1. CASE k \in DOMAIN stream
        BY <2>1, <2>2, <2>4, <3>1 DEF Landing, CopiesTo
      <3>2. CASE k = Len(stream) + 1
        BY <2>1, <3>2
      <3>3. QED
        BY <2>1, <3>1, <3>2
    <2>5. Landing(s, e)'
      BY <2>2, <2>3, <2>4 DEF Landing, CopiesTo
    <2>6. QED
      BY <1>2, <2>5 DEF EventTells
  <1>3. QED
    BY <1>1, <1>2

(* Nothing the event tells about has changed. *)
LEMMA EventTellsStays ==
  ASSUME NEW s \in Slots, NEW e \in Events, UNCHANGED <<stream, content>>,
         stamp'[s] = stamp[s], pending'[e] = pending[e]
  PROVE  /\ Landed(s) => Landed(s)'
         /\ EventTells(s, e) => EventTells(s, e)'
  BY DEF EventTells, Landed, Landing, CopiesTo

(* The stream runs its head: other slots are not touched. *)
LEMMA LandedAdvances ==
  ASSUME DownloadTypeOK, StreamStep, NEW s \in Slots, Landed(s)
  PROVE  Landed(s)'
  <1>1. /\ Len(stream) \in Nat \ {0}
        /\ DOMAIN stream = 1 .. Len(stream) /\ DOMAIN stream' = 1 .. Len(stream) - 1
        /\ Head(stream) = stream[1] /\ stamp' = stamp
        /\ \A k \in 1 .. Len(stream) - 1 : stream'[k] = stream[k + 1]
    BY StreamAdvance DEF StreamStep, producerVars
  <1>2. ~(stream[1].kind = "copy" /\ stream[1].slot = s)
    BY <1>1 DEF Landed, CopiesTo
  <1>3. content'[s] = content[s]
    BY <1>1, <1>2 DEF StreamStep, DownloadTypeOK, GpuTypes
  <1>4. ASSUME NEW k \in DOMAIN stream'
        PROVE  ~(stream'[k].kind = "copy" /\ stream'[k].slot = s)
    <2>1. k + 1 \in DOMAIN stream /\ stream'[k] = stream[k + 1]
      BY <1>1
    <2>2. QED
      BY <2>1 DEF Landed, CopiesTo
  <1>5. QED
    BY <1>1, <1>3, <1>4 DEF Landed, CopiesTo

(* When it is the copy the event waits for, the right result lands. *)
LEMMA EventTellsAdvances ==
  ASSUME DownloadTypeOK, ResultsInOrder, StreamStep, NEW s \in Slots, NEW e \in Events,
         EventTells(s, e)
  PROVE  EventTells(s, e)'
  <1>1. /\ Len(stream) \in Nat \ {0} /\ stream # <<>> /\ pending[e] \in Nat
        /\ DOMAIN stream = 1 .. Len(stream) /\ DOMAIN stream' = 1 .. Len(stream) - 1
        /\ Head(stream) = stream[1] /\ stamp' = stamp
        /\ \A k \in 1 .. Len(stream) - 1 : stream'[k] = stream[k + 1]
    BY StreamAdvance DEF StreamStep, producerVars, DownloadTypeOK, GpuTypes
  <1>2. pending'[e] = IF pending[e] = 0 THEN 0 ELSE pending[e] - 1
    BY DEF StreamStep, Nearer
  <1>3. CASE pending[e] = 0
    BY <1>2, <1>3, LandedAdvances DEF EventTells
  <1>4. CASE pending[e] = 1
    <2>1. /\ stream[1].kind = "copy" /\ stream[1].slot = s /\ stream[1].frame = stamp[s]
          /\ \A k \in DOMAIN stream : k > 1 => ~CopiesTo(s, k)
      BY <1>1, <1>4 DEF EventTells, Landing, CopiesTo
    <2>2. content'[s] = stamp'[s]
      <3>1. content' = [content EXCEPT ![s] = device]
        BY <1>1, <2>1 DEF StreamStep
      <3>2. device = stream[1].frame
        BY <1>1, <2>1 DEF ResultsInOrder
      <3>3. QED
        BY <1>1, <2>1, <3>1, <3>2 DEF DownloadTypeOK, GpuTypes
    <2>3. ASSUME NEW k \in DOMAIN stream'
          PROVE  ~(stream'[k].kind = "copy" /\ stream'[k].slot = s)
      <3>1. k + 1 \in DOMAIN stream /\ k + 1 > 1 /\ stream'[k] = stream[k + 1]
        BY <1>1
      <3>2. QED
        BY <2>1, <3>1 DEF CopiesTo
    <2>4. Landed(s)'
      BY <2>2, <2>3 DEF Landed, CopiesTo
    <2>5. QED
      BY <1>2, <1>4, <2>4 DEF EventTells
  <1>5. CASE pending[e] > 1
    <2>1. Landing(s, e)
      BY <1>5 DEF EventTells
    <2>2. /\ pending'[e] = pending[e] - 1 /\ pending'[e] \in DOMAIN stream'
          /\ stream'[pending'[e]] = stream[pending[e]] /\ pending'[e] # 0
      BY <1>1, <1>2, <1>5, <2>1 DEF Landing
    <2>3. ASSUME NEW k \in DOMAIN stream', k > pending'[e]
          PROVE  ~(stream'[k].kind = "copy" /\ stream'[k].slot = s)
      <3>1. k + 1 \in DOMAIN stream /\ k + 1 > pending[e] /\ stream'[k] = stream[k + 1]
        BY <1>1, <2>2, <2>3
      <3>2. QED
        BY <2>1, <3>1 DEF Landing, CopiesTo
    <2>4. Landing(s, e)'
      BY <1>1, <2>1, <2>2, <2>3 DEF Landing, CopiesTo
    <2>5. QED
      BY <2>2, <2>4 DEF EventTells
  <1>6. QED
    BY <1>1, <1>3, <1>4, <1>5

LEMMA CopiesKept ==
  DownloadInv /\ [DownloadNext]_downloadVars => CopiesLand'
  <1> SUFFICES ASSUME DownloadInv, DownloadTypeOK, OneUse, EventsAccounted, CopiesLand,
                      ResultsInOrder, [DownloadNext]_downloadVars
               PROVE  CopiesLand'
    BY DEF DownloadInv
  <1>a. \A i \in DOMAIN inflight : inflight[i].slot \in Slots /\ inflight[i].event \in Events
    BY LenProperties, Parts DEF DownloadTypeOK
  <1>b. /\ pslot # NoSlot <=> producer # "idle"
        /\ pevent # NoEvent <=> producer \in {"copy", "append"}
        /\ pslot \in Slots \cup {NoSlot} /\ pevent \in Events \cup {NoEvent}
    BY DEF DownloadTypeOK, ProducerTypes
  <1>c. /\ \A s \in Slots : s = ready \/ s \in kept => Landed(s)
        /\ \A i \in DOMAIN inflight : EventTells(inflight[i].slot, inflight[i].event)
        /\ producer = "append" => EventTells(pslot, pevent)
        /\ pslot # NoSlot => stamp[pslot] = produced
    BY DEF CopiesLand
  <1>1. CASE Reserve
    <2>1. PICK s0 \in FreeSlots : pslot' = s0 /\ stamp' = [stamp EXCEPT ![s0] = produced + 1]
      BY <1>1 DEF Reserve
    <2>2. /\ s0 \in Slots /\ s0 # ready /\ s0 \notin kept
          /\ \A i \in DOMAIN inflight : inflight[i].slot # s0
      BY <2>1 DEF FreeSlots, InFlightSlots
    <2>3. /\ Infer /\ producer' = "event" /\ UNCHANGED <<ready, kept, inflight>>
      BY <1>1 DEF Reserve, stageVars, listVars
    <2> DEFINE item == [kind |-> "infer", slot |-> NoSlot, frame |-> produced + 1]
    <2>4. /\ item \in StreamItem /\ item.kind # "copy" /\ stream' = Append(stream, item)
          /\ UNCHANGED <<content, pending>> /\ produced' = produced + 1
      BY <2>3, InferQueues
    <2> HIDE DEF item
    <2>5. stamp \in [Slots -> Nat]
      BY DEF DownloadTypeOK, GpuTypes
    <2>6. ASSUME NEW s \in Slots, s = ready \/ s \in kept
          PROVE  Landed(s)'
      BY <1>c, <2>1, <2>2, <2>4, <2>5, <2>6, LandedGrows
    <2>7. ASSUME NEW i \in DOMAIN inflight
          PROVE  EventTells(inflight[i].slot, inflight[i].event)'
      <3>1. stamp'[inflight[i].slot] = stamp[inflight[i].slot]
        BY <1>a, <2>1, <2>2, <2>5
      <3>0. PICK s \in Slots, e \in Events : s = inflight[i].slot /\ e = inflight[i].event
        BY <1>a
      <3>2. EventTells(s, e) /\ stamp'[s] = stamp[s]
        BY <1>c, <3>0, <3>1
      <3>3. EventTells(s, e)'
        BY <2>4, <3>2, EventTellsGrows
      <3>4. QED
        BY <2>3, <3>0, <3>3 DEF EventTells, Landed, Landing, CopiesTo
    <2>8. stamp'[pslot'] = produced'
      BY <2>1, <2>2, <2>4, <2>5
    <2>9. QED
      BY <2>3, <2>6, <2>7, <2>8 DEF CopiesLand
  <1>2. CASE PoolEmpty
    <2> DEFINE item == [kind |-> "infer", slot |-> NoSlot, frame |-> produced + 1]
    <2>1. /\ item \in StreamItem /\ item.kind # "copy" /\ stream' = Append(stream, item)
          /\ UNCHANGED <<content, pending>>
      BY <1>2, InferQueues DEF PoolEmpty
    <2> HIDE DEF item
    <2>2. /\ UNCHANGED <<ready, kept, inflight, stamp, pslot, producer>> /\ producer = "idle"
      BY <1>2 DEF PoolEmpty, Infer, stageVars, listVars
    <2>3. ASSUME NEW s \in Slots, s = ready \/ s \in kept
          PROVE  Landed(s)'
      BY <1>c, <2>1, <2>2, <2>3, LandedGrows
    <2>4. ASSUME NEW i \in DOMAIN inflight
          PROVE  EventTells(inflight[i].slot, inflight[i].event)'
      BY <1>a, <1>c, <2>1, <2>2, EventTellsGrows
    <2>5. QED
      BY <1>b, <2>2, <2>3, <2>4 DEF CopiesLand
  <1>3. CASE CopyAndRecord
    <2>1. /\ CopyItem \in StreamItem /\ CopyItem.kind = "copy" /\ CopyItem.slot = pslot
          /\ CopyItem.frame = produced /\ pslot \in Slots /\ pevent \in Events
      BY <1>3, CopyItemIs DEF CopyAndRecord
    <2>2. /\ stream' = Append(stream, CopyItem) /\ pending' = [pending EXCEPT ![pevent] = Len(stream) + 1]
          /\ UNCHANGED <<ready, kept, inflight, stamp, content, pslot, pevent, produced>>
          /\ producer' = "append"
      BY <1>3 DEF CopyAndRecord, stageVars, listVars
    <2>3. pslot # NoSlot /\ pslot \notin kept /\ pslot # ready
      BY <2>1, Numbers DEF OneUse
    <2>4. ASSUME NEW s \in Slots, s = ready \/ s \in kept
          PROVE  Landed(s)'
      BY <1>c, <2>1, <2>2, <2>3, <2>4, LandedGrows
    <2>5. pending \in [Events -> Nat]
      BY DEF DownloadTypeOK, GpuTypes
    <2>6. ASSUME NEW i \in DOMAIN inflight
          PROVE  EventTells(inflight[i].slot, inflight[i].event)'
      <3>0. PICK s \in Slots, e \in Events : s = inflight[i].slot /\ e = inflight[i].event
        BY <1>a
      <3>1. EventTells(s, e) /\ s # pslot /\ e # pevent
        BY <1>c, <3>0 DEF OneUse, EventsAccounted
      <3>2. EventTells(s, e)'
        BY <2>1, <2>2, <2>5, <3>1, EventTellsGrows
      <3>3. QED
        BY <2>2, <3>0, <3>2 DEF EventTells, Landed, Landing, CopiesTo
    <2>7. EventTells(pslot, pevent)'
      <3>1. /\ DOMAIN stream' = 1 .. Len(stream) + 1 /\ Len(stream) \in Nat
            /\ stream'[Len(stream) + 1] = CopyItem
        <4>1. stream \in Seq(StreamItem)
          BY DEF DownloadTypeOK, GpuTypes
        <4>2. QED
          BY <2>1, <2>2, <4>1, Grown
      <3>2. pending'[pevent'] = Len(stream) + 1 /\ stamp'[pslot'] = produced
        BY <1>c, <2>1, <2>2, <2>3, <2>5
      <3>3. Landing(pslot, pevent)'
        BY <2>1, <2>2, <3>1, <3>2 DEF Landing, CopiesTo
      <3>4. QED
        BY <3>1, <3>2, <3>3 DEF EventTells
    <2>8. stamp'[pslot'] = produced'
      BY <1>c, <2>2, <2>3
    <2>9. QED
      BY <2>2, <2>4, <2>6, <2>7, <2>8 DEF CopiesLand
  <1>4. CASE CopyThrows
    <2>1. /\ CopyItem \in StreamItem /\ CopyItem.slot = pslot /\ pslot \in Slots
      BY <1>4, CopyItemIs DEF CopyThrows
    <2>2. /\ stream' \in {stream, Append(stream, CopyItem)}
          /\ UNCHANGED <<ready, kept, inflight, stamp, content, pending>>
          /\ producer' = "idle" /\ pslot' = NoSlot
      BY <1>4 DEF CopyThrows, GiveUp, stageVars, listVars
    <2>3. pslot \notin kept /\ pslot # ready
      BY <2>1, Numbers DEF OneUse
    <2>4. ASSUME NEW s \in Slots, s = ready \/ s \in kept
          PROVE  Landed(s)'
      <3>1. Landed(s) /\ s # pslot
        BY <1>c, <2>3, <2>4
      <3>2. CASE stream' = stream
        BY <2>2, <3>1, <3>2 DEF Landed, CopiesTo
      <3>3. CASE stream' = Append(stream, CopyItem)
        BY <2>1, <2>2, <3>1, <3>3, LandedGrows
      <3>4. QED
        BY <2>2, <3>2, <3>3
    <2>5. ASSUME NEW i \in DOMAIN inflight
          PROVE  EventTells(inflight[i].slot, inflight[i].event)'
      <3>0. PICK s \in Slots, e \in Events : s = inflight[i].slot /\ e = inflight[i].event
        BY <1>a
      <3>1. EventTells(s, e) /\ s # pslot
        BY <1>c, <3>0 DEF OneUse
      <3>2. stream' = stream => EventTells(s, e)'
        BY <2>2, <3>1, EventTellsStays
      <3>3. stream' = Append(stream, CopyItem) => EventTells(s, e)'
        BY <2>1, <2>2, <3>1, EventTellsGrows
      <3>4. EventTells(s, e)'
        BY <2>2, <3>2, <3>3
      <3>5. QED
        BY <2>2, <3>0, <3>4 DEF EventTells, Landed, Landing, CopiesTo
    <2>6. QED
      BY <2>2, <2>4, <2>5 DEF CopiesLand
  <1>5. CASE QueueFrame
    <2>1. /\ UNCHANGED <<ready, kept, stamp, stream, content, pending>>
          /\ producer' = "idle" /\ pslot' = NoSlot /\ producer = "append"
      BY <1>5 DEF QueueFrame, GiveUp, stageVars, gpuVars
    <2>2. /\ pslot \in Slots /\ pevent \in Events
          /\ DOMAIN inflight = 1 .. Len(inflight) /\ DOMAIN inflight' = 1 .. Len(inflight) + 1
          /\ Len(inflight) \in Nat
          /\ \A i \in 1 .. Len(inflight) : inflight'[i] = inflight[i]
          /\ inflight'[Len(inflight) + 1].slot = pslot
          /\ inflight'[Len(inflight) + 1].event = pevent
      BY <1>5, QueuedFrame
    <2>3. ASSUME NEW s \in Slots, NEW e \in Events, EventTells(s, e)
          PROVE  EventTells(s, e)'
      BY <2>1, <2>3, EventTellsStays
    <2>4. ASSUME NEW i \in DOMAIN inflight'
          PROVE  EventTells(inflight[i].slot, inflight[i].event)'
      <3>1. CASE i \in DOMAIN inflight
        <4>0. PICK s \in Slots, e \in Events : s = inflight[i].slot /\ e = inflight[i].event
          BY <1>a, <3>1
        <4>1. EventTells(s, e) /\ inflight'[i].slot = s /\ inflight'[i].event = e
          BY <1>c, <2>2, <3>1, <4>0
        <4>2. EventTells(s, e)'
          BY <2>3, <4>1
        <4>3. QED
          BY <4>1, <4>2 DEF EventTells, Landed, Landing, CopiesTo
      <3>2. CASE i = Len(inflight) + 1
        <4>1. PICK s \in Slots, e \in Events : s = pslot /\ e = pevent
          BY <2>2
        <4>2. EventTells(s, e) /\ inflight'[i].slot = s /\ inflight'[i].event = e
          BY <1>c, <2>1, <2>2, <3>2, <4>1
        <4>3. EventTells(s, e)'
          BY <2>3, <4>2
        <4>4. QED
          BY <4>2, <4>3 DEF EventTells, Landed, Landing, CopiesTo
      <3>3. QED
        BY <2>2, <3>1, <3>2
    <2>5. \A s \in Slots : s = ready' \/ s \in kept' => Landed(s)'
      BY <1>c, <2>1 DEF Landed, CopiesTo
    <2>6. QED
      BY <2>1, <2>4, <2>5 DEF CopiesLand
  <1>6. CASE Publish
    <2>1. UNCHANGED <<kept, stamp, stream, content, pending, producer, pslot, pevent, produced>>
      BY <1>6 DEF Publish, producerVars, gpuVars
    <2>2. /\ Len(inflight) \in Nat \ {0}
          /\ DOMAIN inflight = 1 .. Len(inflight) /\ DOMAIN inflight' = 1 .. Len(inflight) - 1
          /\ \A i \in 1 .. Len(inflight) - 1 : inflight'[i] = inflight[i + 1]
          /\ ready' = inflight[1].slot /\ pending[inflight[1].event] = 0
      BY <1>6, PublishedFrame
    <2>3. Landed(ready')
      BY <1>c, <2>2 DEF EventTells
    <2>4. \A i \in DOMAIN inflight' : EventTells(inflight'[i].slot, inflight'[i].event)
      <3>1. \A i \in DOMAIN inflight' : i + 1 \in DOMAIN inflight /\ inflight'[i] = inflight[i + 1]
        BY <2>2
      <3>2. QED
        BY <1>c, <3>1
    <2>5. QED
      BY <1>c, <2>1, <2>3, <2>4 DEF CopiesLand, EventTells, Landed, Landing, CopiesTo
  <1>7. CASE DropReady
    <2>1. /\ UNCHANGED <<kept, stamp, stream, content, pending, producer, pslot, pevent, produced, inflight>>
          /\ ready' = NoSlot
      BY <1>7 DEF DropReady, producerVars, gpuVars, listVars
    <2>2. QED
      BY <1>c, <2>1, Numbers DEF CopiesLand, EventTells, Landed, Landing, CopiesTo
  <1>8. CASE ClearInFlight
    <2>1. /\ UNCHANGED <<kept, stamp, stream, content, pending, producer, pslot, pevent, produced, ready>>
          /\ inflight' = <<>>
      BY <1>8 DEF ClearInFlight, producerVars, gpuVars
    <2>2. QED
      BY <1>c, <2>1 DEF CopiesLand, EventTells, Landed, Landing, CopiesTo
  <1>9. CASE SinkKeeps \/ SinkLetsGo
    <2>1. /\ UNCHANGED <<stamp, stream, content, pending, producer, pslot, pevent, produced, ready, inflight>>
          /\ kept' \subseteq kept \cup {ready}
      BY <1>9 DEF SinkKeeps, SinkReturns, SinkLetsGo, stageVars, producerVars, gpuVars, listVars
    <2>2. QED
      BY <1>c, <2>1 DEF CopiesLand, EventTells, Landed, Landing, CopiesTo
  <1>10. CASE StreamStep
    <2>1. UNCHANGED <<kept, stamp, producer, pslot, pevent, produced, ready, inflight>>
      BY <1>10 DEF StreamStep, stageVars, producerVars, listVars
    <2>2. ASSUME NEW s \in Slots, s = ready \/ s \in kept
          PROVE  Landed(s)'
      BY <1>10, <1>c, <2>2, LandedAdvances
    <2>3. ASSUME NEW i \in DOMAIN inflight
          PROVE  EventTells(inflight[i].slot, inflight[i].event)'
      <3>0. PICK s \in Slots, e \in Events : s = inflight[i].slot /\ e = inflight[i].event
        BY <1>a
      <3>1. EventTells(s, e)
        BY <1>c, <3>0
      <3>2. EventTells(s, e)'
        BY <1>10, <3>1, EventTellsAdvances
      <3>3. QED
        BY <2>1, <3>0, <3>2 DEF EventTells, Landed, Landing, CopiesTo
    <2>4. ASSUME producer = "append"
          PROVE  EventTells(pslot, pevent)'
      <3>1. PICK s \in Slots, e \in Events : s = pslot /\ e = pevent
        BY <1>b, <2>4
      <3>2. EventTells(s, e)
        BY <1>c, <2>4, <3>1
      <3>3. EventTells(s, e)'
        BY <1>10, <3>2, EventTellsAdvances
      <3>4. QED
        BY <2>1, <3>1, <3>3 DEF EventTells, Landed, Landing, CopiesTo
    <2>5. QED
      BY <1>c, <2>1, <2>2, <2>3, <2>4 DEF CopiesLand
  <1>11. CASE TakeEvent \/ NoFreeEvent
    <2>1. /\ UNCHANGED <<kept, stamp, stream, content, pending, produced, ready>>
          /\ inflight' = inflight /\ producer' # "append" /\ pslot' \in {pslot, NoSlot}
      BY <1>11 DEF TakeEvent, NoFreeEvent, GiveUp, stageVars, gpuVars, listVars
    <2>2. QED
      BY <1>c, <2>1 DEF CopiesLand, EventTells, Landed, Landing, CopiesTo
  <1>12. CASE UNCHANGED <<kept, stamp, stream, content, pending, producer, pslot, pevent, produced,
                          ready, inflight>>
    BY <1>c, <1>12 DEF CopiesLand, EventTells, Landed, Landing, CopiesTo
  <1>13. Begin \/ Disabled \/ Look \/ PollAgain \/ StartDownload \/ StopDownload
         => UNCHANGED <<kept, stamp, stream, content, pending, producer, pslot, pevent, produced,
                        ready, inflight>>
    BY QuietSteps DEF QuietStep, producerVars, gpuVars, listVars
  <1>14. UNCHANGED downloadVars
         => UNCHANGED <<kept, stamp, stream, content, pending, producer, pslot, pevent, produced,
                        ready, inflight>>
    BY DEF downloadVars, stageVars, producerVars, gpuVars, listVars
  <1>15. QED
    BY <1>1, <1>2, <1>3, <1>4, <1>5, <1>6, <1>7, <1>8, <1>9, <1>10, <1>11, <1>12, <1>13, <1>14
       DEF DownloadNext, ProducerStep, StageStep

-----------------------------------------------------------------------------
(* The stage's invariant: whatever fails and however often it is stopped and *)
(* started, a slot and an event have one use each, and an event that has fired *)
(* vouches for the right result. *)
THEOREM DownloadInvariant == DownloadSpec => []DownloadInv
  <1>1. DownloadInv /\ [DownloadNext]_downloadVars => DownloadInv'
    <2> SUFFICES ASSUME DownloadInv, [DownloadNext]_downloadVars
                 PROVE  DownloadInv'
      OBVIOUS
    <2>1. DownloadTypeOK' /\ OneUse' /\ EventsAccounted' /\ CopiesLand' /\ ResultsInOrder'
      BY DownloadTypesKept, UseKept, EventsKept, CopiesKept, ResultsKept
    <2>2. QED
      BY <2>1 DEF DownloadInv
  <1>2. QED
    BY DownloadInvInit, <1>1, PTL DEF DownloadSpec

(* A frame that a sink is given, or keeps, is the result its stamp names, and no *)
(* copy ever lands in it again. *)
LEMMA InvKeepsFrames == DownloadInv => FramesIntact
  BY DEF DownloadInv, CopiesLand, Landed, FramesIntact

THEOREM SinksSeeTheirFrames == DownloadSpec => []FramesIntact
  BY DownloadInvariant, InvKeepsFrames, PTL

(* "A free slot implies a free event", by the pigeonhole principle: frames in *)
(* flight have slots of their own, and the producer has one more. *)
LEMMA InvSparesEvents == DownloadInv => EventsSuffice
  <1> SUFFICES ASSUME DownloadInv, ~leaked, producer = "event"
               PROVE  freeEvents # <<>>
    BY DEF EventsSuffice
  <1>1. /\ inflight \in Seq(InFlight) /\ freeEvents \in Seq(Events)
        /\ pslot \in Slots /\ pevent = NoEvent
    BY DEF DownloadInv, DownloadTypeOK, ProducerTypes
  <1>2. /\ Len(inflight) \in Nat /\ DOMAIN inflight = 1 .. Len(inflight)
        /\ \A i \in DOMAIN inflight : inflight[i].slot \in Slots
        /\ Len(freeEvents) \in Nat
    BY <1>1, LenProperties, Parts
  <1>3. Len(freeEvents) + Len(inflight) + 0 = SlotCount
    BY <1>1 DEF DownloadInv, EventsAccounted
  <1>4. /\ IsFiniteSet(Slots) /\ Cardinality(Slots) = SlotCount /\ SlotCount \in Nat
    <2>1. SlotCount \in Nat \ {0}
      BY DownloadAssumption
    <2>2. IsFiniteSet(1 .. SlotCount) /\ Cardinality(1 .. SlotCount) = SlotCount
      BY <2>1, FS_Interval
    <2>3. QED
      BY <2>1, <2>2 DEF Slots
  <1>5. IsFiniteSet(Slots \ {pslot}) /\ Cardinality(Slots \ {pslot}) = SlotCount - 1
    BY <1>1, <1>4, FS_RemoveElement
  <1>6. IsFiniteSet(1 .. Len(inflight)) /\ Cardinality(1 .. Len(inflight)) = Len(inflight)
    <2>1. 1 \in Int /\ Len(inflight) \in Int /\ Len(inflight) >= 0
      BY <1>2
    <2>2. /\ IsFiniteSet(1 .. Len(inflight))
          /\ Cardinality(1 .. Len(inflight)) =
               IF 1 > Len(inflight) THEN 0 ELSE Len(inflight) - 1 + 1
      BY <2>1, FS_Interval
    <2>3. QED
      BY <2>1, <2>2
  <1>7. Len(inflight) <= SlotCount - 1
    <2> SUFFICES ASSUME Len(inflight) > SlotCount - 1
                 PROVE  FALSE
      BY <1>2, <1>4
    <2> DEFINE f == [i \in 1 .. Len(inflight) |-> inflight[i].slot]
    <2>1. f \in [1 .. Len(inflight) -> Slots \ {pslot}]
      BY <1>2 DEF DownloadInv, OneUse
    <2>2. Cardinality(Slots \ {pslot}) < Cardinality(1 .. Len(inflight))
      BY <1>2, <1>4, <1>5, <1>6
    <2> HIDE DEF f
    <2>3. \E i, j \in 1 .. Len(inflight) : i # j /\ f[i] = f[j]
      BY <1>5, <1>6, <2>1, <2>2, FS_PigeonHole
    <2>4. QED
      BY <1>2, <2>3 DEF f, DownloadInv, OneUse
  <1>8. Len(freeEvents) > 0
    BY <1>2, <1>3, <1>4, <1>7
  <1>9. QED
    BY <1>8

THEOREM NeverShortOfEvents == DownloadSpec => []EventsSuffice
  BY DownloadInvariant, InvSparesEvents, PTL

-----------------------------------------------------------------------------
(* The order of frames, and what becomes of those refused.                  *)

\* The number of the last frame that may be on its way or delivered.
Turn == IF producer = "idle" THEN produced ELSE produced - 1

FramesInTurn ==
  /\ published \in Seq(Nat) /\ enqueued \in Seq(Nat)
  /\ PublishedInOrder
  /\ \A i \in DOMAIN published : published[i] <= Turn
  /\ \A i \in DOMAIN inflight :
       /\ stamp[inflight[i].slot] <= Turn
       /\ \A k \in DOMAIN published : published[k] < stamp[inflight[i].slot]
  /\ \A i, j \in DOMAIN inflight : i < j => stamp[inflight[i].slot] < stamp[inflight[j].slot]
  /\ stage = "sinks" => Len(published) >= 1 /\ stamp[ready] = published[Len(published)]

OrderInv == DownloadInv /\ FramesInTurn /\ RefusalsCounted

LEMMA OrderInit == DownloadInit => OrderInv
  <1> SUFFICES ASSUME DownloadInit
               PROVE  FramesInTurn /\ RefusalsCounted
    BY DownloadInvInit DEF OrderInv
  <1>1. published = <<>> /\ enqueued = <<>> /\ inflight = <<>> /\ stage = "none"
        /\ producer = "idle" /\ produced = 0 /\ poolDrops = 0
    BY DEF DownloadInit
  <1>2. QED
    BY <1>1 DEF FramesInTurn, PublishedInOrder, RefusalsCounted

LEMMA Stamps ==
  ASSUME DownloadInv
  PROVE  /\ inflight \in Seq(InFlight) /\ Len(inflight) \in Nat /\ DOMAIN inflight = 1 .. Len(inflight)
         /\ \A i \in DOMAIN inflight : inflight[i].slot \in Slots /\ stamp[inflight[i].slot] \in Nat
         /\ produced \in Nat /\ Turn \in Int /\ Turn <= produced /\ poolDrops \in Nat
         /\ stage = "sinks" => ready \in Slots
         /\ \A s \in Slots : stamp[s] \in Nat
  <1>1. inflight \in Seq(InFlight)
    BY DEF DownloadInv, DownloadTypeOK
  <1>2. /\ Len(inflight) \in Nat /\ DOMAIN inflight = 1 .. Len(inflight)
        /\ \A i \in DOMAIN inflight : inflight[i] \in InFlight
    BY <1>1
  <1>3. \A i \in DOMAIN inflight : inflight[i].slot \in Slots
    BY <1>2, Parts
  <1>4. stamp \in [Slots -> Nat]
    BY DEF DownloadInv, DownloadTypeOK, GpuTypes
  <1>5. produced \in Nat /\ poolDrops \in Nat
    BY DEF DownloadInv, DownloadTypeOK, ProducerTypes
  <1>6. stage = "sinks" => ready \in Slots
    BY DEF DownloadInv, DownloadTypeOK, StageTypes
  <1>7. QED
    BY <1>1, <1>2, <1>3, <1>4, <1>5, <1>6 DEF Turn

(* Steps that neither queue nor publish a frame leave all in turn. *)
LEMMA TurnsStay ==
  ASSUME OrderInv, UNCHANGED <<inflight, published>>, enqueued' \in Seq(Nat),
         Turn' \in Int, Turn <= Turn',
         \A i \in DOMAIN inflight : stamp'[inflight[i].slot] = stamp[inflight[i].slot],
         stage' = "sinks" => stage = "sinks" /\ ready' = ready /\ stamp'[ready] = stamp[ready]
  PROVE  FramesInTurn'
  <1>1. FramesInTurn
    BY DEF OrderInv
  <1>2. \A i \in DOMAIN published : published[i] \in Nat
    BY <1>1 DEF FramesInTurn
  <1>3. \A i \in DOMAIN inflight : stamp[inflight[i].slot] \in Nat
    BY Stamps DEF OrderInv
  <1>4. Turn \in Int
    BY Stamps DEF OrderInv
  <1>5. \A i \in DOMAIN published : published[i] <= Turn'
    BY <1>1, <1>2, <1>4 DEF FramesInTurn
  <1>6. \A i \in DOMAIN inflight : stamp[inflight[i].slot] <= Turn'
    BY <1>1, <1>3, <1>4 DEF FramesInTurn
  <1>7. QED
    BY <1>1, <1>5, <1>6 DEF FramesInTurn, PublishedInOrder

LEMMA FrameQueuedInTurn ==
  ASSUME OrderInv, QueueFrame
  PROVE  FramesInTurn' /\ Len(enqueued') = Len(enqueued) + 1
  <1> DEFINE n == Len(inflight)
  <1>1. /\ UNCHANGED <<published, stage, ready, stamp, produced>> /\ producer = "append"
        /\ producer' = "idle"
    BY DEF QueueFrame, GiveUp, stageVars
  <1>2. /\ n \in Nat /\ DOMAIN inflight = 1 .. n /\ DOMAIN inflight' = 1 .. n + 1
        /\ \A i \in 1 .. n : inflight'[i] = inflight[i]
        /\ inflight'[n + 1].slot = pslot /\ pslot \in Slots
    BY QueuedFrame DEF OrderInv, DownloadInv
  <1> HIDE DEF n
  <1>3. FramesInTurn /\ produced \in Nat /\ enqueued \in Seq(Nat)
    BY Stamps DEF OrderInv, FramesInTurn
  <1>4. stamp[pslot] = produced
    BY <1>2, Numbers DEF OrderInv, DownloadInv, CopiesLand
  <1>5. Turn = produced - 1 /\ Turn' = produced
    BY <1>1 DEF Turn
  <1>6. enqueued' \in Seq(Nat) /\ Len(enqueued') = Len(enqueued) + 1
    BY <1>3 DEF QueueFrame
  <1>7. \A i \in 1 .. n + 1 : i \in 1 .. n \/ i = n + 1
    BY <1>2
  <1>8. \A i \in DOMAIN published : published[i] \in Nat /\ published[i] < produced
    BY <1>3, <1>5 DEF FramesInTurn
  <1>9. \A i \in 1 .. n : stamp[inflight[i].slot] \in Nat /\ stamp[inflight[i].slot] < produced
    BY <1>2, <1>3, <1>5, Stamps, SMTT(30) DEF FramesInTurn, OrderInv
  <1>10. ASSUME NEW i \in DOMAIN inflight'
         PROVE  /\ stamp'[inflight'[i].slot] <= Turn'
                /\ \A k \in DOMAIN published' : published'[k] < stamp'[inflight'[i].slot]
    <2>1. CASE i \in 1 .. n
      <3>1. inflight'[i] = inflight[i] /\ stamp[inflight[i].slot] <= produced
        BY <1>2, <1>3, <1>9, <2>1
      <3>2. QED
        BY <1>1, <1>2, <1>3, <1>5, <2>1, <3>1 DEF FramesInTurn
    <2>2. CASE i = n + 1
      BY <1>1, <1>2, <1>3, <1>4, <1>5, <1>8, <2>2
    <2>3. QED
      BY <1>2, <1>7, <2>1, <2>2
  <1>11. ASSUME NEW i \in DOMAIN inflight', NEW j \in DOMAIN inflight', i < j
         PROVE  stamp'[inflight'[i].slot] < stamp'[inflight'[j].slot]
    <2>1. i \in 1 .. n /\ (j \in 1 .. n \/ j = n + 1)
      BY <1>2, <1>11
    <2>2. CASE j \in 1 .. n
      BY <1>1, <1>2, <1>3, <1>11, <2>1, <2>2 DEF FramesInTurn
    <2>3. CASE j = n + 1
      BY <1>1, <1>2, <1>4, <1>9, <2>1, <2>3
    <2>4. QED
      BY <2>1, <2>2, <2>3
  <1>12. \A i \in DOMAIN published' : published'[i] <= Turn'
    BY <1>1, <1>3, <1>5, <1>8
  <1>13. QED
    BY <1>1, <1>3, <1>6, <1>10, <1>11, <1>12 DEF FramesInTurn, PublishedInOrder

LEMMA FramePublishedInTurn ==
  ASSUME OrderInv, Publish
  PROVE  FramesInTurn'
  <1> DEFINE n == Len(inflight)
             m == Len(published)
             front == inflight[1].slot
  <1>1. UNCHANGED <<enqueued, stamp, produced, producer>> /\ stage' = "sinks"
    BY DEF Publish, producerVars
  <1>2. /\ n \in Nat \ {0} /\ DOMAIN inflight = 1 .. n /\ DOMAIN inflight' = 1 .. n - 1
        /\ \A i \in 1 .. n - 1 : inflight'[i] = inflight[i + 1]
        /\ ready' = front /\ 1 \in DOMAIN inflight
    BY PublishedFrame DEF OrderInv, DownloadInv
  <1>3. FramesInTurn /\ published \in Seq(Nat) /\ stamp[front] \in Nat
    BY <1>2, Stamps DEF OrderInv, FramesInTurn
  <1>4. published' = Append(published, stamp[front])
    <2>1. Head(inflight) = inflight[1]
      BY Stamps DEF OrderInv
    <2>2. QED
      BY <2>1 DEF Publish
  <1> HIDE DEF front
  <1>5. /\ published' \in Seq(Nat) /\ Len(published') = m + 1 /\ m \in Nat
        /\ DOMAIN published = 1 .. m /\ DOMAIN published' = 1 .. m + 1
        /\ \A i \in 1 .. m : published'[i] = published[i]
        /\ published'[m + 1] = stamp[front]
    BY <1>3, <1>4, Grown
  <1> HIDE DEF n, m
  <1>6. Turn' = Turn /\ Turn \in Int
    BY <1>1, Stamps DEF Turn, OrderInv
  <1>7. \A i \in 1 .. m + 1 : i \in 1 .. m \/ i = m + 1
    BY <1>5
  <1>8. stamp[front] <= Turn /\ \A k \in 1 .. m : published[k] < stamp[front]
    BY <1>2, <1>3, <1>5 DEF FramesInTurn, front
  <1>9. \A i \in DOMAIN published' : published'[i] <= Turn'
    BY <1>3, <1>5, <1>6, <1>7, <1>8 DEF FramesInTurn
  <1>10. PublishedInOrder'
    <2> SUFFICES ASSUME NEW i \in 1 .. m + 1, NEW j \in 1 .. m + 1, i < j
                 PROVE  published'[i] < published'[j]
      BY <1>5 DEF PublishedInOrder
    <2>1. i \in 1 .. m /\ (j \in 1 .. m \/ j = m + 1)
      BY <1>5
    <2>2. QED
      BY <1>3, <1>5, <1>8, <2>1 DEF FramesInTurn, PublishedInOrder
  <1>11. ASSUME NEW i \in DOMAIN inflight'
         PROVE  /\ i + 1 \in DOMAIN inflight /\ inflight'[i] = inflight[i + 1]
                /\ i \in Int /\ stamp[front] < stamp[inflight[i + 1].slot]
    <2>1. i \in 1 .. n - 1 /\ i + 1 \in 1 .. n /\ 1 < i + 1
      BY <1>2
    <2>2. i + 1 \in DOMAIN inflight /\ inflight'[i] = inflight[i + 1] /\ i \in Int
      BY <1>2, <2>1
    <2>3. \A k, j \in DOMAIN inflight : k < j => stamp[inflight[k].slot] < stamp[inflight[j].slot]
      BY <1>3 DEF FramesInTurn
    <2>4. stamp[front] < stamp[inflight[i + 1].slot]
      BY <1>2, <2>1, <2>2, <2>3 DEF front
    <2>5. QED
      BY <2>2, <2>4
  <1>12. ASSUME NEW i \in DOMAIN inflight'
         PROVE  /\ stamp'[inflight'[i].slot] <= Turn'
                /\ \A k \in DOMAIN published' : published'[k] < stamp'[inflight'[i].slot]
    BY <1>1, <1>3, <1>5, <1>6, <1>7, <1>11 DEF FramesInTurn
  <1>13. ASSUME NEW i \in DOMAIN inflight', NEW j \in DOMAIN inflight', i < j
         PROVE  stamp'[inflight'[i].slot] < stamp'[inflight'[j].slot]
    <2>1. i + 1 < j + 1
      BY <1>11, <1>13
    <2>2. QED
      BY <1>1, <1>3, <1>11, <2>1 DEF FramesInTurn
  <1>14. Len(published') >= 1 /\ stamp'[ready'] = published'[Len(published')]
    BY <1>1, <1>2, <1>5
  <1>15. QED
    BY <1>1, <1>3, <1>5, <1>9, <1>10, <1>12, <1>13, <1>14 DEF FramesInTurn

LEMMA TurnsKept ==
  ASSUME OrderInv, [DownloadNext]_downloadVars
  PROVE  FramesInTurn'
  <1>f. FramesInTurn
    BY DEF OrderInv
  <1>e. enqueued \in Seq(Nat)
    BY <1>f DEF FramesInTurn
  <1>1. CASE Reserve
    <2>1. PICK s \in FreeSlots : stamp' = [stamp EXCEPT ![s] = produced + 1]
      BY <1>1 DEF Reserve
    <2>2. /\ \A i \in DOMAIN inflight : inflight[i].slot # s /\ inflight[i].slot \in Slots
          /\ ready # s
      BY <2>1, Stamps DEF FreeSlots, InFlightSlots, OrderInv
    <2>3. stamp \in [Slots -> Nat]
      BY DEF OrderInv, DownloadInv, DownloadTypeOK, GpuTypes
    <2>4. /\ \A i \in DOMAIN inflight : stamp'[inflight[i].slot] = stamp[inflight[i].slot]
          /\ stage = "sinks" => stamp'[ready] = stamp[ready]
      BY <2>1, <2>2, <2>3, Stamps DEF OrderInv
    <2>5. /\ UNCHANGED <<inflight, published, enqueued, stage, ready>> /\ producer = "idle"
          /\ producer' = "event" /\ produced' = produced + 1
      BY <1>1 DEF Reserve, Infer, listVars, stageVars
    <2>6. Turn' \in Int /\ Turn <= Turn'
      <3>1. produced \in Nat
        BY Stamps DEF OrderInv
      <3>2. QED
        BY <2>5, <3>1 DEF Turn
    <2>7. QED
      BY <1>e, <2>4, <2>5, <2>6, TurnsStay
  <1>2. CASE PoolEmpty \/ TakeEvent \/ NoFreeEvent \/ CopyAndRecord \/ CopyThrows
    <2>1. /\ UNCHANGED <<inflight, published, enqueued, stage, ready, stamp>>
          /\ \/ produced' = produced /\ (producer' = "idle" \/ (producer # "idle" /\ producer' # "idle"))
             \/ produced' = produced + 1 /\ producer = "idle" /\ producer' = "idle"
      BY <1>2 DEF PoolEmpty, TakeEvent, NoFreeEvent, CopyAndRecord, CopyThrows, Infer, GiveUp,
                  listVars, stageVars
    <2>2. Turn' \in Int /\ Turn <= Turn'
      <3>1. produced \in Nat
        BY Stamps DEF OrderInv
      <3>2. QED
        BY <2>1, <3>1 DEF Turn
    <2>3. QED
      BY <1>e, <2>1, <2>2, TurnsStay
  <1>3. CASE QueueFrame
    BY <1>3, FrameQueuedInTurn
  <1>4. CASE Publish
    BY <1>4, FramePublishedInTurn
  <1>5. CASE ClearInFlight
    <2>1. /\ inflight' = <<>> /\ UNCHANGED <<published, enqueued, produced, producer, stamp>>
          /\ stage' # "sinks"
      BY <1>5 DEF ClearInFlight, producerVars
    <2>2. Turn' = Turn
      BY <2>1 DEF Turn
    <2>3. QED
      BY <1>f, <2>1, <2>2 DEF FramesInTurn, PublishedInOrder
  <1>6. ASSUME UNCHANGED <<inflight, published, enqueued, stamp, produced, producer>>,
               stage' = "sinks" => stage = "sinks" /\ ready' = ready
        PROVE  FramesInTurn'
    <2>1. Turn' = Turn /\ Turn \in Int
      BY <1>6, Stamps DEF Turn, OrderInv
    <2>2. Turn' \in Int /\ Turn <= Turn'
      BY <2>1
    <2>3. QED
      BY <1>e, <1>6, <2>2, TurnsStay
  <1>7. CASE Begin \/ Disabled \/ Look \/ PollAgain \/ StartDownload \/ StopDownload
    BY <1>6, <1>7, QuietSteps DEF QuietStep, listVars, producerVars
  <1>8. CASE DropReady \/ StreamStep \/ SinkKeeps \/ SinkLetsGo \/ UNCHANGED downloadVars
    BY <1>6, <1>8 DEF DropReady, StreamStep, SinkKeeps, SinkReturns, SinkLetsGo, downloadVars,
                      stageVars, listVars, producerVars
  <1>9. QED
    BY <1>1, <1>2, <1>3, <1>4, <1>5, <1>7, <1>8 DEF DownloadNext, ProducerStep, StageStep

(* A step that takes a result in accounts for it: only a lost event breaks the sum. *)
LEMMA RefusalsKept ==
  ASSUME OrderInv, [DownloadNext]_downloadVars
  PROVE  RefusalsCounted'
  <1>a. enqueued \in Seq(Nat) /\ Len(enqueued) \in Nat /\ produced \in Nat /\ poolDrops \in Nat
    BY Stamps DEF OrderInv, FramesInTurn
  <1>b. ~leaked => Len(enqueued) + poolDrops + (IF producer = "idle" THEN 0 ELSE 1) = produced
    BY DEF OrderInv, RefusalsCounted
  <1> USE DEF RefusalsCounted
  <1>1. CASE Reserve \/ PoolEmpty
    <2>1. /\ UNCHANGED <<enqueued, leaked>> /\ producer = "idle" /\ produced' = produced + 1
          /\ \/ poolDrops' = poolDrops + 1 /\ producer' = "idle"
             \/ poolDrops' = poolDrops /\ producer' = "event"
      BY <1>1 DEF Reserve, PoolEmpty, Infer
    <2>2. QED
      BY <1>a, <1>b, <2>1
  <1>2. CASE TakeEvent \/ CopyAndRecord
    <2>1. /\ UNCHANGED <<enqueued, leaked, produced, poolDrops>>
          /\ producer # "idle" /\ producer' # "idle"
      BY <1>2 DEF TakeEvent, CopyAndRecord
    <2>2. QED
      BY <1>a, <1>b, <2>1
  <1>3. CASE NoFreeEvent
    <2>1. leaked /\ leaked' = leaked
      BY <1>3, InvSparesEvents DEF NoFreeEvent, OrderInv, EventsSuffice
    <2>2. QED
      BY <2>1
  <1>4. CASE CopyThrows
    BY <1>4 DEF CopyThrows
  <1>5. CASE QueueFrame
    <2>1. /\ UNCHANGED <<leaked, produced, poolDrops>>
          /\ producer = "append" /\ producer' = "idle"
      BY <1>5 DEF QueueFrame, GiveUp
    <2>2. Len(enqueued') = Len(enqueued) + 1
      BY <1>5, FrameQueuedInTurn
    <2>3. QED
      BY <1>a, <1>b, <2>1, <2>2
  <1>6. CASE ClearInFlight
    <2>1. (leaked => leaked') /\ UNCHANGED <<enqueued, produced, poolDrops, producer>>
      BY <1>6 DEF ClearInFlight, producerVars
    <2>2. QED
      BY <1>b, <2>1
  <1>7. CASE Begin \/ Disabled \/ Look \/ PollAgain \/ StartDownload \/ StopDownload
    BY <1>b, <1>7, QuietSteps DEF QuietStep, producerVars
  <1>8. CASE Publish \/ DropReady \/ StreamStep \/ SinkKeeps \/ SinkLetsGo \/ UNCHANGED downloadVars
    BY <1>b, <1>8 DEF Publish, DropReady, StreamStep, SinkKeeps, SinkReturns, SinkLetsGo,
                      downloadVars, producerVars
  <1>9. QED
    BY <1>1, <1>2, <1>3, <1>4, <1>5, <1>6, <1>7, <1>8 DEF DownloadNext, ProducerStep, StageStep

LEMMA OrderKept == OrderInv /\ [DownloadNext]_downloadVars => OrderInv'
  <1> SUFFICES ASSUME OrderInv, [DownloadNext]_downloadVars
               PROVE  OrderInv'
    OBVIOUS
  <1>1. DownloadInv'
    BY DownloadTypesKept, UseKept, EventsKept, CopiesKept, ResultsKept DEF OrderInv, DownloadInv
  <1>2. QED
    BY <1>1, TurnsKept, RefusalsKept DEF OrderInv

(* Whatever fails and whenever the stage is stopped, frames come out in the order they *)
(* were taken in, each once, and what was not taken in is counted. *)
THEOREM FramesInOrder == DownloadSpec => [](PublishedInOrder /\ RefusalsCounted)
  <1>1. OrderInv => PublishedInOrder /\ RefusalsCounted
    BY DEF OrderInv, FramesInTurn
  <1>2. QED
    BY OrderInit, OrderKept, <1>1, PTL DEF DownloadSpec

-----------------------------------------------------------------------------
(* With the mailbox for its sink the stage takes only steps of the stage, so that *)
(* what is proved of DownloadStage holds of what the mailbox's consumer sees.     *)

LEMMA PullInits == PullInit => DownloadInit /\ kept = Pinned
  BY PullAssumption DEF PullInit, MailboxInit, DownloadInit, Pinned

(* A mailbox that lets go of one frame pins at most that one less. *)
LEMMA MailboxReleases ==
  ASSUME kept = Pinned, ReleasesOnly, LetDisplacedGo \/ ConsumerStep \/ StopMailbox
  PROVE  /\ [SinkLetsGo]_downloadVars
         /\ kept' = Pinned'
  <1>1. \E f : kept' = kept \/ (f \in kept /\ kept' = kept \ {f})
    BY DEF ReleasesOnly, LetDisplacedGo, ConsumerStep, TakeFrame, LetGo, Leave, StopMailbox, Pinned
  <1>2. QED
    BY <1>1 DEF ReleasesOnly, SinkLetsGo, downloadVars

(* A sink that takes a frame in refers to nothing else that is new. *)
LEMMA Offers ==
  ASSUME kept = Pinned, Offered
  PROVE  SinkKeeps /\ kept' = Pinned'
  <1>1. CASE OfferFrame(ready)
    BY <1>1, NoFrameAssumption DEF Offered, OfferFrame, SinkKeeps, Pinned
  <1>2. CASE OfferIgnored(ready)
    BY <1>2 DEF Offered, OfferIgnored, SinkKeeps, Pinned, mailboxVars
  <1>3. QED
    BY <1>1, <1>2 DEF Offered

(* The stage with a mailbox for its sink is a stage: every step of the one is a *)
(* step of the other, and so is every behaviour. *)
LEMMA PullSteps ==
  kept = Pinned /\ [PullNext]_pullVars => [DownloadNext]_downloadVars /\ (kept = Pinned)'
  <1> SUFFICES ASSUME kept = Pinned, [PullNext]_pullVars
               PROVE  [DownloadNext]_downloadVars /\ kept' = Pinned'
    OBVIOUS
  <1>1. mailboxVars' = mailboxVars => Pinned' = Pinned
    BY DEF mailboxVars, Pinned
  <1>2. CASE ProducerThread
    <2>1. kept' = kept
      BY <1>2 DEF ProducerThread, ProducerStep, Reserve, PoolEmpty, TakeEvent, NoFreeEvent,
                  CopyAndRecord, CopyThrows, QueueFrame
    <2>2. QED
      BY <1>1, <1>2, <2>1 DEF ProducerThread, DownloadNext
  <1>3. CASE StreamRuns
    BY <1>1, <1>3 DEF StreamRuns, StreamStep, DownloadNext
  <1>4. CASE StageThread
    <2>1. kept' = kept
      BY <1>4 DEF StageThread, StageStep, Begin, Disabled, Look, PollAgain, Publish, DropReady
    <2>2. QED
      BY <1>1, <1>4, <2>1 DEF StageThread, DownloadNext
  <1>5. CASE Offered
    BY <1>5, Offers DEF DownloadNext
  <1>6. CASE ReleaseDisplaced \/ ConsumerThread
    BY <1>6, MailboxReleases DEF ReleaseDisplaced, ConsumerThread, DownloadNext
  <1>7. CASE Owner
    <2>1. CASE (StartDownload \/ StopDownload \/ ClearInFlight) /\ UNCHANGED mailboxVars
      BY <1>1, <2>1 DEF StartDownload, StopDownload, ClearInFlight, DownloadNext
    <2>2. CASE StopMailbox /\ ReleasesOnly
      BY <2>2, MailboxReleases DEF DownloadNext
    <2>3. QED
      BY <1>7, <2>1, <2>2 DEF Owner
  <1>8. CASE UNCHANGED pullVars
    BY <1>1, <1>8 DEF pullVars, downloadVars
  <1>9. QED
    BY <1>2, <1>3, <1>4, <1>5, <1>6, <1>7, <1>8 DEF PullNext

THEOREM PullImplementsDownload == PullSpec => DownloadSpec
  BY PullInits, PullSteps, PTL DEF PullSpec, DownloadSpec

(* What the mailbox's consumer is given is the result its stamp names, for as long *)
(* as it has it, and the producer never runs out of events before frames. *)
THEOREM PulledFramesIntact == PullSpec => [](FramesIntact /\ EventsSuffice)
  BY PullImplementsDownload, SinksSeeTheirFrames, NeverShortOfEvents, PTL

-----------------------------------------------------------------------------
(* What the mailbox has is the newest of what it was handed.                *)

MailboxInOrder ==
  /\ open \/ latest = NoFrame
  /\ latest # NoFrame \/ holding # NoFrame => HandedOver >= 1
  /\ latest # NoFrame => stamp[latest] = published[HandedOver]
  /\ holding # NoFrame => stamp[holding] <= published[HandedOver]
  /\ latest # NoFrame /\ holding # NoFrame => stamp[holding] < stamp[latest]

PullIInv == OrderInv /\ MailboxTypeOK /\ MailboxInOrder

LEMMA PullIInvInit == PullInit => PullIInv
  <1> SUFFICES ASSUME PullInit
               PROVE  MailboxTypeOK /\ MailboxInOrder
    BY OrderInit DEF PullIInv, PullInit
  <1>1. kept = Pinned
    BY PullInits
  <1>2. latest = NoFrame /\ displaced = NoFrame /\ holding = NoFrame /\ open = TRUE /\ gone = FALSE
    BY DEF PullInit, MailboxInit
  <1>3. QED
    BY <1>1, <1>2 DEF MailboxTypeOK, MailboxInOrder

(* The numbers the mailbox's order is about. *)
LEMMA PullNumbers ==
  ASSUME PullIInv
  PROVE  /\ published \in Seq(Nat) /\ Len(published) \in Nat /\ DOMAIN published = 1 .. Len(published)
         /\ \A s \in Slots : stamp[s] \in Nat
         /\ HandedOver \in Int /\ HandedOver <= Len(published)
         /\ latest \in Slots \cup {NoFrame} /\ holding \in Slots \cup {NoFrame}
         /\ displaced \in Slots \cup {NoFrame} /\ NoFrame \notin Slots
         /\ latest # NoFrame => latest \in kept
         /\ holding # NoFrame => holding \in kept
         /\ HandedOver >= 1 => published[HandedOver] \in Nat
         /\ stage = "sinks" => ready \in Slots /\ Len(published) >= 1
                               /\ stamp[ready] = published[Len(published)]
  <1>1. published \in Seq(Nat) /\ DownloadInv
    BY DEF PullIInv, OrderInv, FramesInTurn
  <1>2. Len(published) \in Nat /\ DOMAIN published = 1 .. Len(published)
    BY <1>1
  <1>3. HandedOver \in Int /\ HandedOver <= Len(published)
    BY <1>2 DEF HandedOver
  <1>4. HandedOver >= 1 => published[HandedOver] \in Nat
    BY <1>1, <1>2, <1>3
  <1>5. /\ latest \in Slots \cup {NoFrame} /\ holding \in Slots \cup {NoFrame}
        /\ displaced \in Slots \cup {NoFrame} /\ NoFrame \notin Slots /\ kept = Pinned
    BY NoFrameAssumption, PullAssumption DEF PullIInv, MailboxTypeOK
  <1>6. /\ latest # NoFrame => latest \in kept
        /\ holding # NoFrame => holding \in kept
    BY <1>5 DEF Pinned
  <1>7. \A s \in Slots : stamp[s] \in Nat
    BY <1>1, Stamps
  <1>8. stage = "sinks" => ready \in Slots /\ Len(published) >= 1
                           /\ stamp[ready] = published[Len(published)]
    BY <1>1, Stamps DEF PullIInv, OrderInv, FramesInTurn
  <1>9. QED
    BY <1>1, <1>2, <1>3, <1>4, <1>5, <1>6, <1>7, <1>8

(* While the mailbox is let alone nothing it refers to is stamped anew, and what was *)
(* handed to it stays. *)
LEMMA MailboxAlone ==
  ASSUME PullIInv, UNCHANGED mailboxVars, HandedOver' = HandedOver,
         HandedOver >= 1 => published'[HandedOver] = published[HandedOver],
         \A s \in kept : stamp'[s] = stamp[s]
  PROVE  MailboxInOrder'
  BY PullNumbers DEF PullIInv, MailboxInOrder, mailboxVars

LEMMA MailboxUnderProducer ==
  ASSUME PullIInv, ProducerThread \/ StreamRuns
  PROVE  MailboxInOrder'
  <1>1. UNCHANGED <<mailboxVars, stageVars>>
    BY DEF ProducerThread, StreamRuns, ProducerStep, Reserve, PoolEmpty, TakeEvent, NoFreeEvent,
           CopyAndRecord, CopyThrows, QueueFrame, StreamStep
  <1>2. HandedOver' = HandedOver /\ published' = published
    BY <1>1 DEF HandedOver, stageVars
  <1>3. CASE ProducerThread /\ Reserve
    <2>1. PICK s \in FreeSlots : stamp' = [stamp EXCEPT ![s] = produced + 1]
      BY <1>3 DEF Reserve
    <2>2. s \notin kept
      BY <2>1 DEF FreeSlots
    <2>3. stamp \in [Slots -> Nat] /\ kept \subseteq Slots
      BY DEF PullIInv, OrderInv, DownloadInv, DownloadTypeOK, GpuTypes
    <2>4. \A r \in kept : stamp'[r] = stamp[r]
      BY <2>1, <2>2, <2>3
    <2>5. QED
      BY <1>1, <1>2, <2>4, MailboxAlone
  <1>4. CASE stamp' = stamp
    BY <1>1, <1>2, <1>4, MailboxAlone
  <1>5. (ProducerThread /\ Reserve) \/ stamp' = stamp
    BY DEF ProducerThread, StreamRuns, ProducerStep, PoolEmpty, TakeEvent, NoFreeEvent,
           CopyAndRecord, CopyThrows, QueueFrame, StreamStep, producerVars
  <1>6. QED
    BY <1>3, <1>4, <1>5

LEMMA MailboxUnderStage ==
  ASSUME PullIInv,
         StageThread \/ ((StartDownload \/ StopDownload \/ ClearInFlight) /\ UNCHANGED mailboxVars)
  PROVE  MailboxInOrder'
  <1>1. UNCHANGED mailboxVars /\ stamp' = stamp
    BY QuietSteps DEF StageThread, StageStep, Publish, DropReady, ClearInFlight, producerVars, QuietStep
  <1>2. CASE Publish
    <2>1. /\ published' = Append(published, stamp[Head(inflight).slot]) /\ stage = "poll"
          /\ stage' = "sinks" /\ sink' = 0
      BY <1>2 DEF Publish
    <2>2. stamp[Head(inflight).slot] \in Nat
      <3>1. inflight # <<>> /\ inflight \in Seq(InFlight) /\ Len(inflight) \in Nat
        BY <1>2, Stamps DEF Publish, FrontRetired, PullIInv, OrderInv
      <3>2. 1 \in DOMAIN inflight /\ Head(inflight) = inflight[1]
        BY <3>1
      <3>3. QED
        BY <3>2, Stamps DEF PullIInv, OrderInv
    <2>3. /\ Len(published') = Len(published) + 1
          /\ \A i \in 1 .. Len(published) : published'[i] = published[i]
      BY <2>1, <2>2, PullNumbers, Grown
    <2>4. HandedOver = Len(published) /\ HandedOver' = Len(published)
      BY <2>1, <2>3, PullNumbers DEF HandedOver
    <2>5. HandedOver >= 1 => published'[HandedOver] = published[HandedOver]
      BY <2>3, <2>4, PullNumbers
    <2>6. QED
      BY <1>1, <2>4, <2>5, MailboxAlone
  <1>3. CASE DropReady
    <2>1. stage = "sinks" /\ stage' = "top" /\ sink = 1 /\ published' = published
      BY <1>3, PullAssumption DEF DropReady
    <2>2. HandedOver' = HandedOver
      BY <2>1 DEF HandedOver
    <2>3. QED
      BY <1>1, <2>1, <2>2, MailboxAlone
  <1>4. CASE Begin \/ Disabled \/ Look \/ PollAgain \/ StartDownload \/ StopDownload \/ ClearInFlight
    <2>1. /\ published' = published /\ sink' = sink
          /\ (stage = "sinks") = (stage' = "sinks")
      BY <1>4 DEF Begin, Disabled, Look, PollAgain, StartDownload, StopDownload, ClearInFlight
    <2>2. HandedOver' = HandedOver
      BY <2>1 DEF HandedOver
    <2>3. QED
      BY <1>1, <2>1, <2>2, MailboxAlone
  <1>5. QED
    BY <1>2, <1>3, <1>4 DEF StageThread, StageStep

LEMMA MailboxOffered ==
  ASSUME PullIInv, Offered
  PROVE  MailboxInOrder'
  <1>1. /\ stage = "sinks" /\ stage' = "sinks" /\ sink = 0 /\ sink' = 1
        /\ UNCHANGED <<published, stamp, ready>>
    <2>1. SinkCount = 1 /\ sink \in 0 .. SinkCount
      BY PullAssumption DEF PullIInv, OrderInv, DownloadInv, DownloadTypeOK, StageTypes
    <2>2. QED
      BY <2>1 DEF Offered, SinkReturns, producerVars
  <1>2. HandedOver = Len(published) - 1 /\ HandedOver' = Len(published)
    BY <1>1 DEF HandedOver
  <1>3. Len(published) >= 1 /\ stamp[ready] = published[Len(published)] /\ ready \in Slots
        /\ stamp[ready] \in Nat
    BY <1>1, PullNumbers
  <1>4. holding # NoFrame => /\ stamp[holding] \in Nat
                             /\ stamp[holding] < published[Len(published)]
    <2> SUFFICES ASSUME holding # NoFrame
                 PROVE  /\ stamp[holding] \in Nat
                        /\ stamp[holding] < published[Len(published)]
      OBVIOUS
    <2>1. /\ HandedOver >= 1 /\ stamp[holding] <= published[HandedOver]
          /\ stamp[holding] \in Nat /\ published[HandedOver] \in Nat
      BY PullNumbers DEF PullIInv, MailboxInOrder
    <2>2. /\ HandedOver \in DOMAIN published /\ Len(published) \in DOMAIN published
          /\ HandedOver < Len(published)
      BY <1>2, <1>3, <2>1, PullNumbers
    <2>3. published[HandedOver] < published[Len(published)]
      BY <2>2 DEF PullIInv, OrderInv, FramesInTurn, PublishedInOrder
    <2>4. QED
      BY <1>3, <2>1, <2>3
  <1>5. CASE OfferFrame(ready)
    <2>1. latest' = ready /\ holding' = holding /\ open /\ open' = open
      BY <1>5 DEF OfferFrame
    <2>2. QED
      BY <1>1, <1>2, <1>3, <1>4, <2>1 DEF MailboxInOrder
  <1>6. CASE OfferIgnored(ready)
    <2>1. ~open /\ latest = NoFrame /\ UNCHANGED <<open, latest, holding>>
      BY <1>6 DEF OfferIgnored, mailboxVars, PullIInv, MailboxInOrder
    <2>2. QED
      BY <1>1, <1>2, <1>3, <1>4, <2>1 DEF MailboxInOrder
  <1>7. QED
    BY <1>5, <1>6 DEF Offered

LEMMA MailboxByItself ==
  ASSUME PullIInv, ReleasesOnly, LetDisplacedGo \/ ConsumerStep \/ StopMailbox
  PROVE  MailboxInOrder'
  <1>1. UNCHANGED <<published, stamp, stage, sink>>
    BY DEF ReleasesOnly, stageVars, producerVars
  <1>2. HandedOver' = HandedOver
    BY <1>1 DEF HandedOver
  <1>3. /\ HandedOver \in Int
        /\ latest # NoFrame => stamp[latest] \in Nat
    BY PullNumbers
  <1>4. CASE LetDisplacedGo \/ LetGo \/ Leave \/ StopMailbox
    BY <1>1, <1>2, <1>4 DEF LetDisplacedGo, LetGo, Leave, StopMailbox, MailboxInOrder, PullIInv
  <1>5. CASE TakeFrame
    <2>1. /\ holding' = latest /\ latest' = NoFrame /\ latest # NoFrame /\ open' = open
      BY <1>5 DEF TakeFrame
    <2>2. HandedOver >= 1 /\ stamp[latest] = published[HandedOver]
      BY <2>1 DEF PullIInv, MailboxInOrder
    <2>3. QED
      BY <1>1, <1>2, <1>3, <2>1, <2>2 DEF MailboxInOrder
  <1>6. QED
    BY <1>4, <1>5 DEF ConsumerStep

LEMMA MailboxTypesKept ==
  ASSUME PullIInv, [PullNext]_pullVars
  PROVE  MailboxTypeOK'
  <1>1. kept' = Pinned'
    BY PullSteps DEF PullIInv, MailboxTypeOK
  <1>2. MailboxTypeOK
    BY DEF PullIInv
  <1>3. stage = "sinks" => ready \in Frames
    BY PullNumbers, PullAssumption
  <1>4. CASE UNCHANGED mailboxVars
    BY <1>1, <1>2, <1>4 DEF MailboxTypeOK, mailboxVars
  <1>5. CASE Offered
    BY <1>1, <1>2, <1>3, <1>4, <1>5 DEF Offered, SinkReturns, OfferFrame, OfferIgnored, MailboxTypeOK
  <1>6. CASE LetDisplacedGo \/ ConsumerStep \/ StopMailbox
    BY <1>1, <1>2, <1>6 DEF LetDisplacedGo, ConsumerStep, TakeFrame, LetGo, Leave, StopMailbox,
                             MailboxTypeOK
  <1>7. QED
    BY <1>4, <1>5, <1>6 DEF PullNext, ProducerThread, StreamRuns, StageThread, ReleaseDisplaced,
                            ConsumerThread, Owner, pullVars

(* The mailbox keeps the newest frame the stage has handed it, whatever fails and *)
(* wherever either is stopped, on top of all the stage promises by itself. *)
THEOREM NewestIsKept == PullSpec => []PullInv
  <1>1. PullIInv /\ [PullNext]_pullVars => PullIInv'
    <2> SUFFICES ASSUME PullIInv, [PullNext]_pullVars
                 PROVE  PullIInv'
      OBVIOUS
    <2>1. OrderInv'
      BY PullSteps, OrderKept DEF PullIInv, MailboxTypeOK
    <2>2. MailboxTypeOK'
      BY MailboxTypesKept
    <2>3. MailboxInOrder'
      <3>1. CASE ProducerThread \/ StreamRuns
        BY <3>1, MailboxUnderProducer
      <3>2. CASE StageThread \/ ((StartDownload \/ StopDownload \/ ClearInFlight) /\ UNCHANGED mailboxVars)
        BY <3>2, MailboxUnderStage
      <3>3. CASE Offered
        BY <3>3, MailboxOffered
      <3>4. CASE ReleaseDisplaced \/ ConsumerThread \/ (StopMailbox /\ ReleasesOnly)
        BY <3>4, MailboxByItself DEF ReleaseDisplaced, ConsumerThread
      <3>5. CASE UNCHANGED pullVars
        <4>1. UNCHANGED <<mailboxVars, published, stamp, stage, sink>>
          BY <3>5 DEF pullVars, downloadVars, stageVars, producerVars
        <4>2. HandedOver' = HandedOver
          BY <4>1 DEF HandedOver
        <4>3. QED
          BY <4>1, <4>2, MailboxAlone
      <3>6. QED
        BY <3>1, <3>2, <3>3, <3>4, <3>5 DEF PullNext, Owner
    <2>4. QED
      BY <2>1, <2>2, <2>3 DEF PullIInv
  <1>2. PullIInv => PullInv
    BY DEF PullIInv, PullInv, OrderInv, FramesInTurn, MailboxInOrder, NewestWaits
  <1>3. QED
    BY PullIInvInit, <1>1, <1>2, PTL DEF PullSpec

-----------------------------------------------------------------------------
(* Division. *)
LEMMA Divides ==
  ASSUME NEW n \in Nat, NEW m \in Nat \ {0}
  PROVE  n \div m \in Nat /\ n % m \in 0 .. m - 1 /\ n = m * (n \div m) + (n % m)
  BY SMTT(30)

LEMMA SmallMultiple ==
  ASSUME NEW m \in Nat \ {0}, NEW q \in Int, 0 - m < m * q, m * q < m
  PROVE  q = 0
  <1>1. CASE q >= 1
    BY <1>1, SMTT(30)
  <1>2. CASE q <= 0 - 1
    BY <1>2, SMTT(30)
  <1>3. QED
    BY <1>1, <1>2

LEMMA OneRemainder ==
  ASSUME NEW m \in Nat \ {0}, NEW q \in Int, NEW p \in Int, NEW r \in 0 .. m - 1,
         NEW s \in 0 .. m - 1, m * q + r = m * p + s
  PROVE  r = s
  <1>1. m * (q - p) = s - r
    BY SMTT(30)
  <1>2. q - p = 0
    <2> DEFINE d == q - p
    <2>1. d \in Int /\ 0 - m < m * d /\ m * d < m
      BY <1>1
    <2> HIDE DEF d
    <2>2. d = 0
      BY <2>1, SmallMultiple
    <2>3. QED
      BY <2>2 DEF d
  <1>3. QED
    BY <1>1, <1>2, SMTT(30)

(* The remainder of what comes next. *)
LEMMA NextRemainder ==
  ASSUME NEW n \in Nat, NEW m \in Nat \ {0}
  PROVE  ((n % m) + 1) % m = (n + 1) % m
  <1> DEFINE a == n \div m
             r == n % m
             b == (r + 1) \div m
             s == (r + 1) % m
             c == (n + 1) \div m
             t == (n + 1) % m
  <1>1. a \in Nat /\ r \in 0 .. m - 1 /\ n = m * a + r
    BY Divides
  <1> HIDE DEF a, r
  <1>2. b \in Nat /\ s \in 0 .. m - 1 /\ r + 1 = m * b + s
    <2>1. r + 1 \in Nat
      BY <1>1
    <2>2. QED
      BY <2>1, Divides
  <1>3. c \in Nat /\ t \in 0 .. m - 1 /\ n + 1 = m * c + t
    <2>1. n + 1 \in Nat
      OBVIOUS
    <2>2. QED
      BY <2>1, Divides
  <1> HIDE DEF b, s, c, t
  <1>4. m * (a + b) + s = m * c + t /\ a + b \in Int /\ c \in Int
    BY <1>1, <1>2, <1>3, SMTT(30)
  <1> HIDE DEF a, r, b, s, c, t
  <1>5. s = t
    <2> DEFINE ab == a + b
    <2>1. m * ab + s = m * c + t /\ ab \in Int
      BY <1>4
    <2> HIDE DEF ab
    <2>2. QED
      BY <1>2, <1>3, <1>4, <2>1, OneRemainder
  <1>6. QED
    BY <1>5 DEF s, t, r

(* What divides the modulus divides out. *)
LEMMA RemainderOfRemainder ==
  ASSUME NEW n \in Nat, NEW m \in Nat \ {0}, NEW d \in Nat \ {0}, m % d = 0
  PROVE  (n % m) % d = n % d
  <1> DEFINE a == n \div m
             r == n % m
             b == r \div d
             s == r % d
             c == n \div d
             t == n % d
             e == m \div d
  <1>1. a \in Nat /\ r \in 0 .. m - 1 /\ n = m * a + r
    BY Divides
  <1> HIDE DEF a, r
  <1>2. b \in Nat /\ s \in 0 .. d - 1 /\ r = d * b + s
    <2>1. r \in Nat
      BY <1>1
    <2>2. QED
      BY <2>1, Divides
  <1>3. c \in Nat /\ t \in 0 .. d - 1 /\ n = d * c + t
    BY Divides
  <1>4. e \in Nat /\ m = d * e
    BY Divides
  <1> HIDE DEF a, r, b, s, c, t, e
  <1>5. m * a = d * (e * a)
    BY <1>1, <1>4, SMTT(30)
  <1>6. d * (e * a + b) = d * (e * a) + d * b /\ e * a \in Int
    BY <1>1, <1>2, <1>4, SMTT(30)
  <1> DEFINE ab == e * a + b
  <1>7. ab \in Int /\ d * ab = d * (e * a) + d * b
    BY <1>2, <1>6
  <1> HIDE DEF ab
  <1>8. s = t
    <2> DEFINE x == d * (e * a)
    <2>1. n = x + d * b + s
      <3>1. n = x + r /\ x \in Int
        BY <1>1, <1>5, <1>4, <1>6
      <3> DEFINE y == d * b
      <3>3. r = y + s /\ y \in Int
        BY <1>2
      <3> HIDE DEF x, y
      <3>2. QED
        BY <3>1, <3>3, <1>2 DEF y
    <2>2. d * ab + s = n
      BY <1>7, <2>1
    <2> HIDE DEF x
    <2>3. d * ab + s = d * c + t
      BY <2>2, <1>3
    <2>4. c \in Int
      BY <1>3
    <2>5. QED
      BY <1>2, <1>3, <1>7, <2>3, <2>4, OneRemainder
  <1>9. QED
    BY <1>8 DEF s, t, r

-----------------------------------------------------------------------------
(* The way into the device ring.  The calls that reach the stream for one frame   *)
(* stand together, so what a slot is published with is known from the few calls   *)
(* before it.                                                                     *)

Scratches == 0 .. plan.scratch - 1
Outs == 0 .. plan.out - 1
Reading == {"copy", "copy over", "launch"}

UploadOp ==
  [call : {"copy"}, from : Pins, to : Scratches] \cup [call : {"copy over"}, from : Pins, to : Outs]
    \cup [call : {"transform"}, from : Scratches, to : Outs]
    \cup [call : {"launch"}, from : Pins, by : Scratches, to : Outs]
    \cup [call : {"release"}, slot : Pins] \cup [call : {"ready"}, slot : Outs, frame : Nat]
    \cup {ScratchFree}

Pin == [frame : Nat, size : {"short", "whole", "large"}, owner : {"source", "stage", "stream"}]

UploadTyped ==
  /\ plan \in Plans /\ ~UploadRefuses(plan)
  /\ pinned \in [Pins -> Pin] /\ fifo \in Seq(Pins) /\ filled \in Nat
  /\ nextOut \in Outs /\ (EagerPath => nextScratch \in Scratches)
  /\ ops \in Seq(UploadOp)
  /\ DOMAIN out = Outs /\ DOMAIN scratch = Scratches
  /\ counts \in [{"uploaded", "dropped", "failed", "fallbacks"} -> Nat]

(* A slot is the source's, or waits to be taken, or has its release queued, and the *)
(* last is behind what reads it.                                                    *)
Handed ==
  /\ \A i \in DOMAIN fifo : pinned[fifo[i]].owner = "stage"
  /\ \A i, j \in DOMAIN fifo : fifo[i] = fifo[j] => i = j
  /\ \A k \in DOMAIN ops : ops[k].call = "release" => pinned[ops[k].slot].owner = "stream"
  /\ \A j, k \in DOMAIN ops :
       ops[j].call = "release" /\ ops[k].call = "release" /\ ops[j].slot = ops[k].slot => j = k
  /\ \A k \in DOMAIN ops : ops[k].call \in Reading =>
       \E j \in DOMAIN ops : j > k /\ ops[j] = Back(ops[k].from)

(* What is published is what the calls before it bring there. *)
Written(x, k) ==
  /\ k >= 3 /\ ops[k - 1].call = "release" /\ ops[k - 2].call \in {"copy over", "launch"}
  /\ ops[k - 2].to = x.slot /\ pinned[ops[k - 2].from].frame = x.frame

Transformed(x, k) ==
  /\ k >= 2 /\ ops[k - 1].call = "transform" /\ ops[k - 1].to = x.slot
  /\ k >= 3 => ops[k - 2].call = "release"
  /\ k <= 3 => scratch[ops[k - 1].from] = x.frame
  /\ k >= 4 => /\ ops[k - 3].call = "copy" /\ ops[k - 3].to = ops[k - 1].from
               /\ pinned[ops[k - 3].from].frame = x.frame

There(x, k) ==
  (k = 1 \/ (k = 2 /\ ops[1].call = "release")) /\ out[x.slot] = x.frame

AllReady ==
  \A k \in DOMAIN ops : ops[k].call = "ready" =>
    Written(ops[k], k) \/ Transformed(ops[k], k) \/ There(ops[k], k)

(* As long as no frame failed the two rings move in step. *)
InStep ==
  /\ ~plan.graph => counts.fallbacks = 0
  /\ plan.graph /\ plan.source = "staged" /\ counts.failed = 0 =>
       /\ counts.fallbacks = 0 /\ Len(fifo) <= filled
       /\ nextOut = (filled - Len(fifo)) % plan.out
       /\ \A i \in DOMAIN fifo : fifo[i] = (filled - Len(fifo) + i - 1) % Staging

UploadIInv == UploadTyped /\ Handed /\ AllReady /\ InStep

(* The calls. *)
LEMMA CopyToIs ==
  ASSUME NEW s \in Pins, NEW i \in Scratches
  PROVE  CopyTo(s, i) \in UploadOp /\ CopyTo(s, i).call = "copy" /\ CopyTo(s, i).from = s
         /\ CopyTo(s, i).to = i
  BY DEF UploadOp, CopyTo

LEMMA CopyOverIs ==
  ASSUME NEW s \in Pins, NEW o \in Outs
  PROVE  CopyOver(s, o) \in UploadOp /\ CopyOver(s, o).call = "copy over"
         /\ CopyOver(s, o).from = s /\ CopyOver(s, o).to = o
  BY DEF UploadOp, CopyOver

LEMMA TransformIs ==
  ASSUME NEW i \in Scratches, NEW o \in Outs
  PROVE  Transform(i, o) \in UploadOp /\ Transform(i, o).call = "transform"
         /\ Transform(i, o).from = i /\ Transform(i, o).to = o
  BY DEF UploadOp, Transform

LEMMA LaunchIs ==
  ASSUME NEW s \in Pins, NEW i \in Scratches, NEW o \in Outs
  PROVE  Launch(s, i, o) \in UploadOp /\ Launch(s, i, o).call = "launch"
         /\ Launch(s, i, o).from = s /\ Launch(s, i, o).to = o
  BY DEF UploadOp, Launch

LEMMA BackIs ==
  ASSUME NEW s \in Pins
  PROVE  Back(s) \in UploadOp /\ Back(s).call = "release" /\ Back(s).slot = s
  BY DEF UploadOp, Back

LEMMA ReadyIs ==
  ASSUME NEW o \in Outs, NEW f \in Nat
  PROVE  Ready(o, f) \in UploadOp /\ Ready(o, f).call = "ready" /\ Ready(o, f).slot = o
         /\ Ready(o, f).frame = f
  BY DEF UploadOp, Ready

LEMMA ScratchFreeIs ==
  ScratchFree \in UploadOp /\ ScratchFree.call = "scratch free"
  BY DEF UploadOp, ScratchFree

LEMMA CallShape ==
  ASSUME NEW c \in UploadOp
  PROVE  /\ c.call \in {"copy", "copy over", "transform", "launch", "release", "ready",
                        "scratch free"}
         /\ c.call = "release" => c.slot \in Pins /\ c = Back(c.slot)
         /\ c.call = "ready" => c.slot \in Outs /\ c.frame \in Nat
         /\ c.call \in Reading => c.from \in Pins
         /\ c.call \in {"transform", "copy over", "launch"} => c.to \in Outs
         /\ c.call = "transform" => c.from \in Scratches
         /\ c.call = "copy" => c.to \in Scratches
         /\ c.call = "launch" => c.by \in Scratches
  <1>1. CASE c \in [call : {"copy"}, from : Pins, to : Scratches]
    BY <1>1 DEF Reading
  <1>2. CASE c \in [call : {"copy over"}, from : Pins, to : Outs]
    BY <1>2 DEF Reading
  <1>3. CASE c \in [call : {"transform"}, from : Scratches, to : Outs]
    BY <1>3 DEF Reading
  <1>4. CASE c \in [call : {"launch"}, from : Pins, by : Scratches, to : Outs]
    BY <1>4 DEF Reading
  <1>5. CASE c \in [call : {"release"}, slot : Pins]
    BY <1>5 DEF Reading, Back
  <1>6. CASE c \in [call : {"ready"}, slot : Outs, frame : Nat]
    BY <1>6 DEF Reading
  <1>7. CASE c = ScratchFree
    BY <1>7 DEF Reading, ScratchFree
  <1>8. QED
    BY <1>1, <1>2, <1>3, <1>4, <1>5, <1>6, <1>7 DEF UploadOp

LEMMA PinIs ==
  ASSUME NEW p \in [Pins -> Pin], NEW s \in Pins
  PROVE  p[s].frame \in Nat /\ p[s].size \in {"short", "whole", "large"}
         /\ p[s].owner \in {"source", "stage", "stream"}
  BY DEF Pin

LEMMA OwnerSet ==
  ASSUME NEW p \in [Pins -> Pin], NEW s \in Pins, NEW who \in {"source", "stage", "stream"},
         NEW q, q = [p EXCEPT ![s].owner = who]
  PROVE  /\ q \in [Pins -> Pin] /\ q[s].owner = who
         /\ \A r \in Pins : q[r].frame = p[r].frame /\ q[r].size = p[r].size
                            /\ (r # s => q[r] = p[r])
  BY DEF Pin

(* Sequences that are joined. *)
LEMMA Joined ==
  ASSUME NEW S, NEW a \in Seq(S), NEW b \in Seq(S), NEW t, t = a \o b
  PROVE  /\ t \in Seq(S) /\ Len(t) = Len(a) + Len(b) /\ Len(a) \in Nat /\ Len(b) \in Nat
         /\ DOMAIN t = 1 .. Len(a) + Len(b) /\ DOMAIN a = 1 .. Len(a) /\ DOMAIN b = 1 .. Len(b)
         /\ \A k \in 1 .. Len(a) : t[k] = a[k]
         /\ \A k \in 1 .. Len(b) : t[Len(a) + k] = b[k]
  BY ConcatProperties, LenProperties

-----------------------------------------------------------------------------
(* What a frame's calls are like, as far as they are made. *)
Follows(x, j, s) ==
  \/ /\ j >= 3 /\ x[j - 1].call = "release" /\ x[j - 2].call \in {"copy over", "launch"}
     /\ x[j - 2].to = x[j].slot /\ x[j - 2].from = s /\ pinned[s].frame = x[j].frame
  \/ /\ j >= 4 /\ x[j - 1].call = "transform" /\ x[j - 1].to = x[j].slot
     /\ x[j - 2].call = "release" /\ x[j - 3].call = "copy" /\ x[j - 3].to = x[j - 1].from
     /\ x[j - 3].from = s /\ pinned[s].frame = x[j].frame

OneFrame(x, s) ==
  /\ x \in Seq(UploadOp)
  /\ \E j \in DOMAIN x : x[j] = Back(s) /\ \A i \in DOMAIN x : x[i].call = "release" => i = j
  /\ \A j \in DOMAIN x : x[j].call \in Reading =>
       x[j].from = s /\ \E i \in DOMAIN x : i > j /\ x[i] = Back(s)
  /\ \A j \in DOMAIN x : x[j].call = "ready" => Follows(x, j, s)

LEMMA Prefix ==
  ASSUME UploadTyped, NEW s \in Pins, NEW calls \in Seq(UploadOp), Len(calls) >= 2,
         calls[2] = Back(s),
         \A j \in DOMAIN calls : j # 2 => calls[j].call # "release",
         \A j \in DOMAIN calls : calls[j].call \in Reading => j = 1 /\ calls[j].from = s,
         \A j \in DOMAIN calls : calls[j].call = "ready" => Follows(calls, j, s),
         NEW n \in 0 .. Len(calls), n < Len(calls) => calls[n + 1].call # "release",
         s = Head(fifo)
  PROVE  OneFrame(Made(calls, n), s)
  <1>0. Back(s) \in UploadOp /\ Back(s).call = "release" /\ Len(calls) \in Nat
        /\ DOMAIN calls = 1 .. Len(calls)
    <2>0. Len(calls) \in Nat /\ DOMAIN calls = 1 .. Len(calls)
      BY LenProperties
    <2>1. nextOut \in Outs /\ 0 \in Nat
      BY DEF UploadTyped
    <2>2. QED
      BY <2>0, BackIs
  <1>1. CASE n = 0
    <2> DEFINE x == <<Back(s)>>
    <2>1. x \in Seq(UploadOp) /\ DOMAIN x = {1} /\ x[1] = Back(s) /\ x[1].call = "release"
      BY <1>0
    <2>2. Made(calls, n) = x
      BY <1>1 DEF Made
    <2> HIDE DEF x
    <2>3. x[1].call \notin Reading /\ x[1].call # "ready"
      BY <2>1 DEF Reading
    <2>4. QED
      BY <2>1, <2>2, <2>3 DEF OneFrame
  <1>2. CASE n # 0
    <2> DEFINE x == SubSeq(calls, 1, n)
    <2>1. n >= 2
      BY <1>0, <1>2
    <2>2. /\ x \in Seq(UploadOp) /\ DOMAIN x = 1 .. n
          /\ \A j \in 1 .. n : x[j] = calls[j] /\ j \in DOMAIN calls
      BY <1>0, <2>1, SubSeqProperties
    <2>3. Made(calls, n) = x
      BY <1>2 DEF Made
    <2> HIDE DEF x
    <2>4. 2 \in DOMAIN x /\ x[2] = Back(s) /\ \A i \in DOMAIN x : x[i].call = "release" => i = 2
      BY <2>1, <2>2
    <2>5. \A j \in DOMAIN x : x[j].call \in Reading => j = 1 /\ x[j].from = s
      BY <2>2
    <2>6. \A j \in DOMAIN x : x[j].call = "ready" => Follows(x, j, s)
      <3> SUFFICES ASSUME NEW j \in 1 .. n, x[j].call = "ready"
                   PROVE  Follows(x, j, s)
        BY <2>2
      <3>1. Follows(calls, j, s) /\ x[j] = calls[j]
        BY <2>2
      <3>2. /\ j >= 2 => x[j - 1] = calls[j - 1]
            /\ j >= 3 => x[j - 2] = calls[j - 2]
            /\ j >= 4 => x[j - 3] = calls[j - 3]
        BY <2>2
      <3>3. j \in Nat
        BY <1>0
      <3>4. CASE /\ j >= 3 /\ calls[j - 1].call = "release"
                 /\ calls[j - 2].call \in {"copy over", "launch"}
                 /\ calls[j - 2].to = calls[j].slot /\ calls[j - 2].from = s
                 /\ pinned[s].frame = calls[j].frame
        <4>a. j >= 3
          BY <3>4, Zenon
        <4>0. j >= 3 /\ j >= 2
          BY <3>3, <4>a
        <4>1. x[j - 1] = calls[j - 1] /\ x[j - 2] = calls[j - 2]
          BY <3>2, <4>0
        <4>2. QED
          BY <3>1, <3>4, <4>1 DEF Follows
      <3>5. CASE /\ j >= 4 /\ calls[j - 1].call = "transform" /\ calls[j - 1].to = calls[j].slot
                 /\ calls[j - 2].call = "release" /\ calls[j - 3].call = "copy"
                 /\ calls[j - 3].to = calls[j - 1].from /\ calls[j - 3].from = s
                 /\ pinned[s].frame = calls[j].frame
        <4>1. x[j - 1] = calls[j - 1] /\ x[j - 2] = calls[j - 2] /\ x[j - 3] = calls[j - 3]
          BY <3>2, <3>3, <3>5
        <4>2. QED
          BY <3>1, <3>5, <4>1 DEF Follows
      <3>6. QED
        BY <3>1, <3>4, <3>5 DEF Follows
    <2>7. QED
      BY <2>2, <2>3, <2>4, <2>5, <2>6 DEF OneFrame
  <1>3. QED
    BY <1>1, <1>2

(* Short lists. *)
LEMMA Three ==
  ASSUME NEW S, NEW a \in S, NEW b \in S, NEW c \in S, NEW t, t = <<a, b, c>>
  PROVE  /\ t \in Seq(S) /\ Len(t) = 3 /\ DOMAIN t = 1 .. 3
         /\ t[1] = a /\ t[2] = b /\ t[3] = c
  OBVIOUS

LEMMA Four ==
  ASSUME NEW S, NEW a \in S, NEW b \in S, NEW c \in S, NEW d \in S, NEW t,
         t = <<a, b, c, d>>
  PROVE  /\ t \in Seq(S) /\ Len(t) = 4 /\ DOMAIN t = 1 .. 4
         /\ t[1] = a /\ t[2] = b /\ t[3] = c /\ t[4] = d
  OBVIOUS

LEMMA Five ==
  ASSUME NEW S, NEW a \in S, NEW b \in S, NEW c \in S, NEW d \in S, NEW e \in S, NEW t,
         t = <<a, b, c, d, e>>
  PROVE  /\ t \in Seq(S) /\ Len(t) = 5 /\ DOMAIN t = 1 .. 5
         /\ t[1] = a /\ t[2] = b /\ t[3] = c /\ t[4] = d /\ t[5] = e
  OBVIOUS

(* A frame of all calls, or a part of them, is one. *)
LEMMA Listed ==
  ASSUME UploadTyped, NEW s \in Pins, NEW calls \in Seq(UploadOp), Len(calls) \in 3 .. 5,
         calls[2] = Back(s), calls[1].from = s,
         \A j \in DOMAIN calls : j # 2 => calls[j].call # "release",
         \A j \in DOMAIN calls : calls[j].call \in Reading => j = 1,
         \A j \in DOMAIN calls : calls[j].call = "ready" => Follows(calls, j, s),
         s = Head(fifo), NEW n \in 0 .. Len(calls),
         NEW acquired \in BOOLEAN, Process(calls, n, acquired)
  PROVE  OneFrame(Made(calls, n), s)
  <1>1. n < Len(calls) => calls[n + 1].call # "release"
    BY DEF Process
  <1>2. Len(calls) >= 2
    OBVIOUS
  <1>3. \A j \in DOMAIN calls : calls[j].call \in Reading => j = 1 /\ calls[j].from = s
    OBVIOUS
  <1>4. QED
    BY <1>1, <1>2, <1>3, Prefix

LEMMA CopiedAlone ==
  ASSUME UploadTyped, NEW s \in Pins, s = Head(fifo), NEW n \in 0 .. 3,
         NEW acquired \in BOOLEAN, Process(Upload(s, nextOut), n, acquired)
  PROVE  OneFrame(Made(Upload(s, nextOut), n), s)
  <1> DEFINE f == pinned[s].frame
             calls == <<CopyOver(s, nextOut), Back(s), Ready(nextOut, f)>>
  <1>1. nextOut \in Outs /\ f \in Nat
    BY PinIs DEF UploadTyped
  <1>a. CopyOver(s, nextOut) \in UploadOp /\ CopyOver(s, nextOut).call = "copy over"
        /\ CopyOver(s, nextOut).from = s
        /\ CopyOver(s, nextOut).to = nextOut
    BY <1>1, CopyOverIs
  <1>b. Back(s) \in UploadOp /\ Back(s).call = "release"
    BY <1>1, BackIs
  <1>c. Ready(nextOut, f) \in UploadOp /\ Ready(nextOut, f).call = "ready"
        /\ Ready(nextOut, f).slot = nextOut
        /\ Ready(nextOut, f).frame = f
    BY <1>1, ReadyIs
  <1>z. calls = <<CopyOver(s, nextOut), Back(s), Ready(nextOut, f)>>
    OBVIOUS
  <1> HIDE DEF calls
  <1>2. /\ calls \in Seq(UploadOp) /\ Len(calls) = 3 /\ DOMAIN calls = 1 .. 3
        /\ calls[1] = CopyOver(s, nextOut) /\ calls[2] = Back(s) /\ calls[3] = Ready(nextOut, f)
    <2> DEFINE a == CopyOver(s, nextOut)
               b == Back(s)
               c == Ready(nextOut, f)
    <2>1. a \in UploadOp /\ b \in UploadOp /\ c \in UploadOp
      BY <1>a, <1>b, <1>c
    <2>2. calls = <<a, b, c>>
      BY <1>z
    <2> HIDE DEF a, b, c
    <2>3. /\ calls \in Seq(UploadOp) /\ Len(calls) = 3 /\ DOMAIN calls = 1 .. 3
          /\ calls[1] = a /\ calls[2] = b /\ calls[3] = c
      BY <2>1, <2>2, Three
    <2>4. QED
      BY <2>3 DEF a, b, c
  <1>3. Upload(s, nextOut) = calls
    BY <1>z DEF Upload
  <1>4. /\ calls[1].call = "copy over" /\ calls[1].from = s /\ calls[1].to = nextOut
        /\ calls[2].call = "release" /\ calls[3].call = "ready" /\ calls[3].slot = nextOut
        /\ calls[3].frame = f
    BY <1>2, <1>a, <1>b, <1>c
  <1>5. Follows(calls, 3, s)
    <2>1. 3 - 1 = 2 /\ 3 - 2 = 1 /\ 3 >= 3
      OBVIOUS
    <2>2. QED
      BY <1>4, <2>1 DEF Follows
  <1>6. \A j \in DOMAIN calls : j = 1 \/ j = 2 \/ j = 3
    BY <1>2
  <1>7. Len(calls) \in 3 .. 5
    BY <1>2
  <1>8. /\ \A j \in DOMAIN calls : j # 2 => calls[j].call # "release"
        /\ \A j \in DOMAIN calls : calls[j].call \in Reading => j = 1
        /\ \A j \in DOMAIN calls : calls[j].call = "ready" => Follows(calls, j, s)
    BY <1>4, <1>5, <1>6 DEF Reading
  <1>9. QED
    BY <1>2, <1>3, <1>4, <1>7, <1>8, Listed

LEMMA CopiedAndTransformed ==
  ASSUME UploadTyped, NEW s \in Pins, s = Head(fifo), NEW i \in Scratches,
         NEW calls,
         calls = <<CopyTo(s, i), Back(s), Transform(i, nextOut),
                   Ready(nextOut, pinned[s].frame), ScratchFree>>,
         NEW n \in 0 .. 5, NEW acquired \in BOOLEAN, Process(calls, n, acquired)
  PROVE  OneFrame(Made(calls, n), s)
  <1> DEFINE f == pinned[s].frame
  <1>1. nextOut \in Outs /\ f \in Nat
    BY PinIs DEF UploadTyped
  <1>a. CopyTo(s, i) \in UploadOp /\ CopyTo(s, i).call = "copy"
        /\ CopyTo(s, i).from = s
        /\ CopyTo(s, i).to = i
    BY <1>1, CopyToIs
  <1>b. Back(s) \in UploadOp /\ Back(s).call = "release"
    BY <1>1, BackIs
  <1>c. Transform(i, nextOut) \in UploadOp /\ Transform(i, nextOut).call = "transform"
        /\ Transform(i, nextOut).from = i
        /\ Transform(i, nextOut).to = nextOut
    BY <1>1, TransformIs
  <1>d. Ready(nextOut, f) \in UploadOp /\ Ready(nextOut, f).call = "ready"
        /\ Ready(nextOut, f).slot = nextOut
        /\ Ready(nextOut, f).frame = f
    BY <1>1, ReadyIs
  <1>e. ScratchFree \in UploadOp /\ ScratchFree.call = "scratch free"
    BY <1>1, ScratchFreeIs
  <1>2. /\ calls \in Seq(UploadOp) /\ Len(calls) = 5 /\ DOMAIN calls = 1 .. 5
        /\ calls[1] = CopyTo(s, i) /\ calls[2] = Back(s) /\ calls[3] = Transform(i, nextOut)
        /\ calls[4] = Ready(nextOut, f) /\ calls[5] = ScratchFree
    <2> DEFINE a == CopyTo(s, i)
               b == Back(s)
               c == Transform(i, nextOut)
               d == Ready(nextOut, f)
               e == ScratchFree
    <2>1. a \in UploadOp /\ b \in UploadOp /\ c \in UploadOp /\ d \in UploadOp /\ e \in UploadOp
      BY <1>a, <1>b, <1>c, <1>d, <1>e
    <2>2. calls = <<a, b, c, d, e>>
      OBVIOUS
    <2> HIDE DEF a, b, c, d, e
    <2>3. /\ calls \in Seq(UploadOp) /\ Len(calls) = 5 /\ DOMAIN calls = 1 .. 5
          /\ calls[1] = a /\ calls[2] = b /\ calls[3] = c /\ calls[4] = d /\ calls[5] = e
      BY <2>1, <2>2, Five
    <2>4. QED
      BY <2>3 DEF a, b, c, d, e
  <1>4. /\ calls[1].call = "copy" /\ calls[1].from = s /\ calls[1].to = i
        /\ calls[2].call = "release"
        /\ calls[3].call = "transform" /\ calls[3].from = i /\ calls[3].to = nextOut
        /\ calls[4].call = "ready" /\ calls[4].slot = nextOut /\ calls[4].frame = f
        /\ calls[5].call = "scratch free"
    BY <1>2, <1>a, <1>b, <1>c, <1>d, <1>e
  <1>5. Follows(calls, 4, s)
    <2>1. 4 - 1 = 3 /\ 4 - 2 = 2 /\ 4 - 3 = 1 /\ 4 >= 4
      OBVIOUS
    <2>2. QED
      BY <1>4, <2>1 DEF Follows
  <1>6. \A j \in DOMAIN calls : j = 1 \/ j = 2 \/ j = 3 \/ j = 4 \/ j = 5
    BY <1>2
  <1>7. Len(calls) \in 3 .. 5
    BY <1>2
  <1>8. /\ \A j \in DOMAIN calls : j # 2 => calls[j].call # "release"
        /\ \A j \in DOMAIN calls : calls[j].call \in Reading => j = 1
        /\ \A j \in DOMAIN calls : calls[j].call = "ready" => Follows(calls, j, s)
    <2>1. \A j \in DOMAIN calls : j # 2 => calls[j].call # "release"
      BY <1>4, <1>6
    <2>2. \A j \in DOMAIN calls : calls[j].call \in Reading => j = 1
      <3>1. ASSUME NEW j \in DOMAIN calls, calls[j].call \in Reading PROVE j = 1
        <4>1. calls[j].call \in {"copy", "copy over", "launch"}
          BY <3>1 DEF Reading
        <4>2. QED
          BY <1>4, <1>6, <4>1
      <3>2. QED
        BY <3>1
    <2>3. \A j \in DOMAIN calls : calls[j].call = "ready" => j = 4
      BY <1>4, <1>6
    <2>4. QED
      BY <1>5, <2>1, <2>2, <2>3
  <1>9. QED
    BY <1>2, <1>4, <1>7, <1>8, Listed

LEMMA Launched ==
  ASSUME UploadTyped, NEW s \in Pins, s = Head(fifo), NEW i \in Scratches,
         NEW calls,
         calls = <<Launch(s, i, nextOut), Back(s), Ready(nextOut, pinned[s].frame), ScratchFree>>,
         NEW n \in 0 .. 4, NEW acquired \in BOOLEAN, Process(calls, n, acquired)
  PROVE  OneFrame(Made(calls, n), s)
  <1> DEFINE f == pinned[s].frame
  <1>1. nextOut \in Outs /\ f \in Nat
    BY PinIs DEF UploadTyped
  <1>a. Launch(s, i, nextOut) \in UploadOp /\ Launch(s, i, nextOut).call = "launch"
        /\ Launch(s, i, nextOut).from = s
        /\ Launch(s, i, nextOut).to = nextOut
    BY <1>1, LaunchIs
  <1>b. Back(s) \in UploadOp /\ Back(s).call = "release"
    BY <1>1, BackIs
  <1>c. Ready(nextOut, f) \in UploadOp /\ Ready(nextOut, f).call = "ready"
        /\ Ready(nextOut, f).slot = nextOut
        /\ Ready(nextOut, f).frame = f
    BY <1>1, ReadyIs
  <1>d. ScratchFree \in UploadOp /\ ScratchFree.call = "scratch free"
    BY <1>1, ScratchFreeIs
  <1>2. /\ calls \in Seq(UploadOp) /\ Len(calls) = 4 /\ DOMAIN calls = 1 .. 4
        /\ calls[1] = Launch(s, i, nextOut) /\ calls[2] = Back(s)
        /\ calls[3] = Ready(nextOut, f) /\ calls[4] = ScratchFree
    <2> DEFINE a == Launch(s, i, nextOut)
               b == Back(s)
               c == Ready(nextOut, f)
               d == ScratchFree
    <2>1. a \in UploadOp /\ b \in UploadOp /\ c \in UploadOp /\ d \in UploadOp
      BY <1>a, <1>b, <1>c, <1>d
    <2>2. calls = <<a, b, c, d>>
      OBVIOUS
    <2> HIDE DEF a, b, c, d
    <2>3. /\ calls \in Seq(UploadOp) /\ Len(calls) = 4 /\ DOMAIN calls = 1 .. 4
          /\ calls[1] = a /\ calls[2] = b /\ calls[3] = c /\ calls[4] = d
      BY <2>1, <2>2, Four
    <2>4. QED
      BY <2>3 DEF a, b, c, d
  <1>4. /\ calls[1].call = "launch" /\ calls[1].from = s /\ calls[1].to = nextOut
        /\ calls[2].call = "release"
        /\ calls[3].call = "ready" /\ calls[3].slot = nextOut /\ calls[3].frame = f
        /\ calls[4].call = "scratch free"
    BY <1>2, <1>a, <1>b, <1>c, <1>d
  <1>5. Follows(calls, 3, s)
    <2>1. 3 - 1 = 2 /\ 3 - 2 = 1 /\ 3 >= 3
      OBVIOUS
    <2>2. QED
      BY <1>4, <2>1 DEF Follows
  <1>6. \A j \in DOMAIN calls : j = 1 \/ j = 2 \/ j = 3 \/ j = 4
    BY <1>2
  <1>7. Len(calls) \in 3 .. 5
    BY <1>2
  <1>8. /\ \A j \in DOMAIN calls : j # 2 => calls[j].call # "release"
        /\ \A j \in DOMAIN calls : calls[j].call \in Reading => j = 1
        /\ \A j \in DOMAIN calls : calls[j].call = "ready" => Follows(calls, j, s)
    BY <1>4, <1>5, <1>6 DEF Reading
  <1>9. QED
    BY <1>2, <1>4, <1>7, <1>8, Listed

LEMMA CopiedAndDropped ==
  ASSUME UploadTyped, NEW s \in Pins, s = Head(fifo), nextScratch \in Scratches,
         NEW n \in 0 .. 3, Process(EagerDropped(s), n, FALSE)
  PROVE  OneFrame(Made(EagerDropped(s), n), s)
  <1> DEFINE i == nextScratch
             calls == <<CopyTo(s, i), Back(s), ScratchFree>>
  <1>1. nextOut \in Outs /\ 0 \in Nat
    BY DEF UploadTyped
  <1>a. CopyTo(s, i) \in UploadOp /\ CopyTo(s, i).call = "copy"
        /\ CopyTo(s, i).from = s
        /\ CopyTo(s, i).to = i
    BY <1>1, CopyToIs
  <1>b. Back(s) \in UploadOp /\ Back(s).call = "release"
    BY <1>1, BackIs
  <1>c. ScratchFree \in UploadOp /\ ScratchFree.call = "scratch free"
    BY <1>1, ScratchFreeIs
  <1>z. calls = <<CopyTo(s, i), Back(s), ScratchFree>>
    OBVIOUS
  <1> HIDE DEF calls
  <1>2. /\ calls \in Seq(UploadOp) /\ Len(calls) = 3 /\ DOMAIN calls = 1 .. 3
        /\ calls[1] = CopyTo(s, i) /\ calls[2] = Back(s) /\ calls[3] = ScratchFree
    <2> DEFINE a == CopyTo(s, i)
               b == Back(s)
               c == ScratchFree
    <2>1. a \in UploadOp /\ b \in UploadOp /\ c \in UploadOp
      BY <1>a, <1>b, <1>c
    <2>2. calls = <<a, b, c>>
      BY <1>z
    <2> HIDE DEF a, b, c
    <2>3. /\ calls \in Seq(UploadOp) /\ Len(calls) = 3 /\ DOMAIN calls = 1 .. 3
          /\ calls[1] = a /\ calls[2] = b /\ calls[3] = c
      BY <2>1, <2>2, Three
    <2>4. QED
      BY <2>3 DEF a, b, c
  <1>3. EagerDropped(s) = calls
    BY <1>z DEF EagerDropped
  <1>4. /\ calls[1].call = "copy" /\ calls[1].from = s
        /\ calls[2].call = "release" /\ calls[3].call = "scratch free"
    BY <1>2, <1>a, <1>b, <1>c
  <1>6. \A j \in DOMAIN calls : j = 1 \/ j = 2 \/ j = 3
    BY <1>2
  <1>7. Len(calls) \in 3 .. 5 /\ FALSE \in BOOLEAN
    BY <1>2
  <1>8. /\ \A j \in DOMAIN calls : j # 2 => calls[j].call # "release"
        /\ \A j \in DOMAIN calls : calls[j].call \in Reading => j = 1
        /\ \A j \in DOMAIN calls : calls[j].call # "ready"
    BY <1>4, <1>6 DEF Reading
  <1>9. QED
    BY <1>2, <1>3, <1>4, <1>7, <1>8, Listed

-----------------------------------------------------------------------------
(* A frame is taken off the queue and its calls are behind what is in the stream. *)
TakenOff(x, s) ==
  /\ fifo # <<>> /\ s = Head(fifo) /\ OneFrame(x, s)
  /\ ops' = ops \o x /\ fifo' = Tail(fifo)
  /\ pinned' = [pinned EXCEPT ![s].owner = "stream"]
  /\ UNCHANGED <<plan, filled, out, scratch>>

LEMMA Taken ==
  ASSUME UploadTyped, Handed, NEW x, NEW s, TakenOff(x, s)
  PROVE  /\ s \in Pins /\ s = fifo[1] /\ 1 \in DOMAIN fifo
         /\ fifo' \in Seq(Pins) /\ Len(fifo') = Len(fifo) - 1 /\ Len(fifo) \in Nat
         /\ DOMAIN fifo' = 1 .. Len(fifo) - 1 /\ DOMAIN fifo = 1 .. Len(fifo)
         /\ \A i \in DOMAIN fifo' : i + 1 \in DOMAIN fifo /\ fifo'[i] = fifo[i + 1]
         /\ \A i \in DOMAIN fifo' : fifo'[i] # s
         /\ pinned' \in [Pins -> Pin] /\ pinned'[s].owner = "stream"
         /\ \A r \in Pins : pinned'[r].frame = pinned[r].frame /\ (r # s => pinned'[r] = pinned[r])
         /\ \A k \in DOMAIN ops : ops[k] # Back(s)
         /\ UNCHANGED <<Scratches, Outs, UploadOp>>
  <1>1. /\ s \in Pins /\ s = fifo[1] /\ 1 \in DOMAIN fifo
        /\ fifo' \in Seq(Pins) /\ Len(fifo') = Len(fifo) - 1 /\ Len(fifo) \in Nat
        /\ DOMAIN fifo' = 1 .. Len(fifo) - 1 /\ DOMAIN fifo = 1 .. Len(fifo)
        /\ \A i \in DOMAIN fifo' : i + 1 \in DOMAIN fifo /\ fifo'[i] = fifo[i + 1]
    BY HeadTailProperties, LenProperties, EmptySeq DEF UploadTyped, TakenOff
  <1>2. \A i \in DOMAIN fifo' : fifo'[i] # s
    BY <1>1 DEF Handed
  <1>3. /\ pinned' \in [Pins -> Pin] /\ pinned'[s].owner = "stream"
        /\ \A r \in Pins : pinned'[r].frame = pinned[r].frame /\ (r # s => pinned'[r] = pinned[r])
    <2>1. pinned \in [Pins -> Pin] /\ pinned' = [pinned EXCEPT ![s].owner = "stream"]
      BY DEF UploadTyped, TakenOff
    <2>2. QED
      <3>1. "stream" \in {"source", "stage", "stream"} /\ s \in Pins
        BY <1>1
      <3>2. QED
        BY <2>1, <3>1, OwnerSet
  <1>4. \A k \in DOMAIN ops : ops[k] # Back(s)
    <2>1. pinned[s].owner = "stage"
      BY <1>1 DEF Handed
    <2>2. Back(s).call = "release" /\ Back(s).slot = s
      BY <1>1, BackIs
    <2>3. QED
      BY <2>1, <2>2 DEF Handed
  <1>5. UNCHANGED <<Scratches, Outs, UploadOp>>
    BY DEF TakenOff, Scratches, Outs, UploadOp
  <1>6. QED
    BY <1>1, <1>2, <1>3, <1>4, <1>5

LEMMA TakenHanded ==
  ASSUME UploadTyped, Handed, NEW x, NEW s, TakenOff(x, s)
  PROVE  Handed'
  <1>1. OneFrame(x, s) /\ x \in Seq(UploadOp) /\ ops \in Seq(UploadOp) /\ ops' = ops \o x
    BY DEF TakenOff, OneFrame, UploadTyped
  <1>2. /\ Len(ops) \in Nat /\ Len(x) \in Nat
        /\ DOMAIN ops' = 1 .. Len(ops) + Len(x) /\ DOMAIN ops = 1 .. Len(ops)
        /\ DOMAIN x = 1 .. Len(x)
        /\ \A k \in 1 .. Len(ops) : ops'[k] = ops[k]
        /\ \A k \in 1 .. Len(x) : ops'[Len(ops) + k] = x[k]
    BY <1>1, Joined
  <1> DEFINE L == Len(ops)
  <1>3. \A k \in DOMAIN ops' : \/ k \in DOMAIN ops /\ ops'[k] = ops[k]
                               \/ k > L /\ k - L \in DOMAIN x /\ ops'[k] = x[k - L]
    BY <1>2
  <1>4. \A k \in DOMAIN x : L + k \in DOMAIN ops' /\ ops'[L + k] = x[k]
    BY <1>2
  <1>5. \A k \in DOMAIN ops : ops[k] \in UploadOp /\ k \in DOMAIN ops' /\ k < L + 1 /\ k \in Nat
    BY <1>1, <1>2
  <1> HIDE DEF L
  <1>6. \A k \in DOMAIN ops : ops[k].call = "release" =>
          ops[k].slot \in Pins /\ ops[k].slot # s /\ ops[k] = Back(ops[k].slot)
    <2> SUFFICES ASSUME NEW k \in DOMAIN ops, ops[k].call = "release"
                 PROVE  ops[k].slot \in Pins /\ ops[k].slot # s /\ ops[k] = Back(ops[k].slot)
      OBVIOUS
    <2>1. ops[k].slot \in Pins /\ ops[k] = Back(ops[k].slot)
      BY <1>5, CallShape
    <2>2. ops[k] # Back(s)
      BY Taken
    <2>3. QED
      BY <2>1, <2>2
  <1>7. PICK j \in DOMAIN x : x[j] = Back(s) /\ \A i \in DOMAIN x : x[i].call = "release" => i = j
    BY <1>1 DEF OneFrame
  <1>8. Back(s).call = "release" /\ Back(s).slot = s /\ s \in Pins
    BY Taken, BackIs
  <1>9. \A i \in DOMAIN fifo' : pinned'[fifo'[i]].owner = "stage"
    <2>1. \A i \in DOMAIN fifo : fifo[i] \in Pins
      BY DEF UploadTyped
    <2>2. QED
      BY <2>1, Taken DEF Handed
  <1>10. \A i, k \in DOMAIN fifo' : fifo'[i] = fifo'[k] => i = k
    <2>1. SUFFICES ASSUME NEW i \in DOMAIN fifo', NEW k \in DOMAIN fifo', fifo'[i] = fifo'[k]
                   PROVE  i = k
      OBVIOUS
    <2>2. /\ i + 1 \in DOMAIN fifo /\ k + 1 \in DOMAIN fifo /\ fifo[i + 1] = fifo[k + 1]
          /\ i \in Int /\ k \in Int
      BY <2>1, Taken
    <2>3. i + 1 = k + 1
      BY <2>2 DEF Handed
    <2>4. QED
      BY <2>2, <2>3
  <1>11. \A k \in DOMAIN ops' : ops'[k].call = "release" => pinned'[ops'[k].slot].owner = "stream"
    <2> SUFFICES ASSUME NEW k \in DOMAIN ops', ops'[k].call = "release"
                 PROVE  pinned'[ops'[k].slot].owner = "stream"
      OBVIOUS
    <2>1. CASE k \in DOMAIN ops /\ ops'[k] = ops[k]
      BY <2>1, <1>6, Taken DEF Handed
    <2>2. CASE k > L /\ k - L \in DOMAIN x /\ ops'[k] = x[k - L]
      BY <2>2, <1>7, <1>8, Taken
    <2>3. QED
      BY <2>1, <2>2, <1>3
  <1>12. \A i, k \in DOMAIN ops' :
           ops'[i].call = "release" /\ ops'[k].call = "release" /\ ops'[i].slot = ops'[k].slot
             => i = k
    <2> SUFFICES ASSUME NEW i \in DOMAIN ops', NEW k \in DOMAIN ops', ops'[i].call = "release",
                        ops'[k].call = "release", ops'[i].slot = ops'[k].slot
                 PROVE  i = k
      OBVIOUS
    <2>0. i \in Int /\ k \in Int /\ L \in Int
      BY <1>2 DEF L
    <2>1. CASE i \in DOMAIN ops /\ k \in DOMAIN ops
      BY <2>1, <1>2 DEF Handed
    <2>2. CASE i \notin DOMAIN ops /\ k \notin DOMAIN ops
      <3>1. i - L \in DOMAIN x /\ ops'[i] = x[i - L] /\ k - L \in DOMAIN x /\ ops'[k] = x[k - L]
        BY <2>2, <1>3
      <3>2. i - L = j /\ k - L = j
        BY <3>1, <1>7
      <3>3. QED
        BY <3>2, <2>0
    <2>3. ASSUME i \in DOMAIN ops, k \notin DOMAIN ops
          PROVE  FALSE
      <3>1. ops'[i] = ops[i] /\ k - L \in DOMAIN x /\ ops'[k] = x[k - L]
        BY <2>3, <1>2, <1>3
      <3>2. ops'[i].slot # s
        BY <2>3, <3>1, <1>6
      <3>3. ops'[k].slot = s
        BY <3>1, <1>7, <1>8
      <3>4. QED
        BY <3>2, <3>3
    <2>4. ASSUME k \in DOMAIN ops, i \notin DOMAIN ops
          PROVE  FALSE
      <3>1. ops'[k] = ops[k] /\ i - L \in DOMAIN x /\ ops'[i] = x[i - L]
        BY <2>4, <1>2, <1>3
      <3>2. ops'[k].slot # s
        BY <2>4, <3>1, <1>6
      <3>3. ops'[i].slot = s
        BY <3>1, <1>7, <1>8
      <3>4. QED
        BY <3>2, <3>3
    <2>5. QED
      BY <2>1, <2>2, <2>3, <2>4
  <1>13. \A k \in DOMAIN ops' : ops'[k].call \in Reading =>
           \E i \in DOMAIN ops' : i > k /\ ops'[i] = Back(ops'[k].from)
    <2> SUFFICES ASSUME NEW k \in DOMAIN ops', ops'[k].call \in Reading
                 PROVE  \E i \in DOMAIN ops' : i > k /\ ops'[i] = Back(ops'[k].from)
      OBVIOUS
    <2>1. CASE k \in DOMAIN ops /\ ops'[k] = ops[k]
      <3>1. PICK i \in DOMAIN ops : i > k /\ ops[i] = Back(ops[k].from)
        BY <2>1 DEF Handed
      <3>2. i \in DOMAIN ops' /\ ops'[i] = ops[i]
        BY <1>2, <1>5
      <3>3. QED
        BY <2>1, <3>1, <3>2
    <2>2. CASE k > L /\ k - L \in DOMAIN x /\ ops'[k] = x[k - L]
      <3>1. PICK i \in DOMAIN x : i > k - L /\ x[i] = Back(s) /\ x[k - L].from = s
        BY <2>2, <1>1 DEF OneFrame
      <3>2. L + i \in DOMAIN ops' /\ ops'[L + i] = Back(ops'[k].from)
        BY <2>2, <3>1, <1>4
      <3>3. L + i > k
        BY <3>1, <1>2 DEF L
      <3>4. QED
        BY <3>2, <3>3
    <2>3. QED
      BY <2>1, <2>2, <1>3
  <1>14. QED
    BY <1>9, <1>10, <1>11, <1>12, <1>13 DEF Handed

LEMMA TakenReady ==
  ASSUME UploadTyped, Handed, AllReady, NEW x, NEW s, TakenOff(x, s)
  PROVE  AllReady'
  <1>1. OneFrame(x, s) /\ x \in Seq(UploadOp) /\ ops \in Seq(UploadOp) /\ ops' = ops \o x
        /\ out' = out /\ scratch' = scratch
    BY DEF TakenOff, OneFrame, UploadTyped
  <1>2. /\ Len(ops) \in Nat /\ Len(x) \in Nat
        /\ DOMAIN ops' = 1 .. Len(ops) + Len(x) /\ DOMAIN ops = 1 .. Len(ops)
        /\ DOMAIN x = 1 .. Len(x)
        /\ \A k \in 1 .. Len(ops) : ops'[k] = ops[k] /\ ops[k] \in UploadOp
        /\ \A k \in 1 .. Len(x) : ops'[Len(ops) + k] = x[k]
    BY <1>1, Joined
  <1> DEFINE L == Len(ops)
  <1>3. \A r \in Pins : pinned'[r].frame = pinned[r].frame
    BY Taken
  <1>4. SUFFICES ASSUME NEW k \in DOMAIN ops', ops'[k].call = "ready"
                 PROVE  (Written(ops[k], k) \/ Transformed(ops[k], k) \/ There(ops[k], k))'
    BY DEF AllReady
  <1>5. CASE k \in 1 .. L
    <2>1. ops'[k] = ops[k] /\ ops[k].call = "ready" /\ k \in Nat
      BY <1>2, <1>4, <1>5
    <2>2. /\ ops'[1] = ops[1]
          /\ k >= 2 => ops'[k - 1] = ops[k - 1] /\ ops[k - 1] \in UploadOp
          /\ k >= 3 => ops'[k - 2] = ops[k - 2] /\ ops[k - 2] \in UploadOp
          /\ k >= 4 => ops'[k - 3] = ops[k - 3] /\ ops[k - 3] \in UploadOp
      BY <1>2, <1>5
    <2>3. Written(ops[k], k) \/ Transformed(ops[k], k) \/ There(ops[k], k)
      BY <1>2, <1>5, <2>1 DEF AllReady
    <2>4. ASSUME Written(ops[k], k)
          PROVE  Written(ops[k], k)'
      <3>1. k >= 3 /\ ops[k - 2].call \in Reading
        BY <2>4 DEF Written, Reading
      <3>2. ops[k - 2].from \in Pins
        BY <2>1, <2>2, <3>1, CallShape
      <3>3. k >= 2
        BY <2>1, <3>1
      <3>4. QED
        BY <1>3, <2>1, <2>2, <2>4, <3>1, <3>2, <3>3 DEF Written
    <2>5. ASSUME Transformed(ops[k], k)
          PROVE  Transformed(ops[k], k)'
      <3>1. k >= 4 => k >= 3 /\ ops[k - 3].from \in Pins
        <4> SUFFICES ASSUME k >= 4
                     PROVE  k >= 3 /\ ops[k - 3].from \in Pins
          OBVIOUS
        <4>1. ops[k - 3].call \in Reading
          BY <2>5 DEF Transformed, Reading
        <4>2. ops[k - 3] \in UploadOp
          BY <2>2
        <4>3. ops[k - 3].from \in Pins
          BY <4>1, <4>2, CallShape
        <4>4. QED
          BY <2>1, <4>3
      <3>2. QED
        BY <1>1, <1>3, <2>1, <2>2, <2>5, <3>1 DEF Transformed
    <2>6. ASSUME There(ops[k], k)
          PROVE  There(ops[k], k)'
      BY <1>1, <2>1, <2>2, <2>6 DEF There
    <2>7. QED
      BY <2>3, <2>4, <2>5, <2>6
  <1>6. CASE k \notin 1 .. L
    <2> DEFINE j == k - L
    <2>1. j \in DOMAIN x /\ ops'[k] = x[j] /\ j \in Nat /\ k \in Nat /\ k = L + j /\ j >= 1
      BY <1>2, <1>6
    <2> HIDE DEF j
    <2>2. /\ j >= 2 => ops'[k - 1] = x[j - 1] /\ k >= 2
          /\ j >= 3 => ops'[k - 2] = x[j - 2] /\ k >= 3
          /\ j >= 4 => ops'[k - 3] = x[j - 3] /\ k >= 4
      <3>1. /\ j >= 2 => ops'[L + (j - 1)] = x[j - 1]
            /\ j >= 3 => ops'[L + (j - 2)] = x[j - 2]
            /\ j >= 4 => ops'[L + (j - 3)] = x[j - 3]
        <4>1. j <= Len(x)
          BY <1>2, <2>1
        <4>2. \A i \in 1 .. Len(x) : ops'[L + i] = x[i]
          BY <1>2
        <4> HIDE DEF L
        <4>0. Len(x) \in Nat /\ j \in Nat
          BY <1>2, <2>1
        <4>3. /\ j >= 2 => j - 1 \in 1 .. Len(x)
              /\ j >= 3 => j - 2 \in 1 .. Len(x)
              /\ j >= 4 => j - 3 \in 1 .. Len(x)
          BY ONLY <4>0, <4>1
        <4>4. QED
          BY <4>2, <4>3
      <3>2. k - 1 = L + (j - 1) /\ k - 2 = L + (j - 2) /\ k - 3 = L + (j - 3)
        BY <1>2, <2>1
      <3>3. (j >= 2 => k >= 2) /\ (j >= 3 => k >= 3) /\ (j >= 4 => k >= 4)
        BY <1>2, <2>1
      <3>4. QED
        BY <3>1, <3>2, <3>3
    <2>3. Follows(x, j, s) /\ s \in Pins
      BY <1>1, <1>4, <2>1, Taken DEF OneFrame
    <2>4. CASE /\ j >= 3 /\ x[j - 1].call = "release" /\ x[j - 2].call \in {"copy over", "launch"}
               /\ x[j - 2].to = x[j].slot /\ x[j - 2].from = s /\ pinned[s].frame = x[j].frame
      <3>1. j >= 3
        BY <2>4, Zenon
      <3>2. j >= 2 /\ k >= 3 /\ ops'[k - 1] = x[j - 1] /\ ops'[k - 2] = x[j - 2]
        BY <2>1, <2>2, <3>1
      <3>3. QED
        BY <1>3, <2>1, <2>3, <2>4, <3>2 DEF Written
    <2>5. CASE /\ j >= 4 /\ x[j - 1].call = "transform" /\ x[j - 1].to = x[j].slot
               /\ x[j - 2].call = "release" /\ x[j - 3].call = "copy" /\ x[j - 3].to = x[j - 1].from
               /\ x[j - 3].from = s /\ pinned[s].frame = x[j].frame
      <3>1. j >= 4
        BY <2>5, Zenon
      <3>2. /\ k >= 4 /\ ops'[k - 1] = x[j - 1] /\ ops'[k - 2] = x[j - 2] /\ ops'[k - 3] = x[j - 3]
            /\ k >= 2
        BY <2>1, <2>2, <3>1
      <3>3. ~(k <= 3)
        BY <2>1, <3>2
      <3>4. QED
        BY <1>3, <2>1, <2>3, <2>5, <3>2, <3>3 DEF Transformed
    <2>6. QED
      BY <2>3, <2>4, <2>5 DEF Follows
  <1>7. QED
    BY <1>5, <1>6

LEMMA TakenTyped ==
  ASSUME UploadTyped, Handed, NEW x, NEW s, TakenOff(x, s), (nextOut \in Outs)',
         (EagerPath => nextScratch \in Scratches)',
         (counts \in [{"uploaded", "dropped", "failed", "fallbacks"} -> Nat])'
  PROVE  UploadTyped'
  <1>1. x \in Seq(UploadOp) /\ ops \in Seq(UploadOp) /\ ops' = ops \o x
    BY DEF TakenOff, OneFrame, UploadTyped
  <1>2. ops' \in Seq(UploadOp)
    BY <1>1, Joined
  <1>3. /\ plan' = plan /\ filled' = filled /\ out' = out /\ scratch' = scratch
    BY DEF TakenOff
  <1>4. UploadOp' = UploadOp /\ Outs' = Outs /\ Scratches' = Scratches
    BY Taken
  <1>5. pinned' \in [Pins -> Pin] /\ fifo' \in Seq(Pins)
    BY Taken
  <1>6. (plan \in Plans /\ ~UploadRefuses(plan))'
    BY <1>3 DEF UploadTyped
  <1>7. (ops \in Seq(UploadOp))' /\ (DOMAIN out = Outs /\ DOMAIN scratch = Scratches)'
    BY <1>2, <1>3, <1>4 DEF UploadTyped
  <1>8. filled' \in Nat
    BY <1>3 DEF UploadTyped
  <1>9. QED
    BY <1>5, <1>6, <1>7, <1>8 DEF UploadTyped

Counters == {"uploaded", "dropped", "failed", "fallbacks"}

LEMMA CountsAre ==
  ASSUME counts \in [Counters -> Nat], NEW calls, NEW n, NEW as \in {"uploaded", "dropped"},
         NEW fell \in BOOLEAN, Counted(calls, n, as, fell)
  PROVE  /\ counts' \in [Counters -> Nat]
         /\ n < Len(calls) => counts'.failed = counts.failed + 1
         /\ ~fell => counts'.fallbacks = counts.fallbacks
  <1> DEFINE count == IF n < Len(calls) THEN "failed" ELSE as
             more == IF fell THEN 1 ELSE 0
             first == [counts EXCEPT ![count] = counts[count] + 1]
  <1>1. count \in {"uploaded", "dropped", "failed"} /\ more \in Nat /\ (~fell => more = 0)
        /\ (n < Len(calls) => count = "failed")
    OBVIOUS
  <1>2. counts' = [counts EXCEPT ![count] = @ + 1, !.fallbacks = @ + more]
    BY DEF Counted
  <1> HIDE DEF count, more
  <1>3. first \in [Counters -> Nat] /\ first.fallbacks = counts.fallbacks
        /\ first[count] = counts[count] + 1
    BY <1>1 DEF Counters
  <1>4. counts' = [first EXCEPT !["fallbacks"] = first["fallbacks"] + more]
    BY <1>1, <1>2, <1>3 DEF Counters
  <1> HIDE DEF first
  <1>5. counts' \in [Counters -> Nat] /\ counts'.fallbacks = first.fallbacks + more
        /\ counts'[count] = first[count]
    BY <1>1, <1>3, <1>4 DEF Counters
  <1>6. counts.fallbacks \in Nat
    BY DEF Counters
  <1>7. QED
    BY <1>1, <1>3, <1>5, <1>6

(* The graph of the slot that is next is the one the next frame was captured for. *)
LEMMA NothingMisplaced ==
  ASSUME UploadTyped, InStep, plan.graph, plan.source = "staged", counts.failed = 0, fifo # <<>>
  PROVE  ~Misplaced
  <1>1. /\ Len(fifo) \in Nat /\ 1 \in DOMAIN fifo /\ Head(fifo) = fifo[1] /\ Len(fifo) <= filled
        /\ filled \in Nat /\ nextOut = (filled - Len(fifo)) % plan.out
        /\ fifo[1] = (filled - Len(fifo) + 1 - 1) % Staging
    BY HeadTailProperties, LenProperties, EmptySeq DEF UploadTyped, InStep
  <1> DEFINE p == filled - Len(fifo)
  <1>2. p \in Nat /\ p + 1 - 1 = p
    BY <1>1
  <1>3. plan.out \in Nat \ {0} /\ Staging \in Nat \ {0} /\ plan.out % Staging = 0
    <2>1. plan.transform /\ plan.scratch # 0 /\ plan.out \in OutSlots
      BY DEF UploadTyped, UploadRefuses, Plans
    <2>2. plan.out % Staging = 0
      BY <2>1 DEF UploadTyped, UploadRefuses
    <2>3. QED
      BY <2>1, <2>2, UploadPathsAssumption
  <1> HIDE DEF p
  <1>4. (p % plan.out) % Staging = p % Staging
    BY <1>2, <1>3, RemainderOfRemainder
  <1>5. Head(fifo) = BakedPin(nextOut)
    BY <1>1, <1>2, <1>4 DEF BakedPin, p
  <1>6. QED
    BY <1>5 DEF Misplaced, FitsGraph

LEMMA StaysInStep ==
  ASSUME UploadTyped, Handed, InStep, NEW x, NEW s, TakenOff(x, s), counts' \in [Counters -> Nat],
         \/ counts'.failed = counts.failed + 1
         \/ counts'.failed = counts.failed /\ nextOut' = (nextOut + 1) % plan.out
         \/ ~plan.graph,
         counts'.fallbacks = counts.fallbacks
  PROVE  InStep'
  <1>0. plan' = plan /\ filled' = filled /\ counts \in [Counters -> Nat] /\ filled \in Nat
    BY DEF TakenOff, UploadTyped, Counters
  <1>1. ~plan.graph => counts'.fallbacks = 0
    BY DEF InStep
  <1>2. ASSUME plan.graph, plan.source = "staged", counts'.failed = 0
        PROVE  /\ counts'.fallbacks = 0 /\ Len(fifo') <= filled
               /\ nextOut' = (filled - Len(fifo')) % plan.out
               /\ \A i \in DOMAIN fifo' : fifo'[i] = (filled - Len(fifo') + i - 1) % Staging
    <2>1. counts.failed = 0 /\ nextOut' = (nextOut + 1) % plan.out
      <3>1. counts.failed \in Nat
        BY <1>0 DEF Counters
      <3>2. QED
        BY <1>2, <3>1
    <2>2. /\ counts.fallbacks = 0 /\ Len(fifo) <= filled
          /\ nextOut = (filled - Len(fifo)) % plan.out
          /\ \A i \in DOMAIN fifo : fifo[i] = (filled - Len(fifo) + i - 1) % Staging
      BY <1>2, <2>1 DEF InStep
    <2>3. /\ Len(fifo') = Len(fifo) - 1 /\ Len(fifo) \in Nat
          /\ \A i \in DOMAIN fifo' : i \in Int /\ i + 1 \in DOMAIN fifo /\ fifo'[i] = fifo[i + 1]
      BY Taken
    <2>4. plan.out \in Nat \ {0}
      BY UploadPathsAssumption DEF UploadTyped, Plans
    <2>5. nextOut' = (filled - Len(fifo')) % plan.out
      <3> DEFINE p == filled - Len(fifo)
      <3>1. p \in Nat /\ filled - Len(fifo') = p + 1
        BY <1>0, <2>2, <2>3
      <3>2. nextOut' = ((p % plan.out) + 1) % plan.out
        BY <2>1, <2>2
      <3> HIDE DEF p
      <3>3. ((p % plan.out) + 1) % plan.out = (p + 1) % plan.out
        BY <3>1, <2>4, NextRemainder
      <3>4. QED
        BY <3>1, <3>2, <3>3
    <2>6. ASSUME NEW i \in DOMAIN fifo'
          PROVE  fifo'[i] = (filled - Len(fifo') + i - 1) % Staging
      <3>1. fifo'[i] = (filled - Len(fifo) + (i + 1) - 1) % Staging
        BY <2>2, <2>3
      <3>2. filled - Len(fifo) + (i + 1) - 1 = filled - Len(fifo') + i - 1
        BY <1>0, <2>3
      <3>3. QED
        BY <3>1, <3>2
    <2>7. Len(fifo') <= filled
      BY <1>0, <2>2, <2>3
    <2>8. QED
      BY <2>2, <2>5, <2>6, <2>7
  <1>3. QED
    BY <1>0, <1>1, <1>2 DEF InStep

(* One frame through process(). *)
LEMMA Processed ==
  ASSUME UploadIInv, NEW calls \in Seq(UploadOp), Len(calls) >= 3, fifo # <<>>,
         NEW n \in 0 .. Len(calls), NEW acquired \in BOOLEAN, NEW fell \in BOOLEAN,
         NEW as \in {"uploaded", "dropped"},
         OneFrame(Made(calls, n), Head(fifo)),
         Process(calls, n, acquired), Counted(calls, n, as, fell),
         fell => Misplaced,
         plan.graph => (n > 0 => acquired)
  PROVE  UploadIInv'
  <1> DEFINE x == Made(calls, n)
             s == Head(fifo)
  <1>1. UploadTyped /\ Handed /\ AllReady /\ InStep
    BY DEF UploadIInv
  <1>2. TakenOff(x, s)
    BY DEF TakenOff, Process
  <1>3. counts \in [Counters -> Nat]
    BY <1>1 DEF UploadTyped, Counters
  <1>4. /\ counts' \in [Counters -> Nat]
        /\ n < Len(calls) => counts'.failed = counts.failed + 1
        /\ ~fell => counts'.fallbacks = counts.fallbacks
    BY <1>3, CountsAre
  <1>5. plan.out \in Nat \ {0} /\ plan' = plan /\ Outs' = Outs /\ Scratches' = Scratches
        /\ Outs = 0 .. plan.out - 1
    BY <1>1, UploadPathsAssumption DEF UploadTyped, Plans, Process, Outs, Scratches
  <1>6. (nextOut \in Outs)'
    <2>1. nextOut \in Nat /\ nextOut + 1 \in Nat
      BY <1>1, <1>5 DEF UploadTyped
    <2>2. (nextOut + 1) % plan.out \in Outs
      BY <1>5, <2>1, Divides
    <2>3. nextOut' = (nextOut + 1) % plan.out \/ nextOut' = nextOut
      BY DEF Process
    <2>4. QED
      BY <1>1, <1>5, <2>2, <2>3 DEF UploadTyped
  <1>7. (EagerPath => nextScratch \in Scratches)'
    <2> SUFFICES ASSUME EagerPath
                 PROVE  nextScratch' \in Scratches
      BY <1>5 DEF EagerPath
    <2>1. nextScratch' = (nextScratch + 1) % plan.scratch
      BY DEF Process
    <2>2. plan.scratch \in Nat \ {0} /\ nextScratch \in Nat
      BY <1>1 DEF UploadTyped, UploadRefuses, Plans, EagerPath, Scratches
    <2>3. nextScratch + 1 \in Nat
      BY <2>2
    <2>4. QED
      BY <2>1, <2>2, <2>3, Divides DEF Scratches
  <1>8. (counts \in [{"uploaded", "dropped", "failed", "fallbacks"} -> Nat])'
    BY <1>4 DEF Counters
  <1> HIDE DEF x, s
  <1>9. UploadTyped' /\ Handed' /\ AllReady'
    BY <1>1, <1>2, <1>6, <1>7, <1>8, TakenTyped, TakenHanded, TakenReady
  <1>10. InStep'
    <2>1. CASE ~plan.graph
      <3>1. ~fell
        BY <2>1 DEF Misplaced
      <3>2. QED
        BY <1>1, <1>2, <1>4, <2>1, <3>1, StaysInStep
    <2>2. CASE plan.graph /\ plan.source = "staged" /\ counts'.failed = 0
      <3>1. counts.failed = 0 /\ n = Len(calls)
        <4>1. counts.failed \in Nat
          BY <1>3 DEF Counters
        <4>2. counts'.failed = counts.failed \/ counts'.failed = counts.failed + 1
          BY <1>3 DEF Counted, Counters
        <4>3. ~(n < Len(calls)) /\ counts.failed = 0
          BY <1>4, <2>2, <4>1, <4>2
        <4>4. QED
          BY <4>3, LenProperties
      <3>2. ~fell
        BY <1>1, <2>2, <3>1, NothingMisplaced
      <3>3. acquired
        BY <2>2, <3>1
      <3>4. nextOut' = (nextOut + 1) % plan.out
        BY <3>3 DEF Process
      <3>5. QED
        BY <1>1, <1>2, <1>4, <2>2, <3>1, <3>2, <3>4, StaysInStep
    <2>3. CASE plan.graph /\ ~(plan.source = "staged" /\ counts'.failed = 0)
      BY <1>5, <2>3 DEF InStep
    <2>4. QED
      BY <2>1, <2>2, <2>3
  <1>11. QED
    BY <1>9, <1>10 DEF UploadIInv

LEMMA TakeStagedStep ==
  ASSUME UploadIInv, TakeStaged
  PROVE  UploadIInv'
  <1> DEFINE s == Head(fifo)
  <1>1. fifo # <<>> /\ s \in Pins /\ UploadTyped
    BY HeadTailProperties DEF TakeStaged, UploadIInv, UploadTyped
  <1>2. nextOut \in Outs /\ pinned[s].frame \in Nat
    BY <1>1, PinIs DEF UploadTyped
  <1>3. /\ plan.transform => plan.scratch \in Nat \ {0}
        /\ EagerPath => nextScratch \in Scratches
    BY <1>1 DEF UploadTyped, UploadRefuses, Plans
  <1> HIDE DEF s
  <1>4. ASSUME NEW calls \in Seq(UploadOp), Len(calls) >= 3, Uploaded(calls),
               \A n \in 0 .. Len(calls), acquired \in BOOLEAN :
                 Process(calls, n, acquired) => OneFrame(Made(calls, n), s)
        PROVE  UploadIInv'
    <2>1. PICK n \in 0 .. Len(calls), acquired \in BOOLEAN, fell \in BOOLEAN :
            /\ n > BeforeAcquire => acquired
            /\ FellBack(n, acquired, fell)
            /\ Process(calls, n, acquired) /\ Counted(calls, n, "uploaded", fell)
      BY <1>4 DEF Uploaded
    <2>2. OneFrame(Made(calls, n), Head(fifo))
      BY <1>4, <2>1 DEF s
    <2>3. fell => Misplaced
      BY <2>1 DEF FellBack
    <2>4. plan.graph => (n > 0 => acquired)
      BY <2>1 DEF BeforeAcquire, EagerPath
    <2>5. "uploaded" \in {"uploaded", "dropped"}
      OBVIOUS
    <2>6. QED
      BY <1>1, <1>4, <2>1, <2>2, <2>3, <2>4, <2>5, Processed
  <1>5. ASSUME Uploaded(Upload(s, nextOut))
        PROVE  UploadIInv'
    <2> DEFINE calls == Upload(s, nextOut)
    <2>1. calls \in Seq(UploadOp) /\ Len(calls) = 3
      <3> DEFINE a == CopyOver(s, nextOut)
                 b == Back(s)
                 c == Ready(nextOut, pinned[s].frame)
      <3>1. a \in UploadOp /\ b \in UploadOp /\ c \in UploadOp
        BY <1>1, <1>2, CopyOverIs, BackIs, ReadyIs
      <3>2. calls = <<a, b, c>>
        BY DEF Upload
      <3> HIDE DEF a, b, c, calls
      <3>3. QED
        BY <3>1, <3>2, Three
    <2>2. \A n \in 0 .. 3, acquired \in BOOLEAN :
            Process(calls, n, acquired) => OneFrame(Made(calls, n), s)
      BY <1>1, CopiedAlone DEF s
    <2>3. Uploaded(calls)
      BY <1>5
    <2> HIDE DEF calls
    <2>4. \A n \in 0 .. Len(calls), acquired \in BOOLEAN :
            Process(calls, n, acquired) => OneFrame(Made(calls, n), s)
      BY <2>1, <2>2
    <2>5. Len(calls) >= 3
      BY <2>1
    <2>6. QED
      BY <1>4, <2>1, <2>4, <2>5, <2>3
  <1>6. ASSUME NEW i \in Scratches, NEW calls, Uploaded(calls),
               calls = <<CopyTo(s, i), Back(s), Transform(i, nextOut),
                         Ready(nextOut, pinned[s].frame), ScratchFree>>
        PROVE  UploadIInv'
    <2>1. calls \in Seq(UploadOp) /\ Len(calls) = 5
      <3> DEFINE a == CopyTo(s, i)
                 b == Back(s)
                 c == Transform(i, nextOut)
                 d == Ready(nextOut, pinned[s].frame)
                 e == ScratchFree
      <3>1. a \in UploadOp /\ b \in UploadOp /\ c \in UploadOp /\ d \in UploadOp /\ e \in UploadOp
        BY <1>1, <1>2, <1>6, CopyToIs, BackIs, TransformIs, ReadyIs, ScratchFreeIs
      <3>2. calls = <<a, b, c, d, e>>
        BY <1>6
      <3> HIDE DEF a, b, c, d, e
      <3>3. QED
        BY <3>1, <3>2, Five
    <2>2. \A n \in 0 .. 5, acquired \in BOOLEAN :
            Process(calls, n, acquired) => OneFrame(Made(calls, n), s)
      BY <1>1, <1>6, CopiedAndTransformed DEF s
    <2>3. \A n \in 0 .. Len(calls), acquired \in BOOLEAN :
            Process(calls, n, acquired) => OneFrame(Made(calls, n), s)
      BY <2>1, <2>2
    <2>4. Len(calls) >= 3
      BY <2>1
    <2>5. QED
      BY <1>4, <2>1, <2>3, <2>4, <1>6
  <1>7. ASSUME NEW i \in Scratches, NEW calls, Uploaded(calls),
               calls = <<Launch(s, i, nextOut), Back(s), Ready(nextOut, pinned[s].frame),
                         ScratchFree>>
        PROVE  UploadIInv'
    <2>1. calls \in Seq(UploadOp) /\ Len(calls) = 4
      <3> DEFINE a == Launch(s, i, nextOut)
                 b == Back(s)
                 c == Ready(nextOut, pinned[s].frame)
                 d == ScratchFree
      <3>1. a \in UploadOp /\ b \in UploadOp /\ c \in UploadOp /\ d \in UploadOp
        BY <1>1, <1>2, <1>7, LaunchIs, BackIs, ReadyIs, ScratchFreeIs
      <3>2. calls = <<a, b, c, d>>
        BY <1>7
      <3> HIDE DEF a, b, c, d
      <3>3. QED
        BY <3>1, <3>2, Four
    <2>2. \A n \in 0 .. 4, acquired \in BOOLEAN :
            Process(calls, n, acquired) => OneFrame(Made(calls, n), s)
      BY <1>1, <1>7, Launched DEF s
    <2>3. \A n \in 0 .. Len(calls), acquired \in BOOLEAN :
            Process(calls, n, acquired) => OneFrame(Made(calls, n), s)
      BY <2>1, <2>2
    <2>4. Len(calls) >= 3
      BY <2>1
    <2>5. QED
      BY <1>4, <2>1, <2>3, <2>4, <1>7
  <1>8. ASSUME EagerPath, Uploaded(Eager(s, nextOut))
        PROVE  UploadIInv'
    BY <1>3, <1>6, <1>8 DEF Eager
  <1>9. ASSUME plan.transform, plan.graph, Uploaded(Graph(s, nextOut))
        PROVE  UploadIInv'
    <2> DEFINE i == BakedScratch(nextOut)
    <2>1. i \in Scratches
      <3>1. plan.scratch \in Nat \ {0} /\ nextOut \in Nat
        BY <1>1, <1>2, <1>3, <1>9, UploadPathsAssumption DEF Outs, UploadTyped, Plans
      <3>2. QED
        BY <3>1, Divides DEF BakedScratch, Scratches
    <2>2. CASE FitsGraph(s, nextOut)
      <3>1. BakedPin(nextOut) = s
        BY <2>2 DEF FitsGraph
      <3>2. Graph(s, nextOut) = <<Launch(s, i, nextOut), Back(s),
                                  Ready(nextOut, pinned[s].frame), ScratchFree>>
        BY <2>2, <3>1 DEF Graph
      <3> HIDE DEF i
      <3>3. QED
        BY <1>7, <1>9, <2>1, <3>2
    <2>3. CASE ~FitsGraph(s, nextOut)
      <3>1. Graph(s, nextOut) = <<CopyTo(s, i), Back(s), Transform(i, nextOut),
                                  Ready(nextOut, pinned[s].frame), ScratchFree>>
        BY <2>3 DEF Graph
      <3> HIDE DEF i
      <3>2. QED
        BY <1>6, <1>9, <2>1, <3>1
    <2>4. QED
      BY <2>2, <2>3
  <1>10. ASSUME EagerPath, Dropped(EagerDropped(s))
         PROVE  UploadIInv'
    <2> DEFINE calls == EagerDropped(s)
    <2>1. calls \in Seq(UploadOp) /\ Len(calls) = 3
      <3> DEFINE a == CopyTo(s, nextScratch)
                 b == Back(s)
                 c == ScratchFree
      <3>1. a \in UploadOp /\ b \in UploadOp /\ c \in UploadOp
        BY <1>1, <1>3, <1>10, CopyToIs, BackIs, ScratchFreeIs
      <3>2. calls = <<a, b, c>>
        BY DEF EagerDropped
      <3> HIDE DEF a, b, c, calls
      <3>3. QED
        BY <3>1, <3>2, Three
    <2>2. PICK n \in 0 .. Len(calls) :
            Process(calls, n, FALSE) /\ Counted(calls, n, "dropped", FALSE)
      BY <1>10 DEF Dropped
    <2>3. OneFrame(Made(calls, n), Head(fifo))
      <3>1. n \in 0 .. 3
        BY <2>1
      <3>2. QED
        BY <1>1, <1>3, <1>10, <2>2, <3>1, CopiedAndDropped DEF s
    <2>4. ~plan.graph /\ FALSE \in BOOLEAN /\ "dropped" \in {"uploaded", "dropped"}
          /\ Len(calls) >= 3
      BY <1>10, <2>1 DEF EagerPath
    <2> HIDE DEF calls
    <2>5. QED
      BY <1>1, <2>1, <2>2, <2>3, <2>4, Processed
  <1>11. QED
    BY <1>5, <1>8, <1>9, <1>10 DEF TakeStaged, s

LEMMA OversizedStep ==
  ASSUME UploadIInv, Oversized
  PROVE  UploadIInv'
  <1> DEFINE s == Head(fifo)
             x == <<Back(s)>>
  <1>1. /\ fifo # <<>> /\ s \in Pins /\ UploadTyped /\ Handed /\ AllReady /\ InStep
        /\ counts \in [Counters -> Nat]
    BY HeadTailProperties DEF Oversized, UploadIInv, UploadTyped, Counters
  <1>2. Back(s) \in UploadOp /\ Back(s).call = "release"
    BY <1>1, BackIs
  <1>3. OneFrame(x, s)
    <2>1. x \in Seq(UploadOp) /\ DOMAIN x = {1} /\ x[1] = Back(s) /\ x[1].call = "release"
      BY <1>2
    <2> HIDE DEF x
    <2>2. x[1].call \notin Reading /\ x[1].call # "ready"
      BY <2>1 DEF Reading
    <2>3. QED
      BY <2>1, <2>2 DEF OneFrame
  <1>4. ops' = ops \o x
    <2>1. ops \in Seq(UploadOp) /\ ops' = Append(ops, Back(s))
      BY <1>1 DEF UploadTyped, Oversized
    <2>2. QED
      BY <1>2, <2>1
  <1>5. TakenOff(x, s)
    BY <1>1, <1>3, <1>4 DEF TakenOff, Oversized
  <1>6. /\ counts' \in [Counters -> Nat] /\ counts'.failed = counts.failed + 1
        /\ counts'.fallbacks = counts.fallbacks
    BY <1>1 DEF Oversized, Counters
  <1>7. (nextOut \in Outs)' /\ (EagerPath => nextScratch \in Scratches)'
    BY <1>1 DEF UploadTyped, Oversized, Outs, Scratches, EagerPath
  <1>8. (counts \in [{"uploaded", "dropped", "failed", "fallbacks"} -> Nat])'
    BY <1>6 DEF Counters
  <1> HIDE DEF x, s
  <1>9. QED
    BY <1>1, <1>5, <1>6, <1>7, <1>8, TakenTyped, TakenHanded, TakenReady, StaysInStep DEF UploadIInv

(* A slot that is the source's is read by nothing that is queued. *)
LEMMA NotRead ==
  ASSUME UploadTyped, Handed
  PROVE  \A k \in DOMAIN ops : ops[k].call \in Reading =>
           ops[k].from \in Pins /\ pinned[ops[k].from].owner = "stream"
  <1> SUFFICES ASSUME NEW k \in DOMAIN ops, ops[k].call \in Reading
               PROVE  ops[k].from \in Pins /\ pinned[ops[k].from].owner = "stream"
    OBVIOUS
  <1>1. ops[k] \in UploadOp
    BY DEF UploadTyped
  <1>2. ops[k].from \in Pins
    BY <1>1, CallShape
  <1>3. PICK j \in DOMAIN ops : ops[j] = Back(ops[k].from)
    BY DEF Handed
  <1>4. ops[j].call = "release" /\ ops[j].slot = ops[k].from
    BY <1>2, <1>3, BackIs
  <1>5. QED
    BY <1>2, <1>4 DEF Handed

LEMMA BringStep ==
  ASSUME UploadIInv, Bring
  PROVE  UploadIInv'
  <1>0. UploadTyped /\ Handed /\ AllReady /\ InStep
    BY DEF UploadIInv
  <1>1. PICK s \in Pins, size \in {"short", "whole", "large"} :
          /\ plan.source = "staged" => s = filled % Staging
          /\ pinned[s].owner = "source"
          /\ pinned' = [pinned EXCEPT ![s] = [frame |-> filled + 1, size |-> size,
                                              owner |-> "stage"]]
          /\ fifo' = Append(fifo, s)
    BY DEF Bring
  <1>2. /\ filled' = filled + 1 /\ filled \in Nat
        /\ UNCHANGED <<plan, nextOut, nextScratch, ops, scratch, out, counts>>
    BY <1>0 DEF Bring, UploadTyped
  <1>3. UploadOp' = UploadOp /\ Outs' = Outs /\ Scratches' = Scratches
    BY <1>2 DEF UploadOp, Outs, Scratches
  <1>4. /\ fifo \in Seq(Pins) /\ fifo' \in Seq(Pins) /\ Len(fifo) \in Nat
        /\ Len(fifo') = Len(fifo) + 1 /\ DOMAIN fifo = 1 .. Len(fifo)
        /\ DOMAIN fifo' = 1 .. Len(fifo) + 1
        /\ \A i \in DOMAIN fifo : fifo'[i] = fifo[i] /\ fifo[i] \in Pins
        /\ fifo'[Len(fifo) + 1] = s
    BY <1>0, <1>1, AppendProperties, LenProperties DEF UploadTyped
  <1>5. /\ pinned' \in [Pins -> Pin] /\ pinned'[s].owner = "stage"
        /\ \A r \in Pins : r # s => pinned'[r] = pinned[r]
    BY <1>0, <1>1, <1>2 DEF UploadTyped, Pin
  <1>6. \A k \in DOMAIN ops : ops[k].call \in Reading =>
          pinned'[ops[k].from].frame = pinned[ops[k].from].frame
    BY <1>0, <1>1, <1>5, NotRead
  <1>7. UploadTyped'
    <2>1. (plan \in Plans /\ ~UploadRefuses(plan))' /\ filled' \in Nat
      BY <1>0, <1>2 DEF UploadTyped
    <2>2. (nextOut \in Outs /\ (EagerPath => nextScratch \in Scratches))'
      BY <1>0, <1>2, <1>3 DEF UploadTyped, EagerPath
    <2>3. (ops \in Seq(UploadOp))' /\ (DOMAIN out = Outs /\ DOMAIN scratch = Scratches)'
          /\ (counts \in [{"uploaded", "dropped", "failed", "fallbacks"} -> Nat])'
      BY <1>0, <1>2, <1>3 DEF UploadTyped
    <2>4. QED
      BY <1>4, <1>5, <2>1, <2>2, <2>3 DEF UploadTyped
  <1>8. Handed'
    <2>1. \A i \in DOMAIN fifo : fifo[i] # s
      BY <1>0, <1>1 DEF Handed
    <2>2. (\A i \in DOMAIN fifo : pinned[fifo[i]].owner = "stage")'
      BY <1>0, <1>4, <1>5, <2>1 DEF Handed
    <2>3. (\A i, j \in DOMAIN fifo : fifo[i] = fifo[j] => i = j)'
      BY <1>0, <1>4, <2>1 DEF Handed
    <2>4. (\A k \in DOMAIN ops : ops[k].call = "release" => pinned[ops[k].slot].owner = "stream")'
      <3> SUFFICES ASSUME NEW k \in DOMAIN ops, ops[k].call = "release"
                   PROVE  pinned'[ops[k].slot].owner = "stream"
        BY <1>2
      <3>1. ops[k] \in UploadOp /\ pinned[ops[k].slot].owner = "stream"
        BY <1>0 DEF UploadTyped, Handed
      <3>2. ops[k].slot \in Pins /\ ops[k].slot # s
        BY <1>1, <3>1, CallShape
      <3>3. QED
        BY <1>5, <3>1, <3>2
    <2>5. QED
      BY <1>0, <1>2, <2>2, <2>3, <2>4 DEF Handed
  <1>9. AllReady'
    <2> SUFFICES ASSUME NEW k \in DOMAIN ops, ops[k].call = "ready"
                 PROVE  (Written(ops[k], k) \/ Transformed(ops[k], k) \/ There(ops[k], k))'
      BY <1>2 DEF AllReady
    <2>1. ops \in Seq(UploadOp) /\ k \in Nat /\ k >= 1 /\ DOMAIN ops = 1 .. Len(ops)
          /\ Len(ops) \in Nat
      BY <1>0, LenProperties DEF UploadTyped
    <2>2. (k >= 3 => k - 2 \in DOMAIN ops) /\ (k >= 4 => k - 3 \in DOMAIN ops)
      BY <2>1
    <2>3. ASSUME Written(ops[k], k)
          PROVE  Written(ops[k], k)'
      <3>1. k >= 3 /\ ops[k - 2].call \in Reading
        BY <2>3 DEF Written, Reading
      <3>2. QED
        BY <1>2, <1>6, <2>2, <2>3, <3>1 DEF Written
    <2>4. ASSUME Transformed(ops[k], k)
          PROVE  Transformed(ops[k], k)'
      <3>1. k >= 4 => ops[k - 3].call \in Reading /\ k - 3 \in DOMAIN ops
        BY <2>2, <2>4 DEF Transformed, Reading
      <3>2. k >= 4 => pinned'[ops[k - 3].from].frame = pinned[ops[k - 3].from].frame
        BY <1>6, <3>1
      <3>3. QED
        BY <1>2, <2>4, <3>2 DEF Transformed
    <2>5. ASSUME There(ops[k], k)
          PROVE  There(ops[k], k)'
      BY <1>2, <2>5 DEF There
    <2>6. QED
      BY <1>0, <2>3, <2>4, <2>5 DEF AllReady
  <1>10. InStep'
    <2>1. ~plan.graph => counts'.fallbacks = 0
      BY <1>0, <1>2 DEF InStep
    <2>2. ASSUME plan.graph, plan.source = "staged", counts'.failed = 0
          PROVE  /\ counts'.fallbacks = 0 /\ Len(fifo') <= filled'
                 /\ nextOut' = (filled' - Len(fifo')) % plan.out
                 /\ \A i \in DOMAIN fifo' : fifo'[i] = (filled' - Len(fifo') + i - 1) % Staging
      <3>1. /\ counts.fallbacks = 0 /\ Len(fifo) <= filled
            /\ nextOut = (filled - Len(fifo)) % plan.out
            /\ \A i \in DOMAIN fifo : fifo[i] = (filled - Len(fifo) + i - 1) % Staging
        BY <1>0, <1>2, <2>2 DEF InStep
      <3>2. filled' - Len(fifo') = filled - Len(fifo)
        BY <1>2, <1>4
      <3>3. ASSUME NEW i \in DOMAIN fifo'
            PROVE  fifo'[i] = (filled - Len(fifo) + i - 1) % Staging
        <4>1. CASE i \in DOMAIN fifo
          BY <4>1, <3>1, <1>4
        <4>2. CASE i = Len(fifo) + 1
          <5>1. fifo'[i] = filled % Staging
            BY <1>1, <1>4, <2>2, <4>2
          <5>2. filled - Len(fifo) + i - 1 = filled
            BY <1>2, <1>4, <4>2
          <5>3. QED
            BY <5>1, <5>2
        <4>3. QED
          BY <4>1, <4>2, <1>4
      <3>4. Len(fifo') <= filled'
        BY <1>2, <1>4, <3>1
      <3>5. QED
        BY <1>2, <3>1, <3>2, <3>3, <3>4
    <2>3. QED
      BY <1>2, <2>1, <2>2 DEF InStep
  <1>11. QED
    BY <1>7, <1>8, <1>9, <1>10 DEF UploadIInv

(* What the device does is what the next call is found to be behind. *)
LEMMA UploadStreamStep ==
  ASSUME UploadIInv, UploadStream
  PROVE  UploadIInv'
  <1>0. UploadTyped /\ Handed /\ AllReady /\ InStep
    BY DEF UploadIInv
  <1> DEFINE c == ops[1]
  <1>1. UNCHANGED <<plan, fifo, filled, nextOut, nextScratch, counts>>
    BY DEF UploadStream
  <1>2. UploadOp' = UploadOp /\ Outs' = Outs /\ Scratches' = Scratches
    BY <1>1 DEF UploadOp, Outs, Scratches
  <1>3. /\ ops \in Seq(UploadOp) /\ ops # <<>> /\ Head(ops) = c /\ ops' = Tail(ops)
        /\ ops' \in Seq(UploadOp) /\ Len(ops) \in Nat /\ DOMAIN ops = 1 .. Len(ops)
        /\ DOMAIN ops' = 1 .. Len(ops) - 1 /\ 1 \in DOMAIN ops
        /\ \A k \in 1 .. Len(ops) - 1 : ops'[k] = ops[k + 1]
    <2>1. ops \in Seq(UploadOp) /\ ops # <<>> /\ ops' = Tail(ops)
      BY <1>0 DEF UploadStream, UploadTyped
    <2>2. Len(ops) \in Nat /\ DOMAIN ops = 1 .. Len(ops) /\ Len(ops) # 0
      BY <2>1, LenProperties, EmptySeq
    <2>3. /\ Head(ops) = ops[1] /\ ops' \in Seq(UploadOp) /\ Len(ops') = Len(ops) - 1
          /\ \A k \in 1 .. Len(ops') : ops'[k] = ops[k + 1]
      BY <2>1, HeadTailProperties
    <2>4. DOMAIN ops' = 1 .. Len(ops) - 1
      BY <2>3, LenProperties
    <2>5. QED
      BY <2>1, <2>2, <2>3, <2>4
  <1>4. \A k \in DOMAIN ops' : /\ k \in Nat /\ k >= 1 /\ k + 1 \in DOMAIN ops
                               /\ ops'[k] = ops[k + 1]
    BY <1>3
  <1>5. \A k \in DOMAIN ops : k \in Nat /\ k >= 1 /\ ops[k] \in UploadOp
                              /\ (k > 1 => k - 1 \in DOMAIN ops' /\ ops'[k - 1] = ops[k])
    BY <1>3
  <1>6. c \in UploadOp
    BY <1>3, <1>5
  <1>7. /\ pinned' = IF c.call = "release" THEN [pinned EXCEPT ![c.slot].owner = "source"]
                     ELSE pinned
        /\ scratch' = IF c.call = "copy" THEN [scratch EXCEPT ![c.to] = pinned[c.from].frame]
                      ELSE IF c.call = "launch"
                      THEN [scratch EXCEPT ![c.by] = pinned[c.from].frame] ELSE scratch
        /\ out' = IF c.call = "transform" THEN [out EXCEPT ![c.to] = scratch[c.from]]
                  ELSE IF c.call \in {"copy over", "launch"}
                  THEN [out EXCEPT ![c.to] = pinned[c.from].frame] ELSE out
    BY <1>3 DEF UploadStream
  <1>8. /\ pinned' \in [Pins -> Pin]
        /\ \A r \in Pins : pinned'[r].frame = pinned[r].frame
        /\ \A r \in Pins : ~(c.call = "release" /\ r = c.slot) => pinned'[r] = pinned[r]
    <2>1. CASE c.call = "release"
      <3>1. c.slot \in Pins /\ "source" \in {"source", "stage", "stream"}
        BY <1>6, <2>1, CallShape
      <3>2. pinned \in [Pins -> Pin] /\ pinned' = [pinned EXCEPT ![c.slot].owner = "source"]
        BY <1>0, <1>7, <2>1 DEF UploadTyped
      <3> DEFINE s == c.slot
      <3>3. s \in Pins /\ pinned' = [pinned EXCEPT ![s].owner = "source"]
        BY <3>1, <3>2
      <3> HIDE DEF c, s
      <3>4. /\ pinned' \in [Pins -> Pin]
            /\ \A q \in Pins : pinned'[q].frame = pinned[q].frame
                              /\ (q # s => pinned'[q] = pinned[q])
        BY <3>1, <3>2, <3>3, OwnerSet
      <3>5. QED
        BY <2>1, <3>4 DEF s
    <2>2. CASE c.call # "release"
      BY <1>0, <1>7, <2>2 DEF UploadTyped
    <2>3. QED
      BY <2>1, <2>2
  <1>9. DOMAIN out' = Outs /\ DOMAIN scratch' = Scratches
    BY <1>0, <1>7 DEF UploadTyped
  <1>10. UploadTyped'
    <2>1. (plan \in Plans /\ ~UploadRefuses(plan))' /\ filled' \in Nat /\ (fifo \in Seq(Pins))'
      BY <1>0, <1>1 DEF UploadTyped
    <2>2. (nextOut \in Outs /\ (EagerPath => nextScratch \in Scratches))'
      BY <1>0, <1>1, <1>2 DEF UploadTyped, EagerPath
    <2>3. (counts \in [{"uploaded", "dropped", "failed", "fallbacks"} -> Nat])'
      BY <1>0, <1>1 DEF UploadTyped
    <2>4. QED
      BY <1>2, <1>3, <1>8, <1>9, <2>1, <2>2, <2>3 DEF UploadTyped
  <1>11. Handed'
    <2>1. \A i \in DOMAIN fifo : pinned'[fifo[i]].owner = "stage"
      <3> SUFFICES ASSUME NEW i \in DOMAIN fifo
                   PROVE  pinned'[fifo[i]].owner = "stage"
        OBVIOUS
      <3>1. fifo[i] \in Pins /\ pinned[fifo[i]].owner = "stage"
        BY <1>0 DEF UploadTyped, Handed
      <3>2. c.call = "release" => pinned[c.slot].owner = "stream"
        BY <1>0, <1>3 DEF Handed
      <3>3. QED
        BY <1>8, <3>1, <3>2
    <2>2. (\A k \in DOMAIN ops : ops[k].call = "release" => pinned[ops[k].slot].owner = "stream")'
      <3> SUFFICES ASSUME NEW k \in DOMAIN ops', ops'[k].call = "release"
                   PROVE  pinned'[ops'[k].slot].owner = "stream"
        OBVIOUS
      <3>1. /\ ops'[k] = ops[k + 1] /\ k + 1 \in DOMAIN ops /\ k + 1 # 1
            /\ ops[k + 1] \in UploadOp
        BY <1>4, <1>5
      <3>2. ops[k + 1].slot \in Pins /\ pinned[ops[k + 1].slot].owner = "stream"
        BY <1>0, <3>1, CallShape DEF Handed
      <3>3. ~(c.call = "release" /\ ops[k + 1].slot = c.slot)
        BY <1>0, <1>3, <3>1 DEF Handed
      <3>4. QED
        BY <1>8, <3>1, <3>2, <3>3
    <2>3. (\A j, k \in DOMAIN ops : ops[j].call = "release" /\ ops[k].call = "release"
                                      /\ ops[j].slot = ops[k].slot => j = k)'
      <3> SUFFICES ASSUME NEW j \in DOMAIN ops', NEW k \in DOMAIN ops', ops'[j].call = "release",
                          ops'[k].call = "release", ops'[j].slot = ops'[k].slot
                   PROVE  j = k
        OBVIOUS
      <3>1. /\ j + 1 \in DOMAIN ops /\ k + 1 \in DOMAIN ops /\ ops'[j] = ops[j + 1]
            /\ ops'[k] = ops[k + 1] /\ j \in Nat /\ k \in Nat
        BY <1>4
      <3>2. j + 1 = k + 1
        BY <1>0, <3>1 DEF Handed
      <3>3. QED
        BY <3>1, <3>2
    <2>4. (\A k \in DOMAIN ops : ops[k].call \in Reading =>
             \E j \in DOMAIN ops : j > k /\ ops[j] = Back(ops[k].from))'
      <3> SUFFICES ASSUME NEW k \in DOMAIN ops', ops'[k].call \in Reading
                   PROVE  \E j \in DOMAIN ops' : j > k /\ ops'[j] = Back(ops'[k].from)
        BY DEF Back
      <3>1. ops'[k] = ops[k + 1] /\ k + 1 \in DOMAIN ops /\ k \in Nat
        BY <1>4
      <3>2. PICK j \in DOMAIN ops : j > k + 1 /\ ops[j] = Back(ops[k + 1].from)
        BY <1>0, <3>1 DEF Handed
      <3>3. j - 1 \in DOMAIN ops' /\ ops'[j - 1] = ops[j] /\ j - 1 > k
        BY <1>5, <3>1, <3>2
      <3>4. QED
        BY <3>1, <3>2, <3>3
    <2>5. QED
      BY <1>0, <1>1, <2>1, <2>2, <2>3, <2>4 DEF Handed
  <1>12. AllReady'
    <2> SUFFICES ASSUME NEW k \in DOMAIN ops', ops'[k].call = "ready"
                 PROVE  (Written(ops[k], k) \/ Transformed(ops[k], k) \/ There(ops[k], k))'
      BY DEF AllReady
    <2> DEFINE r == ops[k + 1]
    <2>1. /\ k \in Nat /\ k >= 1 /\ ops'[k] = r /\ k + 1 \in DOMAIN ops /\ r \in UploadOp
          /\ r.call = "ready" /\ r.slot \in Outs
      BY <1>4, <1>5, CallShape
    <2>2. /\ k >= 2 => ops'[k - 1] = ops[k] /\ k \in DOMAIN ops /\ ops[k] \in UploadOp
          /\ k >= 3 => ops'[k - 2] = ops[k - 1] /\ k - 1 \in DOMAIN ops /\ ops[k - 1] \in UploadOp
          /\ k >= 4 => ops'[k - 3] = ops[k - 2] /\ k - 2 \in DOMAIN ops /\ ops[k - 2] \in UploadOp
      <3>1. PICK l \in Nat : l = Len(ops)
        BY <1>3
      <3>2. k \in 1 .. l - 1
        BY <1>3, <3>1
      <3>3. /\ k >= 2 => k - 1 \in 1 .. l - 1 /\ k \in 1 .. l
            /\ k >= 3 => k - 2 \in 1 .. l - 1 /\ k - 1 \in 1 .. l
            /\ k >= 4 => k - 3 \in 1 .. l - 1 /\ k - 2 \in 1 .. l
        BY ONLY <3>1, <3>2
      <3>4. \A j \in 1 .. l - 1 : ops'[j] = ops[j + 1]
        BY <1>3, <3>1
      <3>5. \A j \in 1 .. l : j \in DOMAIN ops /\ ops[j] \in UploadOp
        BY <1>3, <1>5, <3>1
      <3>6. k - 1 + 1 = k /\ k - 2 + 1 = k - 1 /\ k - 3 + 1 = k - 2
        BY <2>1
      <3>7. QED
        BY ONLY <3>3, <3>4, <3>5, <3>6
    <2>3. Written(r, k + 1) \/ Transformed(r, k + 1) \/ There(r, k + 1)
      BY <1>0, <2>1 DEF AllReady
    <2>4. /\ (k + 1) - 1 = k /\ (k + 1) - 2 = k - 1 /\ (k + 1) - 3 = k - 2
          /\ (k + 1 >= 2) /\ (k + 1 >= 3 <=> k >= 2) /\ (k + 1 >= 4 <=> k >= 3)
          /\ (k + 1 <= 3 <=> k <= 2) /\ k + 1 # 1 /\ (k + 1 = 2 <=> k = 1)
      BY <2>1
    <2> HIDE DEF r
    <2>5. ASSUME Written(r, k + 1)
          PROVE  Written(ops[k], k)' \/ There(ops[k], k)'
      <3>1. /\ k >= 2 /\ ops[k].call = "release" /\ ops[k - 1].call \in {"copy over", "launch"}
            /\ ops[k - 1].to = r.slot /\ pinned[ops[k - 1].from].frame = r.frame
        BY <2>4, <2>5 DEF Written
      <3>0. k >= 2
        BY <2>4, <2>5 DEF Written
      <3>2. CASE k >= 3
        <4>1. ops[k - 1].from \in Pins
          BY <2>2, <3>1, <3>2, CallShape DEF Reading
        <4>2. Written(ops[k], k)'
          BY <1>8, <2>1, <2>2, <3>1, <3>2, <4>1 DEF Written
        <4>3. QED
          BY <4>2
      <3>3. CASE k = 2
        <4>1. k - 1 = 1 /\ c.call \in {"copy over", "launch"} /\ c.to = r.slot
              /\ pinned[c.from].frame = r.frame
          <5>1. k - 1 = 1
            BY <3>3
          <5>2. ops[k - 1] = c
            BY <5>1
          <5>3. QED
            BY <3>1, <5>1, <5>2
        <4>2. out' = [out EXCEPT ![r.slot] = r.frame]
          BY <1>7, <4>1
        <4>3. out'[r.slot] = r.frame
          BY <1>0, <2>1, <4>2 DEF UploadTyped
        <4>4. ops'[1].call = "release"
          BY <2>2, <3>1, <3>3, <4>1
        <4>5. There(ops[k], k)'
          BY <2>1, <3>3, <4>3, <4>4 DEF There
        <4>6. QED
          BY <4>5
      <3>4. k \in Nat /\ k >= 2
        BY <2>1, <3>0
      <3>5. k >= 3 \/ k = 2
        BY ONLY <3>4
      <3>6. QED
        BY <3>2, <3>3, <3>5
    <2>6. ASSUME Transformed(r, k + 1)
          PROVE  Transformed(ops[k], k)' \/ There(ops[k], k)'
      <3>1. /\ ops[k].call = "transform" /\ ops[k].to = r.slot
            /\ k >= 2 => ops[k - 1].call = "release"
            /\ k <= 2 => scratch[ops[k].from] = r.frame
            /\ k >= 3 => /\ ops[k - 2].call = "copy" /\ ops[k - 2].to = ops[k].from
                         /\ pinned[ops[k - 2].from].frame = r.frame
        BY <2>4, <2>6 DEF Transformed
      <3>2. CASE k = 1
        <4>1. c.call = "transform" /\ c.to = r.slot /\ scratch[c.from] = r.frame
          <5>1. ops[k] = c /\ k <= 2
            BY <3>2
          <5>2. QED
            BY <3>1, <5>1
        <4>2. out' = [out EXCEPT ![r.slot] = r.frame]
          BY <1>7, <4>1
        <4>3. out'[r.slot] = r.frame
          BY <1>0, <2>1, <4>2 DEF UploadTyped
        <4>5. ops'[k] = r
          BY <2>1
        <4>6. There(ops[k], k)'
          <5>1. out'[ops'[k].slot] = ops'[k].frame
            BY <4>3, <4>5
          <5>2. QED
            BY <3>2, <5>1 DEF There
        <4>7. QED
          BY <4>6
      <3>3. CASE k = 2
        <4>1. c.call = "release" /\ k - 1 = 1
          BY <3>1, <3>3
        <4>2. scratch' = scratch
          BY <1>7, <4>1
        <4>3. Transformed(ops[k], k)'
          BY <2>1, <2>2, <3>1, <3>3, <4>2 DEF Transformed
        <4>4. QED
          BY <4>3
      <3>4. CASE k = 3
        <4>1. k - 2 = 1 /\ c.call = "copy" /\ c.to = ops[k].from /\ pinned[c.from].frame = r.frame
          BY <3>1, <3>4
        <4>2. scratch' = [scratch EXCEPT ![ops[k].from] = r.frame]
          BY <1>7, <4>1
        <4>3. ops[k].from \in Scratches
          <5>1. k >= 2
            BY <3>4
          <5>2. ops[k] \in UploadOp /\ ops[k].call = "transform"
            BY <2>2, <3>1, <5>1
          <5>3. QED
            BY <5>2, CallShape
        <4>4. scratch'[ops[k].from] = r.frame
          BY <1>0, <4>2, <4>3 DEF UploadTyped
        <4>5. Transformed(ops[k], k)'
          BY <2>1, <2>2, <3>1, <3>4, <4>4 DEF Transformed
        <4>6. QED
          BY <4>5
      <3>5. CASE k >= 4
        <4>1. k >= 3 /\ k >= 2 /\ ~(k <= 3) /\ ops[k - 2].call \in Reading
          <5>1. k \in Nat
            BY <2>1
          <5>2. k >= 3 /\ k >= 2 /\ ~(k <= 3)
            BY ONLY <3>5, <5>1
          <5>3. QED
            BY <3>1, <5>2 DEF Reading
        <4>2. ops[k - 2].from \in Pins
          BY <2>2, <3>5, <4>1, CallShape
        <4>3. Transformed(ops[k], k)'
          BY <1>8, <2>1, <2>2, <3>1, <3>5, <4>1, <4>2 DEF Transformed
        <4>4. QED
          BY <4>3
      <3>6. QED
        BY <2>1, <3>2, <3>3, <3>4, <3>5
    <2>7. ASSUME There(r, k + 1)
          PROVE  There(ops[k], k)'
      <3>1. k = 1 /\ c.call = "release" /\ out[r.slot] = r.frame
        BY <2>4, <2>7 DEF There
      <3>2. out' = out
        BY <1>7, <3>1
      <3>3. ops'[k] = r
        BY <2>1
      <3>4. k = 1 /\ out'[ops'[k].slot] = ops'[k].frame
        BY <3>1, <3>2, <3>3
      <3>5. QED
        BY <3>4 DEF There
    <2>8. QED
      BY <2>3, <2>5, <2>6, <2>7
  <1>13. InStep'
    BY <1>0, <1>1 DEF InStep
  <1>14. QED
    BY <1>10, <1>11, <1>12, <1>13 DEF UploadIInv

LEMMA UploadInit ==
  UploadPathsInit => UploadIInv
  <1> SUFFICES ASSUME UploadPathsInit
               PROVE  UploadIInv
    OBVIOUS
  <1> USE DEF UploadPathsInit
  <1>1. /\ plan \in Plans /\ ~UploadRefuses(plan) /\ plan.out \in Nat \ {0}
        /\ plan.scratch \in 0 .. 2
    BY UploadPathsAssumption DEF Plans
  <1>2. /\ fifo \in Seq(Pins) /\ DOMAIN fifo = {} /\ Len(fifo) = 0
        /\ ops \in Seq(UploadOp) /\ DOMAIN ops = {}
    OBVIOUS
  <1>3. pinned \in [Pins -> Pin] /\ filled \in Nat /\ nextOut \in Outs
    BY <1>1 DEF Pin, Outs
  <1>4. EagerPath => nextScratch \in Scratches
    BY <1>1 DEF EagerPath, Scratches, UploadRefuses, Plans
  <1>5. DOMAIN out = Outs /\ DOMAIN scratch = Scratches
    BY DEF Outs, Scratches
  <1>6. counts \in [{"uploaded", "dropped", "failed", "fallbacks"} -> Nat] /\ counts.fallbacks = 0
    OBVIOUS
  <1>7. UploadTyped
    BY <1>1, <1>2, <1>3, <1>4, <1>5, <1>6 DEF UploadTyped
  <1>8. Handed /\ AllReady
    BY <1>2 DEF Handed, AllReady
  <1>9. InStep
    <2>1. (filled - Len(fifo)) % plan.out = 0
      <3>0. filled = 0 /\ Len(fifo) = 0 /\ 0 \in Nat
        BY <1>2
      <3>1. filled - Len(fifo) = 0
        BY ONLY <3>0
      <3>2. 0 % plan.out \in 0 .. plan.out - 1 /\ 0 = plan.out * (0 \div plan.out) + (0 % plan.out)
            /\ 0 \div plan.out \in Nat
        BY ONLY <1>1, <3>0, Divides
      <3>3. plan.out * (0 \div plan.out) + (0 % plan.out) = plan.out * 0 + 0 /\ 0 \in 0 .. plan.out - 1
            /\ 0 \in Int /\ 0 \div plan.out \in Int
        BY <1>1, <3>2
      <3>4. 0 % plan.out = 0
        BY <1>1, <3>2, <3>3, OneRemainder
      <3>5. QED
        BY <3>1, <3>4
    <2>2. QED
      BY <1>2, <1>3, <1>6, <2>1 DEF InStep
  <1>10. QED
    BY <1>7, <1>8, <1>9 DEF UploadIInv

LEMMA UploadKeeps ==
  UploadIInv /\ UploadPathsNext => UploadIInv'
  BY BringStep, TakeStagedStep, OversizedStep, UploadStreamStep DEF UploadPathsNext

LEMMA UploadRests ==
  ASSUME UploadIInv, UNCHANGED uploadPathVars
  PROVE  UploadIInv'
  <1> USE DEF uploadPathVars
  <1>1. Outs' = Outs /\ Scratches' = Scratches /\ EagerPath' = EagerPath
    BY DEF Outs, Scratches, EagerPath
  <1>2. UploadOp' = UploadOp
    BY <1>1 DEF UploadOp
  <1>3. UploadRefuses(plan)' = UploadRefuses(plan)
    BY DEF UploadRefuses
  <1>4. UploadTyped'
    BY <1>1, <1>2, <1>3 DEF UploadIInv, UploadTyped
  <1>5. Handed'
    BY DEF UploadIInv, Handed
  <1>6. AllReady'
    <2> SUFFICES ASSUME NEW k \in DOMAIN ops, ops[k].call = "ready"
                 PROVE  (Written(ops[k], k) \/ Transformed(ops[k], k) \/ There(ops[k], k))'
      BY DEF AllReady
    <2>1. Written(ops[k], k) \/ Transformed(ops[k], k) \/ There(ops[k], k)
      BY DEF UploadIInv, AllReady
    <2>2. Written(ops[k], k)' = Written(ops[k], k)
      BY DEF Written
    <2>3. Transformed(ops[k], k)' = Transformed(ops[k], k)
      BY DEF Transformed
    <2>4. There(ops[k], k)' = There(ops[k], k)
      BY DEF There
    <2>5. QED
      BY ONLY <2>1, <2>2, <2>3, <2>4
  <1>7. InStep'
    BY DEF UploadIInv, InStep
  <1>8. QED
    BY <1>4, <1>5, <1>6, <1>7 DEF UploadIInv

LEMMA UploadHolds ==
  UploadIInv => UploadPathsTrue
  <1> SUFFICES ASSUME UploadTyped, Handed, AllReady, InStep
               PROVE  UploadPathsTrue
    BY DEF UploadIInv
  <1>1. PublishedTrue
    <2> SUFFICES ASSUME 1 \in DOMAIN ops, ops[1].call = "ready"
                 PROVE  out[ops[1].slot] = ops[1].frame
      BY DEF PublishedTrue
    <2>1. Written(ops[1], 1) \/ Transformed(ops[1], 1) \/ There(ops[1], 1)
      BY DEF AllReady
    <2>2. ~(1 >= 3) /\ ~(1 >= 2)
      OBVIOUS
    <2>3. There(ops[1], 1)
      BY <2>1, <2>2 DEF Written, Transformed
    <2>4. QED
      BY <2>3 DEF There
  <1>2. CopiesFirst
    BY NotRead DEF CopiesFirst, Reading
  <1>3. Lockstep
    BY DEF Lockstep, InStep
  <1>4. QED
    BY <1>1, <1>2, <1>3 DEF UploadPathsTrue

-----------------------------------------------------------------------------
(* The engines.  What a buffer holds when the k-th thing of the stream is done is  *)
(* what the last thing before it put there, or what it holds now if there is none.  *)

Since(hits, good, now, k) ==
  \/ now /\ \A m \in 1 .. k - 1 : m \notin hits
  \/ \E j \in good : j < k /\ \A m \in j + 1 .. k - 1 : m \notin hits

Buffers == DOMAIN wiring
PictureOf(b, n) == <<IF b = "left" THEN 0 ELSE 1, n>>
OwnOf(n) == [r \in Buffers |-> PictureOf(r, n)]

KindAt(kinds) == {k \in DOMAIN work : work[k].kind \in kinds}
ReadInto(b) == {k \in KindAt({"read"}) : work[k].into = b}
SampledAt(s) == {k \in KindAt({"sample"}) : work[k].slot = s}

InputIs(b, n, k) ==
  Since(ReadInto(b), {j \in ReadInto(b) : work[j].picture = PictureOf(b, n)},
        input[b] = PictureOf(b, n), k)
InputsAre(n, k) == \A b \in Buffers : InputIs(b, n, k)
OutputIs(n, k) ==
  Since(KindAt({"compute"}), {j \in KindAt({"compute"}) : InputsAre(n, j)}, output = OwnOf(n), k)
DrawnIs(n, k) ==
  Since(KindAt({"map", "draw"}), {j \in KindAt({"draw"}) : OutputIs(n, j)},
        texture.drawn = OwnOf(n), k)
BaseIs(n, k) ==
  Since(KindAt({"map", "base"}), {j \in KindAt({"base"}) : work[j].picture = <<0, n>>},
        texture.base = <<0, n>>, k)
CopiedIs(n, k) ==
  Since(KindAt({"copy_out"}), {j \in KindAt({"copy_out"}) : OutputIs(n, j)}, copied = OwnOf(n), k)
SampledIs(s, n, k) ==
  Since(SampledAt(s), {j \in SampledAt(s) : OutputIs(n, j)}, sampled[s] = OwnOf(n), k)

End == Len(work) + 1

(* What the stream is given. *)
Pictures == {0, 1} \X (0 .. MaxCycles)
WorkItem ==
  [kind : {"record"}, slot : TimedSlots, event : EventNames]
    \cup [kind : {"read"}, into : Pair, picture : Pictures]
    \cup [kind : {"compute", "map", "draw", "copy_out"}]
    \cup [kind : {"sample"}, slot : TimedSlots]
    \cup [kind : {"release", "base"}, picture : Pictures]
    \cup [kind : {"unmap"}, of : 0 .. MaxCycles]
    \cup [kind : {"download"}, stamp : 0 .. MaxCycles]

EngineWired ==
  /\ user \in Users
  /\ wiring \in {<<>>, [b \in Single |-> b], [b \in Pair |-> b]}
  /\ wiring = [b \in Pair |-> b] => Paired
  /\ wiring = [b \in Single |-> b] => ~Paired
  /\ at = "constructing" => wiring = <<>>
  /\ at \notin {"constructing", "gone"} /\ user.name \notin {"yolo_viewer", "camera_viewer"}
       => HasEngine
  /\ user.name = "camera_viewer" => ~HasEngine /\ at # "constructing"
  /\ ~HasEngine => cycles = 0

Both == {0, 1} \X {frame}
OnlyOne == {<<0, frame>>}

AtItsPlace ==
  /\ at \in {"constructing", "idle", "preprocess", "drop", "infer", "download", "ask", "enqueue",
             "decode", "wait", "done", "mark", "present", "report", "unwind", "closing", "gone"}
  /\ at \in {"preprocess", "drop", "infer", "download"} => Paired
  /\ at \in {"ask", "enqueue"} => ~Paired /\ HasEngine
  /\ at \in {"decode", "wait", "done", "mark"} => user.name = "headless"
  /\ at = "present" => Windowed
  /\ held \in {{}, OnlyOne, Both}
  /\ at \in {"constructing", "idle", "infer", "closing", "gone"} => held = {}
  /\ at \in {"preprocess", "drop"} => held = Both
  /\ at \in {"enqueue", "ask"} => held = OnlyOne
  /\ at = "present" /\ ~Paired => held = OnlyOne
  /\ at \in {"constructing", "gone"} => work = <<>>
  /\ at = "constructing" => output = Lost /\ screen[1] = 0

EngineTyped ==
  /\ work \in Seq(WorkItem)
  /\ events \in [TimedSlots -> [EventNames -> 0 .. MaxCycles]]
  /\ timing \in [TimedSlots -> [armed : BOOLEAN, drawn : BOOLEAN]]
  /\ of \in Seq(0 .. MaxCycles) /\ cycles = Len(of)
  /\ frame \in 0 .. MaxCycles /\ seen \in 0 .. MaxCycles
  /\ DOMAIN input = Pair /\ DOMAIN sampled = TimedSlots /\ DOMAIN texture = {"base", "drawn"}
  /\ faults \in Nat

(* No lease is given back for good before what reads its picture. *)
StillThere(p, k) == p \in held \/ \E j \in DOMAIN work : j > k /\ work[j] = Release(p)
PicturesKept ==
  \A k \in DOMAIN work : work[k].kind \in {"read", "base"} => StillThere(work[k].picture, k)

(* What is handed on or shown is of the frame it is said to be of. *)
ItemTrue(k) ==
  /\ work[k].kind = "compute" => HasEngine
  /\ work[k].kind = "base" => ~Paired
  /\ work[k].kind = "download" => OutputIs(work[k].stamp, k)
  /\ work[k].kind = "unmap" => /\ ~Paired => BaseIs(work[k].of, k)
                               /\ HasEngine => DrawnIs(work[k].of, k)
WorkTrue == \A k \in DOMAIN work : ItemTrue(k)

(* And what the thread is about to queue work behind. *)
NextTrue ==
  /\ at \in {"drop", "infer"} =>
       InputsAre(frame, End) /\ events[This].pre_start = frame /\ timing[This] = Blank
  /\ at \in {"download", "decode", "mark"} => OutputIs(frame, End)
  /\ at = "present" /\ HasEngine => OutputIs(frame, End) /\ cycles >= 1 /\ of[cycles] = frame
  /\ at = "wait" => CopiedIs(frame, End)

(* What is asked of a cycle later. *)
CycleTrue(i) ==
  /\ \A e \in Measured(Slot(i)) : events[Slot(i)][e] = of[i + 1]
  /\ Paired => /\ SampledIs(Slot(i), of[i + 1], End)
               /\ \A k \in SampledAt(Slot(i)) :
                    \E j \in DOMAIN work : j > k /\ work[j] = Record(Slot(i), "sample_done")
CyclesTrue == \A i \in Recent : CycleTrue(i)

OutputMade ==
  /\ output = Lost \/ DOMAIN output = Buffers
  /\ output = Lost => /\ \A s \in TimedSlots : sampled[s] = Lost
                      /\ texture.drawn = Lost /\ copied = Lost /\ sent[2] = Lost
                      /\ boxes.frame = 0 /\ told.sample = Lost /\ (HasEngine => screen[1] = 0)

ToldIs ==
  /\ told.cycle \in -1 .. cycles - 1
  /\ told.cycle >= 0 => /\ told.timed \subseteq {of[told.cycle + 1]}
                        /\ told.sample # Lost => told.sample = OwnOf(of[told.cycle + 1])

ResultsAre ==
  /\ Paired => texture.base = Lost /\ screen[2].base = Lost
  /\ sent[2] # Lost => sent[2] = OwnOf(sent[1])
  /\ boxes.frame # 0 => boxes.content = OwnOf(boxes.frame)
  /\ screen[1] # 0 => /\ ~Paired => screen[2].base = <<0, screen[1]>>
                      /\ HasEngine => screen[2].drawn = OwnOf(screen[1])

(* The last cycle that was counted is out of reach, or is still the newest that is timed. *)
LastCounted == spread[Len(spread)]
SpreadGrows ==
  /\ user.name # "yolo_viewer" => spread = <<>>
  /\ spread \in Seq(0 .. cycles - 1) /\ CountedOnce
  /\ spread # <<>> /\ at \notin {"unwind", "closing", "gone"} =>
       /\ LastCounted >= cycles - TimingSlots => LastCounted \in Timed
       /\ at = "present" => LastCounted < cycles - 1

EngineIInv ==
  /\ EngineWired /\ AtItsPlace /\ EngineTyped /\ PicturesKept /\ WorkTrue /\ NextTrue
  /\ CyclesTrue /\ OutputMade /\ ToldIs /\ ResultsAre /\ SpreadGrows

-----------------------------------------------------------------------------
LEMMA SinceStays ==
  ASSUME NEW H, NEW G, NEW N, NEW H2, NEW G2, NEW N2, NEW k \in Nat, Since(H, G, N, k),
         \A m \in 1 .. k - 1 : m \in H2 => m \in H,
         \A j \in G : j < k => j \in G2, G \subseteq Nat, N => N2
  PROVE  Since(H2, G2, N2, k)
  <1>1. CASE N /\ \A m \in 1 .. k - 1 : m \notin H
    BY <1>1 DEF Since
  <1>2. ASSUME NEW j \in G, j < k, \A m \in j + 1 .. k - 1 : m \notin H
        PROVE  Since(H2, G2, N2, k)
    <2>1. j \in G2 /\ \A m \in j + 1 .. k - 1 : m \notin H2
      BY <1>2
    <2>2. QED
      BY <1>2, <2>1 DEF Since
  <1>3. QED
    BY <1>1, <1>2 DEF Since

LEMMA SinceOn ==
  ASSUME NEW H, NEW G, NEW N, NEW k \in Nat \ {0}, G \subseteq Nat, Since(H, G, N, k), k \notin H
  PROVE  Since(H, G, N, k + 1)
  <1>1. CASE N /\ \A m \in 1 .. k - 1 : m \notin H
    <2>1. \A m \in 1 .. (k + 1) - 1 : m \in 1 .. k - 1 \/ m = k
      OBVIOUS
    <2>2. QED
      BY <1>1, <2>1 DEF Since
  <1>2. ASSUME NEW j \in G, j < k, \A m \in j + 1 .. k - 1 : m \notin H
        PROVE  Since(H, G, N, k + 1)
    <2>1. j < k + 1 /\ \A m \in j + 1 .. (k + 1) - 1 : m \in j + 1 .. k - 1 \/ m = k
      BY <1>2
    <2>2. QED
      BY <1>2, <2>1 DEF Since
  <1>3. QED
    BY <1>1, <1>2 DEF Since

LEMMA SinceJust ==
  ASSUME NEW H, NEW G, NEW N, NEW k \in G, k \in Nat
  PROVE  Since(H, G, N, k + 1)
  <1>1. k < k + 1 /\ \A m \in k + 1 .. (k + 1) - 1 : FALSE
    OBVIOUS
  <1>2. QED
    BY <1>1 DEF Since

(* When the first thing is done the others move up. *)
LEMMA SinceMoves ==
  ASSUME NEW H, NEW G, NEW N, NEW H2, NEW G2, NEW N2, NEW k \in Nat \ {0}, Since(H, G, N, k + 1),
         G \subseteq Nat \ {0},
         \A m \in H2 : m + 1 \in H,
         \A j \in G : j # 1 => j - 1 \in G2,
         N /\ 1 \notin H => N2, 1 \in G => N2
  PROVE  Since(H2, G2, N2, k)
  <1>1. CASE N /\ \A m \in 1 .. (k + 1) - 1 : m \notin H
    <2>1. 1 \in 1 .. (k + 1) - 1 /\ \A m \in 1 .. k - 1 : m + 1 \in 1 .. (k + 1) - 1
      OBVIOUS
    <2>2. QED
      BY <1>1, <2>1 DEF Since
  <1>2. ASSUME NEW j \in G, j < k + 1, \A m \in j + 1 .. (k + 1) - 1 : m \notin H
        PROVE  Since(H2, G2, N2, k)
    <2>1. CASE j = 1
      <3>1. \A m \in 1 .. k - 1 : m + 1 \in j + 1 .. (k + 1) - 1
        BY <2>1
      <3>2. QED
        BY <1>2, <2>1, <3>1 DEF Since
    <2>2. CASE j # 1
      <3>1. j - 1 < k /\ \A m \in (j - 1) + 1 .. k - 1 : m + 1 \in j + 1 .. (k + 1) - 1
        BY <1>2
      <3>2. QED
        BY <1>2, <2>2, <3>1 DEF Since
    <2>3. QED
      BY <2>1, <2>2
  <1>3. QED
    BY <1>1, <1>2 DEF Since

(* If nothing is to be done it is so now. *)
LEMMA SinceNow ==
  ASSUME NEW H, NEW G, NEW N, NEW k, k = 1, Since(H, G, N, k), G \subseteq Nat \ {0}
  PROVE  N
  <1>1. \A j \in G : ~(j < k)
    OBVIOUS
  <1>2. QED
    BY <1>1 DEF Since

-----------------------------------------------------------------------------
(* What the stream is given, piece by piece. *)
LEMMA RecordIs ==
  ASSUME NEW s \in TimedSlots, NEW e \in EventNames
  PROVE  Record(s, e) \in WorkItem /\ Record(s, e).kind = "record" /\ Record(s, e).slot = s
         /\ Record(s, e).event = e
  BY DEF WorkItem, Record

LEMMA ReadIs ==
  ASSUME NEW b \in Pair, NEW p \in Pictures
  PROVE  Read(b, p) \in WorkItem /\ Read(b, p).kind = "read" /\ Read(b, p).into = b
         /\ Read(b, p).picture = p
  BY DEF WorkItem, Read

LEMMA ComputeIs == Compute \in WorkItem /\ Compute.kind = "compute"
  BY DEF WorkItem, Compute

LEMMA SampleIs ==
  ASSUME NEW s \in TimedSlots
  PROVE  Sample(s) \in WorkItem /\ Sample(s).kind = "sample" /\ Sample(s).slot = s
  BY DEF WorkItem, Sample

LEMMA ReleaseIs ==
  ASSUME NEW p \in Pictures
  PROVE  Release(p) \in WorkItem /\ Release(p).kind = "release"
  BY DEF WorkItem, Release

LEMMA MapAndDrawAre ==
  /\ Map \in WorkItem /\ Map.kind = "map" /\ Draw \in WorkItem /\ Draw.kind = "draw"
  /\ CopyOut \in WorkItem /\ CopyOut.kind = "copy_out"
  BY DEF WorkItem, Map, Draw, CopyOut

LEMMA BaseAndUnmapAre ==
  ASSUME Picture \in Pictures, frame \in 0 .. MaxCycles
  PROVE  /\ Base \in WorkItem /\ Base.kind = "base" /\ Base.picture = Picture
         /\ Unmap \in WorkItem /\ Unmap.kind = "unmap" /\ Unmap.of = frame
         /\ Download \in WorkItem /\ Download.kind = "download" /\ Download.stamp = frame
  BY DEF WorkItem, Base, Unmap, Download

LEMMA ItemShape ==
  ASSUME NEW c \in WorkItem
  PROVE  /\ c.kind \in {"record", "read", "compute", "map", "draw", "copy_out", "sample", "release",
                        "base", "unmap", "download"}
         /\ c.kind = "record" => c.slot \in TimedSlots /\ c.event \in EventNames
         /\ c.kind = "read" => c.into \in Pair /\ c.picture \in Pictures
         /\ c.kind = "sample" => c.slot \in TimedSlots
         /\ c.kind \in {"release", "base"} => c.picture \in Pictures
         /\ c.kind = "unmap" => c.of \in 0 .. MaxCycles
         /\ c.kind = "download" => c.stamp \in 0 .. MaxCycles
  <1>1. CASE c \in [kind : {"record"}, slot : TimedSlots, event : EventNames]
    BY <1>1
  <1>2. CASE c \in [kind : {"read"}, into : Pair, picture : Pictures]
    BY <1>2
  <1>3. CASE c \in [kind : {"compute", "map", "draw", "copy_out"}]
    BY <1>3
  <1>4. CASE c \in [kind : {"sample"}, slot : TimedSlots]
    BY <1>4
  <1>5. CASE c \in [kind : {"release", "base"}, picture : Pictures]
    BY <1>5
  <1>6. CASE c \in [kind : {"unmap"}, of : 0 .. MaxCycles]
    BY <1>6
  <1>7. CASE c \in [kind : {"download"}, stamp : 0 .. MaxCycles]
    BY <1>7
  <1>8. QED
    BY <1>1, <1>2, <1>3, <1>4, <1>5, <1>6, <1>7 DEF WorkItem

-----------------------------------------------------------------------------
(* More is queued. *)
Grows(x) ==
  /\ x \in Seq(WorkItem) /\ work' = work \o x
  /\ UNCHANGED <<wiring, deviceVars, texture, copied, user>>

LEMMA WorkGrows ==
  ASSUME EngineTyped, NEW x, Grows(x)
  PROVE  /\ Len(work) \in Nat /\ Len(x) \in Nat /\ work' \in Seq(WorkItem)
         /\ Len(work') = Len(work) + Len(x)
         /\ DOMAIN work = 1 .. Len(work) /\ DOMAIN work' = 1 .. Len(work) + Len(x)
         /\ DOMAIN x = 1 .. Len(x)
         /\ \A k \in 1 .. Len(work) : work'[k] = work[k]
         /\ \A k \in 1 .. Len(x) : work'[Len(work) + k] = x[k]
         /\ \A k \in DOMAIN work' : k \notin DOMAIN work =>
              k - Len(work) \in DOMAIN x /\ work'[k] = x[k - Len(work)]
  <1>1. work \in Seq(WorkItem) /\ x \in Seq(WorkItem) /\ work' = work \o x
    BY DEF EngineTyped, Grows
  <1>2. /\ Len(work) \in Nat /\ Len(x) \in Nat /\ work' \in Seq(WorkItem)
        /\ Len(work') = Len(work) + Len(x)
        /\ \A k \in 1 .. Len(work) : work'[k] = work[k]
        /\ \A k \in 1 .. Len(x) : work'[Len(work) + k] = x[k]
    BY <1>1, ConcatProperties, LenProperties
  <1>3. /\ DOMAIN work = 1 .. Len(work) /\ DOMAIN work' = 1 .. Len(work) + Len(x)
        /\ DOMAIN x = 1 .. Len(x)
    BY <1>1, <1>2, LenProperties
  <1>4. ASSUME NEW k \in DOMAIN work', k \notin DOMAIN work
        PROVE  k - Len(work) \in DOMAIN x /\ work'[k] = x[k - Len(work)]
    <2> DEFINE j == k - Len(work)
    <2>1. j \in 1 .. Len(x) /\ Len(work) + j = k
      BY <1>2, <1>3, <1>4
    <2> HIDE DEF j
    <2>2. work'[k] = x[j]
      BY <1>2, <2>1
    <2>3. QED
      BY <1>3, <2>1, <2>2 DEF j
  <1>5. QED
    BY <1>2, <1>3, <1>4

LEMMA Old ==
  ASSUME EngineTyped, NEW x, Grows(x), NEW m \in Nat, m <= Len(work), NEW K
  PROVE  /\ m \in KindAt(K)' <=> m \in KindAt(K)
         /\ m \in KindAt(K) => work'[m] = work[m]
  BY WorkGrows DEF KindAt

LEMMA Positions ==
  ASSUME EngineTyped
  PROVE  /\ Len(work) \in Nat /\ End \in Nat /\ End = Len(work) + 1 /\ DOMAIN work = 1 .. Len(work)
         /\ \A K : KindAt(K) \subseteq Nat \ {0}
         /\ \A K : KindAt(K) \subseteq 1 .. Len(work)
         /\ \A b : ReadInto(b) \subseteq KindAt({"read"})
         /\ \A s : SampledAt(s) \subseteq KindAt({"sample"})
  <1>1. Len(work) \in Nat /\ DOMAIN work = 1 .. Len(work)
    BY LenProperties DEF EngineTyped
  <1>2. QED
    BY <1>1 DEF End, KindAt, ReadInto, SampledAt

LEMMA InputGrows ==
  ASSUME EngineTyped, NEW x, Grows(x), NEW b, NEW n, NEW k \in 1 .. End, InputIs(b, n, k)
  PROVE  InputIs(b, n, k)'
  <1> DEFINE H == ReadInto(b)
             G == {j \in ReadInto(b) : work[j].picture = PictureOf(b, n)}
             N == input[b] = PictureOf(b, n)
             H2 == ReadInto(b)'
             G2 == {j \in ReadInto(b)' : work'[j].picture = PictureOf(b, n)}
             N2 == input'[b] = PictureOf(b, n)
  <1>1. k \in Nat /\ k - 1 <= Len(work)
    BY Positions
  <1>2. \A m \in 1 .. k - 1 : m \in Nat /\ m <= Len(work)
    BY <1>1, Positions
  <1>3. \A m \in 1 .. k - 1 : m \in H2 => m \in H
    BY <1>2, Old DEF ReadInto
  <1>4. \A j \in G : j < k => j \in G2
    <2> SUFFICES ASSUME NEW j \in G, j < k
                 PROVE  j \in G2
      OBVIOUS
    <2>1. j \in Nat /\ j <= Len(work) /\ j \in KindAt({"read"}) /\ work[j].into = b
      BY Positions DEF ReadInto
    <2>2. j \in KindAt({"read"})' /\ work'[j] = work[j]
      BY <2>1, Old
    <2>3. QED
      BY <2>1, <2>2 DEF ReadInto
  <1>5. G \subseteq Nat /\ (N => N2)
    BY Positions DEF Grows, deviceVars
  <1>6. Since(H, G, N, k)
    BY DEF InputIs
  <1> HIDE DEF H, G, N, H2, G2, N2
  <1>7. Since(H2, G2, N2, k)
    BY <1>1, <1>3, <1>4, <1>5, <1>6, SinceStays
  <1>8. QED
    BY <1>7 DEF InputIs, H2, G2, N2, PictureOf, Since

LEMMA InputsGrow ==
  ASSUME EngineTyped, NEW x, Grows(x), NEW n, NEW k \in 1 .. End, InputsAre(n, k)
  PROVE  InputsAre(n, k)'
  <1>1. Buffers' = Buffers
    BY DEF Grows, Buffers
  <1>2. \A b \in Buffers : InputIs(b, n, k)'
    <2> SUFFICES ASSUME NEW b \in Buffers
                 PROVE  InputIs(b, n, k)'
      OBVIOUS
    <2>1. InputIs(b, n, k)
      BY DEF InputsAre
    <2>2. QED
      BY <2>1, InputGrows
  <1>3. QED
    BY <1>1, <1>2 DEF InputsAre

LEMMA KindGrows ==
  ASSUME EngineTyped, NEW x, Grows(x), NEW K, NEW G, NEW N, NEW G2, NEW N2, NEW k \in 1 .. End,
         Since(KindAt(K), G, N, k), G \subseteq Nat, \A j \in G : j < k => j \in G2, N => N2
  PROVE  Since(KindAt(K)', G2, N2, k)
  <1> DEFINE H == KindAt(K)
             H2 == KindAt(K)'
  <1>1. k \in Nat
    BY Positions
  <1>2. \A m \in 1 .. k - 1 : m \in Nat /\ m <= Len(work)
    BY <1>1, Positions
  <1>3. \A m \in 1 .. k - 1 : m \in H2 => m \in H
    BY <1>2, Old
  <1>4. Since(H, G, N, k)
    OBVIOUS
  <1> HIDE DEF H, H2
  <1>5. Since(H2, G2, N2, k)
    BY <1>1, <1>3, <1>4, SinceStays
  <1>6. QED
    BY <1>5 DEF H2

LEMMA OutputGrows ==
  ASSUME EngineTyped, NEW x, Grows(x), NEW n, NEW k \in 1 .. End, OutputIs(n, k)
  PROVE  OutputIs(n, k)'
  <1> DEFINE K == {"compute"}
             G == {j \in KindAt(K) : InputsAre(n, j)}
             N == output = OwnOf(n)
             G2 == {j \in KindAt(K)' : InputsAre(n, j)'}
             N2 == output' = OwnOf(n)'
  <1>1. \A j \in G : j < k => j \in G2
    <2> SUFFICES ASSUME NEW j \in G, j < k
                 PROVE  j \in G2
      OBVIOUS
    <2>1. j \in Nat \ {0} /\ j <= Len(work) /\ j \in KindAt(K) /\ InputsAre(n, j) /\ j \in 1 .. End
      BY Positions
    <2>2. j \in KindAt(K)'
      BY <2>1, Old
    <2>3. InputsAre(n, j)'
      BY <2>1, InputsGrow
    <2>4. QED
      BY <2>2, <2>3
  <1>2. G \subseteq Nat
    BY Positions
  <1>3. N => N2
    BY DEF Grows, deviceVars, OwnOf, Buffers
  <1>4. Since(KindAt(K), G, N, k)
    BY DEF OutputIs
  <1> HIDE DEF G, N, G2, N2
  <1>5. Since(KindAt(K)', G2, N2, k)
    BY <1>1, <1>2, <1>3, <1>4, KindGrows
  <1>6. QED
    BY <1>5 DEF OutputIs, G2, N2

LEMMA DrawnGrows ==
  ASSUME EngineTyped, NEW x, Grows(x), NEW n, NEW k \in 1 .. End, DrawnIs(n, k)
  PROVE  DrawnIs(n, k)'
  <1> DEFINE K == {"map", "draw"}
             G == {j \in KindAt({"draw"}) : OutputIs(n, j)}
             N == texture.drawn = OwnOf(n)
             G2 == {j \in KindAt({"draw"})' : OutputIs(n, j)'}
             N2 == texture'.drawn = OwnOf(n)'
  <1>1. \A j \in G : j < k => j \in G2
    <2> SUFFICES ASSUME NEW j \in G, j < k
                 PROVE  j \in G2
      OBVIOUS
    <2>1. j \in Nat \ {0} /\ j <= Len(work) /\ j \in KindAt({"draw"}) /\ OutputIs(n, j) /\ j \in 1 .. End
      BY Positions
    <2>2. j \in KindAt({"draw"})'
      BY <2>1, Old
    <2>3. OutputIs(n, j)'
      BY <2>1, OutputGrows
    <2>4. QED
      BY <2>2, <2>3
  <1>2. G \subseteq Nat
    BY Positions
  <1>3. N => N2
    BY DEF Grows, deviceVars, OwnOf, Buffers
  <1>4. Since(KindAt(K), G, N, k)
    BY DEF DrawnIs
  <1> HIDE DEF G, N, G2, N2
  <1>5. Since(KindAt(K)', G2, N2, k)
    BY <1>1, <1>2, <1>3, <1>4, KindGrows
  <1>6. QED
    BY <1>5 DEF DrawnIs, G2, N2

LEMMA CopiedGrows ==
  ASSUME EngineTyped, NEW x, Grows(x), NEW n, NEW k \in 1 .. End, CopiedIs(n, k)
  PROVE  CopiedIs(n, k)'
  <1> DEFINE K == {"copy_out"}
             G == {j \in KindAt(K) : OutputIs(n, j)}
             N == copied = OwnOf(n)
             G2 == {j \in KindAt(K)' : OutputIs(n, j)'}
             N2 == copied' = OwnOf(n)'
  <1>1. \A j \in G : j < k => j \in G2
    <2> SUFFICES ASSUME NEW j \in G, j < k
                 PROVE  j \in G2
      OBVIOUS
    <2>0. j \in KindAt(K) /\ OutputIs(n, j)
      OBVIOUS
    <2>p. Len(work) \in Nat /\ End = Len(work) + 1 /\ KindAt(K) \subseteq 1 .. Len(work)
      BY Positions
    <2>1. j \in Nat \ {0} /\ j <= Len(work) /\ j \in KindAt(K) /\ OutputIs(n, j) /\ j \in 1 .. End
      BY <2>0, <2>p
    <2>2. j \in KindAt(K)'
      BY <2>1, Old
    <2>3. OutputIs(n, j)'
      BY <2>1, OutputGrows
    <2>4. QED
      BY <2>2, <2>3
  <1>2. G \subseteq Nat
    BY Positions
  <1>3. N => N2
    BY DEF Grows, deviceVars, OwnOf, Buffers
  <1>4. Since(KindAt(K), G, N, k)
    BY DEF CopiedIs
  <1> HIDE DEF G, N, G2, N2
  <1>5. Since(KindAt(K)', G2, N2, k)
    BY <1>1, <1>2, <1>3, <1>4, KindGrows
  <1>6. QED
    BY <1>5 DEF CopiedIs, G2, N2

LEMMA BaseGrows ==
  ASSUME EngineTyped, NEW x, Grows(x), NEW n, NEW k \in 1 .. End, BaseIs(n, k)
  PROVE  BaseIs(n, k)'
  <1> DEFINE K == {"map", "base"}
             G == {j \in KindAt({"base"}) : work[j].picture = <<0, n>>}
             N == texture.base = <<0, n>>
             G2 == {j \in KindAt({"base"})' : work'[j].picture = <<0, n>>}
             N2 == texture'.base = <<0, n>>
  <1>1. \A j \in G : j < k => j \in G2
    <2> SUFFICES ASSUME NEW j \in G, j < k
                 PROVE  j \in G2
      OBVIOUS
    <2>1. j \in Nat \ {0} /\ j <= Len(work) /\ j \in KindAt({"base"})
      BY Positions
    <2>2. j \in KindAt({"base"})' /\ work'[j] = work[j]
      BY <2>1, Old
    <2>4. QED
      BY <2>2
  <1>2. G \subseteq Nat
    BY Positions
  <1>3. N => N2
    BY DEF Grows
  <1>4. Since(KindAt(K), G, N, k)
    BY DEF BaseIs
  <1> HIDE DEF G, N, G2, N2
  <1>5. Since(KindAt(K)', G2, N2, k)
    BY <1>1, <1>2, <1>3, <1>4, KindGrows
  <1>6. QED
    BY <1>5 DEF BaseIs, G2, N2

LEMMA SampledGrows ==
  ASSUME EngineTyped, NEW x, Grows(x), NEW s, NEW n, NEW k \in 1 .. End, SampledIs(s, n, k)
  PROVE  SampledIs(s, n, k)'
  <1> DEFINE H == SampledAt(s)
             G == {j \in SampledAt(s) : OutputIs(n, j)}
             N == sampled[s] = OwnOf(n)
             H2 == SampledAt(s)'
             G2 == {j \in SampledAt(s)' : OutputIs(n, j)'}
             N2 == sampled'[s] = OwnOf(n)'
  <1>1. k \in Nat /\ k - 1 <= Len(work)
    BY Positions
  <1>2. \A m \in 1 .. k - 1 : m \in Nat /\ m <= Len(work)
    BY <1>1, Positions
  <1>3. \A m \in 1 .. k - 1 : m \in H2 => m \in H
    BY <1>2, Old DEF SampledAt
  <1>4. \A j \in G : j < k => j \in G2
    <2> SUFFICES ASSUME NEW j \in G, j < k
                 PROVE  j \in G2
      OBVIOUS
    <2>1. /\ j \in Nat \ {0} /\ j <= Len(work) /\ j \in KindAt({"sample"}) /\ work[j].slot = s
          /\ OutputIs(n, j) /\ j \in 1 .. End
      BY Positions DEF SampledAt
    <2>2. j \in KindAt({"sample"})' /\ work'[j] = work[j]
      BY <2>1, Old
    <2>3. OutputIs(n, j)'
      BY <2>1, OutputGrows
    <2>4. QED
      BY <2>1, <2>2, <2>3 DEF SampledAt
  <1>5. G \subseteq Nat /\ (N => N2)
    BY Positions DEF Grows, deviceVars, OwnOf, Buffers
  <1>6. Since(H, G, N, k)
    BY DEF SampledIs
  <1> HIDE DEF H, G, N, H2, G2, N2
  <1>7. Since(H2, G2, N2, k)
    BY <1>1, <1>3, <1>4, <1>5, <1>6, SinceStays
  <1>8. QED
    BY <1>7 DEF SampledIs, H2, G2, N2, OwnOf, Buffers

-----------------------------------------------------------------------------
(* The device does the first thing of the stream. *)
First == work[1]
Moves ==
  /\ work # <<>> /\ work' = Tail(work)
  /\ UNCHANGED <<wiring, held, events, timing, cycles, preprocessed, of, faults,
                 user, at, frame, seen, boxes, told, spread>>
  /\ input' = IF First.kind = "read" THEN [input EXCEPT ![First.into] = PictureIn(First.picture)]
              ELSE input
  /\ output' = IF First.kind = "compute" THEN Result ELSE output
  /\ sampled' = IF First.kind = "sample" THEN [sampled EXCEPT ![First.slot] = output] ELSE sampled
  /\ copied' = IF First.kind = "copy_out" THEN output ELSE copied
  /\ sent' = IF First.kind = "download" THEN <<First.stamp, output>> ELSE sent
  /\ texture' = IF First.kind = "map" THEN Clear
                ELSE IF First.kind = "base" THEN [texture EXCEPT !.base = PictureIn(First.picture)]
                ELSE IF First.kind = "draw" THEN [texture EXCEPT !.drawn = output] ELSE texture
  /\ screen' = IF First.kind = "unmap" THEN <<First.of, texture>> ELSE screen

LEMMA DeviceMoves ==
  ASSUME DeviceStep
  PROVE  Moves
  <1>h. Head(work) = First
    BY DEF First
  <1> USE <1>h DEF Moves, Doing, deviceVars, userVars, shownVars
  <1>1. ASSUME EngineWorks, UNCHANGED userVars
        PROVE  Moves
    <2>1. CASE Doing("record") /\ UNCHANGED deviceVars
      BY <1>1, <2>1 DEF EngineWorks
    <2>2. CASE /\ Doing("read")
               /\ input' = [input EXCEPT ![Head(work).into] = PictureIn(Head(work).picture)]
               /\ UNCHANGED <<output, sampled>>
      <3>1. input' = [input EXCEPT ![First.into] = PictureIn(First.picture)]
        BY <2>2, <1>h
      <3>2. First.kind = "read"
        BY <2>2, <1>h
      <3>3. QED
        BY <1>1, <2>2, <3>1, <3>2 DEF EngineWorks
    <2>3. CASE Doing("compute") /\ output' = Result /\ UNCHANGED <<input, sampled>>
      BY <1>1, <2>3 DEF EngineWorks
    <2>4. CASE /\ Doing("sample") /\ sampled' = [sampled EXCEPT ![Head(work).slot] = output]
               /\ UNCHANGED <<input, output>>
      <3>1. sampled' = [sampled EXCEPT ![First.slot] = output]
        BY <2>4, <1>h
      <3>2. First.kind = "sample"
        BY <2>4, <1>h
      <3>3. QED
        BY <1>1, <2>4, <3>1, <3>2 DEF EngineWorks
    <2>5. CASE Doing("release") /\ UNCHANGED deviceVars
      BY <1>1, <2>5 DEF EngineWorks
    <2>6. QED
      BY <1>1, <2>1, <2>2, <2>3, <2>4, <2>5 DEF EngineWorks
  <1>2. ASSUME Shows
        PROVE  Moves
    <2>1. CASE Doing("map") /\ texture' = Clear /\ UNCHANGED <<copied, sent, screen>>
      BY <1>2, <2>1 DEF Shows
    <2>2. CASE /\ Doing("base") /\ texture' = [texture EXCEPT !.base = PictureIn(Head(work).picture)]
               /\ UNCHANGED <<copied, sent, screen>>
      BY <1>2, <2>2 DEF Shows
    <2>3. CASE /\ Doing("draw") /\ texture' = [texture EXCEPT !.drawn = output]
               /\ UNCHANGED <<copied, sent, screen>>
      BY <1>2, <2>3 DEF Shows
    <2>4. CASE /\ Doing("unmap") /\ screen' = <<Head(work).of, texture>>
               /\ UNCHANGED <<copied, sent, texture>>
      BY <1>2, <2>4 DEF Shows
    <2>5. CASE Doing("copy_out") /\ copied' = output /\ UNCHANGED <<sent, texture, screen>>
      BY <1>2, <2>5 DEF Shows
    <2>6. CASE /\ Doing("download") /\ sent' = <<Head(work).stamp, output>>
               /\ UNCHANGED <<copied, texture, screen>>
      BY <1>2, <2>6 DEF Shows
    <2>7. QED
      BY <1>2, <2>1, <2>2, <2>3, <2>4, <2>5, <2>6 DEF Shows
  <1>3. QED
    BY <1>1, <1>2 DEF DeviceStep

LEMMA WorkMoves ==
  ASSUME EngineTyped, Moves
  PROVE  /\ Len(work) \in Nat \ {0} /\ work' \in Seq(WorkItem) /\ Len(work') = Len(work) - 1
         /\ DOMAIN work = 1 .. Len(work) /\ DOMAIN work' = 1 .. Len(work) - 1
         /\ \A k \in DOMAIN work' : work'[k] = work[k + 1]
         /\ End' \in Nat /\ End = Len(work) + 1 /\ End' = Len(work)
         /\ 1 \in DOMAIN work /\ First \in WorkItem
         /\ \A k \in 1 .. End' : k \in Nat \ {0} /\ k + 1 \in 1 .. End
  <1>1. work \in Seq(WorkItem) /\ work # <<>> /\ work' = Tail(work)
    BY DEF EngineTyped, Moves
  <1>2. /\ Len(work) \in Nat \ {0} /\ work' \in Seq(WorkItem) /\ Len(work') = Len(work) - 1
        /\ \A k \in 1 .. Len(work') : work'[k] = work[k + 1]
    BY <1>1, HeadTailProperties, EmptySeq, LenProperties
  <1>3. DOMAIN work = 1 .. Len(work) /\ DOMAIN work' = 1 .. Len(work) - 1
    BY <1>1, <1>2, LenProperties
  <1>4. 1 \in DOMAIN work /\ First \in WorkItem
    BY <1>1, <1>2, <1>3, ElementOfSeq DEF First
  <1>5. QED
    BY <1>2, <1>3, <1>4 DEF End

LEMMA KindMoves ==
  ASSUME EngineTyped, Moves, NEW K
  PROVE  /\ \A m \in KindAt(K)' : m \in Nat \ {0} /\ m + 1 \in KindAt(K) /\ work'[m] = work[m + 1]
         /\ \A j \in KindAt(K) : j # 1 => j - 1 \in KindAt(K)' /\ work'[j - 1] = work[j]
         /\ 1 \in KindAt(K) <=> First.kind \in K
  <1>1. ASSUME NEW m \in KindAt(K)'
        PROVE  m \in Nat \ {0} /\ m + 1 \in KindAt(K) /\ work'[m] = work[m + 1]
    BY <1>1, WorkMoves DEF KindAt
  <1>2. ASSUME NEW j \in KindAt(K), j # 1
        PROVE  j - 1 \in KindAt(K)' /\ work'[j - 1] = work[j]
    <2>1. j \in DOMAIN work /\ work[j].kind \in K
      BY DEF KindAt
    <2> DEFINE m == j - 1
    <2>2. m \in DOMAIN work' /\ m + 1 = j
      BY <1>2, <2>1, WorkMoves
    <2> HIDE DEF m
    <2>3. work'[m] = work[j]
      BY <2>2, WorkMoves
    <2>4. m \in KindAt(K)'
      BY <2>1, <2>2, <2>3 DEF KindAt
    <2>5. QED
      BY <2>3, <2>4 DEF m
  <1>3. 1 \in KindAt(K) <=> First.kind \in K
    BY WorkMoves DEF KindAt, First
  <1>4. QED
    BY <1>1, <1>2, <1>3

(* A slot that is leased, or whose release is still queued, is as it was. *)
LEMMA NotLost ==
  ASSUME EngineTyped, PicturesKept, Moves, First.kind \in {"read", "base"}
  PROVE  PictureIn(First.picture) = First.picture
  <1>1. 1 \in DOMAIN work /\ StillThere(First.picture, 1)
    BY WorkMoves DEF PicturesKept, First
  <1>2. QED
    BY <1>1 DEF StillThere, PictureIn

LEMMA InputMoves ==
  ASSUME EngineTyped, PicturesKept, Moves, NEW b \in Pair, NEW n, NEW k \in 1 .. End',
         InputIs(b, n, k + 1)
  PROVE  InputIs(b, n, k)'
  <1> DEFINE H == ReadInto(b)
             G == {j \in ReadInto(b) : work[j].picture = PictureOf(b, n)}
             N == input[b] = PictureOf(b, n)
             H2 == ReadInto(b)'
             G2 == {j \in ReadInto(b)' : work'[j].picture = PictureOf(b, n)}
             N2 == input'[b] = PictureOf(b, n)
  <1>1. k \in Nat \ {0}
    BY WorkMoves
  <1>2. \A m \in H2 : m + 1 \in H
    BY KindMoves DEF ReadInto
  <1>3. \A j \in G : j # 1 => j - 1 \in G2
    BY KindMoves DEF ReadInto
  <1>4. G \subseteq Nat \ {0}
    BY Positions DEF ReadInto
  <1>5. 1 \in H <=> First.kind = "read" /\ First.into = b
    BY KindMoves DEF ReadInto, First
  <1>6. N /\ 1 \notin H => N2
    BY <1>5, ItemShape, WorkMoves DEF Moves, EngineTyped
  <1>7. 1 \in G => N2
    <2> SUFFICES ASSUME 1 \in G
                 PROVE  N2
      OBVIOUS
    <2>1. First.kind = "read" /\ First.into = b /\ First.picture = PictureOf(b, n)
      BY <1>5 DEF First
    <2>2. PictureIn(First.picture) = PictureOf(b, n)
      BY <2>1, NotLost
    <2>3. input' = [input EXCEPT ![b] = PictureOf(b, n)]
      BY <2>1, <2>2 DEF Moves
    <2>4. QED
      BY <2>3 DEF EngineTyped
  <1>8. Since(H, G, N, k + 1)
    BY DEF InputIs
  <1> HIDE DEF H, G, N, H2, G2, N2
  <1>9. Since(H2, G2, N2, k)
    BY <1>1, <1>2, <1>3, <1>4, <1>6, <1>7, <1>8, SinceMoves
  <1>10. QED
    BY <1>9 DEF InputIs, H2, G2, N2, PictureOf, Since

LEMMA BuffersInPair ==
  ASSUME EngineWired
  PROVE  Buffers \subseteq Pair /\ (\A b \in Buffers : wiring[b] = b) /\ Result = [r \in Buffers |-> input[r]]
  <1>1. Buffers \subseteq Pair /\ \A b \in Buffers : wiring[b] = b
    BY DEF EngineWired, Buffers, Pair, Single
  <1>2. {wiring[b] : b \in DOMAIN wiring} = Buffers
    BY <1>1 DEF Buffers
  <1>3. \A r \in Buffers : (CHOOSE b \in DOMAIN wiring : wiring[b] = r) = r
    BY <1>1 DEF Buffers
  <1> DEFINE W == {wiring[b] : b \in DOMAIN wiring}
             f(r) == input[CHOOSE b \in DOMAIN wiring : wiring[b] = r]
  <1>4. \A r \in Buffers : f(r) = input[r]
    BY <1>3
  <1>5. Result = [r \in W |-> f(r)]
    BY DEF Result
  <1> HIDE DEF f
  <1>6. Result = [r \in Buffers |-> f(r)]
    BY <1>2, <1>5
  <1>7. Result = [r \in Buffers |-> input[r]]
    BY <1>4, <1>6
  <1>8. QED
    BY <1>1, <1>7

LEMMA InputsMove ==
  ASSUME EngineWired, EngineTyped, PicturesKept, Moves, NEW n, NEW k \in 1 .. End',
         InputsAre(n, k + 1)
  PROVE  InputsAre(n, k)'
  <1>1. Buffers' = Buffers
    BY DEF Moves, Buffers
  <1>2. \A b \in Buffers : InputIs(b, n, k)'
    <2> SUFFICES ASSUME NEW b \in Buffers
                 PROVE  InputIs(b, n, k)'
      OBVIOUS
    <2>1. InputIs(b, n, k + 1) /\ b \in Pair
      BY BuffersInPair DEF InputsAre
    <2>2. QED
      BY <2>1, InputMoves
  <1>3. QED
    BY <1>1, <1>2 DEF InputsAre

LEMMA ComputedOwn ==
  ASSUME EngineWired, EngineTyped, NEW n, InputsAre(n, 1)
  PROVE  Result = OwnOf(n)
  <1>1. \A b \in Buffers : input[b] = PictureOf(b, n)
    <2> SUFFICES ASSUME NEW b \in Buffers
                 PROVE  input[b] = PictureOf(b, n)
      OBVIOUS
    <2> DEFINE H == ReadInto(b)
               G == {j \in ReadInto(b) : work[j].picture = PictureOf(b, n)}
               N == input[b] = PictureOf(b, n)
    <2>1. Since(H, G, N, 1)
      BY DEF InputsAre, InputIs
    <2>2. G \subseteq Nat \ {0}
      BY Positions DEF ReadInto
    <2> HIDE DEF H, G, N
    <2>3. N
      BY <2>1, <2>2 DEF Since
    <2>4. QED
      BY <2>3 DEF N
  <1>2. QED
    BY <1>1, BuffersInPair DEF OwnOf

LEMMA KindsMove ==
  ASSUME EngineTyped, Moves, NEW K, NEW G, NEW N, NEW G2, NEW N2, NEW k \in 1 .. End',
         Since(KindAt(K), G, N, k + 1), G \subseteq Nat \ {0},
         \A j \in G : j # 1 => j - 1 \in G2,
         N /\ First.kind \notin K => N2, 1 \in G => N2
  PROVE  Since(KindAt(K)', G2, N2, k)
  <1> DEFINE H == KindAt(K)
             H2 == KindAt(K)'
  <1>1. k \in Nat \ {0}
    BY WorkMoves
  <1>2. (\A m \in H2 : m + 1 \in H) /\ (1 \in H <=> First.kind \in K)
    BY KindMoves
  <1>3. Since(H, G, N, k + 1)
    OBVIOUS
  <1> HIDE DEF H, H2
  <1>4. Since(H2, G2, N2, k)
    BY <1>1, <1>2, <1>3, SinceMoves
  <1>5. QED
    BY <1>4 DEF H2

LEMMA OutputMoves ==
  ASSUME EngineWired, EngineTyped, PicturesKept, Moves, NEW n, NEW k \in 1 .. End',
         OutputIs(n, k + 1)
  PROVE  OutputIs(n, k)'
  <1> DEFINE K == {"compute"}
             G == {j \in KindAt(K) : InputsAre(n, j)}
             N == output = OwnOf(n)
             G2 == {j \in KindAt(K)' : InputsAre(n, j)'}
             N2 == output' = OwnOf(n)'
  <1>0. OwnOf(n)' = OwnOf(n)
    BY DEF OwnOf, Moves, Buffers
  <1>1. \A j \in G : j # 1 => j - 1 \in G2
    <2> SUFFICES ASSUME NEW j \in G, j # 1
                 PROVE  j - 1 \in G2
      OBVIOUS
    <2> DEFINE i == j - 1
    <2>1. j \in KindAt(K) /\ InputsAre(n, j)
      OBVIOUS
    <2>2. i \in KindAt(K)'
      BY <2>1, KindMoves
    <2>3. j \in 1 .. Len(work) /\ End' = Len(work) /\ Len(work) \in Nat
      BY <2>1, Positions, WorkMoves
    <2>4. i \in 1 .. End' /\ i + 1 = j
      BY <2>3
    <2> HIDE DEF i
    <2>5. InputsAre(n, i + 1)
      BY <2>1, <2>4
    <2>6. InputsAre(n, i)'
      BY <2>4, <2>5, InputsMove
    <2>7. QED
      BY <2>2, <2>6 DEF i
  <1>2. G \subseteq Nat \ {0}
    BY Positions
  <1>3. N /\ First.kind \notin K => N2
    BY <1>0 DEF Moves
  <1>4. 1 \in G => N2
    <2> SUFFICES ASSUME 1 \in G
                 PROVE  N2
      OBVIOUS
    <2>1. InputsAre(n, 1) /\ First.kind = "compute"
      BY KindMoves
    <2>2. Result = OwnOf(n)
      BY <2>1, ComputedOwn
    <2>3. QED
      BY <1>0, <2>1, <2>2 DEF Moves
  <1>5. Since(KindAt(K), G, N, k + 1)
    BY DEF OutputIs
  <1> HIDE DEF G, N, G2, N2, K
  <1>6. Since(KindAt(K)', G2, N2, k)
    BY <1>1, <1>2, <1>3, <1>4, <1>5, KindsMove
  <1>7. QED
    BY <1>6 DEF OutputIs, G2, N2, K

(* What is behind the first thing and relies on the output. *)
LEMMA GoodMoves ==
  ASSUME EngineWired, EngineTyped, PicturesKept, Moves, NEW n, NEW K, NEW j \in KindAt(K), j # 1,
         OutputIs(n, j)
  PROVE  j - 1 \in KindAt(K)' /\ OutputIs(n, j - 1)' /\ work'[j - 1] = work[j]
  <1> DEFINE i == j - 1
  <1>1. i \in KindAt(K)' /\ work'[i] = work[j]
    BY KindMoves
  <1>2. j \in 1 .. Len(work) /\ End' = Len(work) /\ Len(work) \in Nat
    BY Positions, WorkMoves
  <1>3. i \in 1 .. End' /\ i + 1 = j
    BY <1>2
  <1> HIDE DEF i
  <1>4. OutputIs(n, i + 1)
    BY <1>3
  <1>5. OutputIs(n, i)'
    BY <1>3, <1>4, OutputMoves
  <1>6. QED
    BY <1>1, <1>5 DEF i

(* The result of frame n, if the first thing finds it there. *)
LEMMA OutputNow ==
  ASSUME EngineTyped, NEW n, OutputIs(n, 1)
  PROVE  output = OwnOf(n)
  <1> DEFINE G == {j \in KindAt({"compute"}) : InputsAre(n, j)}
             N == output = OwnOf(n)
  <1>1. Since(KindAt({"compute"}), G, N, 1)
    BY DEF OutputIs
  <1>2. G \subseteq Nat \ {0}
    BY Positions
  <1> HIDE DEF G, N
  <1>3. N
    BY <1>1, <1>2 DEF Since
  <1>4. QED
    BY <1>3 DEF N

LEMMA DrawnMoves ==
  ASSUME EngineWired, EngineTyped, PicturesKept, Moves, NEW n, NEW k \in 1 .. End',
         DrawnIs(n, k + 1)
  PROVE  DrawnIs(n, k)'
  <1> DEFINE K == {"map", "draw"}
             G == {j \in KindAt({"draw"}) : OutputIs(n, j)}
             N == texture.drawn = OwnOf(n)
             G2 == {j \in KindAt({"draw"})' : OutputIs(n, j)'}
             N2 == texture'.drawn = OwnOf(n)'
  <1>0. OwnOf(n)' = OwnOf(n)
    BY DEF OwnOf, Moves, Buffers
  <1>1. \A j \in G : j # 1 => j - 1 \in G2
    BY GoodMoves
  <1>2. G \subseteq Nat \ {0}
    BY Positions
  <1>3. N /\ First.kind \notin K => N2
    BY <1>0 DEF Moves, EngineTyped
  <1>4. 1 \in G => N2
    <2> SUFFICES ASSUME 1 \in G
                 PROVE  N2
      OBVIOUS
    <2>1. OutputIs(n, 1) /\ First.kind = "draw"
      BY KindMoves
    <2>2. output = OwnOf(n)
      BY <2>1, OutputNow
    <2>3. QED
      BY <1>0, <2>1, <2>2 DEF Moves, EngineTyped
  <1>5. Since(KindAt(K), G, N, k + 1)
    BY DEF DrawnIs
  <1> HIDE DEF G, N, G2, N2, K
  <1>6. Since(KindAt(K)', G2, N2, k)
    BY <1>1, <1>2, <1>3, <1>4, <1>5, KindsMove
  <1>7. QED
    BY <1>6 DEF DrawnIs, G2, N2, K

LEMMA CopiedMoves ==
  ASSUME EngineWired, EngineTyped, PicturesKept, Moves, NEW n, NEW k \in 1 .. End',
         CopiedIs(n, k + 1)
  PROVE  CopiedIs(n, k)'
  <1> DEFINE K == {"copy_out"}
             G == {j \in KindAt({"copy_out"}) : OutputIs(n, j)}
             N == copied = OwnOf(n)
             G2 == {j \in KindAt({"copy_out"})' : OutputIs(n, j)'}
             N2 == copied' = OwnOf(n)'
  <1>0. OwnOf(n)' = OwnOf(n)
    BY DEF OwnOf, Moves, Buffers
  <1>1. \A j \in G : j # 1 => j - 1 \in G2
    BY GoodMoves
  <1>2. G \subseteq Nat \ {0}
    BY Positions
  <1>3. N /\ First.kind \notin K => N2
    BY <1>0 DEF Moves, EngineTyped
  <1>4. 1 \in G => N2
    <2> SUFFICES ASSUME 1 \in G
                 PROVE  N2
      OBVIOUS
    <2>1. OutputIs(n, 1) /\ First.kind = "copy_out"
      BY KindMoves
    <2>2. output = OwnOf(n)
      BY <2>1, OutputNow
    <2>3. QED
      BY <1>0, <2>1, <2>2 DEF Moves, EngineTyped
  <1>5. Since(KindAt(K), G, N, k + 1)
    BY DEF CopiedIs
  <1> HIDE DEF G, N, G2, N2, K
  <1>6. Since(KindAt(K)', G2, N2, k)
    BY <1>1, <1>2, <1>3, <1>4, <1>5, KindsMove
  <1>7. QED
    BY <1>6 DEF CopiedIs, G2, N2, K

LEMMA BaseMoves ==
  ASSUME EngineWired, EngineTyped, PicturesKept, Moves, NEW n, NEW k \in 1 .. End',
         BaseIs(n, k + 1)
  PROVE  BaseIs(n, k)'
  <1> DEFINE K == {"map", "base"}
             G == {j \in KindAt({"base"}) : work[j].picture = <<0, n>>}
             N == texture.base = <<0, n>>
             G2 == {j \in KindAt({"base"})' : work'[j].picture = <<0, n>>}
             N2 == texture'.base = <<0, n>>
  <1>1. \A j \in G : j # 1 => j - 1 \in G2
    BY KindMoves
  <1>2. G \subseteq Nat \ {0}
    BY Positions
  <1>3. N /\ First.kind \notin K => N2
    BY DEF Moves, EngineTyped
  <1>4. 1 \in G => N2
    <2> SUFFICES ASSUME 1 \in G
                 PROVE  N2
      OBVIOUS
    <2>1. First.picture = <<0, n>> /\ First.kind = "base"
      BY KindMoves DEF First
    <2>2. PictureIn(First.picture) = <<0, n>>
      BY <2>1, NotLost
    <2>3. texture' = [texture EXCEPT !.base = <<0, n>>]
      BY <2>1, <2>2 DEF Moves
    <2>4. QED
      BY <2>3 DEF EngineTyped
  <1>5. Since(KindAt(K), G, N, k + 1)
    BY DEF BaseIs
  <1> HIDE DEF G, N, G2, N2, K
  <1>6. Since(KindAt(K)', G2, N2, k)
    BY <1>1, <1>2, <1>3, <1>4, <1>5, KindsMove
  <1>7. QED
    BY <1>6 DEF BaseIs, G2, N2, K

LEMMA SampledMoves ==
  ASSUME EngineWired, EngineTyped, PicturesKept, Moves, NEW s \in TimedSlots, NEW n,
         NEW k \in 1 .. End', SampledIs(s, n, k + 1)
  PROVE  SampledIs(s, n, k)'
  <1> DEFINE H == SampledAt(s)
             G == {j \in SampledAt(s) : OutputIs(n, j)}
             N == sampled[s] = OwnOf(n)
             H2 == SampledAt(s)'
             G2 == {j \in SampledAt(s)' : OutputIs(n, j)'}
             N2 == sampled'[s] = OwnOf(n)'
  <1>0. OwnOf(n)' = OwnOf(n)
    BY DEF OwnOf, Moves, Buffers
  <1>1. k \in Nat \ {0}
    BY WorkMoves
  <1>2. \A m \in H2 : m + 1 \in H
    BY KindMoves DEF SampledAt
  <1>3. \A j \in G : j # 1 => j - 1 \in G2
    BY GoodMoves DEF SampledAt
  <1>4. G \subseteq Nat \ {0}
    BY Positions DEF SampledAt
  <1>5. 1 \in H <=> First.kind = "sample" /\ First.slot = s
    BY KindMoves DEF SampledAt, First
  <1>6. N /\ 1 \notin H => N2
    BY <1>0, <1>5, ItemShape, WorkMoves DEF Moves, EngineTyped
  <1>7. 1 \in G => N2
    <2> SUFFICES ASSUME 1 \in G
                 PROVE  N2
      OBVIOUS
    <2>1. OutputIs(n, 1) /\ First.kind = "sample" /\ First.slot = s
      BY <1>5
    <2>2. output = OwnOf(n)
      BY <2>1, OutputNow
    <2>3. sampled' = [sampled EXCEPT ![s] = OwnOf(n)]
      BY <2>1, <2>2 DEF Moves
    <2>4. QED
      BY <1>0, <2>3 DEF EngineTyped
  <1>8. Since(H, G, N, k + 1)
    BY DEF SampledIs
  <1> HIDE DEF H, G, N, H2, G2, N2
  <1>9. Since(H2, G2, N2, k)
    BY <1>1, <1>2, <1>3, <1>4, <1>6, <1>7, <1>8, SinceMoves
  <1>10. QED
    BY <1>9 DEF SampledIs, H2, G2, N2

LEMMA DrawnNow ==
  ASSUME EngineTyped, NEW n, DrawnIs(n, 1)
  PROVE  texture.drawn = OwnOf(n)
  <1> DEFINE G == {j \in KindAt({"draw"}) : OutputIs(n, j)}
             H == KindAt({"map", "draw"})
             N == texture.drawn = OwnOf(n)
  <1>1. Since(H, G, N, 1)
    BY DEF DrawnIs
  <1>2. G \subseteq Nat \ {0}
    BY Positions
  <1> HIDE DEF H, G, N
  <1>3. N
    BY <1>1, <1>2 DEF Since
  <1>4. QED
    BY <1>3 DEF N

LEMMA BaseNow ==
  ASSUME EngineTyped, NEW n, BaseIs(n, 1)
  PROVE  texture.base = <<0, n>>
  <1> DEFINE G == {j \in KindAt({"base"}) : work[j].picture = <<0, n>>}
             H == KindAt({"map", "base"})
             N == texture.base = <<0, n>>
  <1>1. Since(H, G, N, 1)
    BY DEF BaseIs
  <1>2. G \subseteq Nat \ {0}
    BY Positions
  <1> HIDE DEF H, G, N
  <1>3. N
    BY <1>1, <1>2 DEF Since
  <1>4. QED
    BY <1>3 DEF N

LEMMA NotNothing ==
  ASSUME HasEngine, EngineWired, NEW n
  PROVE  OwnOf(n) # Lost /\ Result # Lost /\ DOMAIN Result = Buffers /\ Buffers # {}
  <1>1. Buffers # {}
    BY DEF HasEngine, EngineWired, Buffers, Single, Pair
  <1>2. DOMAIN OwnOf(n) = Buffers /\ DOMAIN Result = Buffers
    BY BuffersInPair DEF OwnOf
  <1>3. DOMAIN Lost = {}
    BY DEF Lost
  <1>4. QED
    BY <1>1, <1>2, <1>3

LEMMA TypedMoves ==
  ASSUME EngineTyped, Moves
  PROVE  EngineTyped'
  <1>1. work' \in Seq(WorkItem)
    BY WorkMoves
  <1>2. DOMAIN input' = DOMAIN input /\ DOMAIN sampled' = DOMAIN sampled
    BY DEF Moves
  <1>3. DOMAIN texture' = {"base", "drawn"}
    BY DEF Moves, EngineTyped, Clear
  <1>4. QED
    BY <1>1, <1>2, <1>3 DEF EngineTyped, Moves, WorkItem

LEMMA PlaceMoves ==
  ASSUME AtItsPlace, EngineWired, Moves
  PROVE  AtItsPlace' /\ EngineWired'
  BY DEF AtItsPlace, EngineWired, Moves, Paired, Windowed, HasEngine, OnlyOne, Both

LEMMA PicturesMove ==
  ASSUME EngineTyped, PicturesKept, Moves
  PROVE  PicturesKept'
  <1> SUFFICES ASSUME NEW k \in DOMAIN work', work'[k].kind \in {"read", "base"}
               PROVE  StillThere(work[k].picture, k)'
    BY DEF PicturesKept
  <1>1. k + 1 \in DOMAIN work /\ work'[k] = work[k + 1] /\ k \in Nat
    BY WorkMoves
  <1>2. PICK p : p = work[k + 1].picture
    OBVIOUS
  <1>3. p \in held \/ \E j \in DOMAIN work : j > k + 1 /\ work[j] = Release(p)
    BY <1>1, <1>2 DEF PicturesKept, StillThere
  <1>4. ASSUME NEW j \in DOMAIN work, j > k + 1, work[j] = Release(p)
        PROVE  \E i \in DOMAIN work' : i > k /\ work'[i] = Release(p)
    <2> DEFINE i == j - 1
    <2>1. i \in DOMAIN work' /\ i + 1 = j /\ i > k
      BY <1>1, <1>4, WorkMoves
    <2> HIDE DEF i
    <2>2. work'[i] = work[j]
      BY <2>1, WorkMoves
    <2>3. QED
      BY <1>4, <2>1, <2>2
  <1>5. p \in held' \/ \E i \in DOMAIN work' : i > k /\ work'[i] = Release(p)
    BY <1>3, <1>4 DEF Moves
  <1>6. QED
    BY <1>1, <1>2, <1>5 DEF StillThere, Release

LEMMA ItemsMove ==
  ASSUME EngineWired, EngineTyped, PicturesKept, WorkTrue, Moves
  PROVE  WorkTrue'
  <1> SUFFICES ASSUME NEW k \in DOMAIN work'
               PROVE  ItemTrue(k)'
    BY DEF WorkTrue
  <1>1. k + 1 \in DOMAIN work /\ work'[k] = work[k + 1] /\ k \in 1 .. End'
    BY WorkMoves
  <1>c. PICK c : c = work[k + 1]
    OBVIOUS
  <1>2. ItemTrue(k + 1)
    BY <1>1 DEF WorkTrue
  <1>3. HasEngine' = HasEngine /\ Paired' = Paired
    BY DEF HasEngine, Paired, Moves
  <1>4. c.kind = "compute" => HasEngine
    BY <1>2, <1>c DEF ItemTrue
  <1>5. c.kind = "base" => ~Paired
    BY <1>2, <1>c DEF ItemTrue
  <1>6. c.kind = "download" => OutputIs(c.stamp, k)'
    <2> SUFFICES ASSUME c.kind = "download"
                 PROVE  OutputIs(c.stamp, k)'
      OBVIOUS
    <2>1. OutputIs(c.stamp, k + 1)
      BY <1>2, <1>c DEF ItemTrue
    <2>2. QED
      BY <1>1, <2>1, OutputMoves
  <1>7. c.kind = "unmap" /\ ~Paired => BaseIs(c.of, k)'
    <2> SUFFICES ASSUME c.kind = "unmap", ~Paired
                 PROVE  BaseIs(c.of, k)'
      OBVIOUS
    <2>1. BaseIs(c.of, k + 1)
      BY <1>2, <1>c DEF ItemTrue
    <2>2. QED
      BY <1>1, <2>1, BaseMoves
  <1>8. c.kind = "unmap" /\ HasEngine => DrawnIs(c.of, k)'
    <2> SUFFICES ASSUME c.kind = "unmap", HasEngine
                 PROVE  DrawnIs(c.of, k)'
      OBVIOUS
    <2>1. DrawnIs(c.of, k + 1)
      BY <1>2, <1>c DEF ItemTrue
    <2>2. QED
      BY <1>1, <2>1, DrawnMoves
  <1>9. work'[k] = c
    BY <1>1, <1>c
  <1>10. QED
    BY <1>3, <1>4, <1>5, <1>6, <1>7, <1>8, <1>9 DEF ItemTrue

LEMMA EndMoves ==
  ASSUME EngineTyped, Moves
  PROVE  End' \in 1 .. End' /\ End' + 1 = End
  BY WorkMoves

LEMMA CopiedLast ==
  ASSUME EngineWired, EngineTyped, PicturesKept, Moves, NEW n, CopiedIs(n, End)
  PROVE  CopiedIs(n, End)'
  <1>1. PICK e : e = End'
    OBVIOUS
  <1>2. CopiedIs(n, e + 1) /\ e \in 1 .. End'
    BY <1>1, EndMoves
  <1>3. CopiedIs(n, e)'
    BY <1>2, CopiedMoves
  <1>4. QED
    BY <1>1, <1>3 DEF CopiedIs

LEMMA OutputLast ==
  ASSUME EngineWired, EngineTyped, PicturesKept, Moves, NEW n, OutputIs(n, End)
  PROVE  OutputIs(n, End)'
  <1>1. PICK e : e = End'
    OBVIOUS
  <1>2. OutputIs(n, e + 1) /\ e \in 1 .. End'
    BY <1>1, EndMoves
  <1>3. OutputIs(n, e)'
    BY <1>2, OutputMoves
  <1>4. QED
    BY <1>1, <1>3 DEF OutputIs

LEMMA InputsLast ==
  ASSUME EngineWired, EngineTyped, PicturesKept, Moves, NEW n, InputsAre(n, End)
  PROVE  InputsAre(n, End)'
  <1>1. PICK e : e = End'
    OBVIOUS
  <1>2. InputsAre(n, e + 1) /\ e \in 1 .. End'
    BY <1>1, EndMoves
  <1>3. InputsAre(n, e)'
    BY <1>2, InputsMove
  <1>4. QED
    BY <1>1, <1>3 DEF InputsAre, InputIs

LEMMA SampledLast ==
  ASSUME EngineWired, EngineTyped, PicturesKept, Moves, NEW s \in TimedSlots, NEW n,
         SampledIs(s, n, End)
  PROVE  SampledIs(s, n, End)'
  <1>1. PICK e : e = End'
    OBVIOUS
  <1>2. SampledIs(s, n, e + 1) /\ e \in 1 .. End'
    BY <1>1, EndMoves
  <1>3. SampledIs(s, n, e)'
    BY <1>2, SampledMoves
  <1>4. QED
    BY <1>1, <1>3 DEF SampledIs

LEMMA NextMoves ==
  ASSUME EngineWired, EngineTyped, PicturesKept, NextTrue, Moves
  PROVE  NextTrue'
  <1>1. PICK n : n = frame
    OBVIOUS
  <1>2. frame' = n /\ HasEngine' = HasEngine /\ This' = This
        /\ UNCHANGED <<at, events, timing, cycles, of>>
    BY <1>1 DEF Moves, HasEngine, This, Slot
  <1>3. InputsAre(n, End) => InputsAre(n, End)'
    BY InputsLast
  <1>4. OutputIs(n, End) => OutputIs(n, End)'
    BY OutputLast
  <1>5. CopiedIs(n, End) => CopiedIs(n, End)'
    BY CopiedLast
  <1>6. ASSUME at' \in {"drop", "infer"}
        PROVE  InputsAre(n, End)' /\ events'[This'].pre_start = frame' /\ timing'[This'] = Blank'
    BY <1>1, <1>2, <1>3, <1>6 DEF NextTrue, Blank
  <1>7. ASSUME at' \in {"download", "decode", "mark"}
        PROVE  OutputIs(n, End)'
    BY <1>1, <1>2, <1>4, <1>7 DEF NextTrue
  <1>8. ASSUME at' = "present" /\ HasEngine'
        PROVE  OutputIs(n, End)' /\ cycles' >= 1 /\ of'[cycles'] = frame'
    BY <1>1, <1>2, <1>4, <1>8 DEF NextTrue
  <1>9. ASSUME at' = "wait"
        PROVE  CopiedIs(n, End)'
    BY <1>1, <1>2, <1>5, <1>9 DEF NextTrue
  <1> DEFINE I == InputsAre(n, End)'
             O == OutputIs(n, End)'
             C == CopiedIs(n, End)'
  <1>10. InputsAre(frame, End)' = I /\ OutputIs(frame, End)' = O /\ CopiedIs(frame, End)' = C
    BY <1>2
  <1> HIDE DEF I, O, C
  <1>11. QED
    BY <1>6, <1>7, <1>8, <1>9, <1>10 DEF NextTrue, I, O, C

LEMMA CyclesMove ==
  ASSUME EngineWired, EngineTyped, PicturesKept, CyclesTrue, Moves
  PROVE  CyclesTrue'
  <1>1. Recent' = Recent /\ \A i : Slot(i) = Slot(i)' /\ Measured(Slot(i))' = Measured(Slot(i))
    BY DEF Recent, Slot, Measured, LastEvent, Moves
  <1> SUFFICES ASSUME NEW i \in Recent
               PROVE  CycleTrue(i)'
    BY <1>1 DEF CyclesTrue
  <1>2. CycleTrue(i)
    BY DEF CyclesTrue
  <1>3. PICK n : n = of[i + 1]
    OBVIOUS
  <1>4. PICK s : s = Slot(i)
    OBVIOUS
  <1>5. s \in TimedSlots
    BY <1>4, EngineAssumption DEF Recent, Slot, TimedSlots, EngineTyped
  <1>6. UNCHANGED <<events, of>> /\ Paired' = Paired
    BY DEF Moves, Paired
  <1>7. Paired => SampledIs(s, n, End)'
    BY <1>2, <1>3, <1>4, <1>5, SampledLast DEF CycleTrue
  <1>8. ASSUME Paired, NEW k \in SampledAt(s)'
        PROVE  \E j \in DOMAIN work' : j > k /\ work'[j] = Record(s, "sample_done")
    <2>1. k \in Nat \ {0} /\ k + 1 \in SampledAt(s)
      BY <1>8, KindMoves DEF SampledAt
    <2>2. PICK j \in DOMAIN work : j > k + 1 /\ work[j] = Record(s, "sample_done")
      BY <1>2, <1>4, <1>8, <2>1 DEF CycleTrue
    <2> DEFINE m == j - 1
    <2>3. m \in DOMAIN work' /\ m + 1 = j /\ m > k
      BY <2>1, <2>2, WorkMoves
    <2> HIDE DEF m
    <2>4. work'[m] = work[j]
      BY <2>3, WorkMoves
    <2>5. QED
      BY <2>2, <2>3, <2>4
  <1>9. \A e \in Measured(Slot(i))' : events'[Slot(i)'][e] = of'[i + 1]
    BY <1>1, <1>2, <1>6 DEF CycleTrue
  <1> DEFINE S == SampledIs(s, n, End)'
  <1>10. SampledIs(Slot(i), of[i + 1], End)' = S
    BY <1>1, <1>3, <1>4, <1>6
  <1>11. Slot(i)' = s
    BY <1>1, <1>4
  <1> HIDE DEF S
  <1>12. Paired' => S
    BY <1>6, <1>7 DEF S
  <1>13. ASSUME Paired', NEW k \in SampledAt(Slot(i))'
         PROVE  \E j \in DOMAIN work' : j > k /\ work'[j] = Record(Slot(i)', "sample_done")
    BY <1>6, <1>8, <1>11, <1>13 DEF SampledAt
  <1>14. QED
    BY <1>9, <1>10, <1>12, <1>13 DEF CycleTrue, Record

LEMMA MadeMoves ==
  ASSUME EngineWired, EngineTyped, PicturesKept, WorkTrue, OutputMade, Moves
  PROVE  OutputMade'
  <1>1. Buffers' = Buffers /\ HasEngine' = HasEngine
    BY DEF Moves, Buffers, HasEngine
  <1>2. ItemTrue(1) /\ 1 \in DOMAIN work
    BY WorkMoves DEF WorkTrue
  <1>3. output' = Lost \/ DOMAIN output' = Buffers'
    BY <1>1, BuffersInPair DEF OutputMade, Moves
  <1>4. ASSUME output' = Lost
        PROVE  /\ \A s \in TimedSlots : sampled'[s] = Lost
               /\ texture'.drawn = Lost /\ copied' = Lost /\ sent'[2] = Lost
               /\ boxes'.frame = 0 /\ told'.sample = Lost /\ (HasEngine' => screen'[1] = 0)
    <2>1. First.kind # "compute"
      BY <1>2, <1>4, NotNothing DEF ItemTrue, First, Moves
    <2>2. output = Lost
      BY <1>4, <2>1 DEF Moves
    <2>3. \A s \in TimedSlots : sampled'[s] = Lost
      BY <2>2 DEF OutputMade, Moves, EngineTyped
    <2>4. texture'.drawn = Lost /\ copied' = Lost /\ sent'[2] = Lost
      BY <2>2 DEF OutputMade, Moves, EngineTyped, Clear
    <2>5. HasEngine => First.kind # "unmap"
      <3> SUFFICES ASSUME HasEngine, First.kind = "unmap"
                   PROVE  FALSE
        OBVIOUS
      <3>1. PICK n : n = First.of
        OBVIOUS
      <3>2. DrawnIs(n, 1)
        BY <1>2, <3>1 DEF ItemTrue, First
      <3>3. texture.drawn = OwnOf(n)
        BY <3>2, DrawnNow
      <3>4. QED
        BY <2>2, <3>3, NotNothing DEF OutputMade
    <2>6. QED
      BY <1>1, <2>2, <2>3, <2>4, <2>5 DEF OutputMade, Moves
  <1>5. QED
    BY <1>3, <1>4 DEF OutputMade, Lost

LEMMA ResultsMove ==
  ASSUME EngineWired, EngineTyped, PicturesKept, WorkTrue, ResultsAre, Moves
  PROVE  ResultsAre'
  <1>1. HasEngine' = HasEngine /\ Paired' = Paired /\ \A n : OwnOf(n)' = OwnOf(n)
    BY DEF Moves, Buffers, HasEngine, Paired, OwnOf
  <1>2. ItemTrue(1) /\ 1 \in DOMAIN work
    BY WorkMoves DEF WorkTrue
  <1>3. Paired => texture'.base = Lost /\ screen'[2].base = Lost
    BY <1>2 DEF ResultsAre, Moves, EngineTyped, Clear, ItemTrue, First
  <1>4. PICK m : m = First.stamp
    OBVIOUS
  <1>5. PICK n : n = First.of
    OBVIOUS
  <1>6. First.kind = "download" => output = OwnOf(m)
    BY <1>2, <1>4, OutputNow DEF ItemTrue, First
  <1>7. First.kind = "unmap" /\ ~Paired => texture.base = <<0, n>>
    BY <1>2, <1>5, BaseNow DEF ItemTrue, First
  <1>8. First.kind = "unmap" /\ HasEngine => texture.drawn = OwnOf(n)
    BY <1>2, <1>5, DrawnNow DEF ItemTrue, First
  <1>9. sent'[2] # Lost => sent'[2] = OwnOf(sent'[1])
    <2>1. CASE First.kind = "download"
      BY <1>4, <1>6, <2>1 DEF Moves
    <2>2. CASE First.kind # "download"
      BY <2>2 DEF Moves, ResultsAre
    <2>3. QED
      BY <2>1, <2>2
  <1>10. screen'[1] # 0 => /\ ~Paired => screen'[2].base = <<0, screen'[1]>>
                           /\ HasEngine => screen'[2].drawn = OwnOf(screen'[1])
    <2>1. CASE First.kind = "unmap"
      BY <1>5, <1>7, <1>8, <2>1 DEF Moves
    <2>2. CASE First.kind # "unmap"
      BY <2>2 DEF Moves, ResultsAre
    <2>3. QED
      BY <2>1, <2>2
  <1>11. boxes' = boxes /\ (boxes.frame # 0 => boxes.content = OwnOf(boxes.frame))
    BY DEF Moves, ResultsAre
  <1>12. OwnOf(sent[1])' = OwnOf(sent'[1]) /\ OwnOf(screen[1])' = OwnOf(screen'[1])
         /\ OwnOf(boxes.frame)' = OwnOf(boxes.frame)
    BY <1>11 DEF OwnOf, Buffers, Moves
  <1>13. QED
    BY <1>1, <1>3, <1>9, <1>10, <1>11, <1>12 DEF ResultsAre, Lost

LEMMA ToldMoves ==
  ASSUME ToldIs, Moves
  PROVE  ToldIs'
  <1>1. UNCHANGED <<told, of, cycles>> /\ \A n : OwnOf(n)' = OwnOf(n)
    BY DEF Moves, OwnOf, Buffers
  <1>2. OwnOf(of[told.cycle + 1])' = OwnOf(of[told.cycle + 1])
    BY <1>1 DEF OwnOf, Buffers, Moves
  <1>3. QED
    BY <1>1, <1>2 DEF ToldIs, Lost

(* What has fired stays fired while nothing is queued. *)
LEMMA TimedMoves ==
  ASSUME EngineTyped, Moves
  PROVE  Timed \subseteq Timed'
  <1>1. /\ Recent' = Recent
        /\ \A i : Slot(i) = Slot(i)' /\ Measured(Slot(i))' = Measured(Slot(i))
    BY DEF Recent, Slot, Measured, LastEvent, Moves
  <1>2. \A s, e : Fired(s, e) => Fired(s, e)'
    <2> SUFFICES ASSUME NEW s, NEW e, ~Fired(s, e)'
                 PROVE  ~Fired(s, e)
      OBVIOUS
    <2>1. PICK k \in DOMAIN work' : work'[k] = Record(s, e)
      BY DEF Fired, Records, Record
    <2>2. k + 1 \in DOMAIN work /\ work[k + 1] = Record(s, e)
      BY <2>1, WorkMoves
    <2>3. QED
      BY <2>2 DEF Fired, Records
  <1>3. ASSUME NEW i \in Timed
        PROVE  i \in Timed'
    <2>1. i \in Recent' /\ \A e \in Measured(Slot(i)) : Fired(Slot(i), e)
      BY <1>1 DEF Timed
    <2>2. PICK s : s = Slot(i)
      OBVIOUS
    <2>3. \A e \in Measured(s) : Fired(s, e)'
      BY <1>2, <2>1, <2>2
    <2>4. \A e \in Measured(Slot(i))' : Fired(s, e)'
      BY <1>1, <2>2, <2>3
    <2>5. Slot(i)' = s
      BY <1>1, <2>2
    <2>6. \A e \in Measured(Slot(i))' : Fired(Slot(i), e)'
      BY <2>4, <2>5 DEF Fired, Records, Record
    <2>7. QED
      BY <2>1, <2>6 DEF Timed
  <1>4. QED
    BY <1>3

LEMMA SpreadMoves ==
  ASSUME EngineTyped, SpreadGrows, Moves
  PROVE  SpreadGrows'
  <1>1. UNCHANGED <<user, spread, cycles, at>> /\ Timed \subseteq Timed'
    BY TimedMoves DEF Moves
  <1>2. LastCounted' = LastCounted
    BY <1>1 DEF LastCounted
  <1>3. CountedOnce' = CountedOnce
    BY <1>1 DEF CountedOnce
  <1>4. QED
    BY <1>1, <1>2, <1>3 DEF SpreadGrows

(* The device does the next thing. *)
LEMMA DeviceKeeps ==
  ASSUME EngineIInv, DeviceStep
  PROVE  EngineIInv'
  <1> USE DEF EngineIInv
  <1>1. Moves
    BY DeviceMoves
  <1>2. EngineWired' /\ AtItsPlace'
    BY <1>1, PlaceMoves
  <1>3. EngineTyped'
    BY <1>1, TypedMoves
  <1>4. PicturesKept'
    BY <1>1, PicturesMove
  <1>5. WorkTrue'
    BY <1>1, ItemsMove
  <1>6. NextTrue'
    BY <1>1, NextMoves
  <1>7. CyclesTrue'
    BY <1>1, CyclesMove
  <1>8. OutputMade'
    BY <1>1, MadeMoves
  <1>9. ToldIs' /\ SpreadGrows'
    BY <1>1, ToldMoves, SpreadMoves
  <1>10. ResultsAre'
    BY <1>1, ResultsMove
  <1>11. QED
    BY <1>2, <1>3, <1>4, <1>5, <1>6, <1>7, <1>8, <1>9, <1>10

-----------------------------------------------------------------------------
(* The thread.  Cycles as close as that have slots of their own. *)
LEMMA SlotsDiffer ==
  ASSUME NEW i \in Nat, NEW j \in Nat, i < j, j - i < TimingSlots
  PROVE  Slot(i) # Slot(j)
  <1> DEFINE m == TimingSlots
             q == i \div m
             p == j \div m
             r == i % m
             s == j % m
  <1>0. m \in Nat \ {0}
    BY EngineAssumption
  <1>1. q \in Nat /\ r \in 0 .. m - 1 /\ i = m * q + r
    BY <1>0, Divides
  <1>2. p \in Nat /\ s \in 0 .. m - 1 /\ j = m * p + s
    BY <1>0, Divides
  <1>3. i < j /\ j - i < m
    OBVIOUS
  <1> HIDE DEF m, q, p, r, s
  <1>4. ASSUME r = s
        PROVE  FALSE
    <2> DEFINE d == p - q
    <2>1. m * d = j - i /\ d \in Int
      BY <1>0, <1>1, <1>2, <1>4, SMTT(30)
    <2> HIDE DEF d
    <2>2. 0 - m < m * d /\ m * d < m
      BY <1>0, <1>3, <2>1
    <2>3. d = 0
      BY <1>0, <2>1, <2>2, SmallMultiple
    <2>4. m * d = 0
      BY <1>0, <2>3
    <2>5. QED
      BY <1>3, <2>1, <2>4
  <1>5. QED
    BY <1>4 DEF Slot, m, r, s

LEMMA SlotIn ==
  ASSUME NEW i \in Nat
  PROVE  Slot(i) \in TimedSlots
  <1>1. TimingSlots \in Nat \ {0}
    BY EngineAssumption
  <1>2. i % TimingSlots \in 0 .. TimingSlots - 1
    BY <1>1, Divides
  <1>3. QED
    BY <1>2 DEF Slot, TimedSlots

LEMMA SinceOver ==
  ASSUME NEW H, NEW G, NEW N, NEW k \in Nat, NEW k2 \in Nat, k <= k2, G \subseteq Nat,
         Since(H, G, N, k), \A m \in k .. k2 - 1 : m \notin H
  PROVE  Since(H, G, N, k2)
  <1>1. CASE N /\ \A m \in 1 .. k - 1 : m \notin H
    <2>1. \A m \in 1 .. k2 - 1 : m \in 1 .. k - 1 \/ m \in k .. k2 - 1
      OBVIOUS
    <2>2. QED
      BY <1>1, <2>1 DEF Since
  <1>2. ASSUME NEW j \in G, j < k, \A m \in j + 1 .. k - 1 : m \notin H
        PROVE  Since(H, G, N, k2)
    <2>1. j < k2 /\ \A m \in j + 1 .. k2 - 1 : m \in j + 1 .. k - 1 \/ m \in k .. k2 - 1
      BY <1>2
    <2>2. QED
      BY <1>2, <2>1 DEF Since
  <1>3. QED
    BY <1>1, <1>2 DEF Since

LEMMA SinceHere ==
  ASSUME NEW H, NEW G, NEW N, NEW j \in G, NEW k \in Nat, j < k,
         \A m \in j + 1 .. k - 1 : m \notin H
  PROVE  Since(H, G, N, k)
  BY DEF Since

(* The k-th thing of the stream, if it was not there before, is one of the new ones. *)
LEMMA NewOnes ==
  ASSUME EngineTyped, NEW x, Grows(x)
  PROVE  /\ Len(x) \in Nat /\ DOMAIN x = 1 .. Len(x) /\ End' = End + Len(x) /\ End \in Nat \ {0}
         /\ End = Len(work) + 1 /\ DOMAIN work' = 1 .. End' - 1
         /\ \A j \in 1 .. Len(x) : Len(work) + j \in DOMAIN work' /\ work'[Len(work) + j] = x[j]
         /\ \A m \in DOMAIN work' : m >= End => m - Len(work) \in DOMAIN x
                                                 /\ work'[m] = x[m - Len(work)]
  <1>1. /\ Len(work) \in Nat /\ Len(x) \in Nat /\ Len(work') = Len(work) + Len(x)
        /\ DOMAIN work = 1 .. Len(work) /\ DOMAIN work' = 1 .. Len(work) + Len(x)
        /\ DOMAIN x = 1 .. Len(x)
        /\ \A k \in 1 .. Len(x) : work'[Len(work) + k] = x[k]
        /\ \A k \in DOMAIN work' : k \notin DOMAIN work =>
              k - Len(work) \in DOMAIN x /\ work'[k] = x[k - Len(work)]
    BY WorkGrows
  <1>2. QED
    BY <1>1 DEF End

LEMMA OutputStays ==
  ASSUME EngineTyped, NEW x, Grows(x), NEW n, OutputIs(n, End), NEW k \in Nat, End <= k, k <= End',
         \A j \in DOMAIN x : Len(work) + j < k => x[j].kind # "compute"
  PROVE  OutputIs(n, k)'
  <1> DEFINE K == {"compute"}
             H == KindAt(K)'
             G == {j \in KindAt(K)' : InputsAre(n, j)'}
             N == output' = OwnOf(n)'
  <1>1. PICK e : e = End
    OBVIOUS
  <1>2. e \in 1 .. End /\ OutputIs(n, e)
    BY <1>1, NewOnes
  <1>3. OutputIs(n, e)'
    BY <1>2, OutputGrows
  <1>4. Since(H, G, N, e)
    BY <1>3 DEF OutputIs
  <1>5. \A m \in e .. k - 1 : m \notin H
    BY <1>1, NewOnes DEF KindAt
  <1>6. G \subseteq Nat
    BY NewOnes DEF KindAt
  <1>7. e \in Nat /\ e <= k
    BY <1>1, NewOnes
  <1> HIDE DEF H, G, N
  <1>8. Since(H, G, N, k)
    BY <1>4, <1>5, <1>6, <1>7, SinceOver
  <1>9. QED
    BY <1>8 DEF OutputIs, H, G, N

LEMMA InputStays ==
  ASSUME EngineTyped, NEW x, Grows(x), NEW b, NEW n, InputIs(b, n, End), NEW k \in Nat, End <= k,
         k <= End', \A j \in DOMAIN x : Len(work) + j < k => x[j].kind # "read"
  PROVE  InputIs(b, n, k)'
  <1> DEFINE H == ReadInto(b)'
             G == {j \in ReadInto(b)' : work'[j].picture = PictureOf(b, n)}
             N == input'[b] = PictureOf(b, n)
  <1>1. PICK e : e = End
    OBVIOUS
  <1>2. e \in 1 .. End /\ InputIs(b, n, e)
    BY <1>1, NewOnes
  <1>3. InputIs(b, n, e)'
    BY <1>2, InputGrows
  <1>4. Since(H, G, N, e)
    BY <1>3 DEF InputIs, PictureOf
  <1>5. \A m \in e .. k - 1 : m \notin H
    BY <1>1, NewOnes DEF KindAt, ReadInto
  <1>6. G \subseteq Nat
    BY NewOnes DEF KindAt, ReadInto
  <1>7. e \in Nat /\ e <= k
    BY <1>1, NewOnes
  <1> HIDE DEF H, G, N
  <1>8. Since(H, G, N, k)
    BY <1>4, <1>5, <1>6, <1>7, SinceOver
  <1>9. QED
    BY <1>8 DEF InputIs, H, G, N, PictureOf

LEMMA InputsStay ==
  ASSUME EngineTyped, NEW x, Grows(x), NEW n, InputsAre(n, End), NEW k \in Nat, End <= k,
         k <= End', \A j \in DOMAIN x : Len(work) + j < k => x[j].kind # "read"
  PROVE  InputsAre(n, k)'
  <1>1. Buffers' = Buffers
    BY DEF Grows, Buffers
  <1>2. \A b \in Buffers : InputIs(b, n, k)'
    BY InputStays DEF InputsAre
  <1>3. QED
    BY <1>1, <1>2 DEF InputsAre

LEMMA SampledStays ==
  ASSUME EngineTyped, NEW x, Grows(x), NEW s, NEW n, SampledIs(s, n, End),
         \A j \in DOMAIN x : x[j].kind = "sample" => x[j].slot # s
  PROVE  SampledIs(s, n, End)'
  <1> DEFINE H == SampledAt(s)'
             G == {j \in SampledAt(s)' : OutputIs(n, j)'}
             N == sampled'[s] = OwnOf(n)'
  <1>1. PICK e : e = End
    OBVIOUS
  <1>0. PICK k : k = End'
    OBVIOUS
  <1>2. e \in 1 .. End /\ SampledIs(s, n, e)
    BY <1>1, NewOnes
  <1>3. SampledIs(s, n, e)'
    BY <1>2, SampledGrows
  <1>4. Since(H, G, N, e)
    BY <1>3 DEF SampledIs
  <1>5. \A m \in e .. k - 1 : m \notin H
    BY <1>0, <1>1, NewOnes DEF KindAt, SampledAt
  <1>6. G \subseteq Nat
    BY NewOnes DEF KindAt, SampledAt
  <1>7. e \in Nat /\ k \in Nat /\ e <= k
    BY <1>0, <1>1, NewOnes
  <1> HIDE DEF H, G, N
  <1>8. Since(H, G, N, k)
    BY <1>4, <1>5, <1>6, <1>7, SinceOver
  <1>9. QED
    BY <1>0, <1>8 DEF SampledIs, H, G, N

LEMMA KeptGrows ==
  ASSUME EngineTyped, PicturesKept, NEW x, Grows(x),
         \A p \in held : p \in held' \/ \E j \in DOMAIN x : x[j] = Release(p),
         \A j \in DOMAIN x : x[j].kind \in {"read", "base"} => x[j].picture \in held'
  PROVE  PicturesKept'
  <1> SUFFICES ASSUME NEW k \in DOMAIN work', work'[k].kind \in {"read", "base"}
               PROVE  StillThere(work[k].picture, k)'
    BY DEF PicturesKept
  <1>1. PICK p : p = work'[k].picture
    OBVIOUS
  <1>2. k \in Nat \ {0}
    BY WorkGrows
  <1>3. CASE k >= End
    <2>1. p \in held'
      BY <1>1, <1>3, NewOnes
    <2>2. QED
      BY <1>1, <2>1 DEF StillThere
  <1>4. CASE k < End
    <2>1. k \in DOMAIN work /\ work'[k] = work[k] /\ k <= Len(work)
      BY <1>2, <1>4, WorkGrows DEF End
    <2>2. p \in held \/ \E j \in DOMAIN work : j > k /\ work[j] = Release(p)
      BY <1>1, <2>1 DEF PicturesKept, StillThere
    <2>3. ASSUME p \in held, p \notin held'
          PROVE  \E j \in DOMAIN work' : j > k /\ work'[j] = Release(p)
      <3>1. PICK j \in DOMAIN x : x[j] = Release(p)
        BY <2>3
      <3> DEFINE i == Len(work) + j
      <3>0. j \in 1 .. Len(x) /\ Len(x) \in Nat /\ Len(work) \in Nat /\ k <= Len(work)
        BY <2>1, WorkGrows
      <3>4. i > k
        BY <1>2, <3>0
      <3>2. i \in DOMAIN work' /\ work'[i] = x[j]
        BY <3>0, NewOnes
      <3> HIDE DEF i
      <3>3. QED
        BY <3>1, <3>2, <3>4
    <2>4. ASSUME NEW j \in DOMAIN work, j > k, work[j] = Release(p)
          PROVE  \E i \in DOMAIN work' : i > k /\ work'[i] = Release(p)
      <3>1. j \in DOMAIN work' /\ work'[j] = work[j]
        BY WorkGrows
      <3>2. QED
        BY <2>4, <3>1
    <2>5. p \in held' \/ \E j \in DOMAIN work' : j > k /\ work'[j] = Release(p)
      BY <2>2, <2>3, <2>4
    <2>6. QED
      BY <1>1, <2>5 DEF StillThere, Release
  <1>5. QED
    BY <1>2, <1>3, <1>4, NewOnes

LEMMA ItemsGrow ==
  ASSUME EngineTyped, WorkTrue, NEW x, Grows(x),
         \A k \in DOMAIN work' : k >= End => ItemTrue(k)'
  PROVE  WorkTrue'
  <1> SUFFICES ASSUME NEW k \in DOMAIN work'
               PROVE  ItemTrue(k)'
    BY DEF WorkTrue
  <1>2. k \in Nat \ {0}
    BY WorkGrows
  <1>3. CASE k >= End
    BY <1>3
  <1>4. CASE k < End
    <2>1. k \in DOMAIN work /\ work'[k] = work[k] /\ k \in 1 .. End
      <3>1. /\ Len(work) \in Nat /\ DOMAIN work = 1 .. Len(work)
            /\ \A i \in 1 .. Len(work) : work'[i] = work[i]
        BY WorkGrows
      <3>2. k \in 1 .. Len(work)
        BY ONLY <1>2, <1>4, <3>1 DEF End
      <3>3. QED
        BY <3>1, <3>2, <1>2, <1>4 DEF End
    <2>2. ItemTrue(k)
      BY <2>1 DEF WorkTrue
    <2>3. HasEngine' = HasEngine /\ Paired' = Paired
      BY DEF HasEngine, Paired, Grows
    <2>c. PICK c : c = work[k]
      OBVIOUS
    <2>4. c.kind = "compute" => HasEngine
      BY <2>2, <2>c DEF ItemTrue
    <2>5. c.kind = "base" => ~Paired
      BY <2>2, <2>c DEF ItemTrue
    <2>6. c.kind = "download" => OutputIs(c.stamp, k)'
      <3>1. c.kind = "download" => OutputIs(c.stamp, k)
        BY <2>2, <2>c DEF ItemTrue
      <3>2. QED
        BY <2>1, <3>1, OutputGrows
    <2>7. c.kind = "unmap" /\ ~Paired => BaseIs(c.of, k)'
      <3>1. c.kind = "unmap" /\ ~Paired => BaseIs(c.of, k)
        BY <2>2, <2>c DEF ItemTrue
      <3>2. QED
        BY <2>1, <3>1, BaseGrows
    <2>8. c.kind = "unmap" /\ HasEngine => DrawnIs(c.of, k)'
      <3>1. c.kind = "unmap" /\ HasEngine => DrawnIs(c.of, k)
        BY <2>2, <2>c DEF ItemTrue
      <3>2. QED
        BY <2>1, <3>1, DrawnGrows
    <2>9. work'[k] = c
      BY <2>1, <2>c
    <2>10. QED
      BY <2>3, <2>4, <2>5, <2>6, <2>7, <2>8, <2>9 DEF ItemTrue
  <1>5. QED
    BY <1>2, <1>3, <1>4, NewOnes

(* What asks nothing of what it finds. *)
Plain == {"record", "read", "map", "draw", "copy_out", "sample", "release"}
LEMMA PlainGrow ==
  ASSUME EngineTyped, WorkTrue, NEW x, Grows(x),
         \A j \in DOMAIN x : x[j].kind \in Plain \/ (x[j].kind = "compute" /\ HasEngine)
  PROVE  WorkTrue'
  <1> SUFFICES ASSUME NEW k \in DOMAIN work', k >= End
               PROVE  ItemTrue(k)'
    BY ItemsGrow
  <1>1. work'[k].kind \in Plain \/ (work'[k].kind = "compute" /\ HasEngine)
    BY NewOnes
  <1>2. HasEngine' = HasEngine
    BY DEF HasEngine, Grows
  <1>3. QED
    BY <1>1, <1>2 DEF ItemTrue, Plain

(* A cycle whose slot is left alone, or is given nothing but what is its own. *)
LEMMA CycleStays ==
  ASSUME EngineTyped, NEW x, Grows(x), NEW i \in Recent, CycleTrue(i),
         of'[i + 1] = of[i + 1],
         \A e \in Measured(Slot(i))' : events'[Slot(i)][e] = of[i + 1],
         \A j \in DOMAIN x : x[j].kind = "sample" => x[j].slot # Slot(i)
  PROVE  CycleTrue(i)'
  <1>1. PICK n : n = of[i + 1]
    OBVIOUS
  <1>2. PICK s : s = Slot(i)
    OBVIOUS
  <1>3. Paired' = Paired /\ Slot(i)' = s
    BY <1>2 DEF Grows, Paired, Slot
  <1>4. Paired => SampledIs(s, n, End)'
    BY <1>1, <1>2, SampledStays DEF CycleTrue
  <1>5. ASSUME Paired, NEW k \in SampledAt(s)'
        PROVE  \E j \in DOMAIN work' : j > k /\ work'[j] = Record(s, "sample_done")
    <2>1. k \in DOMAIN work' /\ k \in Nat /\ work'[k].kind = "sample" /\ work'[k].slot = s
      BY WorkGrows DEF SampledAt, KindAt
    <2>2. k \in DOMAIN work /\ work'[k] = work[k]
      BY <1>2, <2>1, WorkGrows
    <2>3. k \in SampledAt(s)
      BY <2>1, <2>2 DEF SampledAt, KindAt
    <2>4. PICK j \in DOMAIN work : j > k /\ work[j] = Record(s, "sample_done")
      BY <1>2, <1>5, <2>3 DEF CycleTrue
    <2>5. QED
      BY <2>4, WorkGrows
  <1> DEFINE S == SampledIs(s, n, End)'
  <1>6. SampledIs(Slot(i), of[i + 1], End)' = S
    BY <1>1, <1>3
  <1> HIDE DEF S
  <1>7. Paired' => S
    BY <1>3, <1>4 DEF S
  <1>8. ASSUME Paired', NEW k \in SampledAt(Slot(i))'
        PROVE  \E j \in DOMAIN work' : j > k /\ work'[j] = Record(Slot(i)', "sample_done")
    BY <1>3, <1>5, <1>8 DEF SampledAt
  <1>9. \A e \in Measured(Slot(i))' : events'[Slot(i)'][e] = of'[i + 1]
    BY <1>2, <1>3
  <1>10. QED
    BY <1>6, <1>7, <1>8, <1>9 DEF CycleTrue, Record

LEMMA QueueGives ==
  ASSUME EngineTyped, NEW x \in Seq(WorkItem), NEW n \in 0 .. MaxCycles, Queue(x, n)
  PROVE  /\ work' = work \o x /\ work' \in Seq(WorkItem)
         /\ events' \in [TimedSlots -> [EventNames -> 0 .. MaxCycles]]
         /\ \A s \in TimedSlots, e \in EventNames :
              events'[s][e] = IF Records(x, s, e) THEN n ELSE events[s][e]
  <1>1. work \in Seq(WorkItem) /\ events \in [TimedSlots -> [EventNames -> 0 .. MaxCycles]]
    BY DEF EngineTyped
  <1> DEFINE v(s, e) == IF Records(x, s, e) THEN n ELSE events[s][e]
  <1>2. \A s \in TimedSlots, e \in EventNames : v(s, e) \in 0 .. MaxCycles
    BY <1>1
  <1>3. work' = work \o x /\ events' = [s \in TimedSlots |-> [e \in EventNames |-> v(s, e)]]
    BY DEF Queue
  <1> HIDE DEF v
  <1>4. events' \in [TimedSlots -> [EventNames -> 0 .. MaxCycles]]
    BY <1>2, <1>3
  <1>5. \A s \in TimedSlots, e \in EventNames : events'[s][e] = v(s, e)
    BY <1>3
  <1>6. work' \in Seq(WorkItem)
    BY <1>1, <1>3, ConcatProperties
  <1>7. QED
    BY <1>3, <1>4, <1>5, <1>6 DEF v

(* What a call that fails has queued before. *)
PartOf(x, calls) ==
  x \in Seq(WorkItem) /\ Len(x) <= Len(calls) /\ \A j \in DOMAIN x : j \in DOMAIN calls /\ x[j] = calls[j]

LEMMA AllOf ==
  ASSUME NEW calls \in Seq(WorkItem)
  PROVE  PartOf(calls, calls)
  <1>1. Len(calls) \in Nat
    BY LenProperties
  <1>2. QED
    BY <1>1 DEF PartOf

LEMMA FailsGives ==
  ASSUME NEW calls \in Seq(WorkItem), NEW n, Fails(calls, n)
  PROVE  \E x : PartOf(x, calls) /\ Len(x) < Len(calls) /\ Queue(x, n)
  <1>1. PICK k \in 0 .. Len(calls) - 1 : Queue(SubSeq(calls, 1, k), n)
    BY DEF Fails
  <1> DEFINE x == SubSeq(calls, 1, k)
  <1>2. Len(calls) \in Nat /\ DOMAIN calls = 1 .. Len(calls) /\ k \in Nat /\ k < Len(calls)
    BY LenProperties
  <1>3. x \in Seq(WorkItem) /\ Len(x) = k /\ \A j \in 1 .. k : x[j] = calls[j]
    BY <1>2, SubSeqProperties
  <1>4. DOMAIN x = 1 .. k
    BY <1>3, LenProperties
  <1>5. Queue(x, n)
    BY <1>1
  <1> HIDE DEF x
  <1>6. \A j \in DOMAIN x : j \in DOMAIN calls /\ x[j] = calls[j]
    BY <1>2, <1>3, <1>4
  <1>7. PartOf(x, calls)
    BY <1>2, <1>3, <1>6 DEF PartOf
  <1>8. QED
    BY <1>2, <1>3, <1>5, <1>7

LEMMA SameResults ==
  ASSUME EngineTyped, OutputMade, ToldIs, ResultsAre,
         UNCHANGED <<wiring, user, deviceVars, shownVars, told>>,
         cycles' \in Nat, cycles' >= cycles, \A c \in 0 .. cycles - 1 : of'[c + 1] = of[c + 1]
  PROVE  OutputMade' /\ ToldIs' /\ ResultsAre'
  <1>1. /\ UNCHANGED <<output, sampled, texture, copied, sent, boxes, screen, told, user>>
        /\ Buffers' = Buffers /\ HasEngine' = HasEngine /\ Paired' = Paired
        /\ \A n : OwnOf(n)' = OwnOf(n)
    BY DEF deviceVars, shownVars, Buffers, HasEngine, Paired, OwnOf
  <1>2. cycles \in Nat
    BY LenProperties DEF EngineTyped
  <1>3. OutputMade'
    BY <1>1 DEF OutputMade, Lost
  <1>4. /\ OwnOf(sent[1])' = OwnOf(sent[1]) /\ OwnOf(screen[1])' = OwnOf(screen[1])
        /\ OwnOf(boxes.frame)' = OwnOf(boxes.frame)
    BY <1>1 DEF OwnOf
  <1>5. ResultsAre'
    BY <1>1, <1>4 DEF ResultsAre, Lost
  <1>6. ToldIs'
    <2>1. told.cycle \in -1 .. cycles' - 1
      BY <1>2 DEF ToldIs
    <2>2. ASSUME told.cycle >= 0
          PROVE  of'[told.cycle + 1] = of[told.cycle + 1]
      BY <1>2, <2>2 DEF ToldIs
    <2>3. ASSUME told.cycle >= 0
          PROVE  OwnOf(of[told.cycle + 1])' = OwnOf(of[told.cycle + 1])
      BY <1>1, <2>2, <2>3 DEF OwnOf
    <2>4. QED
      BY <1>1, <2>1, <2>2, <2>3 DEF ToldIs, Lost
  <1>7. QED
    BY <1>3, <1>5, <1>6

(* A release for every lease. *)
LEMMA ReleasesAre ==
  ASSUME AtItsPlace, frame \in 0 .. MaxCycles
  PROVE  /\ Releases \in Seq(WorkItem) /\ \A j \in DOMAIN Releases : Releases[j].kind = "release"
         /\ \A p \in held : \E j \in DOMAIN Releases : Releases[j] = Release(p)
  <1> DEFINE p0 == <<0, frame>>
             p1 == <<1, frame>>
             n == Cardinality(held)
             r(k) == Release(IF n = 1 THEN CHOOSE p \in held : TRUE ELSE <<k - 1, frame>>)
  <1>1. p0 \in Pictures /\ p1 \in Pictures /\ p0 # p1
    BY DEF Pictures
  <1>2. Releases = [k \in 1 .. n |-> r(k)]
    BY DEF Releases
  <1>3. held \in {{}, {p0}, {p0, p1}}
    BY DEF AtItsPlace, OnlyOne, Both
  <1>4. held = {} => n = 0
    BY FS_EmptySet
  <1>5. held = {p0} => n = 1 /\ (CHOOSE p \in held : TRUE) = p0
    BY FS_Singleton
  <1> HIDE DEF p0, p1
  <1>6. held = {p0, p1} => n = 2
    <2>1. IsFiniteSet({p0}) /\ Cardinality({p0}) = 1 /\ p1 \notin {p0}
      BY <1>1, FS_Singleton
    <2>2. Cardinality({p0} \cup {p1}) = 2
      BY <2>1, FS_AddElement
    <2>3. {p0} \cup {p1} = {p0, p1}
      OBVIOUS
    <2>4. QED
      BY <2>2, <2>3
  <1>7. CASE held = {}
    <2>1. Releases = << >>
      BY <1>2, <1>4, <1>7
    <2>2. QED
      BY <1>7, <2>1, EmptySeq
  <1>8. CASE held = {p0}
    <2>1. n = 1 /\ \A k \in 1 .. n : r(k) = Release(p0)
      BY <1>5, <1>8
    <2>2. Release(p0) \in WorkItem /\ Release(p0).kind = "release"
      BY <1>1, ReleaseIs
    <2> HIDE DEF n, r
    <2>3. /\ Releases \in [1 .. 1 -> WorkItem] /\ DOMAIN Releases = 1 .. 1
          /\ Releases[1] = Release(p0)
      BY <1>2, <2>1, <2>2
    <2>4. Releases \in Seq(WorkItem)
      BY <2>3, SeqDef
    <2>5. QED
      BY <1>8, <2>2, <2>3, <2>4
  <1>9. CASE held = {p0, p1}
    <2>1. n = 2 /\ r(1) = Release(p0) /\ r(2) = Release(p1)
      BY <1>6, <1>9 DEF p0, p1
    <2>2. /\ Release(p0) \in WorkItem /\ Release(p0).kind = "release"
          /\ Release(p1) \in WorkItem /\ Release(p1).kind = "release"
      BY <1>1, ReleaseIs
    <2> HIDE DEF n, r
    <2>3. DOMAIN Releases = 1 .. 2 /\ Releases[1] = Release(p0) /\ Releases[2] = Release(p1)
      BY <1>2, <2>1
    <2>6. Releases \in [1 .. 2 -> WorkItem]
      BY <1>2, <2>1, <2>2, <2>3
    <2>7. 2 \in Nat
      OBVIOUS
    <2>8. \E m \in Nat : Releases \in [1 .. m -> WorkItem]
      BY <2>6, <2>7
    <2>4. Releases \in Seq(WorkItem)
      BY <2>8, SeqDef
    <2>5. QED
      BY <1>9, <2>2, <2>3, <2>4
  <1>10. QED
    BY <1>3, <1>7, <1>8, <1>9

LEMMA TimedStays ==
  ASSUME EngineTyped, NEW x, Grows(x), NEW i \in Timed, i \in Recent',
         timing'[Slot(i)] = timing[Slot(i)],
         \A j \in DOMAIN x : x[j].kind = "record" => x[j].slot # Slot(i)
  PROVE  i \in Timed'
  <1>1. PICK s : s = Slot(i)
    OBVIOUS
  <1>2. Slot(i)' = s /\ Measured(s)' = Measured(s)
    BY <1>1 DEF Slot, Measured, LastEvent
  <1>3. \A e \in Measured(s) : Fired(s, e)
    BY <1>1 DEF Timed
  <1>4. ASSUME NEW e \in Measured(s), NEW k \in DOMAIN work', work'[k] = Record(s, e)
        PROVE  FALSE
    <2>1. work'[k].kind = "record" /\ work'[k].slot = s
      BY <1>4 DEF Record
    <2>2. k \in DOMAIN work /\ work'[k] = work[k]
      <3>1. /\ Len(work) \in Nat /\ DOMAIN work = 1 .. Len(work)
            /\ \A j \in 1 .. Len(work) : work'[j] = work[j]
            /\ k \notin DOMAIN work => k - Len(work) \in DOMAIN x /\ work'[k] = x[k - Len(work)]
        BY WorkGrows
      <3>2. k \in DOMAIN work
        BY <1>1, <2>1, <3>1
      <3>3. QED
        BY ONLY <3>1, <3>2
    <2>3. QED
      BY <1>3, <1>4, <2>2 DEF Fired, Records
  <1>5. \A e \in Measured(s)' : Fired(s, e)'
    BY <1>2, <1>4 DEF Fired, Records, Record
  <1>6. \A e \in Measured(Slot(i))' : Fired(Slot(i), e)'
    BY <1>1, <1>2, <1>5 DEF Fired, Records, Record
  <1>7. QED
    BY <1>6 DEF Timed

LEMMA RecentAre ==
  ASSUME EngineTyped
  PROVE  /\ cycles \in Nat /\ cycles = Len(of) /\ Recent \subseteq Nat /\ Timed \subseteq Recent
         /\ \A i \in Recent : i \in 0 .. cycles - 1 /\ i >= cycles - TimingSlots
                               /\ Slot(i) \in TimedSlots /\ timing[Slot(i)].armed /\ i + 1 \in 1 .. cycles
  <1>1. cycles \in Nat
    BY LenProperties DEF EngineTyped
  <1>2. Recent \subseteq 0 .. cycles - 1 /\ Timed \subseteq Recent
    BY DEF Recent, Timed
  <1>3. \A i \in Recent : Slot(i) \in TimedSlots
    BY <1>1, <1>2, SlotIn
  <1>4. QED
    BY <1>1, <1>2, <1>3 DEF Recent, EngineTyped

LEMMA MeasuredAre ==
  ASSUME NEW s
  PROVE  Measured(s) \subseteq EventNames /\ Measured(s) \subseteq {"pre_start", "infer_start", "infer_end", "draw_end"}
  BY DEF Measured, LastEvent, EventNames

(* Leases given back behind what is queued. *)
LEMMA GivenBack ==
  ASSUME EngineIInv, work' = work \o Releases, held' = {},
         UNCHANGED <<wiring, deviceVars, texture, copied, events, timing, cycles, of, user, frame>>
  PROVE  /\ Grows(Releases) /\ work' \in Seq(WorkItem) /\ PicturesKept' /\ WorkTrue' /\ CyclesTrue'
         /\ \A j \in DOMAIN Releases : Releases[j].kind = "release"
         /\ \A i \in Timed : i \in Timed'
  <1> USE DEF EngineIInv
  <1>1. PICK x : x = Releases
    OBVIOUS
  <1>2. /\ x \in Seq(WorkItem) /\ \A j \in DOMAIN x : x[j].kind = "release"
        /\ \A p \in held : \E j \in DOMAIN x : x[j] = Release(p)
    BY <1>1, ReleasesAre DEF EngineTyped
  <1>3. Grows(x)
    BY <1>1, <1>2 DEF Grows
  <1>4. PicturesKept'
    BY <1>2, <1>3, KeptGrows
  <1>5. WorkTrue'
    BY <1>2, <1>3, PlainGrow DEF Plain
  <1>6. Recent' = Recent /\ \A s : Measured(s)' = Measured(s)
    BY DEF Recent, Slot, Measured, LastEvent
  <1>7. CyclesTrue'
    <2> SUFFICES ASSUME NEW i \in Recent
                 PROVE  CycleTrue(i)'
      BY <1>6 DEF CyclesTrue
    <2>1. CycleTrue(i)
      BY DEF CyclesTrue
    <2>2. \A e \in Measured(Slot(i))' : events'[Slot(i)][e] = of[i + 1]
      BY <2>1, <1>6 DEF CycleTrue, Measured, LastEvent, Slot
    <2>3. QED
      BY <1>2, <1>3, <2>1, <2>2, CycleStays
  <1>8. \A i \in Timed : i \in Timed'
    BY <1>2, <1>3, <1>6, TimedStays DEF Timed
  <1>9. work' \in Seq(WorkItem)
    BY <1>3, WorkGrows
  <1>10. QED
    BY <1>1, <1>2, <1>3, <1>4, <1>5, <1>7, <1>8, <1>9

(* What was counted last stays where it was. *)
LEMMA SpreadStays ==
  ASSUME SpreadGrows, UNCHANGED <<user, spread, cycles>>, Timed \subseteq Timed',
         at \in {"unwind", "closing", "gone"} =>
           at' \in {"unwind", "closing", "gone"} \/ spread = <<>>,
         at' = "present" => at = "present" \/ spread = <<>>
  PROVE  SpreadGrows'
  <1>1. LastCounted' = LastCounted
    BY DEF LastCounted
  <1>2. CountedOnce' = CountedOnce
    BY DEF CountedOnce
  <1>3. spread # <<>> /\ at' \notin {"unwind", "closing", "gone"} =>
          at \notin {"unwind", "closing", "gone"}
    OBVIOUS
  <1>4. QED
    BY <1>1, <1>2, <1>3 DEF SpreadGrows

(* Some numbers have a least. *)
LEMMA Smallest ==
  ASSUME NEW T, T \subseteq Nat, T # {}
  PROVE  \E a \in T : \A b \in T : a <= b
  <1>1. PICK R : R = OpToRel(<, Nat)
    OBVIOUS
  <1>2. R = {ss \in Nat \X Nat : ss[1] < ss[2]}
    BY <1>1 DEF OpToRel
  <1>3. IsWellFoundedOn(R, Nat)
    BY <1>1, NatLessThanWellFounded
  <1>4. PICK a \in T : \A b \in T : <<b, a>> \notin R
    BY <1>3, WFMin
  <1>5. ASSUME NEW b \in T
        PROVE  a <= b
    <2>1. a \in Nat /\ b \in Nat
      OBVIOUS
    <2>2. ~(b < a)
      BY <1>2, <1>4, <2>1
    <2>3. QED
      BY ONLY <2>1, <2>2
  <1>6. QED
    BY <1>5

LEMMA NewestIs ==
  ASSUME NEW n \in Nat, NEW cs, cs \subseteq 0 .. n, cs # {}
  PROVE  Newest(cs) \in cs /\ \A j \in cs : j <= Newest(cs)
  <1> DEFINE T == {n - i : i \in cs}
  <1>1. T \subseteq Nat /\ T # {}
    <2>1. PICK i \in cs : TRUE
      OBVIOUS
    <2>2. n - i \in T
      BY <2>1
    <2>3. QED
      BY <2>2
  <1>2. PICK a \in T : \A b \in T : a <= b
    BY <1>1, Smallest
  <1>3. PICK i \in cs : a = n - i
    OBVIOUS
  <1>4. \A j \in cs : n - i <= n - j
    BY <1>2, <1>3
  <1>5. ASSUME NEW j \in cs
        PROVE  j <= i
    <2>1. i \in 0 .. n /\ j \in 0 .. n
      OBVIOUS
    <2>2. n - i <= n - j
      BY <1>4
    <2>3. QED
      BY ONLY <2>1, <2>2, n \in Nat
  <1>6. QED
    BY <1>5 DEF Newest

-----------------------------------------------------------------------------
(* The steps of the thread. *)
LEMMA UnwindKeeps ==
  ASSUME EngineIInv, Unwind
  PROVE  EngineIInv'
  <1> USE DEF EngineIInv
  <1>1. /\ at = "unwind" /\ work' = work \o Releases /\ held' = {}
        /\ at' = IF Windowed THEN "closing" ELSE "idle"
        /\ UNCHANGED <<wiring, deviceVars, texture, copied, events, timing, cycles, of, user, frame>>
        /\ UNCHANGED <<seen, faults, shownVars, told, spread>>
    BY DEF Unwind, Go, shownVars
  <1>2. /\ work' \in Seq(WorkItem) /\ PicturesKept' /\ WorkTrue' /\ CyclesTrue'
        /\ \A i \in Timed : i \in Timed'
    BY <1>1, GivenBack
  <1>3. EngineWired'
    BY <1>1 DEF EngineWired, HasEngine, Paired
  <1>4. AtItsPlace'
    BY <1>1 DEF AtItsPlace, Windowed, Paired, HasEngine, OnlyOne, Both
  <1>5. EngineTyped'
    BY <1>1, <1>2 DEF EngineTyped, deviceVars, shownVars, WorkItem
  <1>6. NextTrue'
    BY <1>1 DEF NextTrue
  <1>7. OutputMade' /\ ToldIs' /\ ResultsAre'
    BY <1>1, RecentAre, SameResults
  <1>8. SpreadGrows'
    <2>1. Windowed \/ spread = <<>>
      BY DEF SpreadGrows, Windowed
    <2>2. QED
      BY <1>1, <1>2, <2>1, SpreadStays
  <1>9. QED
    BY <1>2, <1>3, <1>4, <1>5, <1>6, <1>7, <1>8

LEMMA HeadlessDoneKeeps ==
  ASSUME EngineIInv, HeadlessDone
  PROVE  EngineIInv'
  <1> USE DEF EngineIInv
  <1>1. /\ at = "done" /\ work' = work \o Releases /\ held' = {} /\ at' = "idle" /\ seen' = frame
        /\ UNCHANGED <<wiring, deviceVars, texture, copied, events, timing, cycles, of, user, frame>>
        /\ UNCHANGED <<faults, shownVars, told, spread>>
    BY DEF HeadlessDone, Go, shownVars
  <1>2. /\ work' \in Seq(WorkItem) /\ PicturesKept' /\ WorkTrue' /\ CyclesTrue'
        /\ \A i \in Timed : i \in Timed'
    BY <1>1, GivenBack
  <1>3. EngineWired'
    BY <1>1 DEF EngineWired, HasEngine, Paired
  <1>4. AtItsPlace'
    BY <1>1 DEF AtItsPlace, Windowed, Paired, HasEngine, OnlyOne, Both
  <1>5. EngineTyped'
    BY <1>1, <1>2 DEF EngineTyped, deviceVars, shownVars, WorkItem
  <1>6. NextTrue'
    BY <1>1 DEF NextTrue
  <1>7. OutputMade' /\ ToldIs' /\ ResultsAre'
    BY <1>1, RecentAre, SameResults
  <1>8. SpreadGrows'
    BY <1>1, <1>2, SpreadStays
  <1>9. QED
    BY <1>2, <1>3, <1>4, <1>5, <1>6, <1>7, <1>8

LEMMA DropHoldsKeeps ==
  ASSUME EngineIInv, DropHolds
  PROVE  EngineIInv'
  <1> USE DEF EngineIInv
  <1>1. /\ at = "drop" /\ work' = work \o Releases /\ held' = {} /\ at' = "infer"
        /\ UNCHANGED <<wiring, deviceVars, texture, copied, events, timing, cycles, of, user, frame>>
        /\ UNCHANGED <<seen, faults, shownVars, told, spread>>
    BY DEF DropHolds, Go, shownVars
  <1>2. /\ work' \in Seq(WorkItem) /\ PicturesKept' /\ WorkTrue' /\ CyclesTrue'
        /\ Grows(Releases) /\ \A j \in DOMAIN Releases : Releases[j].kind = "release"
        /\ \A i \in Timed : i \in Timed'
    BY <1>1, GivenBack
  <1>3. EngineWired'
    BY <1>1 DEF EngineWired, HasEngine, Paired
  <1>4. AtItsPlace'
    BY <1>1 DEF AtItsPlace, Windowed, Paired, HasEngine, OnlyOne, Both
  <1>5. EngineTyped'
    BY <1>1, <1>2 DEF EngineTyped, deviceVars, shownVars, WorkItem
  <1>6. NextTrue'
    <2>1. InputsAre(frame, End) /\ events[This].pre_start = frame /\ timing[This] = Blank
      BY <1>1 DEF NextTrue
    <2>2. PICK n : n = frame
      OBVIOUS
    <2>3. PICK x : x = Releases
      OBVIOUS
    <2>4. PICK e : e = End'
      OBVIOUS
    <2>5. e \in Nat /\ End <= e /\ e <= End'
      BY <1>2, <2>4, NewOnes
    <2>6. InputsAre(n, e)'
      BY <1>2, <2>1, <2>2, <2>3, <2>5, InputsStay
    <2>7. InputsAre(frame, End)'
      BY <1>1, <2>2, <2>4, <2>6 DEF InputsAre, InputIs
    <2>8. events'[This'].pre_start = frame' /\ timing'[This'] = Blank'
      BY <1>1, <2>1 DEF This, Slot, Blank
    <2>9. QED
      BY <1>1, <2>7, <2>8 DEF NextTrue
  <1>7. OutputMade' /\ ToldIs' /\ ResultsAre'
    BY <1>1, RecentAre, SameResults
  <1>8. SpreadGrows'
    BY <1>1, <1>2, SpreadStays
  <1>9. QED
    BY <1>2, <1>3, <1>4, <1>5, <1>6, <1>7, <1>8

LEMMA NewestOf ==
  ASSUME EngineTyped, NEW cs, cs \subseteq Recent, cs # {}
  PROVE  Newest(cs) \in cs /\ \A j \in cs : j <= Newest(cs)
  <1>1. cycles \in Nat /\ cs \subseteq 0 .. cycles
    BY RecentAre
  <1>2. QED
    BY <1>1, NewestIs

LEMMA TimingIs ==
  ASSUME CyclesTrue, NEW i \in Timed
  PROVE  TimingOf(i) \subseteq {of[i + 1]}
  <1>1. CycleTrue(i)
    BY DEF CyclesTrue, Timed
  <1>2. QED
    BY <1>1 DEF CycleTrue, TimingOf

LEMMA SampledNow ==
  ASSUME EngineTyped, CyclesTrue, Paired, NEW i \in Sampled
  PROVE  sampled[Slot(i)] = OwnOf(of[i + 1])
  <1> DEFINE s == Slot(i)
             n == of[i + 1]
             H == SampledAt(s)
             G == {j \in SampledAt(s) : OutputIs(n, j)}
             N == sampled[s] = OwnOf(n)
  <1>1. CycleTrue(i) /\ Fired(s, "sample_done")
    BY DEF CyclesTrue, Sampled
  <1>2. H = {}
    BY <1>1 DEF CycleTrue, Fired, Records
  <1>3. Since(H, G, N, End)
    BY <1>1 DEF CycleTrue, SampledIs
  <1>4. G = {}
    BY <1>2
  <1> HIDE DEF H, G, N
  <1>5. N
    BY <1>3, <1>4 DEF Since
  <1>6. QED
    BY <1>5 DEF N

LEMMA ToldNew ==
  ASSUME EngineIInv, TellTiming \/ TellSample \/ UNCHANGED told
  PROVE  /\ told'.cycle \in -1 .. cycles - 1
         /\ told'.cycle >= 0 => /\ told'.timed \subseteq {of[told'.cycle + 1]}
                                /\ told'.sample # Lost => told'.sample = OwnOf(of[told'.cycle + 1])
         /\ output = Lost => told'.sample = Lost
  <1> USE DEF EngineIInv
  <1>1. CASE TellTiming
    <2>1. PICK i : i = Newest(Timed)
      OBVIOUS
    <2>2. i \in Timed /\ i \in 0 .. cycles - 1
      BY <1>1, <2>1, NewestOf, RecentAre DEF TellTiming, Timed
    <2>3. told'.cycle = i /\ told'.timed = TimingOf(i) /\ told'.sample = Lost
      BY <1>1, <2>1 DEF TellTiming, Untold
    <2>4. QED
      BY <2>2, <2>3, TimingIs
  <1>2. CASE TellSample
    <2>1. PICK i : i = Newest(Sampled)
      OBVIOUS
    <2>2. i \in Sampled /\ i \in 0 .. cycles - 1 /\ Slot(i) \in TimedSlots
      BY <1>2, <2>1, NewestOf, RecentAre DEF TellSample, Sampled
    <2>3. told'.cycle = i /\ told'.timed = {} /\ told'.sample = sampled[Slot(i)]
      BY <1>2, <2>1 DEF TellSample, Untold
    <2>4. sampled[Slot(i)] = OwnOf(of[i + 1])
      BY <1>2, <2>2, SampledNow DEF TellSample
    <2>5. QED
      BY <2>2, <2>3, <2>4 DEF OutputMade
  <1>3. CASE UNCHANGED told
    BY <1>3 DEF ToldIs, OutputMade
  <1>4. QED
    BY <1>1, <1>2, <1>3

LEMMA ReportKeeps ==
  ASSUME EngineIInv, Report
  PROVE  EngineIInv'
  <1> USE DEF EngineIInv
  <1>1. /\ at = "report" /\ work' = work \o Releases /\ held' = {} /\ at' = "idle"
        /\ UNCHANGED <<wiring, deviceVars, texture, copied, events, timing, cycles, of, user, frame>>
        /\ UNCHANGED <<seen, faults, shownVars>> /\ spread' \in {spread, <<>>}
        /\ (TellTiming \/ TellSample \/ UNCHANGED told)
    BY DEF Report, Go, shownVars
  <1>2. /\ work' \in Seq(WorkItem) /\ PicturesKept' /\ WorkTrue' /\ CyclesTrue'
        /\ \A i \in Timed : i \in Timed'
    BY <1>1, GivenBack
  <1>3. EngineWired'
    BY <1>1 DEF EngineWired, HasEngine, Paired
  <1>4. AtItsPlace'
    BY <1>1 DEF AtItsPlace, Windowed, Paired, HasEngine, OnlyOne, Both
  <1>5. EngineTyped'
    BY <1>1, <1>2 DEF EngineTyped, deviceVars, shownVars, WorkItem
  <1>6. NextTrue'
    BY <1>1 DEF NextTrue
  <1>7. \A n : OwnOf(n)' = OwnOf(n)
    BY <1>1 DEF OwnOf, Buffers
  <1>8. OutputMade'
    <2>1. /\ Buffers' = Buffers /\ HasEngine' = HasEngine
          /\ UNCHANGED <<output, sampled, texture, copied, sent, boxes, screen>>
      BY <1>1 DEF Buffers, HasEngine, deviceVars, shownVars
    <2>2. output = Lost => told'.sample = Lost
      BY <1>1, ToldNew
    <2>3. QED
      BY <2>1, <2>2 DEF OutputMade, Lost
  <1>9. ToldIs'
    <2>1. /\ told'.cycle \in -1 .. cycles - 1
          /\ told'.cycle >= 0 => /\ told'.timed \subseteq {of[told'.cycle + 1]}
                                 /\ told'.sample # Lost => told'.sample = OwnOf(of[told'.cycle + 1])
      BY <1>1, ToldNew
    <2>2. OwnOf(of[told.cycle + 1])' = OwnOf(of[told'.cycle + 1])
      BY <1>1 DEF OwnOf, Buffers
    <2>3. UNCHANGED <<of, cycles>>
      BY <1>1
    <2> DEFINE o == OwnOf(of[told.cycle + 1])'
               q == OwnOf(of[told'.cycle + 1])
    <2>5. o = q
      BY <2>2
    <2>6. told'.sample # Lost /\ told'.cycle >= 0 => told'.sample = q
      BY <2>1
    <2> HIDE DEF q, o
    <2>7. /\ told'.cycle \in -1 .. cycles' - 1
          /\ told'.cycle >= 0 => /\ told'.timed \subseteq {of'[told'.cycle + 1]}
                                 /\ told'.sample # Lost => told'.sample = o
      BY <2>1, <2>3, <2>5, <2>6
    <2>4. QED
      BY <2>7 DEF ToldIs, Lost, o
  <1>10. ResultsAre'
    <2>1. /\ Buffers' = Buffers /\ HasEngine' = HasEngine /\ Paired' = Paired
          /\ UNCHANGED <<texture, sent, boxes, screen>>
      BY <1>1 DEF Buffers, HasEngine, Paired, deviceVars, shownVars
    <2>2. /\ OwnOf(sent[1])' = OwnOf(sent[1]) /\ OwnOf(screen[1])' = OwnOf(screen[1])
          /\ OwnOf(boxes.frame)' = OwnOf(boxes.frame)
      BY <2>1 DEF OwnOf
    <2>3. QED
      BY <2>1, <2>2 DEF ResultsAre, Lost
  <1>11. SpreadGrows'
    <2>1. CASE spread' = spread
      BY <1>1, <1>2, <2>1, SpreadStays
    <2>2. CASE spread' = <<>>
      <3>1. <<>> \in Seq(0 .. cycles' - 1)
        BY EmptySeq
      <3>2. QED
        BY <1>1, <2>2, <3>1 DEF SpreadGrows, CountedOnce
    <2>3. QED
      BY <1>1, <2>1, <2>2
  <1>12. QED
    BY <1>2, <1>3, <1>4, <1>5, <1>6, <1>8, <1>9, <1>10, <1>11

(* Nothing is queued. *)
LEMMA Quiet ==
  ASSUME EngineIInv, held \subseteq held',
         UNCHANGED <<wiring, work, deviceVars, texture, copied, events, timing, cycles, of, user>>
  PROVE  Grows(<<>>) /\ PicturesKept' /\ WorkTrue' /\ CyclesTrue' /\ Timed \subseteq Timed'
  <1> USE DEF EngineIInv
  <1>1. <<>> \in Seq(WorkItem) /\ work \o <<>> = work
    BY EmptySeq, ConcatEmptySeq DEF EngineTyped
  <1>2. PICK x : x = <<>>
    OBVIOUS
  <1>3. Grows(x) /\ \A j \in DOMAIN x : FALSE
    BY <1>1, <1>2 DEF Grows
  <1>4. PicturesKept'
    BY <1>3, KeptGrows
  <1>5. WorkTrue'
    BY <1>3, PlainGrow
  <1>6. Recent' = Recent /\ \A s : Measured(s)' = Measured(s)
    BY DEF Recent, Slot, Measured, LastEvent
  <1>7. CyclesTrue'
    <2> SUFFICES ASSUME NEW i \in Recent
                 PROVE  CycleTrue(i)'
      BY <1>6 DEF CyclesTrue
    <2>1. CycleTrue(i)
      BY DEF CyclesTrue
    <2>2. \A e \in Measured(Slot(i))' : events'[Slot(i)][e] = of[i + 1]
      BY <2>1, <1>6 DEF CycleTrue, Measured, LastEvent, Slot
    <2>3. QED
      BY <1>3, <2>1, <2>2, CycleStays
  <1>8. \A i \in Timed : i \in Timed'
    BY <1>3, <1>6, TimedStays DEF Timed
  <1>9. QED
    BY <1>2, <1>3, <1>4, <1>5, <1>7, <1>8

LEMMA LeaveKeeps ==
  ASSUME EngineIInv, LeaveLoop \/ Synchronized
  PROVE  EngineIInv'
  <1> USE DEF EngineIInv
  <1>1. /\ at \in {"idle", "closing"} /\ at' \in {"closing", "gone"} /\ (at' = "gone" => work = <<>>)
        /\ UNCHANGED <<engineVars, user, frame, seen, shownVars, told, spread>>
    BY DEF LeaveLoop, Synchronized, Go
  <1>2. /\ UNCHANGED <<wiring, work, held, deviceVars, input, output, sampled, texture, copied, screen>>
        /\ UNCHANGED <<events, timing, cycles, of, user, faults>>
    BY <1>1 DEF engineVars, shownVars, deviceVars
  <1>3. PicturesKept' /\ WorkTrue' /\ CyclesTrue' /\ Timed \subseteq Timed'
    BY <1>2, Quiet
  <1>4. EngineWired'
    BY <1>1, <1>2 DEF EngineWired, HasEngine, Paired
  <1>5. AtItsPlace'
    BY <1>1, <1>2 DEF AtItsPlace, Windowed, Paired, HasEngine, OnlyOne, Both
  <1>6. EngineTyped'
    BY <1>1, <1>2 DEF EngineTyped, WorkItem
  <1>7. NextTrue'
    BY <1>1 DEF NextTrue
  <1>8. OutputMade' /\ ToldIs' /\ ResultsAre'
    BY <1>1, <1>2, RecentAre, SameResults
  <1>9. SpreadGrows'
    BY <1>1, <1>2, <1>3, SpreadStays
  <1>10. QED
    BY <1>3, <1>4, <1>5, <1>6, <1>7, <1>8, <1>9

LEMMA NeverCounted ==
  ASSUME EngineWired, SpreadGrows, ~HasEngine
  PROVE  spread = <<>>
  <1>1. spread \in Seq({})
    BY DEF EngineWired, SpreadGrows
  <1>2. Len(spread) \in Nat /\ \A j \in 1 .. Len(spread) : spread[j] \in {}
    BY <1>1, LenProperties, ElementOfSeq
  <1>3. Len(spread) = 0
    BY <1>2
  <1>4. QED
    BY <1>1, <1>3, EmptySeq

LEMMA TakeKeeps ==
  ASSUME EngineIInv, Take
  PROVE  EngineIInv'
  <1> USE DEF EngineIInv
  <1>1. PICK n \in seen + 1 .. MaxCycles :
          /\ frame' = n
          /\ held' = IF Paired THEN {0, 1} \X {n} ELSE {<<0, n>>}
          /\ seen' = IF user.name = "headless" THEN seen ELSE n
    BY DEF Take
  <1>2. /\ at = "idle"
        /\ at' = CASE Paired -> "preprocess"
                   [] user.name = "headless" -> "ask"
                   [] OTHER -> IF HasEngine THEN "ask" ELSE "present"
        /\ UNCHANGED <<wiring, work, deviceVars, events, timing, cycles, preprocessed, of, faults,
                       user, shownVars, told, spread>>
    BY DEF Take, Go
  <1>3. n \in 0 .. MaxCycles /\ seen' \in 0 .. MaxCycles
    BY <1>1 DEF EngineTyped
  <1>4. held = {}
    BY <1>2 DEF AtItsPlace
  <1>5. PicturesKept' /\ WorkTrue' /\ CyclesTrue' /\ Timed \subseteq Timed'
    BY <1>2, <1>4, Quiet DEF shownVars
  <1>6. \/ Paired /\ at' = "preprocess"
        \/ ~Paired /\ user.name = "headless" /\ at' = "ask"
        \/ ~Paired /\ user.name # "headless" /\ HasEngine /\ at' = "ask"
        \/ ~Paired /\ user.name # "headless" /\ ~HasEngine /\ at' = "present"
    BY <1>2 DEF Paired, HasEngine
  <1>7. user.name \in {"callback", "ess_viewer", "yolo_viewer", "camera_viewer", "headless"}
    BY DEF EngineWired, Users
  <1>8. EngineWired'
    BY <1>2, <1>6, <1>7 DEF EngineWired, HasEngine, Paired
  <1>9. AtItsPlace'
    <2>1. user.name = "headless" => HasEngine
      BY <1>2 DEF EngineWired
    <2>2. Paired' = Paired /\ HasEngine' = HasEngine /\ Windowed' = Windowed
      BY <1>2 DEF Paired, HasEngine, Windowed
    <2>3. held' = (IF Paired THEN Both ELSE OnlyOne)'
      BY <1>1, <2>2 DEF Both, OnlyOne
    <2>4. held' = IF Paired THEN Both' ELSE OnlyOne'
      BY <2>2, <2>3
    <2>5. ~Paired /\ user.name # "headless" => Windowed
      BY <1>7 DEF Windowed, Paired
    <2>6. QED
      BY <1>2, <1>6, <2>1, <2>2, <2>4, <2>5 DEF AtItsPlace
  <1>10. EngineTyped'
    BY <1>1, <1>2, <1>3 DEF EngineTyped, WorkItem, deviceVars, shownVars
  <1>11. NextTrue'
    BY <1>2, <1>6 DEF NextTrue, HasEngine
  <1>12. OutputMade' /\ ToldIs' /\ ResultsAre'
    BY <1>2, RecentAre, SameResults
  <1>13. SpreadGrows'
    BY <1>2, <1>5, <1>6, SpreadStays, NeverCounted
  <1>14. QED
    BY <1>5, <1>8, <1>9, <1>10, <1>11, <1>12, <1>13

LEMMA CopiedNow ==
  ASSUME EngineTyped, NEW n, work = <<>>, CopiedIs(n, End)
  PROVE  copied = OwnOf(n)
  <1> DEFINE G == {j \in KindAt({"copy_out"}) : OutputIs(n, j)}
             H == KindAt({"copy_out"})
             N == copied = OwnOf(n)
  <1>1. Since(H, G, N, End)
    BY DEF CopiedIs
  <1>2. G = {}
    BY Positions, EmptySeq
  <1> HIDE DEF G, H, N
  <1>3. N
    BY <1>1, <1>2 DEF Since
  <1>4. QED
    BY <1>3 DEF N

LEMMA DecodedKeeps ==
  ASSUME EngineIInv, Decoded
  PROVE  EngineIInv'
  <1> USE DEF EngineIInv
  <1>1. /\ at = "wait" /\ work = <<>> /\ at' = "done"
        /\ boxes' = [frame |-> frame, content |-> copied]
        /\ UNCHANGED <<engineVars, user, frame, seen, copied, sent, texture, screen, told, spread>>
    BY DEF Decoded, Go
  <1>2. /\ UNCHANGED <<wiring, work, held, deviceVars, input, output, sampled, texture, copied, screen>>
        /\ UNCHANGED <<events, timing, cycles, of, user, faults, sent>>
    BY <1>1 DEF engineVars, shownVars, deviceVars
  <1>3. PicturesKept' /\ WorkTrue' /\ CyclesTrue' /\ Timed \subseteq Timed'
    BY <1>2, Quiet
  <1>4. EngineWired'
    BY <1>1, <1>2 DEF EngineWired, HasEngine, Paired
  <1>5. AtItsPlace'
    BY <1>1, <1>2 DEF AtItsPlace, Windowed, Paired, HasEngine, OnlyOne, Both
  <1>6. EngineTyped'
    BY <1>1, <1>2 DEF EngineTyped, WorkItem
  <1>7. NextTrue'
    BY <1>1 DEF NextTrue
  <1>8. copied = OwnOf(frame) /\ HasEngine
    <2>1. CopiedIs(frame, End)
      BY <1>1 DEF NextTrue
    <2>2. user.name = "headless"
      BY <1>1 DEF AtItsPlace
    <2>3. HasEngine
      BY <1>1, <2>2 DEF EngineWired
    <2>4. QED
      BY <1>1, <2>1, <2>3, CopiedNow
  <1>9. OutputMade'
    <2>1. output # Lost
      BY <1>8, NotNothing DEF OutputMade
    <2>2. QED
      BY <1>2, <2>1 DEF OutputMade, Buffers, Lost
  <1>10. ToldIs'
    <2>1. OwnOf(of[told.cycle + 1])' = OwnOf(of[told.cycle + 1]) /\ UNCHANGED <<told, of, cycles>>
      BY <1>1, <1>2 DEF OwnOf, Buffers
    <2>2. QED
      BY <2>1 DEF ToldIs, Lost
  <1>11. ResultsAre'
    <2>1. HasEngine' = HasEngine /\ Paired' = Paired /\ UNCHANGED <<texture, screen, sent, frame>>
      BY <1>1, <1>2 DEF HasEngine, Paired
    <2>2. /\ OwnOf(sent[1])' = OwnOf(sent[1]) /\ OwnOf(screen[1])' = OwnOf(screen[1])
          /\ OwnOf(boxes.frame)' = OwnOf(frame)
      BY <1>1, <1>2 DEF OwnOf, Buffers
    <2>3. boxes'.content = OwnOf(frame)
      BY <1>1, <1>8
    <2>4. QED
      BY <2>1, <2>2, <2>3 DEF ResultsAre, Lost
  <1>12. SpreadGrows'
    BY <1>1, <1>2, <1>3, SpreadStays
  <1>13. QED
    BY <1>3, <1>4, <1>5, <1>6, <1>7, <1>9, <1>10, <1>11, <1>12

(* A cycle that is counted is later than those that were. *)
LEMMA CountsMore ==
  ASSUME EngineTyped, SpreadGrows, at = "ask", NEW i \in Timed, \A j \in Timed : j <= i,
         spread # <<>> => LastCounted # i, spread' = Append(spread, i), UNCHANGED cycles
  PROVE  CountedOnce' /\ spread' \in Seq(0 .. cycles' - 1) /\ LastCounted' = i /\ spread' # <<>>
  <1>1. i \in 0 .. cycles - 1 /\ i >= cycles - TimingSlots /\ cycles \in Nat
    BY RecentAre
  <1>2. spread \in Seq(0 .. cycles - 1) /\ Len(spread) \in Nat /\ DOMAIN spread = 1 .. Len(spread)
    BY LenProperties DEF SpreadGrows
  <1>3. /\ spread' \in Seq(0 .. cycles - 1) /\ Len(spread') = Len(spread) + 1
        /\ \A k \in 1 .. Len(spread) : spread'[k] = spread[k]
        /\ spread'[Len(spread) + 1] = i
    BY <1>1, <1>2, AppendProperties
  <1>4. ASSUME NEW k \in 1 .. Len(spread)
        PROVE  spread[k] < i
    <2>1. spread # <<>> /\ Len(spread) \in DOMAIN spread
      BY <1>2
    <2>2. LastCounted < i
      <3>1. LastCounted \in 0 .. cycles - 1
        BY <1>2, <2>1, ElementOfSeq DEF LastCounted
      <3>2. LastCounted >= cycles - TimingSlots => LastCounted \in Timed
        BY <2>1 DEF SpreadGrows
      <3>3. LastCounted >= cycles - TimingSlots => LastCounted <= i
        BY <3>2
      <3>4. TimingSlots \in Nat
        BY EngineAssumption
      <3>5. QED
        BY <1>1, <2>1, <3>1, <3>3, <3>4
    <2>3. k = Len(spread) \/ spread[k] < LastCounted
      <3>1. \A a, b \in DOMAIN spread : a < b => spread[a] < spread[b]
        BY DEF SpreadGrows, CountedOnce
      <3>5. k \in DOMAIN spread
        BY <1>2
      <3>6. PICK l \in Nat : l = Len(spread)
        BY <1>2
      <3>7. k = l \/ k < l
        BY <3>6
      <3>2. k \in DOMAIN spread /\ (k = Len(spread) \/ k < Len(spread))
        BY <3>5, <3>6, <3>7
      <3>3. k < Len(spread) => spread[k] < spread[Len(spread)]
        BY <2>1, <3>1, <3>2
      <3>4. QED
        BY <3>2, <3>3 DEF LastCounted
    <2>4. spread[k] \in 0 .. cycles - 1 /\ LastCounted \in 0 .. cycles - 1
      BY <1>2, <2>1, ElementOfSeq DEF LastCounted
    <2>5. QED
      BY <1>1, <2>2, <2>3, <2>4 DEF LastCounted
  <1>5. DOMAIN spread' = 1 .. Len(spread) + 1
    BY <1>3, LenProperties
  <1>6. CountedOnce'
    <2> SUFFICES ASSUME NEW a \in DOMAIN spread', NEW b \in DOMAIN spread', a < b
                 PROVE  spread'[a] < spread'[b]
      BY DEF CountedOnce
    <2>1. CASE b = Len(spread) + 1
      BY <1>2, <1>3, <1>4, <1>5, <2>1
    <2>2. CASE b # Len(spread) + 1
      <3>1. a \in DOMAIN spread /\ b \in DOMAIN spread /\ spread'[a] = spread[a] /\ spread'[b] = spread[b]
        BY <1>2, <1>3, <1>5, <2>2
      <3>2. QED
        BY <3>1 DEF SpreadGrows, CountedOnce
    <2>3. QED
      BY <2>1, <2>2
  <1>7. LastCounted' = i /\ spread' # <<>>
    BY <1>2, <1>3, <1>5 DEF LastCounted
  <1>8. QED
    BY <1>3, <1>6, <1>7

LEMMA AskKeeps ==
  ASSUME EngineIInv, Ask
  PROVE  EngineIInv'
  <1> USE DEF EngineIInv
  <1>1. /\ at = "ask" /\ at' = "enqueue"
        /\ UNCHANGED <<engineVars, user, frame, seen, shownVars>>
        /\ Timed = {} => UNCHANGED <<told, spread>>
        /\ Timed # {} =>
             /\ told' = [Untold EXCEPT !.cycle = Newest(Timed), !.timed = TimingOf(Newest(Timed))]
             /\ spread' = IF \/ user.name = "headless"
                             \/ spread # <<>> /\ LastCounted = Newest(Timed)
                          THEN spread ELSE Append(spread, Newest(Timed))
    BY DEF Ask, Go, LastCounted
  <1>2. /\ UNCHANGED <<wiring, work, held, deviceVars, input, output, sampled, texture, copied, screen>>
        /\ UNCHANGED <<events, timing, cycles, of, user, faults, sent, boxes>>
    BY <1>1 DEF engineVars, shownVars, deviceVars
  <1>3. PicturesKept' /\ WorkTrue' /\ CyclesTrue' /\ Timed \subseteq Timed'
    BY <1>2, Quiet
  <1>4. EngineWired'
    BY <1>1, <1>2 DEF EngineWired, HasEngine, Paired
  <1>5. AtItsPlace'
    BY <1>1, <1>2 DEF AtItsPlace, Windowed, Paired, HasEngine, OnlyOne, Both
  <1>6. EngineTyped'
    BY <1>1, <1>2 DEF EngineTyped, WorkItem
  <1>7. NextTrue'
    BY <1>1 DEF NextTrue
  <1>8. PICK i : i = Newest(Timed)
    OBVIOUS
  <1>9. Timed # {} => i \in Timed /\ (\A j \in Timed : j <= i) /\ i \in 0 .. cycles - 1
    BY <1>8, NewestOf, RecentAre DEF Timed
  <1>10. Timed # {} => told'.cycle = i /\ told'.timed = TimingOf(i) /\ told'.sample = Lost
    BY <1>1, <1>8 DEF Untold
  <1>11. OutputMade'
    <2>1. Buffers' = Buffers /\ HasEngine' = HasEngine
      BY <1>2 DEF Buffers, HasEngine
    <2>2. output = Lost => told'.sample = Lost
      BY <1>1, <1>10 DEF OutputMade
    <2>3. QED
      BY <1>2, <2>1, <2>2 DEF OutputMade, Lost
  <1>12. ToldIs'
    <2>1. CASE Timed = {}
      <3>1. OwnOf(of[told.cycle + 1])' = OwnOf(of[told.cycle + 1]) /\ UNCHANGED <<told, of, cycles>>
        BY <1>1, <1>2, <2>1 DEF OwnOf, Buffers
      <3>2. QED
        BY <3>1 DEF ToldIs, Lost
    <2>2. CASE Timed # {}
      <3>1. told'.timed \subseteq {of[i + 1]}
        BY <1>9, <1>10, <2>2, TimingIs
      <3>2. QED
        BY <1>2, <1>9, <1>10, <2>2, <3>1 DEF ToldIs, Lost
    <2>3. QED
      BY <2>1, <2>2
  <1>13. ResultsAre'
    <2>1. HasEngine' = HasEngine /\ Paired' = Paired
      BY <1>1, <1>2 DEF HasEngine, Paired
    <2>2. /\ OwnOf(sent[1])' = OwnOf(sent[1]) /\ OwnOf(screen[1])' = OwnOf(screen[1])
          /\ OwnOf(boxes.frame)' = OwnOf(boxes.frame)
      BY <1>2 DEF OwnOf, Buffers
    <2>3. QED
      BY <1>2, <2>1, <2>2 DEF ResultsAre, Lost
  <1>14. SpreadGrows'
    <2>1. CASE spread' = spread
      BY <1>1, <1>2, <1>3, <2>1, SpreadStays
    <2>2. CASE spread' # spread
      <3>1. /\ Timed # {} /\ user.name # "headless" /\ spread' = Append(spread, i)
            /\ spread # <<>> => LastCounted # i
        BY <1>1, <1>8, <2>2
      <3>2. CountedOnce' /\ spread' \in Seq(0 .. cycles' - 1) /\ LastCounted' = i /\ spread' # <<>>
        BY <1>1, <1>2, <1>9, <3>1, CountsMore
      <3>3. user.name = "yolo_viewer"
        BY <1>1, <3>1 DEF AtItsPlace, EngineWired, Paired, Users
      <3>4. i \in Timed'
        BY <1>3, <1>9, <3>1
      <3>5. QED
        BY <1>1, <1>2, <3>2, <3>3, <3>4 DEF SpreadGrows
    <2>3. QED
      BY <2>1, <2>2
  <1>15. QED
    BY <1>3, <1>4, <1>5, <1>6, <1>7, <1>11, <1>12, <1>13, <1>14

(* The names tell the two inputs apart: each buffer is bound to the eye it is for. *)
LEMMA NamedIs ==
  ASSUME NEW ins \in Seq(InputTensor), Len(ins) = 2, NEW w, NamedFor(ins, w) # 0
  PROVE  /\ NamedFor(ins, w) \in {1, 2} /\ w \in ins[NamedFor(ins, w)].says
         /\ w \in ins[2].says => NamedFor(ins, w) = 2
  <1> DEFINE says == {i \in DOMAIN ins : w \in ins[i].says}
  <1>1. DOMAIN ins = 1 .. 2
    BY LenProperties
  <1>2. says # {} /\ NamedFor(ins, w) = CHOOSE i \in says : \A j \in says : j <= i
    BY DEF NamedFor
  <1>3. says \subseteq {1, 2}
    BY <1>1
  <1>4. \E i \in says : \A j \in says : j <= i
    <2>1. CASE 2 \in says
      BY <1>3, <2>1
    <2>2. CASE 2 \notin says
      BY <1>2, <1>3, <2>2
    <2>3. QED
      BY <2>1, <2>2
  <1>5. NamedFor(ins, w) \in says /\ \A j \in says : j <= NamedFor(ins, w)
    BY <1>2, <1>4
  <1>6. 2 \in says => NamedFor(ins, w) = 2
    BY <1>3, <1>5
  <1>7. QED
    BY <1>1, <1>3, <1>5, <1>6

LEMMA EssIsWired ==
  ASSUME NEW ins \in Inputs(Pair), NEW outs, ~EssRefuses(ins, outs)
  PROVE  EssWiring(ins) = [b \in Pair |-> b]
  <1>1. Len(ins) = 2 /\ NamedFor(ins, "left") # 0 /\ NamedFor(ins, "right") # 0
        /\ NamedFor(ins, "left") # NamedFor(ins, "right")
    BY DEF EssRefuses
  <1>2. ins \in UpTo(InputTensor, 2)
    BY DEF Inputs
  <1>3. \E k \in Nat : ins \in [1 .. k -> InputTensor]
    <2>1. PICK S \in {[1 .. k -> InputTensor] : k \in 0 .. 2} : ins \in S
      BY <1>2 DEF UpTo
    <2>2. PICK k \in 0 .. 2 : S = [1 .. k -> InputTensor]
      OBVIOUS
    <2>3. k \in Nat /\ ins \in [1 .. k -> InputTensor]
      BY <2>1, <2>2
    <2>4. QED
      BY <2>3
  <1>4. ins \in Seq(InputTensor)
    BY <1>3, SeqDef
  <1>5. DOMAIN ins = 1 .. 2 /\ ins[1] \in InputTensor /\ ins[2] \in InputTensor
    BY <1>1, <1>4, LenProperties, ElementOfSeq
  <1>6. Cardinality(Pair) = 2
    <2>1. IsFiniteSet({"left"}) /\ Cardinality({"left"}) = 1 /\ "right" \notin {"left"}
      BY FS_Singleton
    <2>2. Cardinality({"left"} \cup {"right"}) = 2
      BY <2>1, FS_AddElement
    <2>3. {"left"} \cup {"right"} = Pair
      BY DEF Pair
    <2>4. QED
      BY <2>2, <2>3
  <1>7. {ins[i].role : i \in DOMAIN ins} = Pair
    BY <1>1, <1>6 DEF Inputs
  <1>8. "left" \in {ins[1].role, ins[2].role} /\ "right" \in {ins[1].role, ins[2].role}
    BY <1>5, <1>7 DEF Pair
  <1>9. \A i \in {1, 2} : ins[i].role \in Pair /\ (ins[i].says # {} => ins[i].role \in ins[i].says)
    BY <1>5 DEF InputTensor
  <1> DEFINE l == NamedFor(ins, "left")
             r == NamedFor(ins, "right")
  <1>10. /\ l \in {1, 2} /\ "left" \in ins[l].says /\ ("left" \in ins[2].says => l = 2)
         /\ r \in {1, 2} /\ "right" \in ins[r].says /\ ("right" \in ins[2].says => r = 2)
    BY <1>1, <1>4, NamedIs
  <1>11. l # r
    BY <1>1
  <1>12. EssWiring(ins) = [b \in Pair |-> ins[NamedFor(ins, b)].role]
    BY DEF EssWiring
  <1> HIDE DEF l, r
  <1>13. ins[l].role = "left" /\ ins[r].role = "right"
    BY <1>8, <1>9, <1>10, <1>11 DEF Pair
  <1>14. \A b \in Pair : ins[NamedFor(ins, b)].role = b
    BY <1>13 DEF l, r, Pair
  <1>15. QED
    BY <1>12, <1>14

LEMMA ConstructKeeps ==
  ASSUME EngineIInv, Construct
  PROVE  EngineIInv'
  <1> USE DEF EngineIInv
  <1>1. /\ at = "constructing"
        /\ UNCHANGED <<work, held, deviceVars, events, timing, cycles, preprocessed, of, faults,
                       user, frame, seen, shownVars, told, spread>>
    BY DEF Construct
  <1>2. \/ Paired /\ wiring' = [b \in Pair |-> b] /\ at' = "idle"
        \/ ~Paired /\ wiring' = [b \in Single |-> b] /\ at' = "idle"
        \/ wiring' = <<>> /\ at' = IF user.name = "yolo_viewer" THEN "idle" ELSE "gone"
    <2>1. ASSUME Paired, NEW ins \in Inputs(Pair), NEW outs \in UpTo(OutputTensor, 3),
                 BindEss(ins, outs) /\ Go("idle")
          PROVE  wiring' = [b \in Pair |-> b] /\ at' = "idle"
      BY <2>1, EssIsWired DEF BindEss, Go
    <2>2. [b \in Single |-> "left"] = [b \in Single |-> b]
      BY DEF Single
    <2>3. ASSUME ~Paired, NEW ins \in Inputs(Single), NEW outs \in UpTo(OutputTensor, 3),
                 BindYolo(ins, outs) /\ Go("idle")
          PROVE  wiring' = [b \in Single |-> b] /\ at' = "idle"
      BY <2>2, <2>3 DEF BindYolo, Go
    <2>4. QED
      BY <2>1, <2>3 DEF Construct, Go
  <1>3. /\ UNCHANGED <<input, output, sampled, texture, copied, screen, sent, boxes>>
        /\ Paired' = Paired /\ Windowed' = Windowed
    BY <1>1 DEF shownVars, deviceVars, Paired, Windowed
  <1>4. /\ wiring = <<>> /\ ~HasEngine /\ cycles = 0 /\ work = <<>> /\ held = {} /\ output = Lost
        /\ screen[1] = 0 /\ user.name # "camera_viewer" /\ spread = <<>>
    BY <1>1, NeverCounted DEF EngineWired, AtItsPlace, HasEngine
  <1>5. [b \in Pair |-> b] # <<>> /\ [b \in Single |-> b] # <<>>
        /\ [b \in Pair |-> b] # [b \in Single |-> b]
    <2>1. DOMAIN [b \in Pair |-> b] = Pair /\ DOMAIN [b \in Single |-> b] = Single
      OBVIOUS
    <2>2. DOMAIN <<>> = {} /\ "right" \in Pair /\ "right" \notin Single /\ "left" \in Single
      BY DEF Pair, Single
    <2>3. QED
      BY <2>1, <2>2
  <1>6. EngineWired'
    <2>1. user.name = "yolo_viewer" => ~Paired
      BY DEF Paired
    <2>2. HasEngine' <=> wiring' # <<>>
      BY DEF HasEngine
    <2>3. UNCHANGED <<user, cycles>>
      BY <1>1
    <2> DEFINE P == [b \in Pair |-> b]
               S == [b \in Single |-> b]
    <2>4. P # <<>> /\ S # <<>> /\ P # S
      BY <1>5
    <2>5. \/ Paired /\ wiring' = P /\ at' = "idle"
          \/ ~Paired /\ wiring' = S /\ at' = "idle"
          \/ wiring' = <<>> /\ at' = IF user.name = "yolo_viewer" THEN "idle" ELSE "gone"
      BY <1>2
    <2>6. user \in Users
      BY DEF EngineWired
    <2> HIDE DEF P, S
    <2>7. wiring' \in {<<>>, S, P}
      BY <2>5
    <2>8. (wiring' = P => Paired) /\ (wiring' = S => ~Paired)
      BY <2>4, <2>5
    <2>9. at' = "constructing" => wiring' = <<>>
      BY <2>5
    <2>10. at' \notin {"constructing", "gone"} /\ user.name \notin {"yolo_viewer", "camera_viewer"}
             => wiring' # <<>>
      BY <2>4, <2>5
    <2>11. user.name # "camera_viewer" /\ cycles = 0
      BY <1>4
    <2>12. QED
      BY <1>3, <2>2, <2>3, <2>6, <2>7, <2>8, <2>9, <2>10, <2>11 DEF EngineWired, P, S
  <1>7. AtItsPlace'
    BY <1>1, <1>2, <1>4 DEF AtItsPlace, OnlyOne, Both
  <1>8. EngineTyped'
    BY <1>1, <1>3 DEF EngineTyped, WorkItem
  <1>9. PicturesKept' /\ WorkTrue'
    <2>1. DOMAIN work' = {}
      BY <1>1, <1>4
    <2>2. QED
      BY <2>1 DEF PicturesKept, WorkTrue
  <1>10. NextTrue'
    BY <1>2 DEF NextTrue
  <1>11. CyclesTrue'
    BY <1>1, <1>4 DEF CyclesTrue, Recent
  <1>12. OutputMade'
    BY <1>1, <1>3, <1>4 DEF OutputMade, Lost
  <1>13. ToldIs'
    <2>1. told.cycle = -1
      BY <1>4 DEF ToldIs
    <2>2. QED
      BY <1>1, <1>4, <2>1 DEF ToldIs
  <1>14. ResultsAre'
    <2>1. sent[2] = Lost /\ boxes.frame = 0
      BY <1>4 DEF OutputMade
    <2>2. QED
      BY <1>3, <1>4, <2>1 DEF ResultsAre, Lost
  <1>15. SpreadGrows'
    <2>1. <<>> \in Seq(0 .. cycles' - 1)
      BY EmptySeq
    <2>2. QED
      BY <1>1, <1>4, <2>1 DEF SpreadGrows, CountedOnce
  <1>16. QED
    BY <1>6, <1>7, <1>8, <1>9, <1>10, <1>11, <1>12, <1>13, <1>14, <1>15

(* Before anything was done. *)
LEMMA EngineBegins ==
  ASSUME UsersInit
  PROVE  EngineIInv
  <1>1. /\ wiring = <<>> /\ work = <<>> /\ held = {}
        /\ input = [b \in Pair |-> Lost] /\ output = Lost
        /\ sampled = [s \in TimedSlots |-> Lost]
        /\ events = [s \in TimedSlots |-> [e \in EventNames |-> 0]]
        /\ timing = [s \in TimedSlots |-> [armed |-> FALSE, drawn |-> FALSE]]
        /\ cycles = 0 /\ of = <<>> /\ faults = 0
        /\ user \in Users /\ at = IF user.name = "camera_viewer" THEN "idle" ELSE "constructing"
        /\ frame = 0 /\ seen = 0
        /\ copied = Lost /\ boxes = NoBoxes /\ sent = <<0, Lost>> /\ texture = Clear
        /\ screen = <<0, Clear>> /\ told = Untold /\ spread = <<>>
    BY DEF UsersInit, EngineInit
  <1>2. ~HasEngine
    BY <1>1 DEF HasEngine
  <1>3. EngineWired
    <2>1. DOMAIN [b \in Pair |-> b] = Pair /\ DOMAIN [b \in Single |-> b] = Single
      OBVIOUS
    <2>2. DOMAIN <<>> = {} /\ "left" \in Pair /\ "left" \in Single
      BY DEF Pair, Single
    <2>3. [b \in Pair |-> b] # <<>> /\ [b \in Single |-> b] # <<>>
      BY <2>1, <2>2
    <2>4. at \notin {"constructing", "gone"} => user.name = "camera_viewer"
      BY <1>1
    <2>5. user.name = "camera_viewer" => at # "constructing"
      BY <1>1
    <2>6. QED
      BY <1>1, <1>2, <2>3, <2>4, <2>5 DEF EngineWired
  <1>4. AtItsPlace
    BY <1>1, <1>2 DEF AtItsPlace
  <1>5. EngineTyped
    <2>1. work \in Seq(WorkItem) /\ of \in Seq(0 .. MaxCycles) /\ Len(of) = 0
      BY <1>1, EmptySeq
    <2>2. 0 \in 0 .. MaxCycles
      BY EngineAssumption
    <2>3. events \in [TimedSlots -> [EventNames -> 0 .. MaxCycles]]
      BY <1>1, <2>2
    <2>4. QED
      BY <1>1, <2>1, <2>2, <2>3 DEF EngineTyped, Clear
  <1>6. PicturesKept /\ WorkTrue
    <2>1. DOMAIN work = {}
      BY <1>1
    <2>2. QED
      BY <2>1 DEF PicturesKept, WorkTrue
  <1>7. NextTrue
    BY <1>1 DEF NextTrue
  <1>8. CyclesTrue
    BY <1>1 DEF CyclesTrue, Recent
  <1>9. OutputMade /\ ToldIs
    BY <1>1 DEF OutputMade, ToldIs, Lost, Clear, NoBoxes, Untold
  <1>10. ResultsAre
    BY <1>1 DEF ResultsAre, Clear, NoBoxes, Lost
  <1>11. SpreadGrows
    <2>1. <<>> \in Seq(0 .. cycles - 1)
      BY EmptySeq
    <2>2. QED
      BY <1>1, <2>1 DEF SpreadGrows, CountedOnce
  <1>12. QED
    BY <1>3, <1>4, <1>5, <1>6, <1>7, <1>8, <1>9, <1>10, <1>11 DEF EngineIInv

(* A call, or the part of it before it failed. *)
LEMMA CallGives ==
  ASSUME NEW calls \in Seq(WorkItem), NEW n, Queued(calls, n) \/ Fails(calls, n), faults \in Nat
  PROVE  \E x : /\ PartOf(x, calls) /\ Queue(x, n) /\ faults' \in Nat
                /\ faults' = faults => x = calls
                /\ x = calls \/ Len(x) < Len(calls)
                /\ faults' # faults => Len(x) < Len(calls)
  <1>1. CASE Queued(calls, n)
    <2>1. PartOf(calls, calls) /\ Queue(calls, n) /\ faults' = faults
      BY <1>1, AllOf DEF Queued
    <2>2. QED
      BY <2>1
  <1>2. CASE Fails(calls, n)
    <2>1. faults' = faults + 1
      BY <1>2 DEF Fails
    <2>2. faults' \in Nat /\ faults' # faults
      BY <2>1
    <2>3. PICK x : PartOf(x, calls) /\ Len(x) < Len(calls) /\ Queue(x, n)
      BY <1>2, FailsGives
    <2>4. QED
      BY <2>2, <2>3
  <1>3. QED
    BY <1>1, <1>2

LEMMA OthersStay ==
  ASSUME EngineTyped, CyclesTrue, NEW x, Grows(x), NEW n \in 0 .. MaxCycles, Queue(x, n), NEW S,
         \A j \in DOMAIN x : x[j].kind \in {"record", "sample"} => x[j].slot = S,
         NEW i \in Recent, Slot(i) # S, of'[i + 1] = of[i + 1], timing'[Slot(i)] = timing[Slot(i)]
  PROVE  CycleTrue(i)'
  <1>1. CycleTrue(i)
    BY DEF CyclesTrue
  <1>2. Measured(Slot(i))' = Measured(Slot(i)) /\ Measured(Slot(i)) \subseteq EventNames
    BY MeasuredAre DEF Measured, LastEvent, Slot
  <1>3. Slot(i) \in TimedSlots /\ x \in Seq(WorkItem)
    BY RecentAre DEF Grows
  <1>4. \A e : ~Records(x, Slot(i), e)
    BY DEF Records, Record
  <1>5. \A e \in Measured(Slot(i))' : events'[Slot(i)][e] = of[i + 1]
    <2> SUFFICES ASSUME NEW e \in Measured(Slot(i))
                 PROVE  events'[Slot(i)][e] = of[i + 1]
      BY <1>2
    <2>1. events'[Slot(i)][e] = events[Slot(i)][e]
      BY <1>2, <1>3, <1>4, QueueGives
    <2>2. QED
      BY <1>1, <2>1 DEF CycleTrue
  <1>6. \A j \in DOMAIN x : x[j].kind = "sample" => x[j].slot # Slot(i)
    OBVIOUS
  <1>7. QED
    BY <1>1, <1>5, <1>6, CycleStays

LEMMA LeasesAre ==
  ASSUME EngineWired
  PROVE  /\ Paired => LeftLease = <<0, frame>> /\ RightLease = <<1, frame>>
         /\ ~Paired => Picture = <<0, frame>>
  <1>1. user.reference \in {0, 1} /\ (~Paired => user.reference = 0)
    BY DEF EngineWired, Users, Paired
  <1>2. QED
    BY <1>1 DEF LeftLease, RightLease, Picture

LEMMA NoSpread ==
  ASSUME SpreadGrows, spread = <<>>, UNCHANGED <<user, spread>>
  PROVE  SpreadGrows'
  <1>1. <<>> \in Seq(0 .. cycles' - 1)
    BY EmptySeq
  <1>2. QED
    BY <1>1 DEF SpreadGrows, CountedOnce

(* A picture that is read stays in its buffer. *)
LEMMA InputHere ==
  ASSUME NEW b, NEW n, NEW k \in Nat, NEW p \in DOMAIN work', p \in Nat, p < k,
         work'[p] = Read(b, PictureOf(b, n)), \A m \in p + 1 .. k - 1 : m \notin ReadInto(b)'
  PROVE  InputIs(b, n, k)'
  <1> DEFINE H == ReadInto(b)'
             G == {j \in ReadInto(b)' : work'[j].picture = PictureOf(b, n)}
             N == input'[b] = PictureOf(b, n)
  <1>1. p \in G
    BY DEF ReadInto, KindAt, Read
  <1> HIDE DEF H, G, N
  <1>2. Since(H, G, N, k)
    BY <1>1, SinceHere DEF H
  <1>3. QED
    BY <1>2 DEF H, G, N, InputIs, PictureOf

LEMMA PreprocessingIs ==
  ASSUME NEW l \in Pictures, NEW r \in Pictures, This \in TimedSlots, NEW t,
         t = EssPreprocessing(l, r)
  PROVE  /\ t \in Seq(WorkItem) /\ Len(t) = 3 /\ DOMAIN t = 1 .. 3
         /\ t[1] = Record(This, "pre_start") /\ t[2] = Read("left", l) /\ t[3] = Read("right", r)
  <1> DEFINE a == Record(This, "pre_start")
             b == Read("left", l)
             c == Read("right", r)
  <1>1. "pre_start" \in EventNames /\ "left" \in Pair /\ "right" \in Pair
    BY DEF EventNames, Pair
  <1>2. a \in WorkItem
    BY <1>1, RecordIs
  <1>3. b \in WorkItem /\ c \in WorkItem
    BY <1>1, ReadIs
  <1>4. t = <<a, b, c>>
    BY DEF EssPreprocessing
  <1> HIDE DEF a, b, c
  <1>5. /\ t \in Seq(WorkItem) /\ Len(t) = 3 /\ DOMAIN t = 1 .. 3
        /\ t[1] = a /\ t[2] = b /\ t[3] = c
    BY <1>2, <1>3, <1>4, Three
  <1>6. QED
    BY <1>5 DEF a, b, c

(* Both eyes are on their way into the buffers. *)
LEMMA BothRead ==
  ASSUME EngineTyped, EngineWired, NEW x, Grows(x), NEW n, Len(x) = 3,
         x[1].kind # "read", x[2] = Read("left", <<0, n>>), x[3] = Read("right", <<1, n>>)
  PROVE  InputsAre(n, End)'
  <1>1. PICK e : e = End'
    OBVIOUS
  <1>2. PICK l \in Nat : l = Len(work)
    BY WorkGrows
  <1>n. /\ End' = End + Len(x) /\ End = Len(work) + 1 /\ DOMAIN work' = 1 .. End' - 1
        /\ \A j \in 1 .. Len(x) : work'[Len(work) + j] = x[j]
    BY NewOnes
  <1>3. e = l + 4 /\ End = l + 1 /\ DOMAIN work' = 1 .. e - 1
    BY <1>1, <1>2, <1>n
  <1>4. work'[l + 2] = x[2] /\ work'[l + 3] = x[3]
    BY <1>2, <1>n
  <1>5. work'[l + 2] = Read("left", PictureOf("left", n))
    BY <1>4 DEF PictureOf
  <1>6. work'[l + 3] = Read("right", PictureOf("right", n))
    BY <1>4 DEF PictureOf
  <1>7. InputIs("left", n, e)'
    <2>1. l + 2 \in DOMAIN work' /\ l + 2 \in Nat /\ l + 2 < e /\ e \in Nat
      BY <1>3
    <2>2. \A m \in l + 2 + 1 .. e - 1 : m = l + 3
      BY <1>3
    <2>3. l + 3 \notin ReadInto("left")'
      BY <1>6 DEF ReadInto, Read
    <2> DEFINE p == l + 2
    <2>4. p \in DOMAIN work' /\ p \in Nat /\ p < e /\ work'[p] = Read("left", PictureOf("left", n))
      BY <1>5, <2>1
    <2>5. \A m \in p + 1 .. e - 1 : m \notin ReadInto("left")'
      BY <2>2, <2>3
    <2> HIDE DEF p
    <2>6. QED
      BY <2>1, <2>4, <2>5, InputHere
  <1>8. InputIs("right", n, e)'
    <2> DEFINE p == l + 3
    <2>4. /\ p \in DOMAIN work' /\ p \in Nat /\ p < e /\ e \in Nat
          /\ work'[p] = Read("right", PictureOf("right", n))
      BY <1>3, <1>6
    <2>5. \A m \in p + 1 .. e - 1 : m \notin ReadInto("right")'
      BY <1>3
    <2> HIDE DEF p
    <2>6. QED
      BY <2>4, <2>5, InputHere
  <1>9. Buffers' \subseteq {"left", "right"}
    BY BuffersInPair DEF Grows, Buffers, Pair
  <1>10. InputsAre(n, e)'
    BY <1>7, <1>8, <1>9 DEF InputsAre
  <1>11. QED
    BY <1>1, <1>10 DEF InputsAre, InputIs

LEMMA PreprocessKeeps ==
  ASSUME EngineIInv, PairPreprocess
  PROVE  EngineIInv'
  <1> USE DEF EngineIInv
  <1>1. /\ at = "preprocess" /\ at' = IF faults' = faults THEN "drop" ELSE "unwind"
        /\ timing' = [timing EXCEPT ![This] = Blank]
        /\ \/ Queued(EssPreprocessing(LeftLease, RightLease), frame)
           \/ Fails(EssPreprocessing(LeftLease, RightLease), frame)
        /\ UNCHANGED <<wiring, held, deviceVars, cycles, of>>
        /\ UNCHANGED <<user, frame, seen, shownVars, told, spread>>
    BY DEF PairPreprocess, Calls, Preprocess, Go
  <1>2. UNCHANGED <<input, output, sampled, texture, copied, screen, sent, boxes>>
    BY <1>1 DEF shownVars, deviceVars
  <1>3. Paired /\ held = {<<0, frame>>, <<1, frame>>}
    BY <1>1 DEF AtItsPlace, Both
  <1>4. PICK n \in 0 .. MaxCycles : n = frame
    BY DEF EngineTyped
  <1>5. cycles \in Nat /\ This \in TimedSlots
    BY RecentAre, SlotIn DEF This
  <1>6. PICK calls : calls = EssPreprocessing(<<0, n>>, <<1, n>>)
    OBVIOUS
  <1>7. /\ calls \in Seq(WorkItem) /\ Len(calls) = 3 /\ DOMAIN calls = 1 .. 3
        /\ calls[1] = Record(This, "pre_start") /\ calls[2] = Read("left", <<0, n>>)
        /\ calls[3] = Read("right", <<1, n>>)
    <2>1. <<0, n>> \in Pictures /\ <<1, n>> \in Pictures
      BY DEF Pictures
    <2>2. QED
      BY <1>5, <1>6, <2>1, PreprocessingIs
  <1>8. Queued(calls, n) \/ Fails(calls, n)
    BY <1>1, <1>3, <1>4, <1>6, LeasesAre
  <1>9. PICK x : /\ PartOf(x, calls) /\ Queue(x, n) /\ faults' \in Nat
                 /\ faults' = faults => x = calls
    BY <1>7, <1>8, CallGives DEF EngineTyped
  <1>10. x \in Seq(WorkItem) /\ \A j \in DOMAIN x : j \in 1 .. 3 /\ x[j] = calls[j]
    BY <1>7, <1>9 DEF PartOf
  <1>11. /\ work' = work \o x /\ work' \in Seq(WorkItem)
         /\ events' \in [TimedSlots -> [EventNames -> 0 .. MaxCycles]]
         /\ \A s \in TimedSlots, e \in EventNames :
              events'[s][e] = IF Records(x, s, e) THEN n ELSE events[s][e]
    BY <1>9, <1>10, QueueGives
  <1>12. Grows(x)
    BY <1>1, <1>2, <1>10, <1>11 DEF Grows
  <1>13. \A j \in DOMAIN x : \/ x[j] = Record(This, "pre_start")
                             \/ x[j] = Read("left", <<0, n>>) \/ x[j] = Read("right", <<1, n>>)
    BY <1>7, <1>10
  <1>14. \A j \in DOMAIN x : x[j].kind \in {"record", "read"}
    BY <1>13 DEF Record, Read
  <1>15. PicturesKept'
    <2>1. \A j \in DOMAIN x : x[j].kind = "read" => x[j].picture \in held
      BY <1>3, <1>4, <1>13 DEF Record, Read
    <2>2. QED
      BY <1>1, <1>12, <1>14, <2>1, KeptGrows
  <1>16. WorkTrue'
    BY <1>12, <1>14, PlainGrow DEF Plain
  <1>17. EngineWired' /\ AtItsPlace'
    BY <1>1, <1>2, <1>5 DEF EngineWired, AtItsPlace, HasEngine, Paired, Windowed, OnlyOne, Both
  <1>18. EngineTyped'
    <2>1. timing' \in [TimedSlots -> [armed : BOOLEAN, drawn : BOOLEAN]]
      BY <1>1 DEF EngineTyped, Blank
    <2>2. QED
      BY <1>1, <1>2, <1>9, <1>11, <2>1 DEF EngineTyped, WorkItem
  <1>19. CyclesTrue'
    <2> SUFFICES ASSUME NEW i \in Recent'
                 PROVE  CycleTrue(i)'
      BY DEF CyclesTrue
    <2>1. i \in 0 .. cycles - 1 /\ i >= cycles - TimingSlots /\ timing'[Slot(i)].armed
      BY <1>1 DEF Recent, Slot
    <2>2. Slot(i) \in TimedSlots
      BY <1>5, <2>1, SlotIn
    <2>3. Slot(i) # This
      BY <1>1, <2>1, <2>2 DEF Blank, EngineTyped
    <2>4. timing'[Slot(i)] = timing[Slot(i)]
      BY <1>1, <2>2, <2>3 DEF EngineTyped
    <2>5. i \in Recent
      BY <2>1, <2>4 DEF Recent
    <2>6. \A j \in DOMAIN x : x[j].kind \in {"record", "sample"} => x[j].slot = This
      BY <1>13 DEF Record, Read
    <2>7. QED
      BY <1>1, <1>9, <1>12, <2>3, <2>4, <2>5, <2>6, OthersStay
  <1>20. NextTrue'
    <2>1. CASE at' = "unwind"
      BY <2>1 DEF NextTrue
    <2>2. CASE at' # "unwind"
      <3>1. at' = "drop" /\ x = calls
        BY <1>1, <1>9, <2>2
      <3>2. InputsAre(n, End)'
        <4>1. x[1].kind # "read"
          BY <1>7, <3>1 DEF Record
        <4>2. QED
          BY <1>7, <1>12, <3>1, <4>1, BothRead
      <3>3. events'[This].pre_start = n
        <4>1. Records(x, This, "pre_start") /\ "pre_start" \in EventNames
          BY <1>7, <3>1 DEF Records, EventNames
        <4>2. QED
          BY <1>5, <1>11, <4>1
      <3>4. timing'[This] = Blank
        BY <1>1, <1>5 DEF EngineTyped
      <3>5. This' = This
        BY <1>1 DEF This, Slot
      <3>6. InputsAre(frame, End)'
        BY <1>1, <1>4, <3>2 DEF InputsAre, InputIs
      <3>7. events'[This'].pre_start = frame' /\ timing'[This'] = Blank'
        BY <1>1, <1>4, <3>3, <3>4, <3>5 DEF Blank
      <3>8. QED
        BY <3>1, <3>6, <3>7 DEF NextTrue
    <2>3. QED
      BY <2>1, <2>2
  <1>21. OutputMade' /\ ToldIs' /\ ResultsAre'
    BY <1>1, <1>5, SameResults
  <1>22. SpreadGrows'
    BY <1>1, <1>3, NoSpread DEF SpreadGrows, Paired
  <1>23. QED
    BY <1>15, <1>16, <1>17, <1>18, <1>19, <1>20, <1>21, <1>22

(* What is computed of frame n is its result until the next one. *)
LEMMA OutputHere ==
  ASSUME NEW n, NEW k \in Nat, NEW p \in DOMAIN work', p \in Nat, p < k,
         work'[p].kind = "compute", InputsAre(n, p)',
         \A m \in p + 1 .. k - 1 : m \notin KindAt({"compute"})'
  PROVE  OutputIs(n, k)'
  <1> DEFINE H == KindAt({"compute"})'
             G == {j \in KindAt({"compute"})' : InputsAre(n, j)'}
             N == output' = OwnOf(n)'
  <1>1. p \in G
    BY DEF KindAt
  <1> HIDE DEF H, G, N
  <1>2. Since(H, G, N, k)
    BY <1>1, SinceHere DEF H
  <1>3. QED
    BY <1>2 DEF H, G, N, OutputIs

LEMMA SampledHere ==
  ASSUME NEW s, NEW n, NEW k \in Nat, NEW p \in DOMAIN work', p \in Nat, p < k,
         work'[p] = Sample(s), OutputIs(n, p)', \A m \in p + 1 .. k - 1 : m \notin SampledAt(s)'
  PROVE  SampledIs(s, n, k)'
  <1> DEFINE H == SampledAt(s)'
             G == {j \in SampledAt(s)' : OutputIs(n, j)'}
             N == sampled'[s] = OwnOf(n)'
  <1>1. p \in G
    BY DEF KindAt, SampledAt, Sample
  <1> HIDE DEF H, G, N
  <1>2. Since(H, G, N, k)
    BY <1>1, SinceHere DEF H
  <1>3. QED
    BY <1>2 DEF H, G, N, SampledIs

LEMMA InferenceIs ==
  ASSUME This \in TimedSlots, NEW t, t = EssInference
  PROVE  /\ t \in Seq(WorkItem) /\ Len(t) = 5 /\ DOMAIN t = 1 .. 5
         /\ t[1] = Record(This, "infer_start") /\ t[2] = Compute
         /\ t[3] = Record(This, "infer_end") /\ t[4] = Sample(This)
         /\ t[5] = Record(This, "sample_done")
  <1> DEFINE a == Record(This, "infer_start")
             b == Compute
             c == Record(This, "infer_end")
             d == Sample(This)
             e == Record(This, "sample_done")
  <1>1. "infer_start" \in EventNames /\ "infer_end" \in EventNames /\ "sample_done" \in EventNames
    BY DEF EventNames
  <1>2. a \in WorkItem /\ c \in WorkItem /\ e \in WorkItem
    BY <1>1, RecordIs
  <1>3. b \in WorkItem
    BY ComputeIs
  <1>4. d \in WorkItem
    BY SampleIs
  <1>5. t = <<a, b, c, d, e>>
    BY DEF EssInference
  <1> HIDE DEF a, b, c, d, e
  <1>6. /\ t \in Seq(WorkItem) /\ Len(t) = 5 /\ DOMAIN t = 1 .. 5
        /\ t[1] = a /\ t[2] = b /\ t[3] = c /\ t[4] = d /\ t[5] = e
    BY <1>2, <1>3, <1>4, <1>5, Five
  <1>7. QED
    BY <1>6 DEF a, b, c, d, e

(* The inference, its sample and the event behind that. *)
LEMMA EssMakes ==
  ASSUME EngineTyped, NEW x, Grows(x), NEW n, InputsAre(n, End), NEW s, Len(x) = 5,
         x[1] = Record(s, "infer_start"), x[2] = Compute, x[3] = Record(s, "infer_end"),
         x[4] = Sample(s), x[5] = Record(s, "sample_done")
  PROVE  /\ OutputIs(n, End)' /\ SampledIs(s, n, End)'
         /\ \A k \in SampledAt(s)' :
              \E j \in DOMAIN work' : j > k /\ work'[j] = Record(s, "sample_done")
  <1>1. PICK e : e = End'
    OBVIOUS
  <1>2. PICK l \in Nat : l = Len(work)
    BY WorkGrows
  <1>n. /\ End' = End + Len(x) /\ End = Len(work) + 1 /\ DOMAIN work' = 1 .. End' - 1
        /\ DOMAIN x = 1 .. Len(x) /\ \A j \in 1 .. Len(x) : work'[Len(work) + j] = x[j]
    BY NewOnes
  <1>3. e = l + 6 /\ End = l + 1 /\ DOMAIN work' = 1 .. l + 5 /\ DOMAIN x = 1 .. 5
    BY <1>1, <1>2, <1>n
  <1>4. /\ work'[l + 2] = Compute /\ work'[l + 3] = Record(s, "infer_end")
        /\ work'[l + 4] = Sample(s) /\ work'[l + 5] = Record(s, "sample_done")
    BY <1>2, <1>n
  <1>5. x[1].kind # "read"
    BY DEF Record
  <1> DEFINE p == l + 2
             q == l + 4
  <1>6. InputsAre(n, p)'
    <2>1. p \in Nat /\ End <= p /\ p <= End'
      BY <1>1, <1>3
    <2>2. \A j \in DOMAIN x : Len(work) + j < p => x[j].kind # "read"
      BY <1>2, <1>3, <1>5
    <2> HIDE DEF p
    <2>3. QED
      BY <2>1, <2>2, InputsStay
  <1>7. work'[p].kind = "compute" /\ p \in DOMAIN work' /\ p \in Nat
    BY <1>3, <1>4 DEF Compute
  <1>8. l + 3 \notin KindAt({"compute"})' /\ l + 4 \notin KindAt({"compute"})'
        /\ l + 5 \notin KindAt({"compute"})'
    BY <1>4 DEF KindAt, Record, Sample
  <1>9. OutputIs(n, q)'
    <2>1. q \in Nat /\ p < q /\ \A m \in p + 1 .. q - 1 : m = l + 3
      OBVIOUS
    <2>2. \A m \in p + 1 .. q - 1 : m \notin KindAt({"compute"})'
      BY <1>8, <2>1
    <2> HIDE DEF p, q
    <2>3. QED
      BY <1>6, <1>7, <2>1, <2>2, OutputHere
  <1>10. OutputIs(n, e)'
    <2>1. e \in Nat /\ p < e /\ \A m \in p + 1 .. e - 1 : m \in {l + 3, l + 4, l + 5}
      BY <1>3
    <2>2. \A m \in p + 1 .. e - 1 : m \notin KindAt({"compute"})'
      BY <1>8, <2>1
    <2> HIDE DEF p
    <2>3. QED
      BY <1>6, <1>7, <2>1, <2>2, OutputHere
  <1>11. SampledIs(s, n, e)'
    <2>1. /\ e \in Nat /\ q < e /\ q \in DOMAIN work' /\ q \in Nat /\ work'[q] = Sample(s)
          /\ \A m \in q + 1 .. e - 1 : m = l + 5
      BY <1>3, <1>4
    <2>2. l + 5 \notin SampledAt(s)'
      BY <1>4 DEF SampledAt, KindAt, Record
    <2>3. \A m \in q + 1 .. e - 1 : m \notin SampledAt(s)'
      BY <2>1, <2>2
    <2> HIDE DEF q
    <2>4. QED
      BY <1>9, <2>1, <2>3, SampledHere
  <1>12. ASSUME NEW k \in SampledAt(s)'
         PROVE  \E j \in DOMAIN work' : j > k /\ work'[j] = Record(s, "sample_done")
    <2>1. k \in 1 .. l + 5 /\ k # l + 5
      BY <1>3, <1>4 DEF SampledAt, KindAt, Record
    <2>2. l + 5 \in DOMAIN work' /\ l + 5 > k
      BY <1>3, <2>1
    <2>3. QED
      BY <1>4, <2>2
  <1>13. QED
    BY <1>1, <1>10, <1>11, <1>12 DEF OutputIs, SampledIs

(* A cycle that ends makes the others older by one: what is still asked for is in a slot *)
(* that is not used again. *)
LEMMA Older ==
  ASSUME EngineTyped, cycles' = cycles + 1, NEW n, of' = Append(of, n),
         \A s \in TimedSlots : s # This => timing'[s] = timing[s],
         NEW i \in Recent', i # cycles
  PROVE  i \in Recent /\ Slot(i) # This /\ timing'[Slot(i)] = timing[Slot(i)] /\ of'[i + 1] = of[i + 1]
  <1>1. cycles \in Nat /\ of \in Seq(0 .. MaxCycles) /\ cycles = Len(of)
    BY RecentAre DEF EngineTyped
  <1>2. /\ i \in Nat /\ i < cycles /\ cycles - i < TimingSlots
        /\ timing'[Slot(i)].armed
    <2>1. i \in 0 .. cycles' - 1 /\ i >= cycles' - TimingSlots /\ timing'[Slot(i)].armed
      BY DEF Recent, Slot
    <2>2. TimingSlots \in Nat
      BY EngineAssumption
    <2>3. QED
      BY <1>1, <2>1, <2>2
  <1>3. Slot(i) # This /\ Slot(i) \in TimedSlots
    BY <1>1, <1>2, SlotsDiffer, SlotIn DEF This
  <1>4. timing'[Slot(i)] = timing[Slot(i)]
    BY <1>3
  <1>5. i \in Recent
    <2>1. TimingSlots \in Nat
      BY EngineAssumption
    <2>2. i \in 0 .. cycles - 1 /\ i >= cycles - TimingSlots
      BY <1>1, <1>2, <2>1
    <2>3. QED
      BY <1>2, <1>4, <2>2 DEF Recent
  <1>6. of'[i + 1] = of[i + 1]
    <2>1. i + 1 \in 1 .. Len(of)
      BY <1>1, <1>2
    <2>2. QED
      BY <1>1, <2>1, AppendProperties
  <1>7. QED
    BY <1>3, <1>4, <1>5, <1>6

LEMMA OfGrows ==
  ASSUME EngineTyped, cycles' = cycles + 1, NEW n \in 0 .. MaxCycles, of' = Append(of, n)
  PROVE  /\ of' \in Seq(0 .. MaxCycles) /\ cycles' = Len(of') /\ of'[cycles'] = n
         /\ cycles' \in Nat /\ cycles' >= cycles /\ cycles' >= 1
         /\ \A c \in 0 .. cycles - 1 : of'[c + 1] = of[c + 1]
  <1>1. cycles \in Nat /\ of \in Seq(0 .. MaxCycles) /\ cycles = Len(of)
    BY RecentAre DEF EngineTyped
  <1>2. /\ of' \in Seq(0 .. MaxCycles) /\ Len(of') = Len(of) + 1 /\ of'[Len(of) + 1] = n
        /\ \A k \in 1 .. Len(of) : of'[k] = of[k]
    BY <1>1, AppendProperties
  <1>3. \A c \in 0 .. cycles - 1 : c + 1 \in 1 .. Len(of)
    BY <1>1
  <1>4. QED
    BY <1>1, <1>2, <1>3

LEMMA InferKeeps ==
  ASSUME EngineIInv, PairInfer
  PROVE  EngineIInv'
  <1> USE DEF EngineIInv
  <1>1. /\ at = "infer"
        /\ at' = IF faults' = faults THEN IF Windowed THEN "present" ELSE "download" ELSE "unwind"
        /\ \/ Queued(EssInference, frame) /\ EndOfCycle(frame)
           \/ Fails(EssInference, frame) /\ UNCHANGED <<timing, cycles, of>>
        /\ UNCHANGED <<wiring, held, deviceVars>>
        /\ UNCHANGED <<user, frame, seen, shownVars, told, spread>>
    BY DEF PairInfer, Calls, Inference, Go
  <1>2. UNCHANGED <<input, output, sampled, texture, copied, screen, sent, boxes>>
    BY <1>1 DEF shownVars, deviceVars
  <1>3. Paired /\ held = {} /\ HasEngine
    BY <1>1 DEF AtItsPlace, EngineWired, Paired
  <1>4. PICK n \in 0 .. MaxCycles : n = frame
    BY DEF EngineTyped
  <1>5. cycles \in Nat /\ This \in TimedSlots
    BY RecentAre, SlotIn DEF This
  <1>6. PICK calls : calls = EssInference
    OBVIOUS
  <1>7. /\ calls \in Seq(WorkItem) /\ Len(calls) = 5 /\ DOMAIN calls = 1 .. 5
        /\ calls[1] = Record(This, "infer_start") /\ calls[2] = Compute
        /\ calls[3] = Record(This, "infer_end") /\ calls[4] = Sample(This)
        /\ calls[5] = Record(This, "sample_done")
    BY <1>5, <1>6, InferenceIs
  <1>8. Queued(calls, n) \/ Fails(calls, n)
    BY <1>1, <1>4, <1>6
  <1>9. PICK x : /\ PartOf(x, calls) /\ Queue(x, n) /\ faults' \in Nat
                 /\ faults' = faults => x = calls
    BY <1>7, <1>8, CallGives DEF EngineTyped
  <1>10. x \in Seq(WorkItem) /\ \A j \in DOMAIN x : j \in 1 .. 5 /\ x[j] = calls[j]
    BY <1>7, <1>9 DEF PartOf
  <1>11. /\ work' = work \o x /\ work' \in Seq(WorkItem)
         /\ events' \in [TimedSlots -> [EventNames -> 0 .. MaxCycles]]
         /\ \A s \in TimedSlots, e \in EventNames :
              events'[s][e] = IF Records(x, s, e) THEN n ELSE events[s][e]
    BY <1>9, <1>10, QueueGives
  <1>12. Grows(x)
    BY <1>1, <1>2, <1>10, <1>11 DEF Grows
  <1>13. \A j \in DOMAIN x : \/ x[j] = Record(This, "infer_start") \/ x[j] = Compute
                             \/ x[j] = Record(This, "infer_end") \/ x[j] = Sample(This)
                             \/ x[j] = Record(This, "sample_done")
    BY <1>7, <1>10
  <1>14. \A j \in DOMAIN x : /\ x[j].kind \in {"record", "sample", "compute"}
                             /\ x[j].kind \in {"record", "sample"} => x[j].slot = This
    BY <1>13 DEF Record, Sample, Compute
  <1>15. PicturesKept'
    BY <1>1, <1>12, <1>14, KeptGrows
  <1>16. WorkTrue'
    BY <1>3, <1>12, <1>14, PlainGrow DEF Plain
  <1>17. InputsAre(n, End) /\ events[This].pre_start = n /\ timing[This] = Blank
    BY <1>1, <1>4 DEF NextTrue
  <1>18. \/ /\ Queued(calls, n) /\ cycles' = cycles + 1 /\ of' = Append(of, n)
            /\ timing' = [timing EXCEPT ![This].armed = TRUE] /\ x = calls /\ faults' = faults
         \/ faults' # faults /\ UNCHANGED <<timing, cycles, of>>
    <2>1. Queued(calls, n) => faults' = faults
      BY DEF Queued
    <2>2. Fails(calls, n) => faults' # faults
      <3>1. Fails(calls, n) => faults' = faults + 1
        BY DEF Fails
      <3>2. faults \in Nat
        BY DEF EngineTyped
      <3>3. QED
        BY <3>1, <3>2
    <2>3. EndOfCycle(n) => /\ cycles' = cycles + 1 /\ of' = Append(of, n)
                           /\ timing' = [timing EXCEPT ![This].armed = TRUE]
      BY DEF EndOfCycle
    <2>4. \/ Queued(calls, n) /\ EndOfCycle(n)
          \/ Fails(calls, n) /\ UNCHANGED <<timing, cycles, of>>
      BY <1>1, <1>4, <1>6
    <2>5. QED
      BY <1>9, <2>1, <2>2, <2>3, <2>4
  <1>19. timing \in [TimedSlots -> [armed : BOOLEAN, drawn : BOOLEAN]]
    BY DEF EngineTyped
  <1>20. /\ timing' \in [TimedSlots -> [armed : BOOLEAN, drawn : BOOLEAN]]
         /\ of' \in Seq(0 .. MaxCycles) /\ cycles' = Len(of') /\ cycles' \in Nat /\ cycles' >= cycles
         /\ \A c \in 0 .. cycles - 1 : of'[c + 1] = of[c + 1]
         /\ \A s \in TimedSlots : s # This => timing'[s] = timing[s]
    <2>1. CASE /\ Queued(calls, n) /\ cycles' = cycles + 1 /\ of' = Append(of, n)
               /\ timing' = [timing EXCEPT ![This].armed = TRUE] /\ x = calls /\ faults' = faults
      <3>1. timing' \in [TimedSlots -> [armed : BOOLEAN, drawn : BOOLEAN]]
        BY <1>19, <2>1
      <3>2. \A s \in TimedSlots : s # This => timing'[s] = timing[s]
        BY <1>19, <2>1
      <3>3. QED
        BY <2>1, <3>1, <3>2, OfGrows
    <2>2. CASE faults' # faults /\ UNCHANGED <<timing, cycles, of>>
      BY <1>5, <1>19, <2>2 DEF EngineTyped
    <2>3. QED
      BY <1>18, <2>1, <2>2
  <1>21. EngineWired' /\ AtItsPlace'
    BY <1>1, <1>2, <1>3, <1>5 DEF EngineWired, AtItsPlace, HasEngine, Paired, Windowed, OnlyOne, Both
  <1>22. EngineTyped'
    BY <1>1, <1>2, <1>9, <1>11, <1>20 DEF EngineTyped, WorkItem
  <1>23. OutputMade' /\ ToldIs' /\ ResultsAre'
    BY <1>1, <1>20, SameResults
  <1>24. SpreadGrows'
    BY <1>1, <1>3, NoSpread DEF SpreadGrows, Paired
  <1>25. CASE faults' # faults /\ UNCHANGED <<timing, cycles, of>>
    <2>1. NextTrue'
      BY <1>1, <1>25 DEF NextTrue
    <2>2. CyclesTrue'
      <3> SUFFICES ASSUME NEW i \in Recent
                   PROVE  CycleTrue(i)'
        BY <1>25 DEF CyclesTrue, Recent, Slot
      <3>1. Slot(i) # This
        BY <1>17, RecentAre DEF Blank
      <3>2. timing'[Slot(i)] = timing[Slot(i)] /\ of'[i + 1] = of[i + 1]
        BY <1>25
      <3>3. QED
        BY <1>9, <1>12, <1>14, <3>1, <3>2, OthersStay
    <2>3. QED
      BY <1>15, <1>16, <1>21, <1>22, <1>23, <1>24, <2>1, <2>2
  <1>26. CASE /\ Queued(calls, n) /\ cycles' = cycles + 1 /\ of' = Append(of, n)
              /\ timing' = [timing EXCEPT ![This].armed = TRUE] /\ x = calls /\ faults' = faults
    <2>1. PICK s : s = This
      OBVIOUS
    <2>2. /\ OutputIs(n, End)' /\ SampledIs(s, n, End)'
          /\ \A k \in SampledAt(s)' :
               \E j \in DOMAIN work' : j > k /\ work'[j] = Record(s, "sample_done")
      BY <1>7, <1>12, <1>17, <1>26, <2>1, EssMakes
    <2>3. of'[cycles'] = n /\ cycles' >= 1
      BY <1>26, OfGrows
    <2>4. NextTrue'
      <3>1. at' \in {"present", "download"}
        BY <1>1, <1>26
      <3>2. OutputIs(frame, End)'
        BY <1>1, <1>4, <2>2 DEF OutputIs
      <3>3. QED
        BY <1>1, <1>4, <2>3, <3>1, <3>2 DEF NextTrue
    <2>5. ASSUME NEW i \in Recent', i # cycles
          PROVE  CycleTrue(i)'
      <3>1. /\ i \in Recent /\ Slot(i) # This /\ timing'[Slot(i)] = timing[Slot(i)]
            /\ of'[i + 1] = of[i + 1]
        BY <1>20, <1>26, <2>5, Older
      <3>2. QED
        BY <1>9, <1>12, <1>14, <3>1, OthersStay
    <2>6. PICK c \in Nat : c = cycles
      BY <1>5
    <2>7. CycleTrue(c)'
      <3>1. Slot(c) = s /\ Slot(c)' = s /\ c + 1 = cycles'
        BY <1>26, <2>1, <2>6 DEF This, Slot
      <3>2. timing'[s].drawn = FALSE
        BY <1>5, <1>17, <1>19, <1>26, <2>1 DEF Blank
      <3>3. Measured(s)' = {"pre_start", "infer_start", "infer_end"}
        BY <3>2 DEF Measured, LastEvent
      <3>4. /\ Records(x, s, "infer_start") /\ Records(x, s, "infer_end")
            /\ "pre_start" \in EventNames /\ "infer_start" \in EventNames /\ "infer_end" \in EventNames
        BY <1>7, <1>26, <2>1 DEF Records, EventNames
      <3>5. /\ events'[s]["infer_start"] = n /\ events'[s]["infer_end"] = n
            /\ events'[s]["pre_start"] = n
        BY <1>5, <1>11, <1>17, <2>1, <3>4
      <3>6. \A e \in Measured(s)' : events'[s][e] = of'[c + 1]
        BY <2>3, <3>1, <3>3, <3>5
      <3> DEFINE S == SampledIs(s, n, End)'
      <3>7. SampledIs(Slot(c), of[c + 1], End)' = S
        BY <2>3, <3>1
      <3>8. S
        BY <2>2
      <3> HIDE DEF S
      <3>9. SampledAt(Slot(c))' = SampledAt(s)'
        BY <3>1 DEF SampledAt
      <3>10. Measured(Slot(c))' = Measured(s)'
        BY <3>1 DEF Measured, LastEvent
      <3>11. \A k \in SampledAt(Slot(c))' :
               \E j \in DOMAIN work' : j > k /\ work'[j] = Record(Slot(c)', "sample_done")
        BY <2>2, <3>1, <3>9
      <3>12. QED
        BY <3>1, <3>6, <3>7, <3>8, <3>10, <3>11 DEF CycleTrue, Record
    <2>8. CyclesTrue'
      BY <2>5, <2>6, <2>7 DEF CyclesTrue
    <2>9. QED
      BY <1>15, <1>16, <1>21, <1>22, <1>23, <1>24, <2>4, <2>8
  <1>27. QED
    BY <1>18, <1>25, <1>26

LEMMA CopiedHere ==
  ASSUME NEW n, NEW k \in Nat, NEW p \in DOMAIN work', p \in Nat, p < k,
         work'[p].kind = "copy_out", OutputIs(n, p)', \A m \in p + 1 .. k - 1 : FALSE
  PROVE  CopiedIs(n, k)'
  <1> DEFINE H == KindAt({"copy_out"})'
             G == {j \in KindAt({"copy_out"})' : OutputIs(n, j)'}
             N == copied' = OwnOf(n)'
  <1>1. p \in G
    BY DEF KindAt
  <1> HIDE DEF H, G, N
  <1>2. Since(H, G, N, k)
    BY <1>1, SinceHere
  <1>3. QED
    BY <1>2 DEF H, G, N, CopiedIs

LEMMA One ==
  ASSUME NEW S, NEW a \in S
  PROVE  <<a>> \in Seq(S) /\ Len(<<a>>) = 1 /\ DOMAIN <<a>> = 1 .. 1 /\ <<a>>[1] = a
  OBVIOUS

(* One thing is queued, or nothing. *)
OneAtMost(x, a, n) ==
  /\ x \in Seq(WorkItem) /\ Queue(x, n) /\ faults' \in Nat
  /\ \A j \in DOMAIN x : j = 1 /\ x[j] = a /\ Len(x) = 1 /\ Queued(<<a>>, n)
  /\ ~Fails(<<a>>, n) => x \in {<<a>>, <<>>}
  /\ ~Fails(<<a>>, n) /\ ~Queued(<<>>, n) => x = <<a>>

LEMMA AtMostOne ==
  ASSUME faults \in Nat, NEW a \in WorkItem, NEW n,
         Queued(<<a>>, n) \/ Queued(<<>>, n) \/ Fails(<<a>>, n)
  PROVE  \E x : OneAtMost(x, a, n)
  <1>1. <<a>> \in Seq(WorkItem) /\ Len(<<a>>) = 1 /\ DOMAIN <<a>> = 1 .. 1 /\ <<a>>[1] = a
    BY One
  <1>2. CASE Fails(<<a>>, n)
    <2>1. PICK x : PartOf(x, <<a>>) /\ Len(x) < 1 /\ Queue(x, n)
      BY <1>1, <1>2, FailsGives
    <2>2. x \in Seq(WorkItem) /\ DOMAIN x = {}
      BY <2>1, LenProperties DEF PartOf
    <2>3. faults' \in Nat
      BY <1>2 DEF Fails
    <2>4. QED
      BY <1>2, <2>1, <2>2, <2>3 DEF OneAtMost
  <1>3. CASE ~Fails(<<a>>, n) /\ Queued(<<>>, n)
    <2>1. <<>> \in Seq(WorkItem) /\ DOMAIN <<>> = {} /\ Queue(<<>>, n) /\ faults' = faults
      BY <1>3, EmptySeq DEF Queued
    <2>2. QED
      BY <1>3, <2>1 DEF OneAtMost
  <1>4. CASE ~Fails(<<a>>, n) /\ ~Queued(<<>>, n)
    <2>1. Queued(<<a>>, n) /\ Queue(<<a>>, n) /\ faults' = faults
      BY <1>4 DEF Queued
    <2> DEFINE y == <<a>>
    <2>2. /\ y \in Seq(WorkItem) /\ Queue(y, n) /\ faults' \in Nat
          /\ \A j \in DOMAIN y : j = 1 /\ y[j] = a /\ Len(y) = 1 /\ Queued(<<a>>, n)
          /\ y = <<a>>
      BY <1>1, <2>1
    <2> HIDE DEF y
    <2>3. OneAtMost(y, a, n)
      BY <1>4, <2>2 DEF OneAtMost
    <2>4. QED
      BY <2>3
  <1>5. QED
    BY <1>2, <1>3, <1>4

LEMMA SameCycles ==
  ASSUME EngineTyped, CyclesTrue, NEW x, Grows(x), NEW n \in 0 .. MaxCycles, Queue(x, n),
         UNCHANGED <<timing, cycles, of>>, \A j \in DOMAIN x : x[j].kind \notin {"record", "sample"}
  PROVE  CyclesTrue' /\ events' = events /\ \A i \in Timed : i \in Timed'
  <1>1. x \in Seq(WorkItem)
    BY DEF Grows
  <1>2. \A s, e : ~Records(x, s, e)
    BY DEF Records, Record
  <1>3. events' = events
    <2>1. events' = [s \in TimedSlots |-> [e \in EventNames |-> events[s][e]]]
      BY <1>2 DEF Queue
    <2>2. QED
      BY <2>1 DEF EngineTyped
  <1>4. Recent' = Recent
    BY DEF Recent, Slot
  <1>5. CyclesTrue'
    <2> SUFFICES ASSUME NEW i \in Recent
                 PROVE  CycleTrue(i)'
      BY <1>4 DEF CyclesTrue
    <2>1. CycleTrue(i)
      BY DEF CyclesTrue
    <2>2. \A e \in Measured(Slot(i))' : events'[Slot(i)][e] = of[i + 1]
      BY <1>3, <2>1 DEF CycleTrue, Measured, LastEvent, Slot
    <2>3. QED
      BY <2>1, <2>2, CycleStays
  <1>6. \A i \in Timed : i \in Timed'
    BY <1>4, TimedStays DEF Timed
  <1>7. QED
    BY <1>3, <1>5, <1>6

LEMMA DownloadKeeps ==
  ASSUME EngineIInv, PairDownload
  PROVE  EngineIInv'
  <1> USE DEF EngineIInv
  <1>1. /\ at = "download" /\ at' \in {"report", "unwind"}
        /\ Queued(<<Download>>, frame) \/ Queued(<<>>, frame) \/ Fails(<<Download>>, frame)
        /\ UNCHANGED <<wiring, held, deviceVars, timing, cycles, preprocessed, of,
                       user, frame, seen, shownVars, told, spread>>
    BY DEF PairDownload, Throws, Go
  <1>2. UNCHANGED <<input, output, sampled, texture, copied, screen, sent, boxes>>
    BY <1>1 DEF shownVars, deviceVars
  <1>3. Paired
    BY <1>1 DEF AtItsPlace
  <1>4. PICK n \in 0 .. MaxCycles : n = frame
    BY DEF EngineTyped
  <1>5. cycles \in Nat
    BY RecentAre
  <1>6. PICK a : a = Download
    OBVIOUS
  <1>7. a \in WorkItem /\ a.kind = "download" /\ a.stamp = n
    BY <1>4, <1>6 DEF WorkItem, Download
  <1>8. PICK x : /\ x \in Seq(WorkItem) /\ Queue(x, n) /\ faults' \in Nat
                 /\ \A j \in DOMAIN x : j = 1 /\ x[j] = a /\ Len(x) = 1
    <2>1. faults \in Nat
      BY DEF EngineTyped
    <2>2. Queued(<<a>>, n) \/ Queued(<<>>, n) \/ Fails(<<a>>, n)
      BY <1>1, <1>4, <1>6
    <2>3. \E x : OneAtMost(x, a, n)
      BY <1>7, <2>1, <2>2, AtMostOne
    <2>4. QED
      BY <2>3 DEF OneAtMost
  <1>9. /\ work' = work \o x /\ work' \in Seq(WorkItem)
        /\ events' \in [TimedSlots -> [EventNames -> 0 .. MaxCycles]]
    BY <1>8, QueueGives
  <1>10. Grows(x)
    BY <1>1, <1>2, <1>8, <1>9 DEF Grows
  <1>11. \A j \in DOMAIN x : x[j].kind = "download"
    BY <1>7, <1>8
  <1>12. PicturesKept'
    BY <1>1, <1>10, <1>11, KeptGrows
  <1>13. WorkTrue'
    <2> SUFFICES ASSUME NEW k \in DOMAIN work', k >= End
                 PROVE  ItemTrue(k)'
      BY <1>10, ItemsGrow
    <2>7. k \in Nat /\ End <= k /\ k <= End' /\ k - Len(work) \in DOMAIN x
          /\ work'[k] = x[k - Len(work)]
      BY <1>10, NewOnes
    <2>8. k - Len(work) = 1
      BY <1>8, <2>7
    <2>1. k = End /\ work'[k] = a /\ k \in Nat /\ End <= k /\ k <= End'
      BY <1>8, <2>7, <2>8, Positions
    <2>2. OutputIs(n, End)
      BY <1>1, <1>4 DEF NextTrue
    <2>3. \A j \in DOMAIN x : Len(work) + j < k => x[j].kind # "compute"
      BY <1>11
    <2>4. OutputIs(n, k)'
      BY <1>10, <2>1, <2>2, <2>3, OutputStays
    <2>5. QED
      BY <1>7, <2>1, <2>4 DEF ItemTrue
  <1>14. CyclesTrue' /\ \A i \in Timed : i \in Timed'
    BY <1>1, <1>8, <1>10, <1>11, SameCycles
  <1>15. EngineWired' /\ AtItsPlace'
    BY <1>1, <1>2 DEF EngineWired, AtItsPlace, HasEngine, Paired, Windowed, OnlyOne, Both
  <1>16. EngineTyped'
    BY <1>1, <1>2, <1>8, <1>9 DEF EngineTyped, WorkItem
  <1>17. NextTrue'
    BY <1>1 DEF NextTrue
  <1>18. OutputMade' /\ ToldIs' /\ ResultsAre'
    BY <1>1, <1>5, SameResults
  <1>19. SpreadGrows'
    BY <1>1, <1>3, NoSpread DEF SpreadGrows, Paired
  <1>20. QED
    BY <1>12, <1>13, <1>14, <1>15, <1>16, <1>17, <1>18, <1>19

(* The boxes are copied, or nothing is queued. *)
LEMMA HeadlessKeeps ==
  ASSUME EngineIInv, at \in {"decode", "mark"}, at' \in {"wait", "done", "unwind"}, faults' \in Nat,
         UNCHANGED <<wiring, held, deviceVars, timing, cycles, preprocessed, of,
                     user, frame, seen, shownVars, told, spread>>,
         NEW x \in Seq(WorkItem), NEW n \in 0 .. MaxCycles, n = frame, Queue(x, n), Len(x) <= 1,
         \A j \in DOMAIN x : x[j] = CopyOut, at' = "wait" => Len(x) = 1
  PROVE  EngineIInv'
  <1> USE DEF EngineIInv
  <1>1. UNCHANGED <<input, output, sampled, texture, copied, screen, sent, boxes>>
    BY DEF shownVars, deviceVars
  <1>2. user.name = "headless" /\ ~Paired
    BY DEF AtItsPlace, Paired
  <1>3. HasEngine /\ spread = <<>>
    BY <1>2 DEF EngineWired, SpreadGrows
  <1>4. cycles \in Nat
    BY RecentAre
  <1>5. /\ work' = work \o x /\ work' \in Seq(WorkItem)
        /\ events' \in [TimedSlots -> [EventNames -> 0 .. MaxCycles]]
    BY QueueGives
  <1>6. Grows(x)
    BY <1>1, <1>5 DEF Grows
  <1>7. \A j \in DOMAIN x : x[j].kind = "copy_out"
    BY DEF CopyOut
  <1>8. PicturesKept'
    BY <1>6, <1>7, KeptGrows
  <1>9. WorkTrue'
    BY <1>6, <1>7, PlainGrow DEF Plain
  <1>10. CyclesTrue'
    BY <1>6, <1>7, SameCycles
  <1>11. EngineWired' /\ AtItsPlace'
    BY <1>1, <1>2, <1>3 DEF EngineWired, AtItsPlace, HasEngine, Paired, Windowed, OnlyOne, Both
  <1>12. EngineTyped'
    BY <1>1, <1>5 DEF EngineTyped, WorkItem
  <1>13. OutputMade' /\ ToldIs' /\ ResultsAre'
    BY <1>4, SameResults
  <1>14. SpreadGrows'
    BY <1>3, NoSpread
  <1>15. NextTrue'
    <2>1. CASE at' = "wait"
      <3>1. PICK k : k = End'
        OBVIOUS
      <3>2. PICK e : e = End
        OBVIOUS
      <3>3. /\ Len(x) \in Nat /\ DOMAIN x = 1 .. Len(x) /\ End' = End + Len(x) /\ End \in Nat \ {0}
            /\ End = Len(work) + 1
            /\ \A j \in 1 .. Len(x) : Len(work) + j \in DOMAIN work' /\ work'[Len(work) + j] = x[j]
        BY <1>6, NewOnes
      <3>4. k = e + 1 /\ e \in Nat /\ k \in Nat /\ e <= k /\ e < k /\ 1 \in DOMAIN x /\ Len(work) + 1 = e
        BY <2>1, <3>1, <3>2, <3>3
      <3>5. e \in DOMAIN work' /\ work'[e].kind = "copy_out"
        BY <1>7, <3>3, <3>4
      <3>6. OutputIs(n, End)
        <4>1. at = "decode" \/ at = "mark"
          OBVIOUS
        <4>2. QED
          BY <4>1 DEF NextTrue
      <3>7. OutputIs(n, e)'
        <4>1. e \in Nat /\ End <= e /\ e <= End'
          BY <3>1, <3>2, <3>4
        <4>2. \A j \in DOMAIN x : Len(work) + j < e => x[j].kind # "compute"
          BY <1>7
        <4>3. QED
          BY <1>6, <3>6, <4>1, <4>2, OutputStays
      <3>8. \A m \in e + 1 .. k - 1 : FALSE
        BY <3>4
      <3>9. CopiedIs(n, k)'
        BY <3>4, <3>5, <3>7, <3>8, CopiedHere
      <3>10. QED
        BY <2>1, <3>1, <3>9 DEF NextTrue, CopiedIs
    <2>2. CASE at' # "wait"
      BY <2>2 DEF NextTrue
    <2>3. QED
      BY <2>1, <2>2
  <1>16. QED
    BY <1>8, <1>9, <1>10, <1>11, <1>12, <1>13, <1>14, <1>15

LEMMA DecodeKeeps ==
  ASSUME EngineIInv, Decode
  PROVE  EngineIInv'
  <1>1. /\ at = "decode"
        /\ \/ Queued(<<CopyOut>>, frame) /\ at' = "wait"
           \/ Fails(<<CopyOut>>, frame) /\ at' = "unwind"
        /\ UNCHANGED <<wiring, held, deviceVars, timing, cycles, preprocessed, of,
                       user, frame, seen, shownVars, told, spread>>
    BY DEF Decode, Throws, Go
  <1>2. PICK n \in 0 .. MaxCycles : n = frame
    BY DEF EngineIInv, EngineTyped
  <1>3. PICK calls : calls = <<CopyOut>>
    OBVIOUS
  <1>4. calls \in Seq(WorkItem) /\ Len(calls) = 1 /\ DOMAIN calls = 1 .. 1 /\ calls[1] = CopyOut
    BY <1>3, MapAndDrawAre, One
  <1>5. Queued(calls, n) \/ Fails(calls, n)
    BY <1>1, <1>2, <1>3
  <1>6. faults \in Nat
    BY DEF EngineIInv, EngineTyped
  <1>7. PICK x : /\ PartOf(x, calls) /\ Queue(x, n) /\ faults' \in Nat
                 /\ faults' = faults => x = calls
    BY <1>4, <1>5, <1>6, CallGives
  <1>8. x \in Seq(WorkItem) /\ Len(x) <= 1 /\ \A j \in DOMAIN x : x[j] = CopyOut
    BY <1>4, <1>7 DEF PartOf
  <1>9. at' = "wait" => Len(x) = 1
    <2>1. at' = "wait" => faults' = faults
      BY <1>1 DEF Queued
    <2>2. QED
      BY <1>4, <1>7, <2>1
  <1>10. at' \in {"wait", "done", "unwind"}
    BY <1>1
  <1>11. QED
    BY <1>1, <1>2, <1>7, <1>8, <1>9, <1>10, HeadlessKeeps

LEMMA MarkKeeps ==
  ASSUME EngineIInv, Mark
  PROVE  EngineIInv'
  <1>1. /\ at = "mark" /\ at' \in {"done", "unwind"}
        /\ Queued(<<>>, frame) \/ Fails(<<Compute>>, frame)
        /\ UNCHANGED <<wiring, held, deviceVars, timing, cycles, preprocessed, of,
                       user, frame, seen, shownVars, told, spread>>
    BY DEF Mark, Throws, Go
  <1>2. PICK n \in 0 .. MaxCycles : n = frame
    BY DEF EngineIInv, EngineTyped
  <1>3. faults \in Nat
    BY DEF EngineIInv, EngineTyped
  <1>4. ASSUME NEW x \in Seq(WorkItem), Len(x) = 0, Queue(x, n), faults' \in Nat
        PROVE  EngineIInv'
    <2>1. DOMAIN x = {} /\ Len(x) <= 1
      BY <1>4, LenProperties
    <2>2. \A j \in DOMAIN x : x[j] = CopyOut
      BY <2>1
    <2>3. at \in {"decode", "mark"} /\ at' \in {"wait", "done", "unwind"} /\ at' # "wait"
      BY <1>1
    <2>4. QED
      BY <1>1, <1>2, <1>4, <2>1, <2>2, <2>3, HeadlessKeeps
  <1>5. CASE Queued(<<>>, frame)
    <2>1. <<>> \in Seq(WorkItem) /\ Len(<<>>) = 0 /\ Queue(<<>>, n) /\ faults' = faults
      BY <1>2, <1>5, EmptySeq DEF Queued
    <2>2. QED
      BY <1>3, <1>4, <2>1
  <1>6. CASE Fails(<<Compute>>, frame)
    <2>1. PICK calls : calls = <<Compute>>
      OBVIOUS
    <2>2. calls \in Seq(WorkItem) /\ Len(calls) = 1
      BY <2>1, ComputeIs, One
    <2>3. Fails(calls, n)
      BY <1>2, <1>6, <2>1
    <2>4. PICK x : PartOf(x, calls) /\ Len(x) < Len(calls) /\ Queue(x, n)
      BY <2>2, <2>3, FailsGives
    <2>5. x \in Seq(WorkItem) /\ Len(x) = 0
      BY <2>2, <2>4, LenProperties DEF PartOf
    <2>6. faults' \in Nat
      BY <1>3, <1>6 DEF Fails
    <2>7. QED
      BY <1>4, <2>4, <2>5, <2>6
  <1>7. QED
    BY <1>1, <1>5, <1>6

LEMMA YoloIs ==
  ASSUME NEW p \in Pictures, This \in TimedSlots, NEW t, t = YoloCycle(p)
  PROVE  /\ t \in Seq(WorkItem) /\ Len(t) = 5 /\ DOMAIN t = 1 .. 5
         /\ t[1] = Record(This, "pre_start") /\ t[2] = Read("left", p)
         /\ t[3] = Record(This, "infer_start") /\ t[4] = Compute
         /\ t[5] = Record(This, "infer_end")
  <1> DEFINE a == Record(This, "pre_start")
             b == Read("left", p)
             c == Record(This, "infer_start")
             d == Compute
             e == Record(This, "infer_end")
  <1>1. "pre_start" \in EventNames /\ "infer_start" \in EventNames /\ "infer_end" \in EventNames
    BY DEF EventNames
  <1>2. a \in WorkItem /\ c \in WorkItem /\ e \in WorkItem
    BY <1>1, RecordIs
  <1>3. b \in WorkItem
    BY ReadIs DEF Pair
  <1>4. d \in WorkItem
    BY ComputeIs
  <1>5. t = <<a, b, c, d, e>>
    BY DEF YoloCycle
  <1> HIDE DEF a, b, c, d, e
  <1>6. /\ t \in Seq(WorkItem) /\ Len(t) = 5 /\ DOMAIN t = 1 .. 5
        /\ t[1] = a /\ t[2] = b /\ t[3] = c /\ t[4] = d /\ t[5] = e
    BY <1>2, <1>3, <1>4, <1>5, Five
  <1>7. QED
    BY <1>6 DEF a, b, c, d, e

(* The picture is read into the one input and the boxes are computed of it. *)
LEMMA YoloMakes ==
  ASSUME EngineTyped, NEW x, Grows(x), NEW n, wiring' = [b \in Single |-> b], NEW s, Len(x) = 5,
         x[1] = Record(s, "pre_start"), x[2] = Read("left", <<0, n>>),
         x[3] = Record(s, "infer_start"), x[4] = Compute, x[5] = Record(s, "infer_end")
  PROVE  OutputIs(n, End)'
  <1>1. PICK e : e = End'
    OBVIOUS
  <1>2. PICK l \in Nat : l = Len(work)
    BY WorkGrows
  <1>n. /\ End' = End + Len(x) /\ End = Len(work) + 1 /\ DOMAIN work' = 1 .. End' - 1
        /\ DOMAIN x = 1 .. Len(x) /\ \A j \in 1 .. Len(x) : work'[Len(work) + j] = x[j]
    BY NewOnes
  <1>3. e = l + 6 /\ End = l + 1 /\ DOMAIN work' = 1 .. l + 5 /\ DOMAIN x = 1 .. 5
    BY <1>1, <1>2, <1>n
  <1>4. /\ work'[l + 2] = Read("left", <<0, n>>) /\ work'[l + 3] = Record(s, "infer_start")
        /\ work'[l + 4] = Compute /\ work'[l + 5] = Record(s, "infer_end")
    BY <1>2, <1>n
  <1> DEFINE p == l + 2
             q == l + 4
  <1>5. PictureOf("left", n) = <<0, n>>
    BY DEF PictureOf
  <1>6. InputsAre(n, q)'
    <2>1. q \in Nat /\ p < q /\ p \in Nat /\ p \in DOMAIN work' /\ \A m \in p + 1 .. q - 1 : m = l + 3
      BY <1>3
    <2>2. l + 3 \notin ReadInto("left")'
      BY <1>4 DEF ReadInto, KindAt, Record
    <2>3. \A m \in p + 1 .. q - 1 : m \notin ReadInto("left")'
      BY <2>1, <2>2
    <2>4. work'[p] = Read("left", PictureOf("left", n))
      BY <1>4, <1>5
    <2> HIDE DEF p, q
    <2>5. InputIs("left", n, q)'
      BY <2>1, <2>3, <2>4, InputHere
    <2>6. Buffers' = {"left"}
      BY DEF Buffers, Single
    <2>7. QED
      BY <2>5, <2>6 DEF InputsAre
  <1>7. work'[q].kind = "compute" /\ q \in DOMAIN work' /\ q \in Nat
    BY <1>3, <1>4 DEF Compute
  <1>8. l + 5 \notin KindAt({"compute"})'
    BY <1>4 DEF KindAt, Record
  <1>9. OutputIs(n, e)'
    <2>1. e \in Nat /\ q < e /\ \A m \in q + 1 .. e - 1 : m = l + 5
      BY <1>3
    <2>2. \A m \in q + 1 .. e - 1 : m \notin KindAt({"compute"})'
      BY <1>8, <2>1
    <2> HIDE DEF q
    <2>3. QED
      BY <1>6, <1>7, <2>1, <2>2, OutputHere
  <1>10. QED
    BY <1>1, <1>9 DEF OutputIs

LEMMA WiderSeq ==
  ASSUME NEW S, NEW T, S \subseteq T, NEW x \in Seq(S)
  PROVE  x \in Seq(T)
  <1>1. PICK m \in Nat : x \in [1 .. m -> S]
    BY SeqDef
  <1>2. x \in [1 .. m -> T]
    BY <1>1
  <1>3. QED
    BY <1>2, SeqDef

(* A cycle that was counted before another one ends. *)
LEMMA CountedBefore ==
  ASSUME EngineTyped, SpreadGrows, NEW x, Grows(x), NEW n \in 0 .. MaxCycles,
         at \notin {"unwind", "closing", "gone"}, cycles' = cycles + 1, of' = Append(of, n),
         \A s \in TimedSlots : s # This => timing'[s] = timing[s],
         \A j \in DOMAIN x : x[j].kind = "record" => x[j].slot = This, UNCHANGED <<user, spread>>
  PROVE  SpreadGrows'
  <1>1. cycles \in Nat /\ cycles' \in Nat /\ TimingSlots \in Nat \ {0}
    BY RecentAre, EngineAssumption
  <1>2. CASE spread = <<>>
    BY <1>2, NoSpread
  <1>3. CASE spread # <<>>
    <2>1. /\ spread \in Seq(0 .. cycles - 1) /\ CountedOnce /\ user.name = "yolo_viewer"
          /\ LastCounted >= cycles - TimingSlots => LastCounted \in Timed
      BY <1>3 DEF SpreadGrows
    <2>2. LastCounted \in 0 .. cycles - 1 /\ LastCounted' = LastCounted
      <3>1. Len(spread) \in 1 .. Len(spread)
        BY <1>3, <2>1, EmptySeq, LenProperties
      <3>2. QED
        BY <2>1, <3>1, ElementOfSeq DEF LastCounted
    <2>3. PICK i : i = LastCounted
      OBVIOUS
    <2>4. ASSUME i >= cycles' - TimingSlots
          PROVE  i \in Timed'
      <3>1. i \in Nat /\ i < cycles /\ cycles - i < TimingSlots /\ i >= cycles - TimingSlots
        BY <1>1, <2>2, <2>3, <2>4
      <3>2. i \in Timed /\ i \in Recent
        BY <2>1, <2>3, <3>1, RecentAre
      <3>3. Slot(i) # This /\ Slot(i) \in TimedSlots
        BY <1>1, <3>1, SlotsDiffer, SlotIn DEF This
      <3>4. timing'[Slot(i)] = timing[Slot(i)] /\ timing[Slot(i)].armed
        BY <3>2, <3>3, RecentAre
      <3>5. Slot(i)' = Slot(i)
        BY DEF Slot
      <3>6. i \in Recent'
        BY <1>1, <2>4, <3>1, <3>4, <3>5 DEF Recent
      <3>7. \A j \in DOMAIN x : x[j].kind = "record" => x[j].slot # Slot(i)
        BY <3>3
      <3>8. QED
        BY <3>2, <3>4, <3>6, <3>7, TimedStays
    <2>5. CountedOnce'
      BY <2>1 DEF CountedOnce
    <2>6. 0 .. cycles - 1 \subseteq 0 .. cycles' - 1
      BY <1>1
    <2>7. spread' \in Seq(0 .. cycles' - 1)
      <3> DEFINE S == 0 .. cycles - 1
                 T == 0 .. cycles' - 1
      <3>1. S \subseteq T /\ spread \in Seq(S) /\ spread' = spread
        BY <2>1, <2>6
      <3> HIDE DEF S, T
      <3>2. spread \in Seq(T)
        BY <3>1, WiderSeq
      <3>3. QED
        BY <3>1, <3>2 DEF T
    <2>8. i < cycles' - 1
      BY <1>1, <2>2, <2>3
    <2>9. QED
      BY <2>1, <2>2, <2>3, <2>4, <2>5, <2>7, <2>8 DEF SpreadGrows
  <1>4. QED
    BY <1>2, <1>3

LEMMA EnqueueKeeps ==
  ASSUME EngineIInv, YoloEnqueue
  PROVE  EngineIInv'
  <1> USE DEF EngineIInv
  <1>1. /\ at = "enqueue"
        /\ at' = IF faults' = faults THEN IF Windowed THEN "present"
                   ELSE IF user.location = "host" THEN "decode" ELSE "mark" ELSE "unwind"
        /\ \/ /\ Queued(YoloCycle(Picture), frame)
              /\ timing' = [timing EXCEPT ![This] = [armed |-> TRUE, drawn |-> FALSE]]
              /\ cycles' = cycles + 1 /\ of' = Append(of, frame)
           \/ /\ Fails(YoloCycle(Picture), frame)
              /\ timing' = [timing EXCEPT ![This] = Blank]
              /\ UNCHANGED <<cycles, of>>
        /\ UNCHANGED <<wiring, held, deviceVars, preprocessed>>
        /\ UNCHANGED <<user, frame, seen, shownVars, told, spread>>
    BY DEF YoloEnqueue, Calls, Enqueue, Go
  <1>2. UNCHANGED <<input, output, sampled, texture, copied, screen, sent, boxes>>
    BY <1>1 DEF shownVars, deviceVars
  <1>3. ~Paired /\ held = OnlyOne /\ HasEngine
    BY <1>1 DEF AtItsPlace
  <1>w. wiring' = [b \in Single |-> b]
    BY <1>1, <1>3 DEF EngineWired, HasEngine
  <1>4. PICK n \in 0 .. MaxCycles : n = frame
    BY DEF EngineTyped
  <1>5. cycles \in Nat /\ This \in TimedSlots
    BY RecentAre, SlotIn DEF This
  <1>6. PICK calls : calls = YoloCycle(Picture)
    OBVIOUS
  <1>p. Picture = <<0, n>> /\ Picture \in Pictures
    BY <1>3, <1>4, LeasesAre DEF Pictures
  <1>7. /\ calls \in Seq(WorkItem) /\ Len(calls) = 5 /\ DOMAIN calls = 1 .. 5
        /\ calls[1] = Record(This, "pre_start") /\ calls[2] = Read("left", <<0, n>>)
        /\ calls[3] = Record(This, "infer_start") /\ calls[4] = Compute
        /\ calls[5] = Record(This, "infer_end")
    BY <1>5, <1>6, <1>p, YoloIs
  <1>8. Queued(calls, n) \/ Fails(calls, n)
    BY <1>1, <1>4, <1>6
  <1>f. faults \in Nat
    BY DEF EngineTyped
  <1>9. PICK x : /\ PartOf(x, calls) /\ Queue(x, n) /\ faults' \in Nat
                 /\ faults' = faults => x = calls
    BY <1>7, <1>8, <1>f, CallGives
  <1>10. x \in Seq(WorkItem) /\ \A j \in DOMAIN x : j \in 1 .. 5 /\ x[j] = calls[j]
    BY <1>7, <1>9 DEF PartOf
  <1>11. /\ work' = work \o x /\ work' \in Seq(WorkItem)
         /\ events' \in [TimedSlots -> [EventNames -> 0 .. MaxCycles]]
         /\ \A s \in TimedSlots, e \in EventNames :
              events'[s][e] = IF Records(x, s, e) THEN n ELSE events[s][e]
    BY <1>9, <1>10, QueueGives
  <1>12. Grows(x)
    BY <1>1, <1>2, <1>10, <1>11 DEF Grows
  <1>13. \A j \in DOMAIN x : \/ x[j] = Record(This, "pre_start") \/ x[j] = Read("left", <<0, n>>)
                             \/ x[j] = Record(This, "infer_start") \/ x[j] = Compute
                             \/ x[j] = Record(This, "infer_end")
    BY <1>7, <1>10
  <1>14. \A j \in DOMAIN x : /\ x[j].kind \in {"record", "read", "compute"}
                             /\ x[j].kind = "record" => x[j].slot = This
                             /\ x[j].kind = "read" => x[j].picture = <<0, n>>
    BY <1>13 DEF Record, Read, Compute
  <1>15. PicturesKept'
    <2>1. <<0, n>> \in held'
      BY <1>1, <1>3, <1>4 DEF OnlyOne
    <2>2. \A j \in DOMAIN x : x[j].kind \in {"read", "base"} => x[j].picture \in held'
      BY <1>14, <2>1
    <2>3. QED
      BY <1>1, <1>12, <2>2, KeptGrows
  <1>16. WorkTrue'
    BY <1>3, <1>12, <1>14, PlainGrow DEF Plain
  <1>18. \/ /\ cycles' = cycles + 1 /\ of' = Append(of, n)
            /\ timing' = [timing EXCEPT ![This] = [armed |-> TRUE, drawn |-> FALSE]]
            /\ x = calls /\ faults' = faults
         \/ /\ faults' # faults /\ UNCHANGED <<cycles, of>>
            /\ timing' = [timing EXCEPT ![This] = Blank]
    <2>1. Queued(calls, n) => faults' = faults
      BY DEF Queued
    <2>2. Fails(calls, n) => faults' # faults
      <3>1. Fails(calls, n) => faults' = faults + 1
        BY DEF Fails
      <3>2. QED
        BY <1>f, <3>1
    <2>4. \/ /\ Queued(calls, n)
             /\ timing' = [timing EXCEPT ![This] = [armed |-> TRUE, drawn |-> FALSE]]
             /\ cycles' = cycles + 1 /\ of' = Append(of, n)
          \/ /\ Fails(calls, n)
             /\ timing' = [timing EXCEPT ![This] = Blank]
             /\ UNCHANGED <<cycles, of>>
      BY <1>1, <1>4, <1>6
    <2>5. QED
      BY <1>9, <2>1, <2>2, <2>4
  <1>19. timing \in [TimedSlots -> [armed : BOOLEAN, drawn : BOOLEAN]]
    BY DEF EngineTyped
  <1>20. /\ timing' \in [TimedSlots -> [armed : BOOLEAN, drawn : BOOLEAN]]
         /\ of' \in Seq(0 .. MaxCycles) /\ cycles' = Len(of') /\ cycles' \in Nat /\ cycles' >= cycles
         /\ \A c \in 0 .. cycles - 1 : of'[c + 1] = of[c + 1]
         /\ \A s \in TimedSlots : s # This => timing'[s] = timing[s]
    <2>1. CASE /\ cycles' = cycles + 1 /\ of' = Append(of, n)
               /\ timing' = [timing EXCEPT ![This] = [armed |-> TRUE, drawn |-> FALSE]]
               /\ x = calls /\ faults' = faults
      <3>1. timing' \in [TimedSlots -> [armed : BOOLEAN, drawn : BOOLEAN]]
        BY <1>19, <2>1
      <3>2. \A s \in TimedSlots : s # This => timing'[s] = timing[s]
        BY <1>19, <2>1
      <3>3. QED
        BY <2>1, <3>1, <3>2, OfGrows
    <2>2. CASE /\ faults' # faults /\ UNCHANGED <<cycles, of>>
               /\ timing' = [timing EXCEPT ![This] = Blank]
      <3>1. timing' \in [TimedSlots -> [armed : BOOLEAN, drawn : BOOLEAN]]
        BY <1>19, <2>2 DEF Blank
      <3>2. \A s \in TimedSlots : s # This => timing'[s] = timing[s]
        BY <1>19, <2>2
      <3>3. QED
        BY <1>5, <2>2, <3>1, <3>2 DEF EngineTyped
    <2>3. QED
      BY <1>18, <2>1, <2>2
  <1>u. user.name \in {"callback", "ess_viewer", "yolo_viewer", "camera_viewer", "headless"}
    BY DEF EngineWired, Users
  <1>a. /\ at' \in {"present", "decode", "mark", "unwind"}
        /\ at' = "present" => Windowed
        /\ at' \in {"decode", "mark"} => ~Windowed
    BY <1>1
  <1>h. ~Windowed => user.name = "headless"
    BY <1>3, <1>u DEF Paired, Windowed
  <1>21. EngineWired' /\ AtItsPlace'
    <2>1. Paired' = Paired /\ HasEngine' = HasEngine /\ Windowed' = Windowed /\ OnlyOne' = OnlyOne
          /\ Both' = Both
      BY <1>1 DEF Paired, HasEngine, Windowed, OnlyOne, Both
    <2>2. EngineWired'
      BY <1>1, <1>3, <1>a, <2>1 DEF EngineWired, HasEngine
    <2>3. AtItsPlace'
      BY <1>1, <1>3, <1>a, <1>h, <2>1 DEF AtItsPlace
    <2>4. QED
      BY <2>2, <2>3
  <1>22. EngineTyped'
    BY <1>1, <1>2, <1>9, <1>11, <1>20 DEF EngineTyped, WorkItem
  <1>23. OutputMade' /\ ToldIs' /\ ResultsAre'
    BY <1>1, <1>20, SameResults
  <1>25. CASE /\ faults' # faults /\ UNCHANGED <<cycles, of>>
              /\ timing' = [timing EXCEPT ![This] = Blank]
    <2>0. at' = "unwind"
      BY <1>1, <1>25
    <2>1. NextTrue'
      BY <2>0 DEF NextTrue
    <2>2. CyclesTrue'
      <3> SUFFICES ASSUME NEW i \in Recent'
                   PROVE  CycleTrue(i)'
        BY DEF CyclesTrue
      <3>1. i \in 0 .. cycles - 1 /\ i >= cycles - TimingSlots /\ timing'[Slot(i)].armed
        BY <1>25 DEF Recent, Slot
      <3>2. timing'[This] = Blank
        BY <1>5, <1>19, <1>25
      <3>3. Slot(i) # This
        BY <3>1, <3>2 DEF Blank
      <3>4. Slot(i) \in TimedSlots
        BY <1>5, <3>1, SlotIn
      <3>5. timing'[Slot(i)] = timing[Slot(i)] /\ of'[i + 1] = of[i + 1]
        BY <1>20, <1>25, <3>3, <3>4
      <3>6. i \in Recent
        BY <3>1, <3>5 DEF Recent
      <3>7. \A j \in DOMAIN x : x[j].kind \in {"record", "sample"} => x[j].slot = This
        BY <1>14
      <3>8. QED
        BY <1>9, <1>12, <3>3, <3>5, <3>6, <3>7, OthersStay
    <2>3. SpreadGrows'
      <3>1. LastCounted' = LastCounted /\ CountedOnce' = CountedOnce
        BY <1>1 DEF LastCounted, CountedOnce
      <3>2. QED
        BY <1>1, <1>25, <2>0, <3>1 DEF SpreadGrows
    <2>4. QED
      BY <1>15, <1>16, <1>21, <1>22, <1>23, <2>1, <2>2, <2>3
  <1>26. CASE /\ cycles' = cycles + 1 /\ of' = Append(of, n)
              /\ timing' = [timing EXCEPT ![This] = [armed |-> TRUE, drawn |-> FALSE]]
              /\ x = calls /\ faults' = faults
    <2>1. PICK s : s = This
      OBVIOUS
    <2>2. OutputIs(n, End)'
      BY <1>7, <1>12, <1>26, <1>w, <2>1, YoloMakes
    <2>3. of'[cycles'] = n /\ cycles' >= 1
      BY <1>26, OfGrows
    <2>4. NextTrue'
      <3>1. OutputIs(frame, End)'
        BY <1>1, <1>4, <2>2 DEF OutputIs
      <3>2. at' \in {"present", "decode", "mark"} /\ frame' = n
        BY <1>1, <1>4, <1>26
      <3>3. QED
        BY <2>3, <3>1, <3>2 DEF NextTrue
    <2>5. ASSUME NEW i \in Recent', i # cycles
          PROVE  CycleTrue(i)'
      <3>1. /\ i \in Recent /\ Slot(i) # This /\ timing'[Slot(i)] = timing[Slot(i)]
            /\ of'[i + 1] = of[i + 1]
        BY <1>20, <1>26, <2>5, Older
      <3>7. \A j \in DOMAIN x : x[j].kind \in {"record", "sample"} => x[j].slot = This
        BY <1>14
      <3>2. QED
        BY <1>9, <1>12, <3>1, <3>7, OthersStay
    <2>6. PICK c \in Nat : c = cycles
      BY <1>5
    <2>7. CycleTrue(c)'
      <3>1. Slot(c) = s /\ Slot(c)' = s /\ c + 1 = cycles'
        BY <1>26, <2>1, <2>6 DEF This, Slot
      <3>2. timing'[s].drawn = FALSE
        BY <1>5, <1>19, <1>26, <2>1
      <3>3. Measured(s)' = {"pre_start", "infer_start", "infer_end"}
        BY <3>2 DEF Measured, LastEvent
      <3>4. /\ Records(x, s, "infer_start") /\ Records(x, s, "infer_end")
            /\ Records(x, s, "pre_start")
            /\ "pre_start" \in EventNames /\ "infer_start" \in EventNames /\ "infer_end" \in EventNames
        BY <1>7, <1>26, <2>1 DEF Records, EventNames
      <3>5. /\ events'[s]["infer_start"] = n /\ events'[s]["infer_end"] = n
            /\ events'[s]["pre_start"] = n
        BY <1>5, <1>11, <2>1, <3>4
      <3>6. \A e \in Measured(s)' : events'[s][e] = of'[c + 1]
        BY <2>3, <3>1, <3>3, <3>5
      <3>7. ~Paired'
        BY <1>1, <1>3 DEF Paired
      <3>10. Measured(Slot(c))' = Measured(s)'
        BY <3>1 DEF Measured, LastEvent
      <3>12. QED
        BY <3>1, <3>6, <3>7, <3>10 DEF CycleTrue
    <2>8. CyclesTrue'
      BY <2>5, <2>6, <2>7 DEF CyclesTrue
    <2>9. SpreadGrows'
      BY <1>1, <1>12, <1>14, <1>20, <1>26, CountedBefore
    <2>10. QED
      BY <1>15, <1>16, <1>21, <1>22, <1>23, <2>4, <2>8, <2>9
  <1>27. QED
    BY <1>18, <1>25, <1>26

LEMMA DrawnHere ==
  ASSUME NEW n, NEW k \in Nat, NEW p \in DOMAIN work', p \in Nat, p < k,
         work'[p].kind = "draw", OutputIs(n, p)',
         \A m \in p + 1 .. k - 1 : m \notin KindAt({"map", "draw"})'
  PROVE  DrawnIs(n, k)'
  <1> DEFINE H == KindAt({"map", "draw"})'
             G == {j \in KindAt({"draw"})' : OutputIs(n, j)'}
             N == texture'.drawn = OwnOf(n)'
  <1>1. p \in G
    BY DEF KindAt
  <1> HIDE DEF H, G, N
  <1>2. Since(H, G, N, k)
    BY <1>1, SinceHere DEF H
  <1>3. QED
    BY <1>2 DEF H, G, N, DrawnIs

LEMMA BaseHere ==
  ASSUME NEW n, NEW k \in Nat, NEW p \in DOMAIN work', p \in Nat, p < k,
         work'[p].kind = "base", work'[p].picture = <<0, n>>,
         \A m \in p + 1 .. k - 1 : m \notin KindAt({"map", "base"})'
  PROVE  BaseIs(n, k)'
  <1> DEFINE H == KindAt({"map", "base"})'
             G == {j \in KindAt({"base"})' : work'[j].picture = <<0, n>>}
             N == texture'.base = <<0, n>>
  <1>1. p \in G
    BY DEF KindAt
  <1> HIDE DEF H, G, N
  <1>2. Since(H, G, N, k)
    BY <1>1, SinceHere DEF H
  <1>3. QED
    BY <1>2 DEF H, G, N, BaseIs

LEMMA Two ==
  ASSUME NEW S, NEW a \in S, NEW b \in S
  PROVE  /\ <<a, b>> \in Seq(S) /\ Len(<<a, b>>) = 2 /\ DOMAIN <<a, b>> = 1 .. 2
         /\ <<a, b>>[1] = a /\ <<a, b>>[2] = b
  OBVIOUS

(* One thing, some, some more, and one thing. *)
Sandwiched(t, S, a, b, c, d) ==
  /\ t \in Seq(S) /\ Len(b) \in Nat /\ Len(c) \in Nat /\ Len(t) = 2 + Len(b) + Len(c)
  /\ DOMAIN t = 1 .. Len(t)
  /\ t[1] = a /\ t[Len(t)] = d
  /\ \A i \in 1 .. Len(b) : t[1 + i] = b[i]
  /\ \A i \in 1 .. Len(c) : t[1 + Len(b) + i] = c[i]

LEMMA Sandwich ==
  ASSUME NEW S, NEW a \in S, NEW b \in Seq(S), NEW c \in Seq(S), NEW d \in S, NEW t,
         t = <<a>> \o b \o c \o <<d>>
  PROVE  Sandwiched(t, S, a, b, c, d)
  <1>1. PICK x : x = <<a>>
    OBVIOUS
  <1>2. PICK w : w = <<d>>
    OBVIOUS
  <1>3. PICK y : y = x \o b
    OBVIOUS
  <1>4. PICK z : z = y \o c
    OBVIOUS
  <1>5. t = z \o w
    BY <1>1, <1>2, <1>3, <1>4
  <1>6. x \in Seq(S) /\ Len(x) = 1 /\ x[1] = a /\ w \in Seq(S) /\ Len(w) = 1 /\ w[1] = d
    BY <1>1, <1>2, One
  <1>s. x \in Seq(S) /\ w \in Seq(S)
    BY <1>6
  <1>7. /\ y \in Seq(S) /\ Len(y) = Len(x) + Len(b) /\ Len(b) \in Nat
        /\ \A k \in 1 .. Len(x) : y[k] = x[k]
        /\ \A k \in 1 .. Len(b) : y[Len(x) + k] = b[k]
    BY <1>3, <1>s, Joined
  <1>8. /\ z \in Seq(S) /\ Len(z) = Len(y) + Len(c) /\ Len(c) \in Nat
        /\ \A k \in 1 .. Len(y) : z[k] = y[k]
        /\ \A k \in 1 .. Len(c) : z[Len(y) + k] = c[k]
    <2>1. y \in Seq(S)
      BY <1>7
    <2>2. QED
      BY <1>4, <2>1, Joined
  <1>9. /\ t \in Seq(S) /\ Len(t) = Len(z) + Len(w) /\ DOMAIN t = 1 .. Len(z) + Len(w)
        /\ \A k \in 1 .. Len(z) : t[k] = z[k]
        /\ \A k \in 1 .. Len(w) : t[Len(z) + k] = w[k]
    <2>1. z \in Seq(S)
      BY <1>8
    <2>2. QED
      BY ONLY <1>5, <1>s, <2>1, Joined
  <1>10. PICK m \in Nat, n \in Nat : m = Len(b) /\ n = Len(c)
    BY <1>7, <1>8
  <1>11. Len(t) = 2 + m + n /\ t[2 + m + n] = d
    BY <1>6, <1>7, <1>8, <1>9, <1>10
  <1>12. t[1] = a /\ \A i \in 1 .. m : t[1 + i] = b[i]
    <2>1. \A i \in 1 .. m : 1 + i \in 1 .. 1 + m /\ 1 + i \in 1 .. 1 + m + n
      BY <1>10
    <2>2. 1 \in 1 .. 1 + m /\ 1 \in 1 .. 1 + m + n
      BY <1>10
    <2>3. \A i \in 1 .. 1 + m : z[i] = y[i]
      BY <1>6, <1>7, <1>8, <1>10
    <2>4. \A i \in 1 .. 1 + m + n : t[i] = z[i]
      BY <1>6, <1>7, <1>8, <1>9, <1>10
    <2>5. \A i \in 1 .. m : y[1 + i] = b[i]
      BY <1>6, <1>7, <1>10
    <2>6. y[1] = a
      BY <1>6, <1>7
    <2>7. QED
      BY <2>1, <2>2, <2>3, <2>4, <2>5, <2>6
  <1>13. \A i \in 1 .. n : t[1 + m + i] = c[i]
    <2>1. \A i \in 1 .. n : 1 + m + i \in 1 .. 1 + m + n
      BY <1>10
    <2>2. \A i \in 1 .. 1 + m + n : t[i] = z[i]
      BY <1>6, <1>7, <1>8, <1>9, <1>10
    <2>3. \A i \in 1 .. n : z[1 + m + i] = c[i]
      BY <1>6, <1>7, <1>8, <1>10
    <2>4. QED
      BY <2>1, <2>2, <2>3
  <1>14. QED
    BY <1>9, <1>10, <1>11, <1>12, <1>13 DEF Sandwiched

(* What is drawn, and that it is timed. *)
LEMMA DrawingIs ==
  ASSUME HasEngine => Slot(cycles - 1) \in TimedSlots, NEW t, t = DrawOps
  PROVE  /\ t \in Seq(WorkItem) /\ Len(t) \in 0 .. 2
         /\ \A j \in 1 .. Len(t) : HasEngine /\ (t[j] = Draw \/ t[j] = Record(Slot(cycles - 1), "draw_end"))
         /\ HasEngine => Len(t) >= 1 /\ t[1] = Draw
         /\ Len(t) = 2 => t[2] = Record(Slot(cycles - 1), "draw_end")
  <1> DEFINE r == Record(Slot(cycles - 1), "draw_end")
             a == Draw
  <1>1. a \in WorkItem
    BY MapAndDrawAre
  <1>2. CASE ~HasEngine
    <2>1. t = <<>>
      BY <1>2 DEF DrawOps
    <2>2. QED
      BY <1>2, <2>1, EmptySeq
  <1>3. CASE HasEngine
    <2>1. r \in WorkItem
      BY <1>3, RecordIs DEF EventNames
    <2>2. t = <<a, r>> \/ t = <<a>>
      BY <1>3 DEF DrawOps
    <2> HIDE DEF a, r
    <2>3. CASE t = <<a, r>>
      <3>1. t \in Seq(WorkItem) /\ Len(t) = 2 /\ t[1] = a /\ t[2] = r
        BY <1>1, <2>1, <2>3, Two
      <3>2. QED
        BY <1>3, <3>1 DEF a, r
    <2>4. CASE t = <<a>>
      <3>1. t \in Seq(WorkItem) /\ Len(t) = 1 /\ t[1] = a
        BY <1>1, <2>4, One
      <3>2. QED
        BY <1>3, <3>1 DEF a, r
    <2>5. QED
      BY <2>2, <2>3, <2>4
  <1>4. QED
    BY <1>2, <1>3

LEMMA Appended ==
  ASSUME EngineTyped, NEW x, Grows(x)
  PROVE  SubSeq(work', Len(work) + 1, Len(work')) = x
  <1> DEFINE l == Len(work)
             y == SubSeq(work', l + 1, l + Len(x))
  <1>1. /\ l \in Nat /\ Len(x) \in Nat /\ work' \in Seq(WorkItem) /\ Len(work') = l + Len(x)
        /\ DOMAIN x = 1 .. Len(x) /\ \A k \in 1 .. Len(x) : work'[l + k] = x[k]
        /\ x \in Seq(WorkItem)
    BY WorkGrows DEF Grows
  <1> HIDE DEF l
  <1>0. \A i \in l + 1 .. l + Len(x) : work'[i] \in WorkItem
    <2>1. \A i \in l + 1 .. l + Len(x) : i \in 1 .. Len(work')
      BY <1>1
    <2>2. QED
      BY <1>1, <2>1, ElementOfSeq
  <1>2. /\ y \in Seq(WorkItem) /\ Len(y) = Len(x)
        /\ \A i \in 1 .. Len(x) : y[i] = work'[l + i]
    <2>1. /\ l + 1 \in Int /\ l + Len(x) \in Int
          /\ Len(x) = IF l + 1 <= l + Len(x) THEN l + Len(x) - (l + 1) + 1 ELSE 0
          /\ 1 .. l + Len(x) - (l + 1) + 1 = 1 .. Len(x)
          /\ \A i \in 1 .. Len(x) : l + 1 + i - 1 = l + i
      BY <1>1
    <2> DEFINE a == l + 1
               b == l + Len(x)
    <2>2. a \in Int /\ b \in Int /\ \A i \in a .. b : work'[i] \in WorkItem
      BY <1>0, <2>1
    <2> HIDE DEF a, b
    <2>3. /\ SubSeq(work', a, b) \in Seq(WorkItem)
          /\ Len(SubSeq(work', a, b)) = IF a <= b THEN b - a + 1 ELSE 0
          /\ \A i \in 1 .. b - a + 1 : SubSeq(work', a, b)[i] = work'[a + i - 1]
      BY <2>2, SubSeqProperties
    <2>4. b - a + 1 = Len(x) /\ (\A i \in 1 .. Len(x) : a + i - 1 = l + i)
          /\ (a <= b <=> Len(x) # 0) /\ y = SubSeq(work', a, b)
      BY <1>1 DEF a, b
    <2> HIDE DEF y
    <2>5. QED
      BY <1>1, <2>3, <2>4
  <1>3. \A i \in 1 .. Len(x) : y[i] = x[i]
    BY <1>1, <1>2
  <1> HIDE DEF y
  <1>4. y = x
    BY <1>1, <1>2, <1>3, SeqEqual
  <1>5. QED
    BY <1>1, <1>4 DEF y, l

(* Where in a picture that is shown its parts are queued. *)
PartsInOrder(t, s) ==
  /\ t \in Seq(WorkItem)
  /\ \A j \in 1 .. Len(t) :
       \/ t[j] = Map \/ (~Paired /\ t[j] = Base)
       \/ HasEngine /\ (t[j] = Draw \/ t[j] = Record(s, "draw_end"))
       \/ t[j] = Unmap /\ j = Len(t)
  /\ HasEngine => \E d \in 1 .. Len(t) : /\ d < Len(t) /\ t[d] = Draw
                                         /\ \A m \in d + 1 .. Len(t) - 1 : t[m].kind = "record"
  /\ ~Paired => \E d \in 1 .. Len(t) : /\ d < Len(t) /\ t[d] = Base
                                       /\ \A m \in d + 1 .. Len(t) - 1 : t[m].kind \in {"draw", "record"}

LEMMA PresentingIs ==
  ASSUME Picture \in Pictures, frame \in 0 .. MaxCycles,
         HasEngine => Slot(cycles - 1) \in TimedSlots, NEW t, t = PresentOps
  PROVE  PartsInOrder(t, Slot(cycles - 1))
  <1>1. PICK s : s = Slot(cycles - 1)
    OBVIOUS
  <1>2. PICK a : a = Map
    OBVIOUS
  <1>3. PICK b : b = IF Paired THEN <<>> ELSE <<Base>>
    OBVIOUS
  <1>4. PICK c : c = DrawOps
    OBVIOUS
  <1>5. PICK d : d = Unmap
    OBVIOUS
  <1>6. t = <<a>> \o b \o c \o <<d>>
    BY <1>2, <1>3, <1>4, <1>5 DEF PresentOps
  <1>7. a \in WorkItem /\ d \in WorkItem /\ Base \in WorkItem
    BY <1>2, <1>5, MapAndDrawAre, BaseAndUnmapAre
  <1>8. /\ b \in Seq(WorkItem)
        /\ Paired => Len(b) = 0
        /\ ~Paired => Len(b) = 1 /\ b[1] = Base
    <2>1. CASE Paired
      BY <1>3, <2>1, EmptySeq
    <2>2. CASE ~Paired
      BY <1>3, <1>7, <2>2, One
    <2>3. QED
      BY <2>1, <2>2
  <1>9. /\ c \in Seq(WorkItem) /\ Len(c) \in 0 .. 2
        /\ \A j \in 1 .. Len(c) : HasEngine /\ (c[j] = Draw \/ c[j] = Record(s, "draw_end"))
        /\ HasEngine => Len(c) >= 1 /\ c[1] = Draw
        /\ Len(c) = 2 => c[2] = Record(s, "draw_end")
    BY <1>1, <1>4, DrawingIs
  <1>10. /\ t \in Seq(WorkItem) /\ Len(b) \in Nat /\ Len(c) \in Nat /\ Len(t) = 2 + Len(b) + Len(c)
         /\ DOMAIN t = 1 .. Len(t)
         /\ t[1] = a /\ t[Len(t)] = d
         /\ \A i \in 1 .. Len(b) : t[1 + i] = b[i]
         /\ \A i \in 1 .. Len(c) : t[1 + Len(b) + i] = c[i]
    <2>1. b \in Seq(WorkItem) /\ c \in Seq(WorkItem)
      BY <1>8, <1>9
    <2>2. QED
      <3>1. a \in WorkItem /\ d \in WorkItem
        BY <1>7
      <3>2. QED
        BY ONLY <1>6, <2>1, <3>1, Sandwich, SMTT(60)
  <1>11. PICK m \in {0, 1}, n \in 0 .. 2 : m = Len(b) /\ n = Len(c)
    BY <1>8, <1>9
  <1>12. Len(t) = 2 + m + n /\ (Paired <=> m = 0) /\ (HasEngine => n >= 1)
    BY <1>8, <1>9, <1>10, <1>11
  <1>13. ASSUME NEW j \in 1 .. Len(t)
         PROVE  \/ t[j] = Map \/ (~Paired /\ t[j] = Base)
                \/ HasEngine /\ (t[j] = Draw \/ t[j] = Record(s, "draw_end"))
                \/ t[j] = Unmap /\ j = Len(t)
    <2>1. CASE j = 1
      <3>1. t[j] = Map
        BY <1>2, <1>10, <2>1
      <3>2. QED
        BY <3>1
    <2>2. CASE m = 1 /\ j = 2
      <3>1. t[1 + 1] = b[1]
        BY <1>10, <1>11, <2>2
      <3>2. QED
        BY <1>8, <1>12, <2>2, <3>1
    <2>3. CASE j > 1 + m /\ j < Len(t)
      <3> DEFINE i == j - (1 + m)
      <3>1. i \in 1 .. n /\ 1 + m + i = j
        BY <1>12, <2>3
      <3> HIDE DEF i
      <3>2. t[j] = c[i]
        BY <1>10, <1>11, <3>1
      <3>3. QED
        BY <1>9, <1>11, <3>1, <3>2
    <2>4. CASE j = Len(t)
      BY <1>5, <1>10, <2>4
    <2>5. QED
      BY <1>12, <2>1, <2>2, <2>3, <2>4
  <1>14. ASSUME HasEngine
         PROVE  \E e \in 1 .. Len(t) : /\ e < Len(t) /\ t[e] = Draw
                                       /\ \A k \in e + 1 .. Len(t) - 1 : t[k].kind = "record"
    <2> DEFINE e == 2 + m
    <2>1. e \in 1 .. Len(t) /\ e < Len(t) /\ \A k \in e + 1 .. Len(t) - 1 : k = 1 + m + 2 /\ n = 2
      BY <1>12, <1>14
    <2>2. t[e] = Draw
      <3>1. 1 \in 1 .. n /\ 1 + m + 1 = e
        BY <1>12, <1>14
      <3>2. t[e] = c[1]
        BY <1>10, <1>11, <3>1
      <3>3. QED
        BY <1>9, <1>14, <3>2
    <2>3. n = 2 => t[1 + m + 2].kind = "record"
      BY <1>9, <1>10, <1>11 DEF Record
    <2> HIDE DEF e
    <2>4. QED
      BY <2>1, <2>2, <2>3
  <1>15. ASSUME ~Paired
         PROVE  \E e \in 1 .. Len(t) : /\ e < Len(t) /\ t[e] = Base
                                       /\ \A k \in e + 1 .. Len(t) - 1 : t[k].kind \in {"draw", "record"}
    <2>1. m = 1 /\ 2 \in 1 .. Len(t) /\ 2 < Len(t) /\ t[2] = Base
      <3>1. m = 1
        BY <1>12, <1>15
      <3>2. t[1 + 1] = b[1]
        BY <1>10, <1>11, <3>1
      <3>3. QED
        BY <1>8, <1>12, <1>15, <3>1, <3>2
    <2>2. ASSUME NEW k \in 2 + 1 .. Len(t) - 1
          PROVE  t[k].kind \in {"draw", "record"}
      <3> DEFINE i == k - 2
      <3>1. i \in 1 .. n /\ 1 + m + i = k
        BY <1>12, <2>1
      <3> HIDE DEF i
      <3>2. t[k] = c[i]
        BY <1>10, <1>11, <3>1
      <3>3. c[i] = Draw \/ c[i] = Record(s, "draw_end")
        BY <1>9, <1>11, <3>1
      <3>4. QED
        BY <3>2, <3>3 DEF Draw, Record
    <2>3. QED
      BY <2>1, <2>2
  <1>16. QED
    BY <1>1, <1>10, <1>13, <1>14, <1>15 DEF PartsInOrder

(* What is shown is the picture of the frame it is shown with, and its boxes or disparity. *)
LEMMA ShownTrue ==
  ASSUME EngineTyped, WorkTrue, NEW x, Grows(x), NEW calls, NEW s, PartsInOrder(calls, s),
         PartOf(x, calls), NEW n, n = frame, ~Paired => Picture = <<0, n>>,
         HasEngine => OutputIs(n, End)
  PROVE  WorkTrue'
  <1> SUFFICES ASSUME NEW k \in DOMAIN work', k >= End
               PROVE  ItemTrue(k)'
    BY ItemsGrow
  <1>1. /\ k \in Nat /\ End <= k /\ k <= End' /\ k - Len(work) \in DOMAIN x
        /\ work'[k] = x[k - Len(work)] /\ DOMAIN x = 1 .. Len(x) /\ Len(x) \in Nat
        /\ End = Len(work) + 1 /\ \A j \in 1 .. Len(x) : Len(work) + j \in DOMAIN work' /\ work'[Len(work) + j] = x[j]
    BY NewOnes
  <1>2. PICK l \in Nat : l = Len(work)
    BY WorkGrows
  <1>3. PICK i \in 1 .. Len(x) : i = k - l
    BY <1>1, <1>2
  <1>4. Len(calls) \in Nat /\ DOMAIN calls = 1 .. Len(calls) /\ Len(x) <= Len(calls)
    BY LenProperties DEF PartsInOrder, PartOf
  <1>5. \A j \in 1 .. Len(x) : j \in 1 .. Len(calls) /\ x[j] = calls[j] /\ work'[l + j] = x[j] /\ l + j \in DOMAIN work'
    BY <1>1, <1>2, <1>4 DEF PartOf
  <1>6. \A j \in 1 .. Len(x) : x[j].kind # "compute"
    <2> SUFFICES ASSUME NEW j \in 1 .. Len(x)
                 PROVE  x[j].kind # "compute"
      OBVIOUS
    <2>1. /\ Map.kind = "map" /\ Base.kind = "base" /\ Draw.kind = "draw" /\ Unmap.kind = "unmap"
          /\ Record(s, "draw_end").kind = "record"
      BY DEF Map, Base, Draw, Record, Unmap
    <2>2. x[j] \in {Map, Base, Draw, Record(s, "draw_end"), Unmap}
      BY <1>5 DEF PartsInOrder
    <2>3. QED
      BY ONLY <2>1, <2>2
  <1>7. HasEngine' = HasEngine /\ Paired' = Paired
    BY DEF Grows, HasEngine, Paired
  <1>c. PICK c : c = work'[k]
    OBVIOUS
  <1>8. c = calls[i] /\ i \in 1 .. Len(calls) /\ k = l + i
    BY <1>1, <1>2, <1>3, <1>5, <1>c
  <1>9. \/ c = Map \/ (~Paired /\ c = Base)
        \/ HasEngine /\ (c = Draw \/ c = Record(s, "draw_end"))
        \/ c = Unmap /\ i = Len(calls)
    BY <1>8 DEF PartsInOrder
  <1>10. c.kind \notin {"compute", "download"} /\ (c.kind = "base" => ~Paired)
    BY <1>9 DEF Map, Base, Draw, Record, Unmap
  <1>11. c.kind = "unmap" => i = Len(calls) /\ c.of = n
    BY <1>9 DEF Map, Base, Draw, Record, Unmap
  <1>12. ASSUME c.kind = "unmap", HasEngine
         PROVE  DrawnIs(n, k)'
    <2>1. PICK d \in 1 .. Len(calls) : /\ d < Len(calls) /\ calls[d] = Draw
                                     /\ \A m \in d + 1 .. Len(calls) - 1 : calls[m].kind = "record"
      BY <1>12 DEF PartsInOrder
    <2> DEFINE p == l + d
    <2>0. p \in Nat /\ p < k /\ d \in 1 .. Len(x) /\ l + 1 <= p
      BY <1>1, <1>2, <1>3, <1>4, <1>8, <1>11, <1>12, <2>1
    <2> HIDE DEF p
    <2>2. p \in Nat /\ p < k /\ d \in 1 .. Len(x) /\ End <= p /\ p <= End'
      <3>1. PICK e : e = End'
        OBVIOUS
      <3>2. e \in Nat
        BY <3>1, NewOnes
      <3>3. QED
        BY <1>1, <1>2, <2>0, <3>1, <3>2
    <2> USE DEF p
    <2>3. p \in DOMAIN work' /\ work'[p] = Draw
      BY <1>5, <2>1, <2>2
    <2>4. \A m \in p + 1 .. k - 1 : m \notin KindAt({"map", "draw"})'
      <3> SUFFICES ASSUME NEW m \in p + 1 .. k - 1
                   PROVE  m \notin KindAt({"map", "draw"})'
        OBVIOUS
      <3>1. m - l \in 1 .. Len(x) /\ m - l \in d + 1 .. Len(calls) - 1 /\ l + (m - l) = m
        BY <1>3, <1>4, <1>8, <1>11, <1>12, <2>1
      <3>2. work'[m].kind = "record"
        BY <1>5, <2>1, <3>1
      <3>3. QED
        BY <3>2 DEF KindAt
    <2> HIDE DEF p
    <2>5. OutputIs(n, p)'
      BY <1>1, <1>6, <1>12, <2>2, OutputStays
    <2>6. work'[p].kind = "draw"
      BY <2>3 DEF Draw
    <2>7. QED
      BY <1>1, <2>2, <2>3, <2>4, <2>5, <2>6, DrawnHere
  <1>13. ASSUME c.kind = "unmap", ~Paired
         PROVE  BaseIs(n, k)'
    <2>1. PICK d \in 1 .. Len(calls) : /\ d < Len(calls) /\ calls[d] = Base
                                     /\ \A m \in d + 1 .. Len(calls) - 1 : calls[m].kind \in {"draw", "record"}
      BY <1>13 DEF PartsInOrder
    <2> DEFINE p == l + d
    <2>2. p \in Nat /\ p < k /\ d \in 1 .. Len(x)
      BY <1>1, <1>2, <1>3, <1>4, <1>8, <1>11, <1>13, <2>1
    <2>3. p \in DOMAIN work' /\ work'[p] = Base
      BY <1>5, <2>1, <2>2
    <2>4. \A m \in p + 1 .. k - 1 : m \notin KindAt({"map", "base"})'
      <3> SUFFICES ASSUME NEW m \in p + 1 .. k - 1
                   PROVE  m \notin KindAt({"map", "base"})'
        OBVIOUS
      <3>1. m - l \in 1 .. Len(x) /\ m - l \in d + 1 .. Len(calls) - 1 /\ l + (m - l) = m
        BY <1>3, <1>4, <1>8, <1>11, <1>13, <2>1
      <3>2. work'[m].kind \in {"draw", "record"}
        BY <1>5, <2>1, <3>1
      <3>3. QED
        BY <3>2 DEF KindAt
    <2> HIDE DEF p
    <2>6. work'[p].kind = "base" /\ work'[p].picture = <<0, n>>
      BY <1>13, <2>3 DEF Base
    <2>7. QED
      BY <1>1, <2>2, <2>3, <2>4, <2>6, BaseHere
  <1>14. c.kind = "unmap" /\ ~Paired => BaseIs(c.of, k)'
    BY <1>11, <1>13
  <1>15. c.kind = "unmap" /\ HasEngine => DrawnIs(c.of, k)'
    BY <1>11, <1>12
  <1>16. QED
    BY <1>7, <1>c, <1>10, <1>14, <1>15 DEF ItemTrue

\* Nothing but the end of a cycle's drawing is recorded, and timed if it is.
Closes(x, s) ==
  /\ \A j \in DOMAIN x : x[j].kind # "sample" /\ (x[j].kind = "record" => x[j] = Record(s, "draw_end"))
  /\ timing' = IF Records(x, s, "draw_end") THEN [timing EXCEPT ![s].drawn = TRUE] ELSE timing

(* What is timed last is the drawing of the newest cycle. *)
LEMMA TimesDrawn ==
  ASSUME EngineTyped, CyclesTrue, NEW x, Grows(x), NEW n \in 0 .. MaxCycles, Queue(x, n), NEW s,
         s = Slot(cycles - 1), cycles >= 1, of[cycles] = n,
         Closes(x, s),
         UNCHANGED <<cycles, of>>
  PROVE  /\ CyclesTrue' /\ timing' \in [TimedSlots -> [armed : BOOLEAN, drawn : BOOLEAN]]
         /\ Recent' = Recent /\ \A r \in TimedSlots : r # s => timing'[r] = timing[r]
  <1>0. /\ \A j \in DOMAIN x : x[j].kind # "sample" /\ (x[j].kind = "record" => x[j] = Record(s, "draw_end"))
        /\ timing' = IF Records(x, s, "draw_end") THEN [timing EXCEPT ![s].drawn = TRUE] ELSE timing
    BY DEF Closes
  <1> USE <1>0
  <1>1. /\ timing \in [TimedSlots -> [armed : BOOLEAN, drawn : BOOLEAN]]
        /\ events \in [TimedSlots -> [EventNames -> 0 .. MaxCycles]]
    BY DEF EngineTyped
  <1>2. cycles \in Nat /\ cycles - 1 \in Nat
    BY RecentAre
  <1>3. s \in TimedSlots
    BY <1>2, SlotIn
  <1>4. /\ timing' \in [TimedSlots -> [armed : BOOLEAN, drawn : BOOLEAN]]
        /\ \A r \in TimedSlots : timing'[r].armed = timing[r].armed
        /\ \A r \in TimedSlots : r # s => timing'[r] = timing[r]
    <2>1. CASE Records(x, s, "draw_end")
      <3>1. timing' = [timing EXCEPT ![s].drawn = TRUE]
        BY <2>1
      <3>2. QED
        BY ONLY <1>1, <1>3, <3>1
    <2>2. CASE ~Records(x, s, "draw_end")
      <3>1. timing' = timing
        BY <2>2
      <3>2. QED
        BY <1>1, <3>1
    <2>3. QED
      BY <2>1, <2>2
  <1>5. \A i \in 0 .. cycles - 1 : Slot(i) \in TimedSlots
    BY <1>2, SlotIn
  <1>6. Recent' = Recent
    BY <1>4, <1>5 DEF Recent, Slot
  <1>7. x \in Seq(WorkItem)
    BY DEF Grows
  <1>8. \A r \in TimedSlots, e \in EventNames : events'[r][e] = IF Records(x, r, e) THEN n ELSE events[r][e]
    BY <1>7, QueueGives
  <1>9. \A r, e : Records(x, r, e) => r = s /\ e = "draw_end"
    BY DEF Records, Record
  <1>10. ASSUME NEW i \in Recent
         PROVE  CycleTrue(i)'
    <2>0. i \in 0 .. cycles - 1 /\ i >= cycles - TimingSlots /\ Slot(i) \in TimedSlots
      BY RecentAre
    <2>1. CASE Slot(i) # s
      <3>1. \A j \in DOMAIN x : x[j].kind \in {"record", "sample"} => x[j].slot = s
        BY DEF Record
      <3>2. timing'[Slot(i)] = timing[Slot(i)] /\ of'[i + 1] = of[i + 1]
        BY <1>4, <2>0, <2>1
      <3>3. QED
        BY <2>1, <3>1, <3>2, OthersStay
    <2>2. CASE Slot(i) = s
      <3>1. i = cycles - 1
        <4>1. ASSUME i < cycles - 1
              PROVE  FALSE
          <5>1. PICK c \in Nat : c = cycles - 1
            BY <1>2
          <5>2. i \in Nat /\ i < c /\ c - i < TimingSlots
            <6>1. TimingSlots \in Nat
              BY EngineAssumption
            <6>2. QED
              BY <1>2, <2>0, <4>1, <5>1, <6>1
          <5>3. QED
            BY <2>2, <5>1, <5>2, SlotsDiffer
        <4>2. QED
          BY <1>2, <2>0, <4>1
      <3>2. of[i + 1] = n
        BY <1>2, <3>1
      <3>3. CycleTrue(i)
        BY DEF CyclesTrue
      <3>4. \A e \in Measured(s) : events[s][e] = n
        BY <2>2, <3>2, <3>3 DEF CycleTrue
      <3>5. /\ events[s]["pre_start"] = n /\ events[s]["infer_start"] = n
            /\ events[s]["infer_end"] = n
        BY <3>4 DEF Measured
      <3>6. /\ events'[s]["pre_start"] = n /\ events'[s]["infer_start"] = n
            /\ events'[s]["infer_end"] = n
        <4>1. \A e \in {"pre_start", "infer_start", "infer_end"} : e \in EventNames /\ e # "draw_end"
          BY DEF EventNames
        <4>2. QED
          BY <1>3, <1>8, <1>9, <3>5, <4>1
      <3>7. timing'[s].drawn => events'[s]["draw_end"] = n
        <4>0. "draw_end" \in EventNames
          BY DEF EventNames
        <4>1. CASE Records(x, s, "draw_end")
          BY <1>3, <1>8, <4>0, <4>1
        <4>2. CASE ~Records(x, s, "draw_end")
          <5>1. timing' = timing /\ events'[s]["draw_end"] = events[s]["draw_end"]
            BY <1>3, <1>8, <4>0, <4>2
          <5>2. timing[s].drawn => "draw_end" \in Measured(s)
            BY DEF Measured, LastEvent
          <5>3. QED
            BY <3>4, <5>1, <5>2
        <4>3. QED
          BY <4>1, <4>2
      <3>8. \A e \in Measured(s)' : events'[s][e] = n
        BY <3>6, <3>7 DEF Measured, LastEvent
      <3>9. Measured(Slot(i))' = Measured(s)'
        BY <2>2 DEF Measured, LastEvent, Slot
      <3>10. \A e \in Measured(Slot(i))' : events'[Slot(i)][e] = of[i + 1]
        BY <2>2, <3>2, <3>8, <3>9
      <3>11. \A j \in DOMAIN x : x[j].kind = "sample" => x[j].slot # Slot(i)
        OBVIOUS
      <3>12. QED
        BY <3>3, <3>10, <3>11, CycleStays
    <2>3. QED
      BY <2>1, <2>2
  <1>11. QED
    BY <1>4, <1>6, <1>10 DEF CyclesTrue

LEMMA StillCounted ==
  ASSUME EngineTyped, SpreadGrows, NEW x, Grows(x), NEW s, s = Slot(cycles - 1), at = "present",
         \A j \in DOMAIN x : x[j].kind = "record" => x[j] = Record(s, "draw_end"),
         Recent' = Recent, \A r \in TimedSlots : r # s => timing'[r] = timing[r],
         UNCHANGED <<user, spread, cycles>>, at' # "present"
  PROVE  SpreadGrows'
  <1>1. cycles \in Nat /\ TimingSlots \in Nat \ {0}
    BY RecentAre, EngineAssumption
  <1>2. CASE spread = <<>>
    BY <1>2, NoSpread
  <1>3. CASE spread # <<>>
    <2>1. /\ spread \in Seq(0 .. cycles - 1) /\ CountedOnce /\ user.name = "yolo_viewer"
          /\ (LastCounted >= cycles - TimingSlots => LastCounted \in Timed)
          /\ LastCounted < cycles - 1
      BY <1>3 DEF SpreadGrows
    <2>2. LastCounted \in 0 .. cycles - 1 /\ LastCounted' = LastCounted
      <3>1. Len(spread) \in 1 .. Len(spread)
        BY <1>3, <2>1, EmptySeq, LenProperties
      <3>2. QED
        BY <2>1, <3>1, ElementOfSeq DEF LastCounted
    <2>3. PICK i : i = LastCounted
      OBVIOUS
    <2>4. ASSUME i >= cycles - TimingSlots
          PROVE  i \in Timed'
      <3>1. PICK c \in Nat : c = cycles - 1
        BY <1>1, <2>2
      <3>2. i \in Nat /\ i < c /\ c - i < TimingSlots
        BY <1>1, <2>1, <2>2, <2>3, <2>4, <3>1
      <3>3. i \in Timed /\ i \in Recent
        BY <2>1, <2>3, <2>4, RecentAre
      <3>4. Slot(i) # s /\ Slot(i) \in TimedSlots
        BY <3>1, <3>2, SlotsDiffer, SlotIn
      <3>5. timing'[Slot(i)] = timing[Slot(i)]
        BY <3>4
      <3>6. \A j \in DOMAIN x : x[j].kind = "record" => x[j].slot # Slot(i)
        BY <3>4 DEF Record
      <3>7. QED
        BY <3>3, <3>5, <3>6, TimedStays
    <2>5. CountedOnce'
      BY <2>1 DEF CountedOnce
    <2>6. QED
      BY <2>1, <2>2, <2>3, <2>4, <2>5 DEF SpreadGrows
  <1>4. QED
    BY <1>2, <1>3

LEMMA PresentKeeps ==
  ASSUME EngineIInv, Present
  PROVE  EngineIInv'
  <1> USE DEF EngineIInv
  <1>1. /\ at = "present" /\ at' \in {"report", "unwind"}
        /\ Queued(PresentOps, frame) \/ Fails(PresentOps, frame)
        /\ Drawn
        /\ UNCHANGED <<wiring, held, deviceVars, cycles, preprocessed, of,
                       user, frame, seen, shownVars, told, spread>>
    BY DEF Present, Throws, Go
  <1>2. UNCHANGED <<input, output, sampled, texture, copied, screen, sent, boxes>>
    BY <1>1 DEF shownVars, deviceVars
  <1>3. /\ Windowed
        /\ ~Paired => held = OnlyOne
    BY <1>1 DEF AtItsPlace
  <1>4. PICK n \in 0 .. MaxCycles : n = frame
    BY DEF EngineTyped
  <1>5. cycles \in Nat /\ cycles = Len(of)
    BY RecentAre
  <1>6. HasEngine => OutputIs(n, End) /\ cycles >= 1 /\ of[cycles] = n
    BY <1>1, <1>4 DEF NextTrue
  <1>7. PICK s : s = Slot(cycles - 1)
    OBVIOUS
  <1>8. HasEngine => s \in TimedSlots
    BY <1>5, <1>6, <1>7, SlotIn
  <1>9. PICK calls : calls = PresentOps
    OBVIOUS
  <1>10. (~Paired => Picture = <<0, n>>) /\ Picture \in Pictures
    <2>1. user.reference \in {0, 1}
      BY DEF EngineWired, Users
    <2>2. QED
      BY <1>4, <2>1, LeasesAre DEF Pictures, Picture
  <1>11. PartsInOrder(calls, s)
    BY <1>4, <1>7, <1>8, <1>9, <1>10, PresentingIs
  <1>12. calls \in Seq(WorkItem) /\ Len(calls) \in Nat /\ DOMAIN calls = 1 .. Len(calls)
    BY <1>11, LenProperties DEF PartsInOrder
  <1>13. Queued(calls, n) \/ Fails(calls, n)
    BY <1>1, <1>4, <1>9
  <1>14. faults \in Nat
    BY DEF EngineTyped
  <1>15. PICK x : PartOf(x, calls) /\ Queue(x, n) /\ faults' \in Nat
    BY <1>12, <1>13, <1>14, CallGives
  <1>16. x \in Seq(WorkItem) /\ \A j \in DOMAIN x : j \in 1 .. Len(calls) /\ x[j] = calls[j]
    BY <1>12, <1>15 DEF PartOf
  <1>17. /\ work' = work \o x /\ work' \in Seq(WorkItem)
         /\ events' \in [TimedSlots -> [EventNames -> 0 .. MaxCycles]]
    BY <1>15, <1>16, QueueGives
  <1>18. Grows(x)
    BY <1>1, <1>2, <1>16, <1>17 DEF Grows
  <1>19. \A j \in DOMAIN x :
           \/ x[j] = Map \/ (~Paired /\ x[j] = Base)
           \/ HasEngine /\ (x[j] = Draw \/ x[j] = Record(s, "draw_end"))
           \/ x[j] = Unmap
    BY <1>11, <1>16 DEF PartsInOrder
  <1>20. \A j \in DOMAIN x :
           /\ x[j].kind \in {"map", "base", "draw", "record", "unmap"}
           /\ x[j].kind = "base" => ~Paired /\ x[j] = Base
           /\ x[j].kind = "record" => HasEngine /\ x[j] = Record(s, "draw_end")
    BY <1>19 DEF Map, Base, Draw, Record, Unmap
  <1>21. PicturesKept'
    <2>1. ~Paired => Picture \in held'
      BY <1>1, <1>3, <1>4, <1>10 DEF OnlyOne
    <2>2. \A j \in DOMAIN x : x[j].kind \in {"read", "base"} => x[j].picture \in held'
      BY <1>20, <2>1 DEF Base
    <2>3. QED
      BY <1>1, <1>18, <2>2, KeptGrows
  <1>22. WorkTrue'
    BY <1>4, <1>6, <1>10, <1>11, <1>15, <1>18, ShownTrue
  <1>23. SubSeq(work', Len(work) + 1, Len(work')) = x
    BY <1>18, Appended
  <1>24. timing' = IF HasEngine /\ Records(x, s, "draw_end")
                   THEN [timing EXCEPT ![s].drawn = TRUE] ELSE timing
    BY <1>1, <1>7, <1>23 DEF Drawn
  <1>25. /\ CyclesTrue' /\ timing' \in [TimedSlots -> [armed : BOOLEAN, drawn : BOOLEAN]]
         /\ Recent' = Recent /\ \A r \in TimedSlots : r # s => timing'[r] = timing[r]
    <2>1. CASE HasEngine
      <3>1. timing' = IF Records(x, s, "draw_end") THEN [timing EXCEPT ![s].drawn = TRUE] ELSE timing
        BY <1>24, <2>1
      <3>2. \A j \in DOMAIN x : x[j].kind # "sample" /\ (x[j].kind = "record" => x[j] = Record(s, "draw_end"))
        BY <1>20
      <3>3. cycles >= 1 /\ of[cycles] = n
        BY <1>6, <2>1
      <3>4. /\ EngineTyped /\ CyclesTrue /\ UNCHANGED <<cycles, of>> /\ Queue(x, n)
            /\ s = Slot(cycles - 1)
        BY <1>1, <1>7, <1>15
      <3>5. QED
        <4>1. Closes(x, s)
          BY ONLY <3>1, <3>2 DEF Closes
        <4>2. QED
          BY ONLY <1>18, <3>3, <3>4, <4>1, TimesDrawn, n \in 0 .. MaxCycles
    <2>2. CASE ~HasEngine
      <3>1. timing' = timing /\ Recent' = Recent
        BY <1>1, <1>24, <2>2 DEF Recent, Slot
      <3>2. Recent = {}
        BY <2>2, RecentAre DEF EngineWired
      <3>3. QED
        BY <3>1, <3>2 DEF CyclesTrue, EngineTyped
    <2>3. QED
      BY <2>1, <2>2
  <1>26. EngineWired'
    BY <1>1, <1>2 DEF EngineWired, HasEngine, Paired
  <1>27. AtItsPlace'
    BY <1>1, <1>2, <1>3 DEF AtItsPlace, HasEngine, Paired, Windowed, OnlyOne, Both
  <1>28. EngineTyped'
    BY <1>1, <1>2, <1>15, <1>17, <1>25 DEF EngineTyped, WorkItem
  <1>29. NextTrue'
    BY <1>1 DEF NextTrue
  <1>30. OutputMade' /\ ToldIs' /\ ResultsAre'
    BY <1>1, <1>5, SameResults
  <1>31. SpreadGrows'
    <2>1. at' # "present"
      BY <1>1
    <2>2. \A j \in DOMAIN x : x[j].kind = "record" => x[j] = Record(s, "draw_end")
      BY <1>20
    <2>3. QED
      BY <1>1, <1>7, <1>18, <1>25, <2>1, <2>2, StillCounted
  <1>32. QED
    BY <1>21, <1>22, <1>25, <1>26, <1>27, <1>28, <1>29, <1>30, <1>31

LEMMA EngineKeeps ==
  ASSUME EngineIInv, UsersNext
  PROVE  EngineIInv'
  <1>1. CASE DeviceStep
    BY <1>1, DeviceKeeps
  <1>2. CASE Construct
    BY <1>2, ConstructKeeps
  <1>3. CASE Take
    BY <1>3, TakeKeeps
  <1>4. CASE Unwind
    BY <1>4, UnwindKeeps
  <1>5. CASE Present
    BY <1>5, PresentKeeps
  <1>6. CASE Report
    BY <1>6, ReportKeeps
  <1>7. CASE LeaveLoop \/ Synchronized
    BY <1>7, LeaveKeeps
  <1>8. CASE PairPreprocess
    BY <1>8, PreprocessKeeps
  <1>9. CASE DropHolds
    BY <1>9, DropHoldsKeeps
  <1>10. CASE PairInfer
    BY <1>10, InferKeeps
  <1>11. CASE PairDownload
    BY <1>11, DownloadKeeps
  <1>12. CASE Ask
    BY <1>12, AskKeeps
  <1>13. CASE YoloEnqueue
    BY <1>13, EnqueueKeeps
  <1>14. CASE Decode
    BY <1>14, DecodeKeeps
  <1>15. CASE Decoded
    BY <1>15, DecodedKeeps
  <1>16. CASE Mark
    BY <1>16, MarkKeeps
  <1>17. CASE HeadlessDone
    BY <1>17, HeadlessDoneKeeps
  <1>18. QED
    BY <1>1, <1>2, <1>3, <1>4, <1>5, <1>6, <1>7, <1>8, <1>9, <1>10, <1>11, <1>12, <1>13, <1>14,
       <1>15, <1>16, <1>17 DEF UsersNext, UserStep

LEMMA EngineRests ==
  ASSUME EngineIInv, UNCHANGED usersVars
  PROVE  EngineIInv'
  <1> USE DEF EngineIInv
  <1>1. UNCHANGED <<engineVars, user, at, frame, seen, shownVars, told, spread>>
    BY DEF usersVars, userVars
  <1>2. /\ UNCHANGED <<wiring, work, held, deviceVars, input, output, sampled, texture, copied, screen>>
        /\ UNCHANGED <<events, timing, cycles, of, user, faults>>
    BY <1>1 DEF engineVars, shownVars, deviceVars
  <1>3. PicturesKept' /\ WorkTrue' /\ CyclesTrue' /\ Timed \subseteq Timed'
    BY <1>2, Quiet
  <1>4. EngineWired'
    BY <1>1, <1>2 DEF EngineWired, HasEngine, Paired
  <1>5. AtItsPlace'
    BY <1>1, <1>2 DEF AtItsPlace, Windowed, Paired, HasEngine, OnlyOne, Both
  <1>6. EngineTyped'
    BY <1>1, <1>2 DEF EngineTyped, WorkItem
  <1>8. OutputMade' /\ ToldIs' /\ ResultsAre'
    BY <1>1, <1>2, RecentAre, SameResults
  <1>9. SpreadGrows'
    BY <1>1, <1>2, <1>3, SpreadStays
  <1>10. NextTrue'
    <2>0. PICK n, e : n = frame /\ e = End
      OBVIOUS
    <2>1. n = frame' /\ e = End'
      BY <1>1, <1>2, <2>0 DEF End
    <2>2. InputsAre(n, e)' = InputsAre(n, e)
      BY <1>2 DEF InputsAre, InputIs, Buffers, ReadInto, KindAt, Since, PictureOf
    <2>3. OutputIs(n, e)' = OutputIs(n, e)
      BY <1>2 DEF OutputIs, InputsAre, InputIs, Buffers, ReadInto, KindAt, Since, PictureOf, OwnOf
    <2>4. CopiedIs(n, e)' = CopiedIs(n, e)
      BY <1>2 DEF CopiedIs, OutputIs, InputsAre, InputIs, Buffers, ReadInto, KindAt, Since, PictureOf, OwnOf
    <2>5. /\ at \in {"drop", "infer"} =>
               InputsAre(n, e) /\ events[This].pre_start = n /\ timing[This] = Blank
          /\ at \in {"download", "decode", "mark"} => OutputIs(n, e)
          /\ at = "present" /\ HasEngine => OutputIs(n, e) /\ cycles >= 1 /\ of[cycles] = n
          /\ at = "wait" => CopiedIs(n, e)
      BY <2>0 DEF NextTrue
    <2>6. at' = at /\ HasEngine' = HasEngine /\ This' = This
      BY <1>1, <1>2 DEF HasEngine, This, Slot
    <2>7. /\ at' \in {"drop", "infer"} =>
               InputsAre(n, e)' /\ (events[This].pre_start)' = n /\ timing[This]' = Blank
          /\ at' \in {"download", "decode", "mark"} => OutputIs(n, e)'
          /\ at' = "present" /\ HasEngine' => OutputIs(n, e)' /\ cycles' >= 1 /\ of'[cycles'] = n
          /\ at' = "wait" => CopiedIs(n, e)'
      BY <1>2, <2>2, <2>3, <2>4, <2>5, <2>6
    <2>8. QED
      BY <2>1, <2>7 DEF NextTrue, Blank
  <1>11. QED
    BY <1>3, <1>4, <1>5, <1>6, <1>8, <1>9, <1>10

LEMMA EngineHolds == EngineIInv => EngineInv
  <1> SUFFICES ASSUME EngineIInv
               PROVE  EngineInv
    OBVIOUS
  <1> USE DEF EngineIInv
  <1>1. EngineTypeOK
    <2>1. wiring \in {<<>>, [b \in Single |-> "left"]} \cup [Pair -> Pair]
      <3>1. [b \in Single |-> b] = [b \in Single |-> "left"] /\ [b \in Pair |-> b] \in [Pair -> Pair]
        BY DEF Single
      <3>2. wiring \in {<<>>, [b \in Single |-> b], [b \in Pair |-> b]}
        BY DEF EngineWired
      <3>3. QED
        BY <3>1, <3>2
    <2>2. held \subseteq {0, 1} \X {frame}
      BY DEF AtItsPlace, OnlyOne, Both
    <2>3. QED
      BY <2>1, <2>2 DEF EngineTypeOK, EngineTyped
  <1>2. output # Lost => \A n : Own(n) = OwnOf(n)
    BY DEF OutputMade, Own, OwnOf, PictureOf
  <1>3. ToldTrue
    <2>1. told.sample # Lost => output # Lost
      BY DEF OutputMade
    <2>2. QED
      BY <1>2, <2>1 DEF ToldTrue, ToldIs
  <1>4. ResultsTrue
    <2>1. /\ sent[2] # Lost => output # Lost
          /\ boxes.frame # 0 => output # Lost
          /\ screen[1] # 0 /\ HasEngine => output # Lost
      BY DEF OutputMade
    <2>2. QED
      BY <1>2, <2>1 DEF ResultsTrue, ResultsAre
  <1>5. CountedOnce /\ FreedIdle
    BY DEF SpreadGrows, AtItsPlace, FreedIdle
  <1>6. QED
    BY <1>1, <1>3, <1>4, <1>5 DEF EngineInv

-----------------------------------------------------------------------------
(* The three parts, explored one at a time. *)
ResultsIInv == EngineIInv /\ UploadIInv

LEMMA ResultsBegin == ResultsInit => PullInit /\ ResultsIInv
  <1> SUFFICES ASSUME ResultsInit
               PROVE  PullInit /\ ResultsIInv
    OBVIOUS
  <1>1. PullInit /\ UsersInit /\ UploadPathsInit
    BY DEF ResultsInit
  <1>2. QED
    BY <1>1, EngineBegins, UploadInit DEF ResultsIInv

LEMMA PullGoesOn == [ResultsNext]_resultVars => [PullNext]_pullVars
  BY DEF ResultsNext, resultVars, OfUpload, OfDownload, OfEngine

LEMMA PartsKept ==
  ASSUME ResultsIInv, [ResultsNext]_resultVars
  PROVE  ResultsIInv'
  <1>0. EngineIInv /\ UploadIInv
    BY DEF ResultsIInv
  <1>1. EngineIInv'
    <2>1. UsersNext \/ UNCHANGED usersVars
      BY DEF ResultsNext, resultVars, OfUpload, OfDownload, OfEngine
    <2>2. QED
      BY <1>0, <2>1, EngineKeeps, EngineRests
  <1>2. UploadIInv'
    <2>1. UploadPathsNext \/ UNCHANGED uploadPathVars
      BY DEF ResultsNext, resultVars, OfUpload, OfDownload, OfEngine
    <2>2. QED
      BY <1>0, <2>1, UploadKeeps, UploadRests
  <1>3. QED
    BY <1>1, <1>2 DEF ResultsIInv

LEMMA ResultsHold == ResultsIInv => DeviceTrue
  BY EngineHolds, UploadHolds DEF ResultsIInv, DeviceTrue

LEMMA ResultsGoOn == ResultsFairSpec => ResultsInit /\ [][ResultsNext]_resultVars
  BY PTL DEF ResultsFairSpec

(* Whatever calls fail and in whatever order the device gets to its work, a slot of *)
(* the device ring is published with the stamp of the frame that is in it, whichever *)
(* way it was uploaded; a staged frame is not overwritten while it is still to be    *)
(* copied; no whole frame misses its graph as long as slots are filled in turn; and  *)
(* what an engine's user downloads, decodes, draws or times is of the frame it says  *)
(* it is of.                                                                         *)
THEOREM ResultsAreTrue == ResultsFairSpec => []DeviceTrue
  <1>1. ResultsIInv /\ [ResultsNext]_resultVars => ResultsIInv'
    BY PartsKept
  <1>2. QED
    BY ResultsGoOn, ResultsBegin, <1>1, ResultsHold, PTL

(* What leads to the results leaves the stage that brings them back as it is, so that *)
(* the mailbox keeps the newest of them, frames are intact and events suffice.         *)
THEOREM ResultsArePulled == ResultsFairSpec => [](PullInv /\ FramesIntact /\ EventsSuffice)
  <1>1. ResultsFairSpec => PullSpec
    BY ResultsGoOn, ResultsBegin, PullGoesOn, PTL DEF PullSpec
  <1>2. QED
    BY <1>1, NewestIsKept, PulledFramesIntact, PTL
=============================================================================
