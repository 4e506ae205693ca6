--------------------------- MODULE DeviceRingStreams ---------------------------
(***************************************************************************)
(* DeviceRingBuffer with the GPU behind it.  Nothing in the ring waits for  *)
(* the work on a slot: a consumer drops its hold once its read is enqueued, *)
(* and the producer publishes once its write is enqueued.  What keeps the   *)
(* two apart on the device are the events: data_ready_event_ per slot, and  *)
(* read_done_event_ per slot and consumer, which the streams wait on.       *)
(*                                                                         *)
(* A stream is the sequence of its pending operations; CUDA runs them in    *)
(* order.  Recording an event in a stream is kept as the number of          *)
(* operations still ahead of it there, zero once the event has completed,   *)
(* and an operation that waits on an event carries that number from the     *)
(* moment of the wait.  There is one stream per thread, as every stage      *)
(* in pipeline/src has, so the wait on data_ready_event_ under DeviceWait   *)
(* is on the producer's own stream and adds nothing.                        *)
(*                                                                         *)
(* A write lease that is abandoned leaves what was enqueued for it in the   *)
(* stream.  The waits an acquire has enqueued before one of its calls       *)
(* throws only delay the next write, and are left out.                      *)
(***************************************************************************)
EXTENDS DeviceRingBuffer, Sequences

CONSTANTS
  ReuseWait,    \* reuse_wait_
  StreamDepth   \* bound: the reads a consumer has pending at once

ASSUME ReuseWaitAssumption == ReuseWait \in {"HostSync", "DeviceWait"}
ASSUME StreamDepthAssumption == StreamDepth \in Nat

Torn == -1                 \* memory that is being written

VARIABLES
  writes,     \* the producer's stream: the writes pending in it; history: those `left`
              \* behind by a lease that was abandoned
  reads,      \* reads[c]: the reads pending in c's stream
  dataReady,  \* data_ready_event_[s]
  readDone,   \* read_done_event_[s * max_consumers_ + c]
  memory,     \* buffers_[s]: the frame in it, or Torn
  recorded    \* recorded[c]: drop_slot_hold is past its cudaEventRecord

gpuVars == <<writes, reads, dataReady, readDone, memory, recorded>>
streamsVars == <<vars, gpuVars>>

\* An event or a wait, once one more operation has completed in its stream.
Nearer(n) == IF n > 0 THEN n - 1 ELSE 0

StreamsInit ==
  /\ Init
  /\ writes = <<>>
  /\ reads = [c \in Consumers |-> <<>>]
  /\ dataReady = [s \in Slots |-> 0]
  /\ readDone = [s \in Slots |-> [c \in Consumers |-> 0]]
  /\ memory = [s \in Slots |-> 0]
  /\ recorded = [c \in Consumers |-> FALSE]

-----------------------------------------------------------------------------
(* The host's calls into CUDA. *)

\* reads_retired(): cudaEventQuery succeeds on every consumer's event.
ReadsRetired(s) == \A c \in Consumers : readDone[s][c] = 0

\* Seeded fault: a slot nobody holds is taken for a slot nobody reads.
NoOrder(s) == [c \in Consumers |-> 0]

\* order_behind_readers(): the waits put into the producer's stream.
OrderBehindReaders(s) == readDone[s]

ScanFree == ScanSlot(ReadsRetired(Wrap(nextWrite + scan.i))) /\ UNCHANGED gpuVars

\* Seeded fault: HostSync does not wait.
NoReuseWait(s) == TRUE

\* cudaEventSynchronize has returned, if it was called.
Reusable(s) == ReuseWait = "HostSync" => dataReady[s] = 0

\* The lease is handed out and its holder enqueues the write.
Take ==
  /\ Own
  /\ Reusable(pslot)
  /\ writes' = Append(writes, [slot |-> pslot, frame |-> acquires,
                               behind |-> OrderBehindReaders(pslot), left |-> FALSE])
  /\ UNCHANGED <<reads, dataReady, readDone, memory, recorded>>

\* publish_slot records data_ready before it stores anything.
Publish ==
  /\ PublishStamp
  /\ dataReady' = [dataReady EXCEPT ![pslot] = Len(writes)]
  /\ UNCHANGED <<writes, reads, readDone, memory, recorded>>

\* abandon_slot records nothing, so what the lease had enqueued stays in the stream
\* with no event to tell of it.
Abandon ==
  /\ AbandonStamp
  /\ writes' = [i \in DOMAIN writes |->
       [writes[i] EXCEPT !.left = @ \/ writes[i].frame = acquires]]
  /\ UNCHANGED <<reads, dataReady, readDone, memory, recorded>>

\* A consumer enqueues a read of what it leased, behind data_ready_event().
EnqueueRead(c) ==
  /\ cpc[c] = "held" /\ ~recorded[c]
  /\ Len(reads[c]) < StreamDepth
  /\ reads' = [reads EXCEPT ![c] =
       Append(@, [slot |-> cslot[c], frame |-> cstamp[c], behind |-> dataReady[cslot[c]]])]
  /\ UNCHANGED <<vars, writes, dataReady, readDone, memory, recorded>>

\* drop_slot_hold records read_done and then lets go of the count.
RecordReadDone(c) ==
  /\ cpc[c] = "held" /\ ~recorded[c]
  /\ readDone' = [readDone EXCEPT ![cslot[c]][c] = Len(reads[c])]
  /\ recorded' = [recorded EXCEPT ![c] = TRUE]
  /\ UNCHANGED <<vars, writes, reads, dataReady, memory>>

LetGo(c) ==
  /\ recorded[c]
  /\ Drop(c)
  /\ recorded' = [recorded EXCEPT ![c] = FALSE]
  /\ UNCHANGED <<writes, reads, dataReady, readDone, memory>>

-----------------------------------------------------------------------------
(* The device. *)

WriteStarts ==
  /\ writes # <<>>
  /\ \A c \in Consumers : Head(writes).behind[c] = 0
  /\ memory[Head(writes).slot] # Torn
  /\ memory' = [memory EXCEPT ![Head(writes).slot] = Torn]
  /\ UNCHANGED <<vars, writes, reads, dataReady, readDone, recorded>>

WriteEnds ==
  /\ writes # <<>>
  /\ memory[Head(writes).slot] = Torn
  /\ memory' = [memory EXCEPT ![Head(writes).slot] = Head(writes).frame]
  /\ writes' = Tail(writes)
  /\ dataReady' = [s \in Slots |-> Nearer(dataReady[s])]
  /\ reads' = [c \in Consumers |->
       [i \in DOMAIN reads[c] |-> [reads[c][i] EXCEPT !.behind = Nearer(@)]]]
  /\ UNCHANGED <<vars, readDone, recorded>>

\* The read at the head of c's stream may run, or is running.
Readable(c) == reads[c] # <<>> /\ Head(reads[c]).behind = 0

ReadEnds(c) ==
  /\ Readable(c)
  /\ reads' = [reads EXCEPT ![c] = Tail(@)]
  /\ readDone' = [s \in Slots |-> [readDone[s] EXCEPT ![c] = Nearer(@)]]
  /\ writes' = [i \in DOMAIN writes |-> [writes[i] EXCEPT !.behind[c] = Nearer(@)]]
  /\ UNCHANGED <<vars, dataReady, memory, recorded>>

GpuStep == WriteStarts \/ WriteEnds \/ \E c \in Consumers : ReadEnds(c)

-----------------------------------------------------------------------------
\* The producer's steps that leave streams and events alone, and the others: the
\* scan's event query, the hand-out, the publish record and its absence.
QuietProducerStep == HostStep /\ UNCHANGED gpuVars

StreamsProducerStep == QuietProducerStep \/ ScanFree \/ Take \/ Publish \/ Abandon

QuietLeaseStep(c) == LeaseStep(c) /\ UNCHANGED gpuVars

StreamsConsumerStep(c) ==
  \/ \E query \in Requests \cup {Latest} : Lease(c, query) /\ UNCHANGED gpuVars
  \/ QuietLeaseStep(c)
  \/ EnqueueRead(c) \/ RecordReadDone(c) \/ LetGo(c)

StreamsNext ==
  \/ StreamsProducerStep
  \/ \E c \in Consumers : StreamsConsumerStep(c)
  \/ GpuStep

StreamsSpec == StreamsInit /\ [][StreamsNext]_streamsVars

\* The producer's thread keeps running, calls in progress return, and a consumer
\* drops what it leased: every caller in src/ drops its lease once its work is
\* enqueued.  The device makes progress on whatever can run.  Nobody has to call
\* anything.
StreamsFairSpec ==
  /\ StreamsSpec
  /\ WF_streamsVars(StreamsProducerStep)
  /\ \A c \in Consumers :
       /\ WF_streamsVars(QuietLeaseStep(c))
       /\ WF_streamsVars(RecordReadDone(c) \/ LetGo(c))
       /\ WF_streamsVars(ReadEnds(c))
  /\ WF_streamsVars(WriteStarts \/ WriteEnds)

-----------------------------------------------------------------------------
(* Properties. *)

StreamsTypeOK ==
  /\ \A i \in DOMAIN writes :
       writes[i] \in [slot : Slots, frame : Nat, behind : [Consumers -> Nat], left : BOOLEAN]
  /\ \A c \in Consumers :
       \A i \in DOMAIN reads[c] :
         reads[c][i] \in [slot : Slots, frame : Nat \cup {NoTimestamp}, behind : Nat]
  /\ dataReady \in [Slots -> Nat]
  /\ readDone \in [Slots -> [Consumers -> Nat]]
  /\ memory \in [Slots -> Nat \cup {Torn}]
  /\ recorded \in [Consumers -> BOOLEAN]

\* A read that runs on the device finds the frame its lease was given, all of it:
\* neither the write that produced it unfinished, nor the next one begun.  The
\* hold is gone long before the read runs, and writes of abandoned leases are in
\* between.  A lease without a stamp is of an abandoned slot and promises nothing;
\* and once an acquire has thrown the parity of its slot is lost, and this with it.
ReadsIntact ==
  ~threw =>
    \A c \in Consumers :
      (Readable(c) /\ Head(reads[c]).frame # NoTimestamp) =>
        memory[Head(reads[c]).slot] = Head(reads[c]).frame

\* The streams never wait for each other in a circle: while anything is pending,
\* something can run.
StreamsProgress ==
  (writes # <<>> \/ \E c \in Consumers : reads[c] # <<>>) =>
    \/ writes # <<>> /\ \A c \in Consumers : Head(writes).behind[c] = 0
    \/ \E c \in Consumers : Readable(c)

\* HostSync "blocks the host" (COMPONENTS.md) until its own previous write to the
\* slot is done: the host never has two writes to one slot pending, unless the
\* earlier was abandoned, which no event tells of.
HostSyncBounds ==
  ReuseWait = "HostSync" =>
    \A i, j \in DOMAIN writes :
      (i < j /\ writes[i].slot = writes[j].slot) => writes[i].left

\* The queues are well formed and as short as the waits of the host make them.
StreamsInv == StreamsTypeOK /\ HostSyncBounds /\ StreamsProgress

\* The producer has called acquire_write and is in it.
Acquiring == mode = "blocking" /\ producer \in {"scan", "parked", "fence", "settle", "order"}

\* claim_free_slot loads the count it is to wait on a second time, after the scan
\* that found it non-zero: the last hold has gone in between, and there is nothing
\* left to wake the wait on zero.
WakeLost == producer = "parked" /\ scan.seen = 0

\* Somebody leases frames by timestamp: a slot other than the newest, again and
\* again if it likes, and the parked producer may never get to see the count at zero.
LeasedByTimestamp == \E c \in Consumers : cpc[c] = "held" /\ cquery[c] # Latest

\* acquire_write returns or throws, from its first load on, whatever the device
\* still has to do (HostSync waits for a write that waits for reads) and wherever
\* it parks, unless its wake-up was lost or older frames are leased for ever.
StreamsAcquireReturns ==
  (Acquiring ~> (~Acquiring \/ WakeLost)) \/ []<>LeasedByTimestamp

\* "Park on one of the leased slots and rescan when it changes; any release wakes
\* us" (device_ring_buffer.cpp:204): once nothing is leased, nobody is parked.
AnyReleaseWakes ==
  (producer = "parked" /\ \A s \in Slots : readers[s] = 0) ~> (producer # "parked")
=============================================================================
