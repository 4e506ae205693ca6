--------------------------- MODULE HostIngressRing ---------------------------
(***************************************************************************)
(* pipeline/src/host_ingress_ring.cpp, the pinned slots between a frame     *)
(* source and the GPU, and UploadStage (upload_stage.cpp), the thread that  *)
(* pops a slot, enqueues the copy to the device and gives the slot back     *)
(* while the copy is still pending.  h2d_done_[slot] is what stands between *)
(* that copy and the next frame written there.                              *)
(*                                                                         *)
(* Here the ring is filled the Staged way, by a producer that acquires and  *)
(* commits.  SpinnakerSource and Replay have the External way, where others *)
(* fill the slots, whichever they like.  An action is one region under      *)
(* mutex_, or one call into CUDA.  The upload stage's stream is kept as     *)
(* DeviceRingStreams keeps streams: the copies pending, and for an event    *)
(* the copies that are still ahead of it.  The stage's output ring is       *)
(* DeviceRingBuffer; here an acquire_write that blocks is a copy that is    *)
(* not enqueued yet.                                                        *)
(***************************************************************************)
EXTENDS Integers, Sequences, FiniteSets

CONSTANTS
  SlotCount,       \* slot_count()
  MaxOutstanding,  \* how many slots the producer acquires before it commits
  MayThrow,        \* whether process() may throw before it enqueues the copy
  CudaMayFail,     \* whether the event record in release() may fail
  MaxFrames        \* bound: how many frames are brought

ASSUME SlotCountAssumption == SlotCount \in Nat \ {0}
ASSUME MaxOutstandingAssumption == MaxOutstanding \in Nat
ASSUME SwitchesAssumption == MayThrow \in BOOLEAN /\ CudaMayFail \in BOOLEAN
ASSUME MaxFramesAssumption == MaxFrames \in Nat

Slots == 0 .. SlotCount - 1
NoSlot == -1

VARIABLES
  state,      \* state_[s]
  ready,      \* ready_
  stamp,      \* timestamp_ns_[s]: the number of the frame
  acquired, committed, released,
  running,    \* running_
  content,    \* host_[s]: the number of the frame in it
  frames,     \* how many frames were brought; numbers them
  ppc,        \* the producer's program counter
  pslot,      \* the slot acquire() is about to return
  owned,      \* the slots acquired and neither committed nor abandoned
  last,       \* the slot of the last commit
  upc,        \* the upload thread's program counter
  staged,     \* the frame it has popped
  stopAsked,  \* UploadStage::stop() was called
  copies,     \* the upload stage's stream: the copies pending
  h2dDone,    \* h2d_done_[s]
  stranded,   \* history: the slots a release of which failed
  unreleased  \* history: how many releases failed

ringVars == <<state, ready, stamp, acquired, committed, released, running>>
producerVars == <<ppc, pslot, owned, last>>
uploadVars == <<upc, staged, stopAsked>>
gpuVars == <<copies, h2dDone, stranded, unreleased>>
vars == <<ringVars, content, frames, producerVars, uploadVars, gpuVars>>

Init ==
  /\ state = [s \in Slots |-> "Idle"]
  /\ ready = <<>>
  /\ stamp = [s \in Slots |-> 0]
  /\ acquired = 0 /\ committed = 0 /\ released = 0
  /\ running = TRUE
  /\ content = [s \in Slots |-> 0]
  /\ frames = 0
  /\ ppc = "idle" /\ pslot = NoSlot /\ owned = {} /\ last = NoSlot
  /\ upc = "pop" /\ staged = [slot |-> NoSlot, frame |-> 0] /\ stopAsked = FALSE
  /\ copies = <<>>
  /\ h2dDone = [s \in Slots |-> 0]
  /\ stranded = {} /\ unreleased = 0

-----------------------------------------------------------------------------
(* The producer of a Staged ring. *)

\* acquire(), up to the unlock.
Acquire ==
  /\ ppc = "idle" /\ Cardinality(owned) < MaxOutstanding /\ frames < MaxFrames
  /\ running
  /\ acquired - released < SlotCount
  /\ pslot' = acquired % SlotCount
  /\ acquired' = acquired + 1
  /\ ppc' = "sync"
  /\ UNCHANGED <<state, ready, stamp, committed, released, running, content, frames, owned, last,
                 uploadVars, gpuVars>>

\* acquire() returns kNoSlot, which ends the producer.
AcquireStopped ==
  /\ ppc = "idle" /\ ~running
  /\ ppc' = "exited"
  /\ UNCHANGED <<ringVars, content, frames, pslot, owned, last, uploadVars, gpuVars>>

\* h2d_done_[s] has completed.
CopyDone(s) == h2dDone[s] = 0

\* The event wait returns, and the producer writes its frame into the slot.
Fill ==
  /\ ppc = "sync"
  /\ CopyDone(pslot)
  /\ frames' = frames + 1
  /\ content' = [content EXCEPT ![pslot] = frames + 1]
  /\ owned' = owned \cup {pslot}
  /\ ppc' = "idle"
  /\ UNCHANGED <<ringVars, pslot, last, uploadVars, gpuVars>>

\* "not the slot most recently acquired": the check of commit() and abandon().
MostRecent(s) == acquired # committed /\ s = (acquired - 1) % SlotCount

\* What both commits do under the lock.
Enqueue(s) ==
  /\ stamp' = [stamp EXCEPT ![s] = content[s]]
  /\ state' = [state EXCEPT ![s] = "Committed"]
  /\ ready' = Append(ready, s)
  /\ committed' = committed + 1

\* The producer calls commit on a slot it has, or a second time on the one before;
\* the call throws and changes nothing unless MostRecent.
Commit(s) ==
  /\ ppc = "idle" /\ s \in owned \cup {last}
  /\ MostRecent(s)
  /\ Enqueue(s)
  /\ owned' = owned \ {s}
  /\ last' = s
  /\ UNCHANGED <<acquired, released, running, content, frames, ppc, pslot, uploadVars, gpuVars>>

Abandon(s) ==
  /\ ppc = "idle" /\ s \in owned \cup {last}
  /\ MostRecent(s)
  /\ acquired' = acquired - 1
  /\ owned' = owned \ {s}
  /\ UNCHANGED <<state, ready, stamp, committed, released, running, content, frames, ppc, pslot,
                 last, uploadVars, gpuVars>>

-----------------------------------------------------------------------------
(* The two calls of an External producer. *)

\* commit_external, when it does not throw "slot is still in flight".
CommitExternal(s) ==
  /\ state[s] = "Idle"
  /\ Enqueue(s)
  /\ UNCHANGED <<acquired, released, running>>

\* Seeded faults: the copy is not waited for; a slot on its way back is forgotten.
ConsumedEarly(s) == state[s] # "Committed"
ConsumedIdle(s) == state[s] = "Idle"

\* slot_consumed(s) returns true, and leaves the slot Idle.
Consumed(s) == state[s] = "Idle" \/ (state[s] = "Releasing" /\ CopyDone(s))

-----------------------------------------------------------------------------
(* The upload thread: run(), step_blocking() and process(). *)

OldestReady == Head(ready)

Pop ==
  /\ upc = "pop" /\ running /\ ready # <<>>
  /\ staged' = [slot |-> OldestReady, frame |-> stamp[OldestReady]]
  /\ ready' = Tail(ready)
  /\ upc' = "staged"
  /\ UNCHANGED <<state, stamp, acquired, committed, released, running, content, frames,
                 producerVars, stopAsked, gpuVars>>

EnqueueCopy ==
  /\ upc = "staged"
  /\ copies' = Append(copies, staged)
  /\ upc' = "enqueued"
  /\ UNCHANGED <<ringVars, content, frames, producerVars, staged, stopAsked, h2dDone, stranded,
                 unreleased>>

\* The frame is too large, or acquire_write or the copy throws: ~StagedHold gives
\* the slot back all the same.
ProcessThrows ==
  /\ MayThrow
  /\ upc = "staged"
  /\ upc' = "enqueued"
  /\ UNCHANGED <<ringVars, content, frames, producerVars, staged, stopAsked, gpuVars>>

\* Seeded fault: recorded on another stream, or before the copy is enqueued.
RecordedEarly == 0

\* The copies an event recorded now has to wait for.
RecordedNow == Len(copies)

\* release() records the event first.
Record ==
  /\ upc = "enqueued"
  /\ h2dDone' = [h2dDone EXCEPT ![staged.slot] = RecordedNow]
  /\ upc' = "recorded"
  /\ UNCHANGED <<ringVars, content, frames, producerVars, staged, stopAsked, copies, stranded,
                 unreleased>>

\* The record fails and the slot is stranded: StagedHold lets go of it before the call.
Strand ==
  /\ CudaMayFail
  /\ upc = "enqueued"
  /\ upc' = "pop"
  /\ stranded' = stranded \cup {staged.slot} /\ unreleased' = unreleased + 1
  /\ UNCHANGED <<ringVars, content, frames, producerVars, staged, stopAsked, copies, h2dDone>>

Release ==
  /\ upc = "recorded"
  /\ state' = [state EXCEPT ![staged.slot] = "Releasing"]
  /\ released' = released + 1
  /\ upc' = "pop"
  /\ UNCHANGED <<ready, stamp, acquired, committed, running, content, frames, producerVars, staged,
                 stopAsked, gpuVars>>

\* What ends the thread's loop.
ExitAsked == stopAsked \/ ~running

UploadExit ==
  /\ upc = "pop"
  /\ ExitAsked
  /\ upc' = "exited"
  /\ UNCHANGED <<ringVars, content, frames, producerVars, staged, stopAsked, gpuVars>>

-----------------------------------------------------------------------------
StopUpload ==
  /\ ~stopAsked
  /\ stopAsked' = TRUE
  /\ UNCHANGED <<ringVars, content, frames, producerVars, upc, staged, gpuVars>>

Stop ==
  /\ running
  /\ running' = FALSE
  /\ UNCHANGED <<state, ready, stamp, acquired, committed, released, content, frames, producerVars,
                 uploadVars, gpuVars>>

\* An event, once one more copy has completed.
Nearer(n) == IF n > 0 THEN n - 1 ELSE 0

\* The device finishes the copy at the head of the stream.
CopyEnds ==
  /\ copies # <<>>
  /\ copies' = Tail(copies)
  /\ h2dDone' = [s \in Slots |-> Nearer(h2dDone[s])]
  /\ UNCHANGED <<ringVars, content, frames, producerVars, uploadVars, stranded, unreleased>>

ProducerStep ==
  \/ Acquire \/ AcquireStopped \/ Fill
  \/ \E s \in Slots : Commit(s) \/ Abandon(s)

UploadStep ==
  \/ Pop \/ EnqueueCopy \/ ProcessThrows
  \/ Record \/ Strand \/ Release
  \/ UploadExit

Next == ProducerStep \/ UploadStep \/ StopUpload \/ Stop \/ CopyEnds

Spec == Init /\ [][Next]_vars

\* The threads run, an acquire_write the upload waits in returns (StreamsAcquireReturns
\* of DeviceRingStreams), and the device finishes what is enqueued.
FairSpec == Spec /\ WF_vars(ProducerStep) /\ WF_vars(UploadStep) /\ WF_vars(CopyEnds)

-----------------------------------------------------------------------------
(* Properties. *)

TypeOK ==
  /\ state \in [Slots -> {"Idle", "Committed", "Releasing"}]
  /\ ready \in Seq(Slots)
  /\ stamp \in [Slots -> Nat]
  /\ acquired \in Nat /\ committed \in Nat /\ released \in Nat
  /\ running \in BOOLEAN
  /\ content \in [Slots -> Nat]
  /\ frames \in Nat
  /\ ppc \in {"idle", "sync", "exited"}
  /\ pslot \in Slots \cup {NoSlot}
  /\ owned \in SUBSET Slots
  /\ last \in Slots \cup {NoSlot}
  /\ upc \in {"pop", "staged", "enqueued", "recorded", "exited"}
  /\ staged \in [slot : Slots \cup {NoSlot}, frame : Nat]
  /\ stopAsked \in BOOLEAN
  /\ copies \in Seq([slot : Slots \cup {NoSlot}, frame : Nat])
  /\ h2dDone \in [Slots -> Nat]
  /\ stranded \subseteq Slots \cup {NoSlot} /\ unreleased \in Nat

\* Every copy pending on the device still finds in its pinned slot the frame it was
\* enqueued for: the "torn-upload race this ring exists to close".  A slot whose event
\* could not be recorded has nothing to wait for; no other slot suffers from it.
UploadIntact ==
  \A i \in DOMAIN copies :
    copies[i].slot \notin stranded => content[copies[i].slot] = copies[i].frame

\* The slots the upload thread has, and those somebody has in hand or in the queue.
InHand == IF upc \in {"staged", "enqueued", "recorded"} THEN {staged.slot} ELSE {}
Queued == {ready[i] : i \in DOMAIN ready}

\* A slot has one owner: the producer, the queue (once) or the upload thread.  The
\* frame of a queued slot is the one it was committed with.
OneOwner ==
  /\ Cardinality(Queued) = Len(ready)
  /\ owned \cap Queued = {} /\ owned \cap InHand = {} /\ Queued \cap InHand = {}
  /\ \A s \in Queued : content[s] = stamp[s]

\* What has to be true of slots, queue and copies for that, whoever fills the slots.  A
\* slot with a copy pending is not at rest; its frame is the copy's; and once it is on
\* its way back, its event waits for the copy.
Covered(s) ==
  \A i \in DOMAIN copies : copies[i].slot = s =>
    /\ state[s] # "Idle"
    /\ copies[i].frame = content[s]
    /\ (state[s] = "Releasing" \/ (upc = "recorded" /\ staged.slot = s)) => i <= h2dDone[s]

CopiesCovered ==
  /\ \A i \in DOMAIN copies : copies[i].slot \in Slots
  /\ \A s \in Slots : Covered(s)

StagedSound ==
  upc \in {"staged", "enqueued", "recorded"} =>
    /\ staged.slot \in Slots
    /\ state[staged.slot] = "Committed" /\ content[staged.slot] = staged.frame

QueueSound ==
  /\ \A i \in DOMAIN ready : state[ready[i]] = "Committed" /\ stamp[ready[i]] = content[ready[i]]
  /\ \A i, j \in DOMAIN ready : ready[i] = ready[j] => i = j
  /\ \A i \in DOMAIN ready : ready[i] \notin InHand

\* A Staged ring hands its slots out in a circle, and its producer has one at most: the
\* counters say which slots it, the queue and the upload thread have.
HandedOut == IF ppc = "sync" \/ owned # {} THEN 1 ELSE 0
UploadHas == IF upc \in {"staged", "enqueued", "recorded"} THEN 1 ELSE 0
RingOrder ==
  /\ acquired = committed + HandedOut
  /\ ppc = "sync" => owned = {} /\ pslot = committed % SlotCount
  /\ owned \subseteq {committed % SlotCount}
  /\ \A k \in DOMAIN ready : ready[k] = (committed - Len(ready) + k - 1) % SlotCount
  /\ UploadHas = 1 => staged.slot = (committed - Len(ready) - 1) % SlotCount
  /\ released + Len(ready) + UploadHas <= committed
  /\ acquired - released <= SlotCount

\* A committed slot that nobody has is one whose event could not be recorded.
NoneForgotten ==
  \A s \in Slots \ stranded : state[s] = "Committed" => s \in Queued \cup InHand

\* Together: what the Staged ring keeps, and UploadIntact with it.
StagedInv ==
  /\ TypeOK /\ StagedSound /\ QueueSound
  /\ \A i \in DOMAIN copies : copies[i].slot \in Slots
  /\ \A s \in Slots \ stranded : Covered(s)
  /\ RingOrder /\ NoneForgotten

\* Nothing is lost between the counters: what is committed and not yet released is in
\* the queue, in the upload thread's hand, or was stranded by a failed release.
CommitsAccounted ==
  committed - released = Len(ready) + Cardinality(InHand) + unreleased

\* The order of the frames in the ring, and of what the upload thread has had of it: the
\* oldest first, none twice.  It is the order they were committed in.
QueueInOrder ==
  \A i \in DOMAIN ready :
    /\ \A j \in 1 .. i - 1 : stamp[ready[j]] < stamp[ready[i]]
    /\ staged.frame < stamp[ready[i]]

\* The slots of the ring, whoever fills them: each has one owner, the frames come out in
\* order and the counters lose none.
IngressInv == TypeOK /\ OneOwner /\ CommitsAccounted /\ QueueInOrder
=============================================================================
