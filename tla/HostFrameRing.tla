---------------------------- MODULE HostFrameRing ----------------------------
(***************************************************************************)
(* pipeline/src/host_frame_ring.cpp: the tap between a camera and its CPU   *)
(* consumers.  One producer copies each frame into a free slot and makes it *)
(* the newest; each consumer takes the newest frame and holds it by a       *)
(* shared_ptr until it is done.  A slot is free when nobody holds it and it *)
(* is not the newest, and those two reservations overlap.                   *)
(*                                                                         *)
(* Every action is one region under the Store's mutex, except the copy,     *)
(* which runs outside it.  A wait on frame_ready is an action that is not   *)
(* enabled: each change of what is waited for is made under the mutex and   *)
(* followed by notify_all.                                                  *)
(***************************************************************************)
EXTENDS Integers, FiniteSets, FiniteSetsExt

CONSTANTS
  SlotCount,   \* slots
  Consumers,   \* the ids add_consumer() gave out before the first publish
  MaxHeld,     \* how many frames a consumer keeps: 2 if it overwrites its pointer
  Oversize,    \* whether a frame larger than frame_bytes may be published
  MaxFrames    \* bound: how many frames the producer brings

ASSUME SlotCountAssumption == SlotCount \in Nat /\ SlotCount >= 2
ASSUME ConsumersAssumption == IsFiniteSet(Consumers)
ASSUME MaxHeldAssumption == MaxHeld \in Nat \ {0}
ASSUME OversizeAssumption == Oversize \in BOOLEAN
ASSUME MaxFramesAssumption == MaxFrames \in Nat

Slots == 0 .. SlotCount - 1
NoSlot == -1
Torn == -1                  \* a slot that is being copied into

VARIABLES
  holds,      \* holds[s]
  latest,     \* latest
  latestSeq,  \* latest_seq
  sequence,   \* sequence
  inUse,      \* in_use
  peak,       \* peak_in_use
  running,    \* running
  drops,      \* drops_
  producer,   \* the producer's program counter
  pslot,      \* the slot it has reserved
  brought,    \* how many frames it was brought
  content,    \* content[s]: the number of the frame in the slot, or Torn
  cursor,     \* cursor[c]
  skipped,    \* skipped[c]
  held,       \* held[c]: the frames c holds
  handed,     \* history: how many frames c was handed
  exited      \* exited[c]: acquire_latest returned null

producerVars == <<producer, pslot, brought, drops>>
consumerVars == <<cursor, skipped, held, handed, exited>>
vars == <<holds, latest, latestSeq, sequence, inUse, peak, running, content, producerVars, consumerVars>>

Init ==
  /\ holds = [s \in Slots |-> 0]
  /\ latest = NoSlot /\ latestSeq = 0 /\ sequence = 0
  /\ inUse = 0 /\ peak = 0
  /\ running = TRUE
  /\ drops = 0
  /\ producer = "idle" /\ pslot = NoSlot /\ brought = 0
  /\ content = [s \in Slots |-> 0]
  /\ cursor = [c \in Consumers |-> 0]
  /\ skipped = [c \in Consumers |-> 0]
  /\ held = [c \in Consumers |-> {}]
  /\ handed = [c \in Consumers |-> 0]
  /\ exited = [c \in Consumers |-> FALSE]

-----------------------------------------------------------------------------
(* publish(). *)

\* Seeded fault: a held frame may be overwritten.
OtherSlots == {s \in Slots : s # latest}

FreeSlots == {s \in Slots : holds[s] = 0 /\ s # latest}

\* The first free slot is reserved for the copy.
Reserve ==
  /\ producer = "idle" /\ running /\ brought < MaxFrames
  /\ FreeSlots # {}
  /\ brought' = brought + 1
  /\ LET s == Min(FreeSlots) IN
       /\ pslot' = s
       /\ holds' = [holds EXCEPT ![s] = 1]
  /\ inUse' = inUse + 1
  /\ peak' = IF inUse + 1 > peak THEN inUse + 1 ELSE peak
  /\ producer' = "sized"
  /\ UNCHANGED <<latest, latestSeq, sequence, running, drops, content, consumerVars>>

\* Every slot is pinned: the frame is gone.
Drop ==
  /\ producer = "idle" /\ running /\ brought < MaxFrames
  /\ FreeSlots = {}
  /\ brought' = brought + 1
  /\ drops' = drops + 1
  /\ UNCHANGED <<holds, latest, latestSeq, sequence, inUse, peak, running, content, producer, pslot,
                 consumerVars>>

\* Seeded fault: the slot stays reserved.
RejectForgets ==
  /\ producer = "sized" /\ Oversize
  /\ producer' = "idle"
  /\ UNCHANGED <<holds, latest, latestSeq, sequence, inUse, peak, running, content, pslot, brought,
                 drops, consumerVars>>

\* The frame does not fit: the reservation is taken back and publish throws.
Reject ==
  /\ producer = "sized" /\ Oversize
  /\ holds' = [holds EXCEPT ![pslot] = 0]
  /\ inUse' = inUse - 1
  /\ producer' = "idle"
  /\ UNCHANGED <<latest, latestSeq, sequence, peak, running, content, pslot, brought, drops,
                 consumerVars>>

\* The memcpy, with no lock held.
Copy ==
  /\ producer = "sized"
  /\ content' = [content EXCEPT ![pslot] = Torn]
  /\ producer' = "copying"
  /\ UNCHANGED <<holds, latest, latestSeq, sequence, inUse, peak, running, pslot, brought, drops,
                 consumerVars>>

\* The slot that was the newest goes free unless it is held.
Retired(s) == s # NoSlot /\ holds[s] = 0

Commit ==
  /\ producer = "copying"
  /\ sequence' = sequence + 1
  /\ content' = [content EXCEPT ![pslot] = sequence + 1]
  /\ latest' = pslot
  /\ latestSeq' = sequence + 1
  /\ holds' = [holds EXCEPT ![pslot] = @ - 1]
  /\ inUse' = IF Retired(latest) THEN inUse - 1 ELSE inUse
  /\ producer' = "idle"
  /\ UNCHANGED <<peak, running, pslot, brought, drops, consumerVars>>

-----------------------------------------------------------------------------
(* acquire_latest(), the deleter of the frame it returns, and stop(). *)

\* Seeded fault: a frame published before stop() is still handed out after it.
ReadyStopped(c) == latestSeq > cursor[c]

Ready(c) == running /\ latestSeq > cursor[c]

SteppedOver(c) == latestSeq - cursor[c] - 1

AcquireLatest(c) ==
  /\ ~exited[c] /\ Cardinality(held[c]) < MaxHeld
  /\ Ready(c)
  /\ holds' = [holds EXCEPT ![latest] = @ + 1]
  /\ held' = [held EXCEPT ![c] = @ \cup {[slot |-> latest, frame |-> latestSeq]}]
  /\ skipped' = [skipped EXCEPT ![c] = @ + SteppedOver(c)]
  /\ cursor' = [cursor EXCEPT ![c] = latestSeq]
  /\ handed' = [handed EXCEPT ![c] = @ + 1]
  /\ UNCHANGED <<latest, latestSeq, sequence, inUse, peak, running, content, producerVars, exited>>

LastUse(s) == holds[s] = 1 /\ s # latest

\* A frame may be released long after stop(), and in any order.
Release(c, f) ==
  /\ f \in held[c]
  /\ held' = [held EXCEPT ![c] = @ \ {f}]
  /\ holds' = [holds EXCEPT ![f.slot] = @ - 1]
  /\ inUse' = IF LastUse(f.slot) THEN inUse - 1 ELSE inUse
  /\ UNCHANGED <<latest, latestSeq, sequence, peak, running, content, producerVars, cursor, skipped,
                 handed, exited>>

\* Seeded fault: the wait looks for a frame before it looks at running.
ExitOnFrame(c) ==
  /\ ~running /\ ~exited[c] /\ Cardinality(held[c]) < MaxHeld /\ latestSeq > cursor[c]
  /\ exited' = [exited EXCEPT ![c] = TRUE]
  /\ UNCHANGED <<holds, latest, latestSeq, sequence, inUse, peak, running, content, producerVars,
                 cursor, skipped, held, handed>>

\* acquire_latest returns null, which is how a consumer's thread exits.
Exit(c) ==
  /\ ~running /\ ~exited[c] /\ Cardinality(held[c]) < MaxHeld
  /\ exited' = [exited EXCEPT ![c] = TRUE]
  /\ UNCHANGED <<holds, latest, latestSeq, sequence, inUse, peak, running, content, producerVars,
                 cursor, skipped, held, handed>>

Stop ==
  /\ running
  /\ running' = FALSE
  /\ UNCHANGED <<holds, latest, latestSeq, sequence, inUse, peak, content, producerVars,
                 consumerVars>>

-----------------------------------------------------------------------------
ProducerStep == Reserve \/ Drop \/ Reject \/ Copy \/ Commit

ConsumerStep(c) ==
  \/ AcquireLatest(c)
  \/ \E f \in held[c] : Release(c, f)
  \/ Exit(c)

Next == ProducerStep \/ Stop \/ \E c \in Consumers : ConsumerStep(c)

Spec == Init /\ [][Next]_vars

\* A consumer's loop keeps turning: it releases what it holds and asks again.
FairSpec == Spec /\ \A c \in Consumers : WF_vars(ConsumerStep(c))

-----------------------------------------------------------------------------
(* Properties. *)

Frames == [slot : Slots, frame : Nat \ {0}]

TypeOK ==
  /\ holds \in [Slots -> Nat]
  /\ latest \in Slots \cup {NoSlot}
  /\ latestSeq \in Nat /\ sequence \in Nat
  /\ inUse \in Nat /\ peak \in Nat
  /\ running \in BOOLEAN
  /\ drops \in Nat
  /\ producer \in {"idle", "sized", "copying"}
  /\ pslot \in Slots \cup {NoSlot}
  /\ brought \in Nat
  /\ content \in [Slots -> Nat \cup {Torn}]
  /\ cursor \in [Consumers -> Nat]
  /\ skipped \in [Consumers -> Nat]
  /\ held \in [Consumers -> SUBSET Frames]
  /\ handed \in [Consumers -> Nat]
  /\ exited \in [Consumers -> BOOLEAN]

\* Each hold in holds[] is a frame some consumer has, or the copy in progress.
Holders(s) == {c \in Consumers : \E f \in held[c] : f.slot = s}
Copying(s) == IF producer \in {"sized", "copying"} /\ pslot = s THEN 1 ELSE 0
HoldsCounted == \A s \in Slots : holds[s] = Cardinality(Holders(s)) + Copying(s)

\* "releases its previous frame by overwriting the pointer": what a consumer holds
\* stays the frame it was handed, however often the ring is written meanwhile.
HeldStable == \A c \in Consumers : \A f \in held[c] : content[f.slot] = f.frame

\* in_use is the number of slots that are held or the newest, counted once where
\* the two overlap; a count that drifts is a ring that reports full or empty.
Busy == {s \in Slots : holds[s] > 0 \/ s = latest}
InUseCounted == inUse = Cardinality(Busy)

\* Every frame is accounted for: what a consumer was handed and what it skipped
\* are all the frames up to the last it took.
FramesAccounted == \A c \in Consumers : handed[c] + skipped[c] = cursor[c]

\* "Never overwritten while it holds that title, so a consumer that has not looked
\* yet still finds something to take" (the Store's comment on latest).
NewestIntact == latest # NoSlot => content[latest] = latestSeq

\* "Sized consumers + 2": a ring of that many slots has one to write into whenever
\* a frame comes, as long as a consumer keeps one frame at a time.
NoDrops == drops = 0

\* What these rest on.  The slot being filled is nobody else's; frames are numbered in
\* order, and no consumer is ahead of the newest or has more than it may.
Chosen == producer # "idle" => pslot \in Slots /\ pslot # latest /\ Holders(pslot) = {}

Ordered ==
  /\ latestSeq = sequence
  /\ latest = NoSlot => latestSeq = 0
  /\ \A c \in Consumers : cursor[c] <= latestSeq
  /\ \A c \in Consumers : \A f \in held[c] : f.frame <= cursor[c]

HeldBounded == \A c \in Consumers : IsFiniteSet(held[c]) /\ Cardinality(held[c]) <= MaxHeld

IInv ==
  /\ TypeOK /\ Chosen /\ Ordered /\ HeldBounded /\ HoldsCounted /\ HeldStable /\ NewestIntact
  /\ InUseCounted /\ FramesAccounted

\* stop() lets every consumer's thread out, whatever it was doing.
StopReleases == \A c \in Consumers : ~running ~> exited[c]

\* The ring is a latest-wins hand-off.
Promised == INSTANCE LatestWins WITH
  Readers <- Consumers, newest <- latestSeq, taken <- cursor, open <- running
KeepsPromise == Promised!Promise
=============================================================================
