------------------------------ MODULE UploadPaths ------------------------------
(***************************************************************************)
(* The ways UploadStage::process() has of getting a staged frame into the   *)
(* device ring (pipeline/src/upload_stage.cpp): the copy alone; the copy    *)
(* into a scratch buffer and the transform out of it; and the two as a CUDA *)
(* graph captured per output slot at construction, with the addresses baked *)
(* in, which is launched only when the frame is where its graph expects it. *)
(*                                                                         *)
(* HostIngressRing.tla has the staging slots in full.  Here a slot is free  *)
(* once its release event has come through the stream, and the source fills *)
(* free slots in turn (Staged), or whichever it likes (External).  A        *)
(* frame's calls only append to one stream, so they are one action, which   *)
(* may break off before any of them.                                        *)
(***************************************************************************)
EXTENDS Integers, Sequences

CONSTANTS
  Staging,     \* in_->slot_count()
  OutSlots,    \* out_->slot_count(): the values to look at
  MaxUploads,  \* bound: how many frames are brought
  MaxMishaps   \* bound: how many calls throw, and frames are not as declared

ASSUME UploadPathsAssumption == Staging \in Nat \ {0} /\ OutSlots \subseteq Nat \ {0, 1}

VARIABLES
  plan,      \* the stage's configuration, the ring's policy and the source's way
  pinned,    \* staging slot: its frame, that frame's size, and who has it
  fifo,      \* ready_: the slots committed
  filled,    \* how many frames were brought; numbers them
  nextOut,   \* the device ring's cursor
  nextScratch,
  ops,       \* the stage's stream: what is still to be done, in order
  scratch, out,   \* what is in the scratch buffers and in the output slots
  counts,    \* uploaded_, dropped_, failed_, and whole frames that graph_fallbacks_ counts
  mishaps    \* history: how many calls threw, and frames were not as declared

uploadPathVars ==
  <<plan, pinned, fifo, filled, nextOut, nextScratch, ops, scratch, out, counts,
    mishaps>>

Pins == 0 .. Staging - 1

Plans ==
  [transform : BOOLEAN, graph : BOOLEAN, scan : BOOLEAN, out : OutSlots, scratch : 0 .. 2,
   source : {"staged", "external"}]

\* What the constructor throws at: a graph needs the slot numbers to be foreseeable.
UploadRefuses(p) ==
  \/ p.transform /\ p.scratch = 0
  \/ p.graph /\ (~p.transform \/ p.scan)
  \/ p.graph /\ p.scratch # 0 /\ (p.out % Staging # 0 \/ p.out % p.scratch # 0)

UploadPathsInit ==
  /\ plan \in {p \in Plans : ~UploadRefuses(p)}
  /\ pinned = [s \in Pins |-> [frame |-> 0, size |-> "whole", owner |-> "source"]]
  /\ fifo = <<>> /\ filled = 0 /\ nextOut = 0 /\ nextScratch = 0 /\ ops = <<>>
  /\ scratch = [i \in 0 .. plan.scratch - 1 |-> 0] /\ out = [o \in 0 .. plan.out - 1 |-> 0]
  /\ counts = [uploaded |-> 0, dropped |-> 0, failed |-> 0, fallbacks |-> 0] /\ mishaps = 0

-----------------------------------------------------------------------------
\* A source commits a frame, which may be shorter than declared, or too large.
Bring ==
  /\ filled < MaxUploads
  /\ \E s \in Pins, size \in {"short", "whole", "large"} :
       /\ plan.source = "staged" => s = filled % Staging
       /\ pinned[s].owner = "source"
       /\ size # "whole" => mishaps < MaxMishaps
       /\ mishaps' = IF size = "whole" THEN mishaps ELSE mishaps + 1
       /\ pinned' = [pinned EXCEPT ![s] = [frame |-> filled + 1, size |-> size,
                                           owner |-> "stage"]]
       /\ fifo' = Append(fifo, s)
  /\ filled' = filled + 1
  /\ UNCHANGED <<plan, nextOut, nextScratch, ops, scratch, out, counts>>

-----------------------------------------------------------------------------
(* process().  The calls of it that go to the stream, in order.               *)

CopyTo(s, i) == [call |-> "copy", from |-> s, to |-> i]
CopyOver(s, o) == [call |-> "copy over", from |-> s, to |-> o]
Transform(i, o) == [call |-> "transform", from |-> i, to |-> o]
Launch(s, i, o) == [call |-> "launch", from |-> s, by |-> i, to |-> o]
Back(s) == [call |-> "release", slot |-> s]
Ready(o, f) == [call |-> "ready", slot |-> o, frame |-> f]
ScratchFree == [call |-> "scratch free"]

\* capture_graphs(): what the graph of an output slot reads, and through which scratch.
BakedPin(o) == o % Staging
BakedScratch(o) == o % plan.scratch

\* Whether the graph of an output slot does this frame.
FitsGraph(s, o) == pinned[s].size = "whole" /\ s = BakedPin(o)

Upload(s, o) == <<CopyOver(s, o), Back(s), Ready(o, pinned[s].frame)>>

Eager(s, o) ==
  <<CopyTo(s, nextScratch), Back(s), Transform(nextScratch, o), Ready(o, pinned[s].frame),
    ScratchFree>>

\* A try that gets no slot: the scratch is given back, and that is all.
EagerDropped(s) == <<CopyTo(s, nextScratch), Back(s), ScratchFree>>

Graph(s, o) ==
  LET i == BakedScratch(o) IN
  IF FitsGraph(s, o)
  THEN <<Launch(BakedPin(o), i, o), Back(s), Ready(o, pinned[s].frame), ScratchFree>>
  ELSE <<CopyTo(s, i), Back(s), Transform(i, o), Ready(o, pinned[s].frame), ScratchFree>>

EagerPath == plan.transform /\ ~plan.graph

\* How many of the calls are made before acquire_write(), which may throw as well.
BeforeAcquire == IF EagerPath THEN 2 ELSE 0

\* What reaches the stream of a list that breaks off behind its n-th call: ~StagedHold lets
\* the slot go if that was still to come.  Letting go itself fails in HostIngressRing.tla only.
Made(calls, n) == IF n = 0 THEN <<Back(Head(fifo))>> ELSE SubSeq(calls, 1, n)

\* One frame, with the first n of its calls, or all of them.
Process(calls, n, acquired) ==
  /\ n < Len(calls) => calls[n + 1].call # "release" /\ mishaps < MaxMishaps
  /\ ops' = ops \o Made(calls, n)
  /\ fifo' = Tail(fifo)
  /\ pinned' = [pinned EXCEPT ![Head(fifo)].owner = "stream"]
  /\ mishaps' = IF n < Len(calls) THEN mishaps + 1 ELSE mishaps
  /\ nextOut' = IF acquired THEN (nextOut + 1) % plan.out ELSE nextOut
  /\ nextScratch' = IF EagerPath THEN (nextScratch + 1) % plan.scratch ELSE nextScratch
  /\ UNCHANGED <<plan, filled, scratch, out>>

\* A whole frame that is not where the graph of the slot acquired expects it.  Between the
\* two there is a wait for the scratch, which may throw.
Misplaced ==
  plan.graph /\ pinned[Head(fifo)].size = "whole" /\ ~FitsGraph(Head(fifo), nextOut)

FellBack(n, acquired, fell) ==
  /\ fell => acquired /\ Misplaced
  /\ n > 0 /\ Misplaced => fell

Counted(calls, n, as, fell) ==
  LET count == IF n < Len(calls) THEN "failed" ELSE as IN
  counts' = [counts EXCEPT ![count] = @ + 1, !.fallbacks = @ + IF fell THEN 1 ELSE 0]

Uploaded(calls) ==
  \E n \in 0 .. Len(calls), acquired, fell \in BOOLEAN :
    /\ n < BeforeAcquire => ~acquired
    /\ n > BeforeAcquire => acquired
    /\ FellBack(n, acquired, fell)
    /\ Process(calls, n, acquired) /\ Counted(calls, n, "uploaded", fell)

\* ScanForFree may have no slot to give.
Dropped(calls) ==
  \E n \in 0 .. Len(calls) :
    Process(calls, n, FALSE) /\ Counted(calls, n, "dropped", FALSE)

\* RoundRobin waits for the next slot in turn.  Which slot the scan gives is
\* DeviceRingBuffer's; here it is the next as well.
TakeStaged ==
  /\ fifo # <<>> /\ pinned[Head(fifo)].size # "large"
  /\ LET s == Head(fifo) IN
     \/ ~plan.transform /\ Uploaded(Upload(s, nextOut))
     \/ EagerPath /\ Uploaded(Eager(s, nextOut))
     \/ plan.transform /\ plan.graph /\ Uploaded(Graph(s, nextOut))
     \/ EagerPath /\ plan.scan /\ Dropped(EagerDropped(s))

\* Too large: nothing is done with it, but that its slot goes back.
Oversized ==
  /\ fifo # <<>> /\ pinned[Head(fifo)].size = "large"
  /\ ops' = Append(ops, Back(Head(fifo)))
  /\ fifo' = Tail(fifo)
  /\ pinned' = [pinned EXCEPT ![Head(fifo)].owner = "stream"]
  /\ counts' = [counts EXCEPT !.failed = @ + 1]
  /\ UNCHANGED <<plan, filled, nextOut, nextScratch, scratch, out, mishaps>>

\* The device does the next thing in the stream.
UploadStream ==
  /\ ops # <<>> /\ ops' = Tail(ops)
  /\ LET c == Head(ops) IN
     /\ scratch' = IF c.call = "copy" THEN [scratch EXCEPT ![c.to] = pinned[c.from].frame]
                   ELSE IF c.call = "launch" THEN [scratch EXCEPT ![c.by] = pinned[c.from].frame]
                   ELSE scratch
     /\ out' = IF c.call = "transform" THEN [out EXCEPT ![c.to] = scratch[c.from]]
               ELSE IF c.call \in {"copy over", "launch"}
               THEN [out EXCEPT ![c.to] = pinned[c.from].frame]
               ELSE out
     /\ pinned' = IF c.call = "release" THEN [pinned EXCEPT ![c.slot].owner = "source"] ELSE pinned
  /\ UNCHANGED <<plan, fifo, filled, nextOut, nextScratch, counts, mishaps>>

UploadPathsNext == Bring \/ TakeStaged \/ Oversized \/ UploadStream

-----------------------------------------------------------------------------
\* When a slot's data_ready fires there is in it what came of the frame whose stamp it
\* was published with, whichever way it went.
PublishedTrue ==
  \A k \in DOMAIN ops : k = 1 /\ ops[k].call = "ready" => out[ops[k].slot] = ops[k].frame

\* A frame the stream has yet to copy lies where it was: no slot is the source's again with
\* a copy of it still queued.
CopiesFirst ==
  \A s \in Pins : pinned[s].owner = "source" =>
    ~\E k \in DOMAIN ops : ops[k].call \in {"copy", "copy over", "launch"} /\ ops[k].from = s

\* "Divisibility [...] is what makes these the indices this graph will always be replayed
\* with": as long as slots are filled in turn and no frame failed, none that is whole falls
\* back.
Lockstep == plan.source = "staged" /\ counts.failed = 0 => counts.fallbacks = 0

UploadPathsTrue == PublishedTrue /\ CopiesFirst /\ Lockstep
=============================================================================
