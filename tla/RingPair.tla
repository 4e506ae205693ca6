------------------------------- MODULE RingPair -------------------------------
(***************************************************************************)
(* The pairing on the GPU's side: pipeline/src/transform_stage.cpp moves    *)
(* the left camera's frames from one device ring to the next, and           *)
(* pipeline/src/ring_pair_consumer.cpp pairs that ring with the right       *)
(* camera's by timestamp.  Each has a thread of its own.                    *)
(*                                                                         *)
(* A ring is what DeviceRingBuffer.tla shows it to be: a slot under a hold  *)
(* is not written, the newest frame is not overwritten, latest_ is          *)
(* stored before published_ is counted.  A frame of a ring is the number of *)
(* its publication, which stands for the pair (slot, seq).                  *)
(***************************************************************************)
EXTENDS StereoPairer

CONSTANTS
  Depth,          \* slot_count of the rings
  RetryAttempts,  \* retry_attempts
  MaxFaults       \* bound: how many CUDA calls fail

ASSUME RingPairAssumption == Depth \in Nat \ {0, 1} /\ RetryAttempts \in Nat /\ MaxFaults \in Nat

Rings == {"in", "reference", "other"}
NoSlot == 0
Empty == [n |-> 0, stamp |-> 0]

VARIABLES
  slots,      \* per ring and slot: the publication in it and its stamp
  holds,      \* per ring: the slots each worker holds, as <<worker, slot>>
  latest,     \* latest_
  published,  \* published_ of the reference ring, the only one that is read
  supplied,   \* how many frames the two uploads have published
  transform,  \* the transform stage: program counter, slots, last frame, running_
  pair,       \* the pair consumer: program counter, slots, tries, last_*, running_
  stats,      \* its counters
  leased,     \* history: the reference frames it leased, whether published() agreed, and
              \* how many an exception took before they were counted
  pairsMade,  \* history: the stamps of the pairs handed to the callback
  transformed,\* history: the stamps the transform stage is through with
  faults      \* history: how many CUDA calls failed

ringVars == <<slots, holds, latest, published>>
ringPairVars == <<ringVars, supplied, transform, pair, stats, leased, pairsMade, transformed, faults>>

RingPairInit ==
  /\ slots = [r \in Rings |-> [i \in 1 .. Depth |-> Empty]]
  /\ holds = [r \in Rings |-> {}] /\ latest = [r \in Rings |-> NoSlot]
  /\ published = 0 /\ supplied = [s \in Streams |-> 0]
  /\ transform = [pc |-> "step", in |-> NoSlot, out |-> NoSlot, last |-> 0, running |-> TRUE]
  /\ pair = [pc |-> "step", reference |-> NoSlot, other |-> NoSlot, tries |-> 0, last |-> 0,
             lastPublished |-> 0, running |-> TRUE]
  /\ stats = [paired |-> 0, unpaired |-> 0, late |-> 0, missed |-> 0, skipped |-> 0]
  /\ leased = [frames |-> <<>>, exact |-> TRUE, failed |-> 0]
  /\ pairsMade = <<>> /\ transformed = <<>> /\ faults = 0

-----------------------------------------------------------------------------
(* The rings. *)

Held(r, i) == \E h \in holds[r] : h[2] = i
Newest(r) == slots[r][latest[r]]

\* A slot the scan may claim: the first that is neither the newest nor held.
Claimable(r, i) == i # latest[r] /\ ~Held(r, i)
CanClaim(r) == \E i \in 1 .. Depth : Claimable(r, i)
Claimed(r) == Min({i \in 1 .. Depth : Claimable(r, i)})

\* How often a ring was published to.
Publications(r) == IF latest[r] = NoSlot THEN 0 ELSE Newest(r).n

PublishIn(r, i, stamp) ==
  /\ slots' = [slots EXCEPT ![r][i] = [n |-> Publications(r) + 1, stamp |-> stamp]]
  /\ latest' = [latest EXCEPT ![r] = i]

\* published_ is counted after latest_ is stored.
Announce ==
  /\ published # Publications("reference")
  /\ published' = published + 1
  /\ UNCHANGED <<slots, holds, latest, supplied, transform, pair, stats, leased, pairsMade,
                 transformed, faults>>

RingOf(s) == IF s = Left THEN "in" ELSE "other"

\* An upload publishes the next frame of its camera.
Supply(s) ==
  /\ supplied[s] < Len(Shots[s]) /\ CanClaim(RingOf(s))
  /\ PublishIn(RingOf(s), Claimed(RingOf(s)), Shots[s][supplied[s] + 1])
  /\ supplied' = [supplied EXCEPT ![s] = @ + 1]
  /\ UNCHANGED <<holds, published, transform, pair, stats, leased, pairsMade, transformed, faults>>

-----------------------------------------------------------------------------
(* TransformStage. *)

Fault == faults < MaxFaults /\ faults' = faults + 1

New(r, last) == latest[r] # NoSlot /\ Newest(r).n # last
Stop(worker) == IF worker.running THEN "step" ELSE "exited"

TransformLeases ==
  /\ transform.pc = "step" /\ transform.running /\ New("in", transform.last)
  /\ holds' = [holds EXCEPT !["in"] = @ \cup {<<"transform", latest["in"]>>}]
  /\ transform' = [transform EXCEPT !.pc = "acquire", !.in = latest["in"]]
  /\ UNCHANGED <<slots, latest, published, supplied, pair, stats, leased, pairsMade, transformed, faults>>

\* acquire_write on the output ring blocks until a slot is free.
TransformAcquires ==
  /\ transform.pc = "acquire" /\ CanClaim("reference")
  /\ holds' = [holds EXCEPT !["reference"] = @ \cup {<<"transform", Claimed("reference")>>}]
  /\ transform' = [transform EXCEPT !.pc = "enqueue", !.out = Claimed("reference")]
  /\ UNCHANGED <<slots, latest, published, supplied, pair, stats, leased, pairsMade, transformed, faults>>

OutOf(worker, name) == [r \in Rings |-> {h \in holds[r] : h[1] # name}]

\* The wait or the enqueue throws: both leases are let go, and nothing is published.
TransformThrows ==
  /\ transform.pc \in {"acquire", "enqueue"} /\ Fault
  /\ holds' = OutOf(transform, "transform")
  /\ slots' = IF transform.pc = "acquire" THEN slots
              ELSE [slots EXCEPT !["reference"][transform.out] = Empty]
  /\ transform' = [transform EXCEPT !.pc = Stop(transform), !.in = NoSlot, !.out = NoSlot]
  /\ UNCHANGED <<latest, published, supplied, pair, stats, leased, pairsMade, transformed>>

\* The output carries the stamp of its input.
TransformPublishes ==
  /\ transform.pc = "enqueue" /\ published = Publications("reference")
  /\ PublishIn("reference", transform.out, slots["in"][transform.in].stamp)
  /\ holds' = [holds EXCEPT !["reference"] = {h \in @ : h[1] # "transform"}]
  /\ transform' = [transform EXCEPT !.pc = "drop", !.out = NoSlot]
  /\ UNCHANGED <<published, supplied, pair, stats, leased, pairsMade, transformed, faults>>

\* last_slot_ and last_seq_ are those of the lease.
LastSeen(i) == slots["in"][i].n

TransformDrops ==
  /\ transform.pc = "drop"
  /\ holds' = OutOf(transform, "transform")
  /\ \/ /\ transform' = [transform EXCEPT !.pc = Stop(transform), !.in = NoSlot,
                                          !.last = LastSeen(transform.in)]
        /\ transformed' = Append(transformed, slots["in"][transform.in].stamp)
        /\ UNCHANGED faults
     \/ \* The event record throws, with the output published and the frame not seen.
        /\ Fault
        /\ transform' = [transform EXCEPT !.pc = Stop(transform), !.in = NoSlot]
        /\ UNCHANGED transformed
  /\ UNCHANGED <<slots, latest, published, supplied, pair, stats, leased, pairsMade>>

TransformEnds ==
  /\ transform.pc = "step" /\ ~transform.running
  /\ transform' = [transform EXCEPT !.pc = "exited"]
  /\ UNCHANGED <<ringVars, supplied, pair, stats, leased, pairsMade, transformed, faults>>

TransformStep ==
  \/ TransformLeases \/ TransformAcquires \/ TransformPublishes \/ TransformDrops \/ TransformEnds

-----------------------------------------------------------------------------
(* RingPairConsumer. *)

\* The newest reference frame, if it is new, is leased, or lost to the producer.
PairLeases ==
  /\ pair.pc = "step" /\ pair.running /\ New("reference", pair.last)
  /\ \/ /\ holds' = [holds EXCEPT !["reference"] = @ \cup {<<"pair", latest["reference"]>>}]
        /\ pair' = [pair EXCEPT !.pc = "count", !.reference = latest["reference"]]
        /\ UNCHANGED <<stats, faults>>
     \/ /\ Fault
        /\ stats' = [stats EXCEPT !.missed = @ + 1]
        /\ UNCHANGED <<holds, pair>>
  /\ UNCHANGED <<slots, latest, published, supplied, transform, leased, pairsMade, transformed>>

\* What was published since the last frame, but for the one that is leased.
Skipped == IF published > pair.lastPublished THEN published - pair.lastPublished - 1 ELSE 0

PairCounts ==
  LET frame == slots["reference"][pair.reference].n IN
  /\ pair.pc = "count"
  /\ stats' = IF pair.last = 0 THEN stats ELSE [stats EXCEPT !.skipped = @ + Skipped]
  /\ pair' = [pair EXCEPT !.pc = "partner", !.lastPublished = published, !.last = frame, !.tries = 0]
  /\ leased' = [leased EXCEPT !.frames = Append(@, frame), !.exact = @ /\ published = frame]
  /\ UNCHANGED <<ringVars, supplied, transform, pairsMade, transformed, faults>>

RefStamp == slots["reference"][pair.reference].stamp
Candidates == {i \in 1 .. Depth : slots["other"][i].n # 0
                                  /\ Distance(slots["other"][i].stamp, RefStamp) <= Tolerance}
Closest(i) == \A j \in Candidates :
  Distance(slots["other"][i].stamp, RefStamp) <= Distance(slots["other"][j].stamp, RefStamp)

\* lease_by_timestamp: the frame nearest in time, within the tolerance.
Partners == {i \in Candidates : Closest(i)}

FindPartner ==
  /\ pair.pc = "partner"
  /\ \E i \in Partners :
       /\ holds' = [holds EXCEPT !["other"] = @ \cup {<<"pair", i>>}]
       /\ pair' = [pair EXCEPT !.pc = "call", !.other = i]
       /\ pairsMade' = Append(pairsMade, <<RefStamp, slots["other"][i].stamp>>)
       /\ stats' = [stats EXCEPT !.paired = @ + 1, !.late = @ + (IF pair.tries > 0 THEN 1 ELSE 0)]
  /\ UNCHANGED <<slots, latest, published, supplied, transform, leased, transformed, faults>>

\* A wait for an event throws with the pair not counted: the frame is lost to the pairing.
PairThrows ==
  /\ pair.pc = "partner" /\ Partners # {} /\ Fault
  /\ holds' = OutOf(pair, "pair")
  /\ pair' = [pair EXCEPT !.pc = Stop(pair), !.reference = NoSlot]
  /\ stats' = [stats EXCEPT !.late = @ + (IF pair.tries > 0 THEN 1 ELSE 0)]
  /\ leased' = [leased EXCEPT !.failed = @ + 1]
  /\ UNCHANGED <<slots, latest, published, supplied, transform, pairsMade, transformed>>

\* No partner yet: once more after retry_wait, and then the frame is given up.
NoPartner ==
  /\ pair.pc = "partner" /\ Partners = {}
  /\ \/ /\ pair.tries < RetryAttempts
        /\ pair' = [pair EXCEPT !.tries = @ + 1]
        /\ UNCHANGED <<holds, stats>>
     \/ /\ pair.tries = RetryAttempts
        /\ stats' = [stats EXCEPT !.unpaired = @ + 1]
        /\ holds' = OutOf(pair, "pair")
        /\ pair' = [pair EXCEPT !.pc = Stop(pair), !.reference = NoSlot]
  /\ UNCHANGED <<slots, latest, published, supplied, transform, leased, pairsMade, transformed, faults>>

\* The callback has returned or thrown: the leases end.
PairDrops ==
  /\ pair.pc = "call"
  /\ holds' = OutOf(pair, "pair")
  /\ pair' = [pair EXCEPT !.pc = Stop(pair), !.reference = NoSlot, !.other = NoSlot]
  /\ UNCHANGED <<slots, latest, published, supplied, transform, stats, leased, pairsMade, transformed,
                 faults>>

PairEnds ==
  /\ pair.pc = "step" /\ ~pair.running
  /\ pair' = [pair EXCEPT !.pc = "exited"]
  /\ UNCHANGED <<ringVars, supplied, transform, stats, leased, pairsMade, transformed, faults>>

PairStep == PairLeases \/ PairCounts \/ FindPartner \/ NoPartner \/ PairDrops \/ PairEnds

\* stop() clears running_ and joins the thread; the tool stops the stage upstream first.
StopTransform ==
  /\ transform.running /\ transform' = [transform EXCEPT !.running = FALSE]
  /\ UNCHANGED <<ringVars, supplied, pair, stats, leased, pairsMade, transformed, faults>>
StopPair ==
  /\ transform.pc = "exited"
  /\ pair.running /\ pair' = [pair EXCEPT !.running = FALSE]
  /\ UNCHANGED <<ringVars, supplied, transform, stats, leased, pairsMade, transformed, faults>>

RingPairNext ==
  \/ \E s \in Streams : Supply(s)
  \/ Announce \/ TransformStep \/ TransformThrows \/ PairStep \/ PairThrows \/ StopTransform \/ StopPair

-----------------------------------------------------------------------------
\* The two frames the callback is given are the ones that were paired, still there and
\* within the tolerance, and no frame of either ring is given twice, unless an exception
\* made the transform stage publish it twice.
Twice(i, j, side) == i # j /\ pairsMade[i][side] = pairsMade[j][side]
PairsIntact ==
  /\ pair.pc = "call" =>
       LET made == pairsMade[Len(pairsMade)] IN
       /\ <<slots["reference"][pair.reference].stamp, slots["other"][pair.other].stamp>> = made
       /\ Distance(made[1], made[2]) <= Tolerance
  /\ (Spaced /\ faults = 0) =>
       \A i, j \in DOMAIN pairsMade : ~Twice(i, j, 1) /\ ~Twice(i, j, 2)

\* The device pairs belong together by the offline merge, like the live ones.
DevicePairsTrue ==
  Spaced =>
    \A i \in DOMAIN pairsMade :
      \E p \in PairUp(Shots[Left], Shots[Right], Tolerance) :
        pairsMade[i] = <<Shots[Left][p[1]], Shots[Right][p[2]]>>

\* The transform stage is through with each frame once, in order.
TransformedOnce == \A i, j \in DOMAIN transformed : i < j => transformed[i] < transformed[j]

\* Every reference frame that was leased is paired, unpaired or lost to an exception, and
\* those between two that were leased are counted as skipped, as long as no publication
\* fell between a lease and the look at published().
ReferencesAccounted ==
  /\ stats.paired + stats.unpaired + leased.failed + (IF pair.pc = "partner" THEN 1 ELSE 0)
       = Len(leased.frames)
  /\ stats.paired = Len(pairsMade)
  /\ (leased.exact /\ leased.frames # <<>>) =>
       stats.skipped = leased.frames[Len(leased.frames)] - leased.frames[1] + 1 - Len(leased.frames)

RingPairInv == PairsIntact /\ DevicePairsTrue /\ TransformedOnce /\ ReferencesAccounted
=============================================================================
