----------------------------- MODULE PairingProofs -----------------------------
(***************************************************************************)
(* What the pairing of two cameras keeps, for every pair of streams, every  *)
(* depth of the rings and of the queues, every number of failed calls and   *)
(* every interleaving: of the workers of the device rings with the uploads, *)
(* then, of the two readers with the tool that pops pairs.  Both are        *)
(* compared with the offline merge, of which there is a closed form.        *)
(***************************************************************************)
EXTENDS StereoToolsProofs, WellFoundedInduction

-----------------------------------------------------------------------------
(* The pairing of device rings: what the two workers have and what lies in it. *)

LEMMA ShotsOf ==
  ASSUME NEW s \in Streams
  PROVE  /\ Shots[s] \in Seq(Nat \ {0}) /\ Len(Shots[s]) \in Nat /\ DOMAIN Shots[s] = 1 .. Len(Shots[s])
         /\ \A k \in 1 .. Len(Shots[s]) : Shots[s][k] \in Nat \ {0}
  <1>1. Shots \in Seq(Seq(Nat \ {0})) /\ s \in 1 .. Len(Shots)
    BY ShotsAssumption, StreamsCounted
  <1>2. Shots[s] \in Seq(Nat \ {0})
    BY <1>1, ElementOfSeq
  <1>3. QED
    BY <1>2, ElementOfSeq, LenProperties

LEMMA StepsOfTheRings == [Next]_vars => [RingPairNext]_ringPairVars
  BY DEF Next, Viewing, Testing, Watching, Pairing, vars

Workers == {"transform", "pair"}
HoldSet == Workers \X (1 .. Depth)

RingTypes ==
  /\ slots \in [Rings -> [1 .. Depth -> [n : Nat, stamp : Nat]]]
  /\ holds \in [Rings -> SUBSET HoldSet]
  /\ latest \in [Rings -> 0 .. Depth] /\ published \in Nat
  /\ supplied \in [Streams -> Nat] /\ \A s \in Streams : supplied[s] <= Len(Shots[s])

TransformType ==
  [pc : {"step", "acquire", "enqueue", "drop", "exited"}, in : 0 .. Depth, out : 0 .. Depth,
   last : Nat, running : BOOLEAN]
PairType ==
  [pc : {"step", "count", "partner", "call", "exited"}, reference : 0 .. Depth, other : 0 .. Depth,
   tries : Nat, last : Nat, lastPublished : Nat, running : BOOLEAN]
StatsType == [paired : Nat, unpaired : Nat, late : Nat, missed : Nat, skipped : Nat]
LeasedType == [frames : Seq(Nat), exact : BOOLEAN, failed : Nat]

WorkerTypes ==
  /\ transform \in TransformType
  /\ pair \in PairType
  /\ stats \in StatsType
  /\ leased \in LeasedType
  /\ pairsMade \in Seq(Nat \X Nat) /\ transformed \in Seq(Nat) /\ faults \in Nat

\* A set of numbers has a least.
LEMMA LeastOf ==
  ASSUME NEW S \in SUBSET Nat, S # {}
  PROVE  \E x \in S : \A y \in S : x <= y
  <1> DEFINE Less == OpToRel(<, Nat)
  <1>1. \E x \in S : \A y \in S : ~ (<<y, x>> \in Less)
    <2> HIDE DEF Less
    <2>1. IsWellFoundedOn(Less, Nat)
      BY NatLessThanWellFounded DEF Less
    <2>2. QED
      BY <2>1, WFMin
  <1>2. \A x, y \in Nat : ~ (<<y, x>> \in Less) => x =< y
    BY DEF OpToRel
  <1>3. QED
    BY <1>1, <1>2

LEMMA MinIsIn == ASSUME NEW S \in SUBSET Nat, S # {} PROVE Min(S) \in S
  BY LeastOf DEF Min

LEMMA ClaimedIsFree ==
  ASSUME NEW r \in Rings, CanClaim(r)
  PROVE  Claimed(r) \in 1 .. Depth /\ Claimable(r, Claimed(r))
  <1> DEFINE S == {i \in 1 .. Depth : Claimable(r, i)}
  <1>1. S \in SUBSET Nat /\ S # {} /\ Claimed(r) = Min(S)
    BY RingPairAssumption DEF CanClaim, Claimed
  <1> HIDE DEF S
  <1>2. Claimed(r) \in S
    BY <1>1, MinIsIn
  <1>3. QED
    BY <1>2 DEF S

(* The steps that write to a ring, and what each writes. *)

WriteTo(r, i, n, stamp) ==
  /\ slots' = [slots EXCEPT ![r][i] = [n |-> n, stamp |-> stamp]]
  /\ i \in 1 .. Depth /\ n \in Nat /\ stamp \in Nat

\* No slot is written but this one.
OnlySlot(r, i) == \A q \in Rings, j \in 1 .. Depth : (q = r /\ j = i) \/ slots'[q][j] = slots[q][j]

LEMMA SlotsAfter ==
  ASSUME RingTypes, NEW r \in Rings, NEW i, NEW n, NEW stamp, WriteTo(r, i, n, stamp)
  PROVE  /\ slots' \in [Rings -> [1 .. Depth -> [n : Nat, stamp : Nat]]]
         /\ slots'[r][i].n = n /\ slots'[r][i].stamp = stamp
         /\ OnlySlot(r, i)
  <1>1. slots \in [Rings -> [1 .. Depth -> [n : Nat, stamp : Nat]]] /\ [n |-> n, stamp |-> stamp] \in [n : Nat, stamp : Nat]
    BY DEF RingTypes, WriteTo
  <1>2. slots' = [slots EXCEPT ![r][i] = [n |-> n, stamp |-> stamp]] /\ i \in 1 .. Depth
    BY DEF WriteTo
  <1>3. PICK e \in [n : Nat, stamp : Nat] : e = [n |-> n, stamp |-> stamp]
    BY <1>1
  <1>4. slots' = [slots EXCEPT ![r][i] = e]
    BY <1>2, <1>3
  <1>5. slots[r] \in [1 .. Depth -> [n : Nat, stamp : Nat]]
    BY <1>1
  <1>6. PICK row : row = [slots[r] EXCEPT ![i] = e]
    OBVIOUS
  <1>7. /\ row \in [1 .. Depth -> [n : Nat, stamp : Nat]] /\ row[i] = e
        /\ \A j \in 1 .. Depth : j # i => row[j] = slots[r][j]
    BY <1>2, <1>3, <1>5, <1>6
  <1>8. slots' = [slots EXCEPT ![r] = row]
    BY <1>4, <1>6
  <1>9. slots' \in [Rings -> [1 .. Depth -> [n : Nat, stamp : Nat]]] /\ slots'[r] = row
        /\ \A q \in Rings : q # r => slots'[q] = slots[q]
    BY ONLY <1>1, <1>7, <1>8, r \in Rings
  <1>10. slots'[r][i].n = n /\ slots'[r][i].stamp = stamp
    BY <1>3, <1>7, <1>9
  <1>11. OnlySlot(r, i)
    BY <1>7, <1>9 DEF OnlySlot
  <1>12. QED
    BY <1>9, <1>10, <1>11

LEMMA SupplyWrites ==
  ASSUME RingTypes, NEW s \in Streams, Supply(s)
  PROVE  LET r == RingOf(s) IN
         /\ r \in Rings /\ Claimable(r, Claimed(r))
         /\ WriteTo(r, Claimed(r), Publications(r) + 1, Shots[s][supplied[s] + 1])
         /\ latest' = [latest EXCEPT ![r] = Claimed(r)]
         /\ supplied' = [supplied EXCEPT ![s] = @ + 1] /\ supplied[s] < Len(Shots[s])
         /\ supplied[s] + 1 \in 1 .. Len(Shots[s])
         /\ UNCHANGED <<holds, published, transform, pair, stats, leased, pairsMade, transformed, faults>>
  <1> DEFINE r == RingOf(s)
  <1>1. r \in Rings /\ CanClaim(r)
    BY DEF RingOf, Rings, Supply
  <1>2. supplied[s] \in Nat /\ supplied[s] < Len(Shots[s]) /\ Shots[s] \in Seq(Nat \ {0}) /\ Len(Shots[s]) \in Nat
    BY ShotsOf DEF RingTypes, Supply
  <1>3. supplied[s] + 1 \in 1 .. Len(Shots[s])
    BY <1>2
  <1>4. Shots[s][supplied[s] + 1] \in Nat
    BY <1>2, <1>3, ElementOfSeq
  <1>5. Publications(r) \in Nat
    <2>1. latest[r] \in 0 .. Depth /\ slots[r] \in [1 .. Depth -> [n : Nat, stamp : Nat]] /\ Depth \in Nat
      BY <1>1, RingPairAssumption DEF RingTypes
    <2>2. latest[r] # 0 => latest[r] \in 1 .. Depth
      BY <2>1
    <2>3. QED
      BY <2>1, <2>2 DEF Publications, Newest, NoSlot
  <1>6. Claimed(r) \in 1 .. Depth /\ Claimable(r, Claimed(r))
    BY <1>1, ClaimedIsFree
  <1> HIDE DEF r
  <1>7. PublishIn(r, Claimed(r), Shots[s][supplied[s] + 1]) /\ supplied' = [supplied EXCEPT ![s] = @ + 1]
        /\ UNCHANGED <<holds, published, transform, pair, stats, leased, pairsMade, transformed, faults>>
    BY DEF Supply, r
  <1>8. WriteTo(r, Claimed(r), Publications(r) + 1, Shots[s][supplied[s] + 1])
        /\ latest' = [latest EXCEPT ![r] = Claimed(r)]
    BY <1>4, <1>5, <1>6, <1>7 DEF WriteTo, PublishIn
  <1>9. QED
    BY <1>1, <1>2, <1>3, <1>6, <1>7, <1>8 DEF r

\* A slot a worker has a lease of, with a frame in it.
Leasing(r, worker, i) ==
  i \in 1 .. Depth /\ <<worker, i>> \in holds[r] /\ slots[r][i].n # 0

\* The transform stage has its frame from the lease on, and a slot to write that nobody
\* looks at; the frame is one it has not seen.
TransformSide ==
  /\ transform.pc \in {"acquire", "enqueue", "drop"} =>
       /\ Leasing("in", "transform", transform.in)
       /\ slots["in"][transform.in].n > transform.last
  /\ transform.pc = "enqueue" =>
       /\ transform.out \in 1 .. Depth /\ <<"transform", transform.out>> \in holds["reference"]
       /\ transform.out # latest["reference"]

HasReference == pair.pc \in {"count", "partner", "call"}

\* The pair consumer has its reference from the lease on, and then the partner.
PairSide ==
  /\ HasReference =>
       /\ Leasing("reference", "pair", pair.reference)
       /\ transform.pc = "enqueue" => pair.reference # transform.out
  /\ pair.pc = "call" => Leasing("other", "pair", pair.other)

\* What is in the rings the uploads write to.
SuppliedRing(r, s) ==
  /\ \A i \in 1 .. Depth :
       slots[r][i].n # 0 => slots[r][i].n \in 1 .. supplied[s] /\ slots[r][i].stamp = Shots[s][slots[r][i].n]
  /\ latest[r] # 0 => slots[r][latest[r]].n = supplied[s] /\ supplied[s] > 0
  /\ latest[r] = 0 => supplied[s] = 0

Supplies == SuppliedRing("in", Left) /\ SuppliedRing("other", Right)

\* The publications to the reference ring are counted, and the last is never taken back.
ReferenceCounted ==
  /\ \A i \in 1 .. Depth : slots["reference"][i].n <= Publications("reference")
  /\ latest["reference"] # 0 => Publications("reference") # 0

RingHold ==
  /\ RingTypes /\ WorkerTypes /\ TransformSide /\ PairSide /\ Supplies /\ ReferenceCounted
  /\ transform.last <= supplied[Left]

LEMMA TransformPublishWrites ==
  ASSUME RingHold, TransformPublishes
  PROVE  /\ WriteTo("reference", transform.out, Publications("reference") + 1, slots["in"][transform.in].stamp)
         /\ latest' = [latest EXCEPT !["reference"] = transform.out]
         /\ holds' = [holds EXCEPT !["reference"] = {h \in @ : h[1] # "transform"}]
         /\ transform' = [transform EXCEPT !.pc = "drop", !.out = NoSlot] /\ transform.pc = "enqueue"
         /\ Publications("reference") \in Nat
         /\ UNCHANGED <<published, supplied, pair, stats, leased, pairsMade, transformed, faults>>
  <1>1. "reference" \in Rings /\ "in" \in Rings /\ Depth \in Nat
    BY RingPairAssumption DEF Rings
  <1>2. /\ latest["reference"] \in 0 .. Depth /\ transform.in \in 1 .. Depth /\ transform.out \in 1 .. Depth
        /\ \A r \in {"reference", "in"} : slots[r] \in [1 .. Depth -> [n : Nat, stamp : Nat]]
    BY <1>1 DEF RingHold, RingTypes, TransformSide, Leasing, TransformPublishes
  <1>3. latest["reference"] # 0 => latest["reference"] \in 1 .. Depth
    BY <1>1, <1>2
  <1>4. Publications("reference") \in Nat /\ slots["in"][transform.in].stamp \in Nat
    BY <1>2, <1>3 DEF Publications, Newest, NoSlot
  <1>5. QED
    BY <1>2, <1>4 DEF TransformPublishes, PublishIn, WriteTo

LEMMA TransformThrowWrites ==
  ASSUME RingHold, TransformThrows
  PROVE  /\ \/ transform.pc = "acquire" /\ slots' = slots
            \/ transform.pc = "enqueue" /\ WriteTo("reference", transform.out, 0, 0)
         /\ holds' = OutOf(transform, "transform") /\ faults' = faults + 1
         /\ transform' = [transform EXCEPT !.pc = Stop(transform), !.in = NoSlot, !.out = NoSlot]
         /\ UNCHANGED <<latest, published, supplied, pair, stats, leased, pairsMade, transformed>>
  BY DEF TransformThrows, Fault, WriteTo, Empty, RingHold, TransformSide

\* A slot somebody holds, or the newest, is written by the one who writes it only.
LEMMA SlotKept ==
  ASSUME RingHold, [RingPairNext]_ringPairVars, NEW r \in Rings, NEW i \in 1 .. Depth,
         Held(r, i) \/ i = latest[r],
         ~(r = "reference" /\ transform.pc = "enqueue" /\ i = transform.out)
  PROVE  slots'[r][i] = slots[r][i]
  <1>1. ASSUME NEW s \in Streams, Supply(s) PROVE slots'[r][i] = slots[r][i]
    <2>1. PICK q, c, n, stamp : q \in Rings /\ q = RingOf(s) /\ c = Claimed(q) /\ WriteTo(q, c, n, stamp) /\ Claimable(q, c)
      BY <1>1, SupplyWrites DEF RingHold
    <2>2. q = r => c # i
      BY <2>1 DEF Claimable, Held
    <2>3. RingTypes
      BY DEF RingHold
    <2>4. OnlySlot(q, c)
      BY <2>1, <2>3, SlotsAfter
    <2>5. QED
      BY <2>2, <2>4 DEF OnlySlot
  <1>2. CASE TransformThrows \/ TransformPublishes
    <2>1. RingTypes /\ "reference" \in Rings
      BY DEF RingHold, Rings
    <2>2. PICK q, o, n, stamp :
            /\ q \in Rings
            /\ q = "reference" /\ o = transform.out
            /\ slots' = slots \/ (transform.pc = "enqueue" /\ WriteTo(q, o, n, stamp))
      BY <1>2, <2>1, TransformThrowWrites, TransformPublishWrites
    <2>3. CASE slots' = slots
      BY <2>3
    <2>4. CASE transform.pc = "enqueue" /\ WriteTo(q, o, n, stamp)
      <3>1. q = r => o # i
        BY <2>2, <2>4
      <3>2. QED
        <4>1. WriteTo(q, o, n, stamp) /\ RingTypes /\ q \in Rings
          BY <2>1, <2>2, <2>4
        <4>2. OnlySlot(q, o)
          BY <4>1, SlotsAfter
        <4>3. QED
          BY <3>1, <4>2 DEF OnlySlot
    <2>5. QED
      BY <2>2, <2>3, <2>4
  <1>3. CASE slots' = slots
    BY <1>3
  <1>4. QED
    BY <1>1, <1>2, <1>3 DEF RingPairNext, Announce, TransformStep, TransformLeases, TransformAcquires,
         TransformDrops, TransformEnds, PairStep, PairLeases, PairCounts, FindPartner, NoPartner, PairDrops,
         PairEnds, PairThrows, StopTransform, StopPair, ringPairVars, ringVars

LEMMA RingTypesKept ==
  ASSUME RingHold, [RingPairNext]_ringPairVars
  PROVE  RingTypes'
  <1> USE DEF Workers, HoldSet
  <1>1. RingTypes /\ Depth \in Nat /\ Rings = {"in", "reference", "other"}
    BY RingPairAssumption DEF RingHold, Rings
  <1>2. slots' \in [Rings -> [1 .. Depth -> [n : Nat, stamp : Nat]]] /\ latest' \in [Rings -> 0 .. Depth]
    <2>1. ASSUME NEW s \in Streams, Supply(s)
          PROVE  slots' \in [Rings -> [1 .. Depth -> [n : Nat, stamp : Nat]]] /\ latest' \in [Rings -> 0 .. Depth]
      <3>1. PICK q, c, n, stamp : q \in Rings /\ WriteTo(q, c, n, stamp) /\ latest' = [latest EXCEPT ![q] = c]
        BY <2>1, <1>1, SupplyWrites
      <3>2. c \in 0 .. Depth
        BY <3>1, <1>1 DEF WriteTo
      <3>3. QED
        BY <3>1, <3>2, <1>1, SlotsAfter DEF RingTypes
    <2>2. CASE TransformThrows \/ TransformPublishes
      <3>1. /\ \/ slots' = slots
               \/ \E i, n, stamp : WriteTo("reference", i, n, stamp)
            /\ latest' = latest \/ latest' = [latest EXCEPT !["reference"] = transform.out]
        BY <2>2, TransformThrowWrites, TransformPublishWrites
      <3>2. transform.out \in 0 .. Depth
        BY DEF RingHold, WorkerTypes, TransformType
      <3>3. QED
        BY <3>1, <3>2, <1>1, SlotsAfter DEF RingTypes
    <2>3. CASE UNCHANGED <<slots, latest>>
      BY <2>3, <1>1 DEF RingTypes
    <2>4. QED
      BY <2>1, <2>2, <2>3 DEF RingPairNext, Announce, TransformStep, TransformLeases, TransformAcquires,
         TransformDrops, TransformEnds, PairStep, PairLeases, PairCounts, FindPartner, NoPartner, PairDrops,
         PairEnds, PairThrows, StopTransform, StopPair, ringPairVars, ringVars
  <1>3. holds' \in [Rings -> SUBSET HoldSet]
    <2>1. holds \in [Rings -> SUBSET HoldSet]
      BY <1>1 DEF RingTypes
    <2>2. ASSUME NEW r \in Rings, NEW w \in Workers, NEW i \in 1 .. Depth,
                 holds' = [holds EXCEPT ![r] = @ \cup {<<w, i>>}]
          PROVE  holds' \in [Rings -> SUBSET HoldSet]
      BY <2>1, <2>2
    <2>3. ASSUME NEW w, holds' = [r \in Rings |-> {h \in holds[r] : h[1] # w}]
                        \/ holds' = [holds EXCEPT !["reference"] = {h \in @ : h[1] # w}]
          PROVE  holds' \in [Rings -> SUBSET HoldSet]
      BY <2>1, <2>3
    <2>4. CASE TransformLeases \/ PairLeases
      <3>1. \A r \in Rings : latest[r] # 0 => latest[r] \in 1 .. Depth
        BY <1>1 DEF RingTypes
      <3>2. QED
        BY <2>4, <1>1, <2>1, <2>2, <3>1 DEF TransformLeases, PairLeases, New, NoSlot
    <2>5. CASE TransformAcquires
      BY <2>5, <1>1, <2>2, ClaimedIsFree DEF TransformAcquires
    <2>6. CASE FindPartner
      BY <2>6, <1>1, <2>2 DEF FindPartner, Partners, Candidates
    <2>7. CASE TransformThrows \/ TransformPublishes \/ TransformDrops \/ PairThrows \/ PairDrops \/ NoPartner
      BY <2>7, <2>1, <2>3 DEF TransformThrows, TransformPublishes, TransformDrops, PairThrows, PairDrops, NoPartner,
         OutOf
    <2>8. CASE UNCHANGED holds
      BY <2>1, <2>8
    <2>9. QED
      BY <2>4, <2>5, <2>6, <2>7, <2>8 DEF RingPairNext, Supply, Announce, TransformStep, TransformEnds,
         PairStep, PairCounts, PairEnds, StopTransform, StopPair, ringPairVars, ringVars
  <1>4. published' \in Nat /\ supplied' \in [Streams -> Nat] /\ \A s \in Streams : supplied'[s] <= Len(Shots[s])
    <2>1. CASE UNCHANGED supplied /\ (published' = published \/ published' = published + 1)
      BY <2>1, <1>1 DEF RingTypes
    <2>2. ASSUME NEW s \in Streams, Supply(s)
          PROVE  published' \in Nat /\ supplied' \in [Streams -> Nat] /\ \A q \in Streams : supplied'[q] <= Len(Shots[q])
      <3>1. supplied' = [supplied EXCEPT ![s] = @ + 1] /\ supplied[s] < Len(Shots[s]) /\ published' = published
        BY <2>2 DEF Supply
      <3>2. supplied[s] \in Nat /\ Len(Shots[s]) \in Nat /\ supplied \in [Streams -> Nat]
        BY ShotsOf, <1>1 DEF RingTypes
      <3>3. supplied' \in [Streams -> Nat] /\ \A q \in Streams : supplied'[q] = IF q = s THEN supplied[s] + 1 ELSE supplied[q]
        BY <3>1, <3>2
      <3>4. QED
        BY <3>1, <3>2, <3>3, <1>1 DEF RingTypes
    <2>3. QED
      BY <2>1, <2>2 DEF RingPairNext, Announce, TransformStep, TransformLeases, TransformAcquires,
         TransformDrops, TransformEnds, PairStep, PairLeases, PairCounts, FindPartner, NoPartner, PairDrops,
         PairEnds, PairThrows, StopTransform, StopPair, ringPairVars, ringVars, TransformThrows, TransformPublishes
  <1>5. QED
    BY <1>2, <1>3, <1>4 DEF RingTypes

LEMMA WorkerTypesKept ==
  ASSUME RingHold, [RingPairNext]_ringPairVars
  PROVE  WorkerTypes'
  <1>1. RingTypes /\ WorkerTypes /\ TransformSide /\ PairSide /\ Depth \in Nat /\ Rings = {"in", "reference", "other"}
    BY RingPairAssumption DEF RingHold, Rings
  <1>2. /\ \A r \in Rings : latest[r] \in 0 .. Depth /\ slots[r] \in [1 .. Depth -> [n : Nat, stamp : Nat]]
        /\ stats \in StatsType
        /\ published \in Nat /\ faults \in Nat
    BY <1>1 DEF RingTypes, WorkerTypes
  <1>9. /\ transform \in TransformType /\ pair \in PairType /\ leased \in LeasedType
        /\ Stop(transform) \in {"step", "exited"} /\ Stop(pair) \in {"step", "exited"}
        /\ NoSlot \in 0 .. Depth
    BY <1>1 DEF WorkerTypes, Stop, NoSlot
  <1> USE DEF TransformType, PairType, StatsType, LeasedType
  <1>3. CASE UNCHANGED <<transform, transformed>> /\ PairStep
    <2>1. CASE PairLeases
      <3>1. pair' \in PairType /\ stats' \in StatsType /\ faults' \in Nat /\ UNCHANGED <<leased, pairsMade>>
        <4>1. CASE pair' = [pair EXCEPT !.pc = "count", !.reference = latest["reference"]] /\ UNCHANGED <<stats, faults>>
          <5>1. latest["reference"] \in 0 .. Depth
            BY <1>1, <1>2
          <5>2. QED
            BY <1>2, <1>9, <2>1, <4>1, <5>1 DEF PairLeases
        <4>2. CASE stats' = [stats EXCEPT !.missed = @ + 1] /\ pair' = pair /\ faults' = faults + 1
          <5>1. PICK m \in Nat : m = stats.missed + 1
            BY <1>2
          <5>2. stats' = [stats EXCEPT !.missed = m]
            BY <4>2, <5>1
          <5>3. stats' \in StatsType
            BY <1>2, <5>2
          <5>4. pair' \in PairType /\ faults' \in Nat
            BY SMTT(30), <1>2, <1>9, <4>2
          <5>5. UNCHANGED <<leased, pairsMade>>
            BY <2>1 DEF PairLeases
          <5>6. QED
            BY <5>3, <5>4, <5>5
        <4>3. QED
          BY <2>1, <4>1, <4>2 DEF PairLeases, Fault
      <3>2. QED
        BY <1>1, <1>3, <3>1 DEF WorkerTypes
    <2>2. CASE PairCounts
      <3>1. pair.reference \in 1 .. Depth /\ pair.lastPublished \in Nat
        BY <1>1, <2>2 DEF PairCounts, PairSide, HasReference, Leasing, WorkerTypes
      <3>2. slots["reference"][pair.reference].n \in Nat
        BY <1>1, <1>2, <3>1
      <3>3. Skipped \in Nat
        BY <1>2, <3>1 DEF Skipped
      <3>4. pair' \in PairType
        BY <1>1, <1>2, <2>2, <3>2 DEF PairCounts, WorkerTypes
      <3>5. stats' \in StatsType
        BY <1>2, <2>2, <3>3 DEF PairCounts
      <3>6. leased' \in LeasedType
        <4>1. leased \in LeasedType
          BY <1>1 DEF WorkerTypes
        <4>2. PICK f \in Nat : f = slots["reference"][pair.reference].n
          BY <3>2
        <4>3. Append(leased.frames, f) \in Seq(Nat)
          BY <4>1, AppendProperties
        <4>4. leased' = [leased EXCEPT !.frames = Append(@, f), !.exact = @ /\ published = f]
          BY <2>2, <4>2 DEF PairCounts
        <4>5. (leased.exact /\ published = f) \in BOOLEAN
          OBVIOUS
        <4>6. QED
          BY <4>1, <4>3, <4>4, <4>5
      <3>7. QED
        BY <1>1, <1>3, <2>2, <3>4, <3>5, <3>6 DEF PairCounts, WorkerTypes
    <2>3. CASE FindPartner
      <3>1. PICK i \in Partners :
              /\ pair' = [pair EXCEPT !.pc = "call", !.other = i]
              /\ pairsMade' = Append(pairsMade, <<RefStamp, slots["other"][i].stamp>>)
              /\ stats' = [stats EXCEPT !.paired = @ + 1, !.late = @ + (IF pair.tries > 0 THEN 1 ELSE 0)]
              /\ UNCHANGED <<leased, faults>>
        BY <2>3 DEF FindPartner
      <3>2. i \in 1 .. Depth
        BY <3>1 DEF Partners, Candidates
      <3>3. pair.reference \in 1 .. Depth
        BY <1>1, <2>3 DEF FindPartner, PairSide, HasReference, Leasing
      <3>4. RefStamp \in Nat /\ slots["other"][i].stamp \in Nat
        BY <1>1, <1>2, <3>2, <3>3 DEF RefStamp
      <3>5. pairsMade' \in Seq(Nat \X Nat)
        <4>1. PICK e \in Nat \X Nat : e = <<RefStamp, slots["other"][i].stamp>>
          BY <3>4
        <4>2. pairsMade \in Seq(Nat \X Nat) /\ pairsMade' = Append(pairsMade, e)
          BY <1>1, <3>1, <4>1 DEF WorkerTypes
        <4>3. QED
          BY <4>1, <4>2, AppendProperties
      <3>6. QED
        <4>1. pair' \in PairType
          <5>1. pair \in PairType /\ pair' = [pair EXCEPT !.pc = "call", !.other = i]
            BY <1>9, <3>1
          <5>2. PICK o \in 0 .. Depth : o = i
            BY <1>1, <3>2
          <5>3. QED
            BY ONLY <5>1, <5>2 DEF PairType
        <4>2. PICK p \in Nat, l \in Nat : p = stats.paired + 1 /\ l = stats.late + (IF pair.tries > 0 THEN 1 ELSE 0)
          BY <1>2
        <4>4. stats' = [stats EXCEPT !.paired = p, !.late = l]
          BY <3>1, <4>2
        <4>5. stats' \in StatsType
          BY <1>2, <4>4
        <4>3. QED
          BY <1>1, <1>3, <3>1, <3>5, <4>1, <4>5 DEF WorkerTypes
    <2>4. CASE NoPartner \/ PairDrops \/ PairEnds
      <3>1. /\ pair' \in PairType
            /\ stats' \in StatsType
        <4>1. CASE NoPartner
          <5>1. CASE pair' = [pair EXCEPT !.tries = @ + 1] /\ UNCHANGED stats
            <6>1. PICK t \in Nat : t = pair.tries + 1
              BY <1>9
            <6>2. pair' = [pair EXCEPT !.tries = t]
              BY <5>1, <6>1
            <6>3. QED
              BY <1>2, <1>9, <5>1, <6>2
          <5>2. CASE /\ stats' = [stats EXCEPT !.unpaired = @ + 1]
                     /\ pair' = [pair EXCEPT !.pc = Stop(pair), !.reference = NoSlot]
            <6>1. PICK u \in Nat : u = stats.unpaired + 1
              BY <1>2
            <6>2. stats' = [stats EXCEPT !.unpaired = u]
              BY <5>2, <6>1
            <6>3. stats' \in StatsType
              BY <1>2, <6>2
            <6>4. pair' \in PairType
              BY <1>9, <5>2
            <6>5. QED
              BY <6>3, <6>4
          <5>3. QED
            BY <4>1, <5>1, <5>2 DEF NoPartner
        <4>2. CASE PairDrops \/ PairEnds
          BY <1>2, <1>9, <4>2 DEF PairDrops, PairEnds
        <4>3. QED
          BY <2>4, <4>1, <4>2
      <3>2. UNCHANGED <<leased, pairsMade, faults>>
        BY <2>4 DEF NoPartner, PairDrops, PairEnds
      <3>3. QED
        BY <1>1, <1>3, <3>1, <3>2 DEF WorkerTypes
    <2>5. QED
      BY <1>3, <2>1, <2>2, <2>3, <2>4 DEF PairStep
  <1>4. CASE PairThrows
    <2>1. leased' \in LeasedType
      <3>1. leased' = [leased EXCEPT !.failed = @ + 1]
        BY <1>4 DEF PairThrows
      <3>2. QED
        BY <1>9, <3>1
    <2>2. pair' \in PairType
      <3>1. pair' = [pair EXCEPT !.pc = Stop(pair), !.reference = NoSlot]
        BY <1>4 DEF PairThrows
      <3>2. QED
        BY <1>9, <3>1
    <2>3. stats' \in StatsType /\ faults' \in Nat
      BY <1>2, <1>4 DEF PairThrows, Fault
    <2>4. UNCHANGED <<transform, pairsMade, transformed>>
      BY <1>4 DEF PairThrows
    <2>5. QED
      BY <1>1, <2>1, <2>2, <2>3, <2>4 DEF WorkerTypes
  <1>5. CASE TransformStep \/ TransformThrows \/ StopTransform
    <2>1. UNCHANGED <<pair, stats, leased, pairsMade>> /\ faults' \in Nat
      BY <1>2, <1>5 DEF TransformStep, TransformThrows, StopTransform, TransformLeases, TransformAcquires,
         TransformPublishes, TransformDrops, TransformEnds, Fault
    <2>2. transform' \in TransformType
      <3>1. CASE TransformLeases
        BY <1>1, <1>2, <3>1 DEF TransformLeases, WorkerTypes
      <3>2. CASE TransformAcquires
        <4>1. Claimed("reference") \in 0 .. Depth
          BY <1>1, <3>2, ClaimedIsFree DEF TransformAcquires
        <4>2. QED
          BY <1>9, <3>2, <4>1 DEF TransformAcquires
      <3>3. CASE TransformThrows \/ TransformPublishes \/ TransformEnds \/ StopTransform
        BY <1>9, <3>3 DEF TransformThrows, TransformPublishes, TransformEnds, StopTransform
      <3>4. CASE TransformDrops
        <4>1. LastSeen(transform.in) \in Nat
          BY <1>1, <1>2, <3>4 DEF TransformDrops, TransformSide, Leasing, LastSeen
        <4>2. QED
          BY <1>9, <3>4, <4>1 DEF TransformDrops
      <3>5. QED
        BY <1>5, <3>1, <3>2, <3>3, <3>4 DEF TransformStep
    <2>3. transformed' \in Seq(Nat)
      <3>1. CASE transformed' = transformed
        BY <1>1, <3>1 DEF WorkerTypes
      <3>2. CASE TransformDrops /\ transformed' = Append(transformed, slots["in"][transform.in].stamp)
        <4>1. PICK f \in Nat : f = slots["in"][transform.in].stamp
          BY <1>1, <1>2, <3>2 DEF TransformDrops, TransformSide, Leasing
        <4>2. QED
          BY <1>1, <3>2, <4>1, AppendProperties DEF WorkerTypes
      <3>3. QED
        BY <1>5, <3>1, <3>2 DEF TransformStep, TransformThrows, StopTransform, TransformLeases, TransformAcquires,
           TransformPublishes, TransformDrops, TransformEnds
    <2>4. QED
      BY <1>1, <2>1, <2>2, <2>3 DEF WorkerTypes
  <1>6. CASE StopPair
    BY <1>1, <1>6 DEF StopPair, WorkerTypes
  <1>7. CASE UNCHANGED <<transform, pair, stats, leased, pairsMade, transformed, faults>>
    BY <1>1, <1>7 DEF WorkerTypes
  <1>8. QED
    BY <1>3, <1>4, <1>5, <1>6, <1>7 DEF RingPairNext, Supply, Announce, PairStep, PairLeases, PairCounts, FindPartner,
       NoPartner, PairDrops, PairEnds, ringPairVars
\* A worker does nothing to the holds of the other one.
LEMMA HoldsOfOthers ==
  ASSUME RingHold, [RingPairNext]_ringPairVars, NEW r \in Rings, NEW i
  PROVE  /\ transform' = transform /\ <<"transform", i>> \in holds[r] => <<"transform", i>> \in holds'[r]
         /\ pair' = pair /\ <<"pair", i>> \in holds[r] => <<"pair", i>> \in holds'[r]
  <1>1. holds \in [Rings -> SUBSET HoldSet] /\ Rings = {"in", "reference", "other"}
    BY DEF RingHold, RingTypes, Rings
  <1>2. CASE holds' = holds
    BY <1>2
  <1>3. CASE \E q \in Rings : \E h : holds' = [holds EXCEPT ![q] = @ \cup {h}]
    BY <1>1, <1>3
  <1>4. CASE TransformThrows \/ TransformPublishes \/ TransformDrops
    <2>1. transform'.pc # transform.pc
      <3>1. transform \in TransformType /\ Stop(transform) \in {"step", "exited"}
        BY DEF RingHold, WorkerTypes, Stop
      <3>2. CASE TransformThrows
        BY <3>1, <3>2 DEF TransformThrows, TransformType
      <3>3. CASE TransformPublishes
        BY <3>1, <3>3 DEF TransformPublishes, TransformType
      <3>4. CASE TransformDrops
        BY <3>1, <3>4 DEF TransformDrops, TransformType
      <3>5. QED
        BY <1>4, <3>2, <3>3, <3>4
    <2>2. \A q \in Rings : holds'[q] = holds[q] \/ holds'[q] = {h \in holds[q] : h[1] # "transform"}
      BY <1>1, <1>4 DEF TransformThrows, TransformPublishes, TransformDrops, OutOf
    <2>3. QED
      BY <2>1, <2>2
  <1>5. CASE PairThrows \/ PairDrops \/ NoPartner
    <2>1. CASE holds' = holds
      BY <2>1
    <2>2. CASE holds' = OutOf(pair, "pair") /\ pair'.pc # pair.pc
      <3>1. \A q \in Rings : holds'[q] = {h \in holds[q] : h[1] # "pair"}
        BY <2>2 DEF OutOf
      <3>2. QED
        BY <2>2, <3>1
    <2>3. QED
      <3>1. pair \in PairType /\ Stop(pair) \in {"step", "exited"}
        BY DEF RingHold, WorkerTypes, Stop
      <3>2. CASE PairThrows
        BY <2>2, <3>1, <3>2 DEF PairThrows, PairType
      <3>3. CASE PairDrops
        BY <2>2, <3>1, <3>3 DEF PairDrops, PairType
      <3>4. CASE NoPartner
        BY <2>1, <2>2, <3>1, <3>4 DEF NoPartner, PairType
      <3>5. QED
        BY <1>5, <3>2, <3>3, <3>4
  <1>6. QED
    BY <1>1, <1>2, <1>3, <1>4, <1>5 DEF RingPairNext, Supply, Announce, TransformStep, TransformLeases,
       TransformAcquires, TransformEnds, PairStep, PairLeases, PairCounts, FindPartner, PairEnds, StopTransform,
       StopPair, ringPairVars, ringVars
\* A lease that goes on has its frame.
LEMMA LeaseKept ==
  ASSUME RingHold, [RingPairNext]_ringPairVars, NEW r \in Rings, NEW w \in Workers, NEW i, Leasing(r, w, i),
         <<w, i>> \in holds'[r], ~(r = "reference" /\ transform.pc = "enqueue" /\ i = transform.out)
  PROVE  Leasing(r, w, i)' /\ slots'[r][i] = slots[r][i]
  <1>1. i \in 1 .. Depth /\ Held(r, i)
    BY DEF Leasing, Held
  <1>2. slots'[r][i] = slots[r][i]
    BY <1>1, SlotKept
  <1>3. QED
    BY <1>1, <1>2 DEF Leasing

\* The reference ring's count moves with a publication only.
LEMMA ReferenceCount ==
  ASSUME RingHold, [RingPairNext]_ringPairVars
  PROVE  /\ Publications("reference") \in Nat
         /\ \/ /\ Publications("reference")' = Publications("reference")
               /\ latest'["reference"] = latest["reference"]
            \/ /\ TransformPublishes
               /\ Publications("reference")' = Publications("reference") + 1
               /\ latest'["reference"] = transform.out
  <1>1. "reference" \in Rings /\ Depth \in Nat /\ RingTypes
    BY RingPairAssumption DEF Rings, RingHold
  <1>2. /\ latest \in [Rings -> 0 .. Depth] /\ slots["reference"] \in [1 .. Depth -> [n : Nat, stamp : Nat]]
        /\ latest["reference"] \in 0 .. Depth
    BY <1>1 DEF RingTypes
  <1>3. latest["reference"] # 0 => latest["reference"] \in 1 .. Depth
    BY <1>1, <1>2
  <1>4. Publications("reference") \in Nat
    BY <1>2, <1>3 DEF Publications, Newest, NoSlot
  <1>5. CASE TransformPublishes
    <2>1. PICK c \in 1 .. Depth, n \in Nat, stamp \in Nat :
            /\ c = transform.out /\ n = Publications("reference") + 1
            /\ WriteTo("reference", c, n, stamp) /\ latest' = [latest EXCEPT !["reference"] = c]
      BY <1>5, TransformPublishWrites DEF WriteTo
    <2>2. slots'["reference"][c].n = n
      BY <1>1, <2>1, SlotsAfter
    <2>3. latest'["reference"] = c /\ c # 0
      BY <1>1, <1>2, <2>1
    <2>4. QED
      BY <1>4, <1>5, <2>1, <2>2, <2>3 DEF Publications, Newest, NoSlot
  <1>6. CASE ~TransformPublishes
    <2>1. latest'["reference"] = latest["reference"]
      <3>1. ASSUME NEW s \in Streams, Supply(s) PROVE latest'["reference"] = latest["reference"]
        BY <1>1, <1>2, <3>1 DEF Supply, PublishIn, RingOf
      <3>2. CASE UNCHANGED latest
        BY <3>2
      <3>3. QED
        BY <1>6, <3>1, <3>2 DEF RingPairNext, Announce, TransformStep, TransformLeases, TransformAcquires,
           TransformDrops, TransformEnds, TransformThrows, PairStep, PairLeases, PairCounts, FindPartner, NoPartner,
           PairDrops, PairEnds, PairThrows, StopTransform, StopPair, ringPairVars, ringVars
    <2>2. CASE latest["reference"] = 0
      BY <1>4, <2>1, <2>2 DEF Publications, NoSlot
    <2>3. CASE latest["reference"] # 0
      <3>1. PICK i \in 1 .. Depth : i = latest["reference"]
        BY <1>3, <2>3
      <3>2. ~(transform.pc = "enqueue" /\ i = transform.out)
        BY <3>1 DEF RingHold, TransformSide
      <3>3. slots'["reference"][i] = slots["reference"][i]
        BY <1>1, <3>1, <3>2, SlotKept
      <3>4. QED
        BY <1>4, <2>1, <2>3, <3>1, <3>3 DEF Publications, Newest, NoSlot
    <2>4. QED
      BY <2>2, <2>3
  <1>7. QED
    BY <1>5, <1>6

LEMMA ReferenceCountedKept ==
  ASSUME RingHold, [RingPairNext]_ringPairVars
  PROVE  ReferenceCounted'
  <1>1. "reference" \in Rings /\ RingTypes /\ ReferenceCounted
    BY DEF Rings, RingHold
  <1>2. /\ Publications("reference") \in Nat /\ Publications("reference")' \in Nat
        /\ Publications("reference")' >= Publications("reference")
        /\ latest'["reference"] # 0 => Publications("reference")' # 0
    BY <1>1, ReferenceCount DEF ReferenceCounted
  <1>3. ASSUME NEW i \in 1 .. Depth PROVE slots'["reference"][i].n <= Publications("reference")'
    <2>1. slots["reference"][i].n \in Nat /\ slots["reference"][i].n <= Publications("reference")
      BY <1>1 DEF RingTypes, ReferenceCounted
    <2>2. CASE slots'["reference"][i] = slots["reference"][i]
      BY <1>2, <2>1, <2>2
    <2>3. CASE slots'["reference"][i] # slots["reference"][i]
      <3>1. CASE TransformPublishes
        <4>1. PICK q, c, n, stamp :
                /\ q \in Rings
                /\ q = "reference" /\ n = Publications("reference") + 1 /\ WriteTo(q, c, n, stamp)
          BY <1>1, <3>1, TransformPublishWrites
        <4>2. OnlySlot(q, c) /\ slots'[q][c].n = n
          BY <1>1, <4>1, SlotsAfter
        <4>3. c = i
          BY <2>3, <4>1, <4>2 DEF OnlySlot
        <4>4. Publications("reference")' = n
          <5>1. Publications("reference")' = Publications("reference") + 1
            <6>1. latest'["reference"] = transform.out /\ slots'["reference"][transform.out].n = n /\ transform.out # 0
              <7>1. PICK d \in 1 .. Depth : d = transform.out
                BY <3>1 DEF RingHold, TransformSide, TransformPublishes
              <7>2. latest' = [latest EXCEPT !["reference"] = d] /\ latest \in [Rings -> 0 .. Depth]
                BY <1>1, <3>1, <7>1, TransformPublishWrites DEF RingTypes
              <7>3. PICK stamp2 : WriteTo("reference", d, n, stamp2)
                BY <3>1, <4>1, <7>1, TransformPublishWrites
              <7>4. slots'["reference"][d].n = n
                BY <1>1, <7>3, SlotsAfter
              <7>5. QED
                BY <1>1, <7>1, <7>2, <7>4
            <6>2. QED
              BY <4>1, <6>1 DEF Publications, Newest, NoSlot
          <5>2. QED
            BY <4>1, <5>1
        <4>5. QED
          BY <1>2, <4>1, <4>2, <4>3, <4>4
      <3>2. CASE TransformThrows
        <4>1. PICK q, c, n, stamp : q \in Rings /\ q = "reference" /\ n = 0 /\ (slots' = slots \/ WriteTo(q, c, n, stamp))
          BY <1>1, <3>2, TransformThrowWrites
        <4>2. WriteTo(q, c, n, stamp)
          BY <2>3, <4>1
        <4>3. OnlySlot(q, c) /\ slots'[q][c].n = n
          BY <1>1, <4>1, <4>2, SlotsAfter
        <4>4. c = i
          BY <2>3, <4>1, <4>3 DEF OnlySlot
        <4>5. QED
          BY <1>2, <4>1, <4>3, <4>4
      <3>3. ASSUME NEW s \in Streams, Supply(s) PROVE FALSE
        <4>1. PICK q, c, n, stamp : q \in Rings /\ q = RingOf(s) /\ WriteTo(q, c, n, stamp)
          BY <1>1, <3>3, SupplyWrites
        <4>2. OnlySlot(q, c) /\ q # "reference"
          BY <1>1, <4>1, SlotsAfter DEF RingOf
        <4>3. QED
          BY <1>1, <2>3, <4>2 DEF OnlySlot
      <3>4. slots' # slots
        BY <2>3
      <3>5. QED
        BY <3>1, <3>2, <3>3, <3>4 DEF RingPairNext, Announce, TransformStep, TransformLeases, TransformAcquires,
           TransformDrops, TransformEnds, PairStep, PairLeases, PairCounts, FindPartner, NoPartner,
           PairDrops, PairEnds, PairThrows, StopTransform, StopPair, ringPairVars, ringVars
    <2>4. QED
      BY <2>2, <2>3
  <1>4. QED
    BY <1>2, <1>3 DEF ReferenceCounted
\* What a step does to a slot of the reference ring.
LEMMA ReferenceSlots ==
  ASSUME RingHold, [RingPairNext]_ringPairVars, NEW i \in 1 .. Depth
  PROVE  \/ slots'["reference"][i] = slots["reference"][i]
         \/ slots'["reference"][i].n = 0
         \/ /\ TransformPublishes /\ slots'["reference"][i].n = Publications("reference") + 1
            /\ slots'["reference"][i].stamp = slots["in"][transform.in].stamp
  <1>1. "reference" \in Rings /\ RingTypes
    BY DEF Rings, RingHold
  <1>2. SUFFICES ASSUME slots'["reference"][i] # slots["reference"][i]
                 PROVE  \/ slots'["reference"][i].n = 0
                        \/ /\ TransformPublishes /\ slots'["reference"][i].n = Publications("reference") + 1
                           /\ slots'["reference"][i].stamp = slots["in"][transform.in].stamp
    OBVIOUS
  <1>3. CASE TransformPublishes
    <2>1. PICK q, c, n, stamp :
            /\ q \in Rings
            /\ q = "reference" /\ n = Publications("reference") + 1 /\ stamp = slots["in"][transform.in].stamp
            /\ WriteTo(q, c, n, stamp)
      BY <1>1, <1>3, TransformPublishWrites
    <2>2. OnlySlot(q, c) /\ slots'[q][c].n = n /\ slots'[q][c].stamp = stamp
      BY <1>1, <2>1, SlotsAfter
    <2>3. c = i
      BY <1>2, <2>1, <2>2 DEF OnlySlot
    <2>4. QED
      BY <1>3, <2>1, <2>2, <2>3
  <1>4. CASE TransformThrows
    <2>1. PICK q, c, n, stamp : q \in Rings /\ q = "reference" /\ n = 0 /\ (slots' = slots \/ WriteTo(q, c, n, stamp))
      BY <1>1, <1>4, TransformThrowWrites
    <2>2. WriteTo(q, c, n, stamp)
      BY <1>2, <2>1
    <2>3. OnlySlot(q, c) /\ slots'[q][c].n = n
      BY <1>1, <2>1, <2>2, SlotsAfter
    <2>4. c = i
      BY <1>2, <2>1, <2>3 DEF OnlySlot
    <2>5. QED
      BY <2>1, <2>3, <2>4
  <1>5. ASSUME NEW s \in Streams, Supply(s) PROVE FALSE
    <2>1. PICK q, c, n, stamp : q \in Rings /\ q = RingOf(s) /\ WriteTo(q, c, n, stamp)
      BY <1>1, <1>5, SupplyWrites
    <2>2. OnlySlot(q, c) /\ q # "reference"
      BY <1>1, <2>1, SlotsAfter DEF RingOf
    <2>3. QED
      BY <1>1, <1>2, <2>2 DEF OnlySlot
  <1>6. slots' # slots
    BY <1>2
  <1>7. QED
    BY <1>3, <1>4, <1>5, <1>6 DEF RingPairNext, Announce, TransformStep, TransformLeases, TransformAcquires,
       TransformDrops, TransformEnds, PairStep, PairLeases, PairCounts, FindPartner, NoPartner,
       PairDrops, PairEnds, PairThrows, StopTransform, StopPair, ringPairVars, ringVars

LEMMA SuppliesKept ==
  ASSUME RingHold, [RingPairNext]_ringPairVars
  PROVE  Supplies'
  <1>1. RingTypes /\ Supplies /\ Depth \in Nat /\ Left \in Streams /\ Right \in Streams
        /\ {"in", "other"} \subseteq Rings /\ Streams = {Left, Right} /\ Left # Right
    BY RingPairAssumption, StreamsCounted DEF RingHold, Rings, Left, Right
  <1>2. ASSUME NEW s \in Streams PROVE SuppliedRing(RingOf(s), s)'
    <2>1. PICK r \in Rings : r = RingOf(s) /\ r # "reference"
      BY <1>1 DEF RingOf
    <2>2. SuppliedRing(r, s)
      BY <1>1, <2>1 DEF Supplies, RingOf
    <2>3. /\ supplied[s] \in Nat /\ latest[r] \in 0 .. Depth /\ slots[r] \in [1 .. Depth -> [n : Nat, stamp : Nat]]
          /\ latest \in [Rings -> 0 .. Depth] /\ supplied \in [Streams -> Nat]
      BY <1>1 DEF RingTypes
    <2>4. CASE /\ \A i \in 1 .. Depth : slots'[r][i] = slots[r][i]
               /\ latest'[r] = latest[r] /\ supplied'[s] = supplied[s]
      <3>1. latest[r] # 0 => slots'[r][latest[r]] = slots[r][latest[r]]
        BY <1>1, <2>3, <2>4
      <3>2. SuppliedRing(r, s)'
        BY <2>2, <2>4, <3>1 DEF SuppliedRing
      <3>3. QED
        BY <2>1, <3>2
    <2>5. CASE Supply(s)
      <3>1. PICK c \in 1 .. Depth, n \in Nat, stamp \in Nat :
              /\ n = Publications(r) + 1 /\ stamp = Shots[s][supplied[s] + 1] /\ WriteTo(r, c, n, stamp)
              /\ latest' = [latest EXCEPT ![r] = c] /\ supplied' = [supplied EXCEPT ![s] = @ + 1]
        BY SMTT(30), <1>1, <2>1, <2>5, SupplyWrites DEF WriteTo
      <3>2. OnlySlot(r, c) /\ slots'[r][c].n = n /\ slots'[r][c].stamp = stamp
        BY <1>1, <3>1, SlotsAfter
      <3>3. n = supplied[s] + 1
        BY <2>2, <2>3, <3>1 DEF SuppliedRing, Publications, Newest, NoSlot
      <3>4. latest'[r] = c /\ supplied'[s] = supplied[s] + 1
        BY <2>3, <3>1
      <3>5. ASSUME NEW i \in 1 .. Depth, slots'[r][i].n # 0
            PROVE  slots'[r][i].n \in 1 .. supplied'[s] /\ slots'[r][i].stamp = Shots[s][slots'[r][i].n]
        <4>1. CASE i = c
          BY <2>3, <3>1, <3>2, <3>3, <3>4, <4>1
        <4>2. CASE i # c
          <5>1. slots'[r][i] = slots[r][i]
            BY <3>2, <4>2 DEF OnlySlot
          <5>2. slots[r][i].n \in 1 .. supplied[s] /\ slots[r][i].stamp = Shots[s][slots[r][i].n]
            BY <2>2, <3>5, <5>1 DEF SuppliedRing
          <5>3. QED
            BY <2>3, <3>4, <5>1, <5>2
        <4>3. QED
          BY <4>1, <4>2
      <3>6. latest'[r] # 0 /\ slots'[r][latest'[r]].n = supplied'[s] /\ supplied'[s] > 0
        BY <2>3, <3>1, <3>2, <3>3, <3>4
      <3>7. SuppliedRing(r, s)'
        BY <3>5, <3>6 DEF SuppliedRing
      <3>8. QED
        BY <2>1, <3>7
    <2>6. ASSUME NEW p \in Streams, Supply(p), p # s
          PROVE  /\ \A i \in 1 .. Depth : slots'[r][i] = slots[r][i]
                 /\ latest'[r] = latest[r] /\ supplied'[s] = supplied[s]
      <3>1. PICK q, c, n, stamp :
              /\ q \in Rings /\ c \in 1 .. Depth
              /\ q = RingOf(p) /\ WriteTo(q, c, n, stamp)
              /\ latest' = [latest EXCEPT ![q] = c] /\ supplied' = [supplied EXCEPT ![p] = @ + 1]
        BY <1>1, <2>6, SupplyWrites DEF WriteTo
      <3>2. q # r
        BY <1>1, <2>1, <2>6, <3>1 DEF RingOf
      <3>3. OnlySlot(q, c) /\ slots' \in [Rings -> [1 .. Depth -> [n : Nat, stamp : Nat]]]
        BY <1>1, <3>1, SlotsAfter
      <3>4. \A i \in 1 .. Depth : slots'[r][i] = slots[r][i]
        BY <3>2, <3>3 DEF OnlySlot
      <3>5. QED
        BY <2>3, <2>6, <3>1, <3>2, <3>4
    <2>7. CASE TransformPublishes \/ TransformThrows
      <3>1. PICK q, c, n, stamp :
              /\ q \in Rings
              /\ q = "reference" /\ (slots' = slots \/ WriteTo(q, c, n, stamp))
        BY <1>1, <2>7, TransformPublishWrites, TransformThrowWrites DEF Rings
      <3>2. CASE WriteTo(q, c, n, stamp)
        <4>1. OnlySlot(q, c) /\ slots' \in [Rings -> [1 .. Depth -> [n : Nat, stamp : Nat]]]
          BY <1>1, <3>1, <3>2, SlotsAfter
        <4>2. QED
          <5>1. \A i \in 1 .. Depth : slots'[r][i] = slots[r][i]
            BY <2>1, <3>1, <4>1 DEF OnlySlot
          <5>2. latest'[r] = latest[r] /\ supplied' = supplied
            BY <2>1, <2>3, <2>7, TransformPublishWrites, TransformThrowWrites
          <5>3. QED
            BY <2>4, <5>1, <5>2
      <3>3. CASE slots' = slots
        <4>1. latest'[r] = latest[r] /\ supplied' = supplied
          BY <2>1, <2>3, <2>7, TransformPublishWrites, TransformThrowWrites
        <4>2. QED
          BY <2>4, <3>3, <4>1
      <3>4. QED
        BY <3>1, <3>2, <3>3
    <2>8. CASE UNCHANGED <<slots, latest, supplied>>
      BY <2>4, <2>8
    <2>9. QED
      BY <2>4, <2>5, <2>6, <2>7, <2>8 DEF RingPairNext, Announce, TransformStep, TransformLeases, TransformAcquires,
         TransformDrops, TransformEnds, PairStep, PairLeases, PairCounts, FindPartner, NoPartner,
         PairDrops, PairEnds, PairThrows, StopTransform, StopPair, ringPairVars, ringVars
  <1>3. QED
    <2>1. RingOf(Left) = "in" /\ RingOf(Right) = "other"
      BY <1>1 DEF RingOf
    <2>2. SuppliedRing("in", Left)' /\ SuppliedRing("other", Right)'
      BY <1>1, <1>2, <2>1
    <2>3. QED
      BY <2>2 DEF Supplies
LEMMA TransformSideKept ==
  ASSUME RingHold, [RingPairNext]_ringPairVars
  PROVE  TransformSide' /\ transform'.last <= supplied'[Left]
  <1>1. /\ RingTypes /\ TransformSide /\ PairSide /\ Supplies /\ transform \in TransformType /\ Depth \in Nat
        /\ Left \in Streams /\ {"in", "other", "reference"} \subseteq Rings /\ "transform" \in Workers
        /\ transform.last <= supplied[Left]
    BY RingPairAssumption, StreamsCounted DEF RingHold, WorkerTypes, Rings, Left, Workers
  <1>2. supplied[Left] \in Nat /\ supplied'[Left] \in Nat /\ supplied'[Left] >= supplied[Left]
    <2>1. supplied \in [Streams -> Nat] /\ supplied' \in [Streams -> Nat]
      BY RingTypesKept DEF RingHold, RingTypes
    <2>2. supplied' = supplied \/ \E s \in Streams : supplied' = [supplied EXCEPT ![s] = @ + 1]
      BY DEF RingPairNext, Supply, Announce, TransformStep, TransformLeases, TransformAcquires, TransformPublishes,
       TransformDrops, TransformEnds, PairStep, PairLeases, PairCounts, FindPartner, NoPartner, TransformThrows,
       PairDrops, PairEnds, PairThrows, StopTransform, StopPair, ringPairVars, ringVars
    <2>3. QED
      BY <1>1, <2>1, <2>2
  <1>3. slots["in"] \in [1 .. Depth -> [n : Nat, stamp : Nat]] /\ transform.last \in Nat
    BY <1>1 DEF RingTypes, TransformType
  <1>4. latest'["reference"] = latest["reference"] \/ TransformPublishes
    BY ReferenceCount
  <1>5. ASSUME transform.pc \in {"acquire", "enqueue", "drop"}, <<"transform", transform.in>> \in holds'["in"]
        PROVE  /\ transform.in \in 1 .. Depth /\ slots'["in"][transform.in].n # 0
               /\ slots'["in"][transform.in].n > transform.last
    <2>1. Leasing("in", "transform", transform.in) /\ slots["in"][transform.in].n > transform.last
      BY <1>1, <1>5 DEF TransformSide
    <2>2. PICK q, w, i : q \in Rings /\ w \in Workers /\ q = "in" /\ w = "transform" /\ i = transform.in
      BY <1>1
    <2>3. Leasing(q, w, i) /\ <<w, i>> \in holds'[q]
      BY <1>5, <2>1, <2>2
    <2>4. i \in 1 .. Depth /\ slots'[q][i] = slots[q][i]
      BY <2>2, <2>3, LeaseKept DEF Leasing
    <2>5. QED
      BY <1>5, <2>1, <2>2, <2>4 DEF Leasing
  <1>6. CASE transform' = transform
    <2>1. \A r \in Rings : \A i : <<"transform", i>> \in holds[r] => <<"transform", i>> \in holds'[r]
      BY <1>6, HoldsOfOthers
    <2>2. ASSUME transform.pc \in {"acquire", "enqueue", "drop"}
          PROVE  /\ transform.in \in 1 .. Depth /\ <<"transform", transform.in>> \in holds'["in"]
                 /\ slots'["in"][transform.in].n # 0 /\ slots'["in"][transform.in].n > transform.last
      <3>1. <<"transform", transform.in>> \in holds["in"]
        BY <1>1, <2>2 DEF TransformSide, Leasing
      <3>2. QED
        BY <1>1, <1>5, <2>1, <2>2, <3>1
    <2>3. ASSUME transform.pc = "enqueue"
          PROVE  /\ transform.out \in 1 .. Depth /\ <<"transform", transform.out>> \in holds'["reference"]
                 /\ transform.out # latest'["reference"]
      <3>1. latest'["reference"] = latest["reference"]
        <4>1. TransformPublishes => transform'.pc # transform.pc
          BY <1>1 DEF TransformPublishes, TransformType
        <4>2. QED
          BY <1>4, <1>6, <4>1
      <3>2. QED
        BY <1>1, <2>1, <2>3, <3>1 DEF TransformSide
    <2>4. TransformSide'
      BY <1>6, <2>2, <2>3 DEF TransformSide, Leasing
    <2>5. QED
      BY <1>1, <1>2, <1>3, <1>6, <2>4
  <1>7. CASE TransformLeases
    <2>1. /\ transform' = [transform EXCEPT !.pc = "acquire", !.in = latest["in"]]
          /\ holds' = [holds EXCEPT !["in"] = @ \cup {<<"transform", latest["in"]>>}] /\ slots' = slots
          /\ latest["in"] # 0 /\ slots["in"][latest["in"]].n # transform.last /\ supplied' = supplied
      BY <1>7 DEF TransformLeases, New, NoSlot, Newest
    <2>2. PICK i \in 1 .. Depth : i = latest["in"]
      BY <1>1, <2>1 DEF RingTypes
    <2>3. slots["in"][i].n = supplied[Left] /\ supplied[Left] > 0
      BY <1>1, <2>1, <2>2 DEF Supplies, SuppliedRing
    <2>4. transform' = [transform EXCEPT !.pc = "acquire", !.in = i]
      BY <2>1, <2>2
    <2>5. transform'.pc = "acquire" /\ transform'.in = i /\ transform'.last = transform.last
      BY <1>1, <2>4 DEF TransformType
    <2>6. <<"transform", i>> \in holds'["in"]
      BY <1>1, <2>1, <2>2 DEF RingTypes
    <2>7. slots'["in"][i].n # 0 /\ slots'["in"][i].n > transform.last
      BY <1>1, <1>2, <1>3, <2>1, <2>2, <2>3
    <2>8. QED
      BY <1>1, <2>1, <2>2, <2>5, <2>6, <2>7 DEF TransformSide, Leasing
  <1>8. CASE TransformAcquires
    <2>1. PICK c : c = Claimed("reference")
      OBVIOUS
    <2>2. c \in 1 .. Depth /\ Claimable("reference", c)
      BY <1>1, <1>8, <2>1, ClaimedIsFree DEF TransformAcquires
    <2>3. /\ transform' = [transform EXCEPT !.pc = "enqueue", !.out = c] /\ transform.pc = "acquire"
          /\ holds' = [holds EXCEPT !["reference"] = @ \cup {<<"transform", c>>}] /\ slots' = slots
          /\ latest' = latest /\ supplied' = supplied
      BY <1>8, <2>1 DEF TransformAcquires
    <2>4. /\ transform'.pc = "enqueue" /\ transform'.in = transform.in /\ transform'.last = transform.last
          /\ transform'.out = c
      BY <1>1, <2>3 DEF TransformType
    <2>5. holds'["in"] = holds["in"] /\ <<"transform", c>> \in holds'["reference"]
      BY <1>1, <2>3 DEF RingTypes
    <2>6. Leasing("in", "transform", transform.in) /\ slots["in"][transform.in].n > transform.last
      BY <1>1, <2>3 DEF TransformSide
    <2>7. QED
      BY <1>1, <2>2, <2>3, <2>4, <2>5, <2>6 DEF TransformSide, Leasing, Claimable
  <1>9. CASE TransformPublishes
    <2>1. transform' = [transform EXCEPT !.pc = "drop", !.out = NoSlot] /\ transform.pc = "enqueue"
          /\ holds' = [holds EXCEPT !["reference"] = {h \in @ : h[1] # "transform"}] /\ supplied' = supplied
      BY <1>9 DEF TransformPublishes
    <2>2. transform'.pc = "drop" /\ transform'.in = transform.in /\ transform'.last = transform.last
      BY <1>1, <2>1 DEF TransformType
    <2>3. <<"transform", transform.in>> \in holds'["in"]
      BY <1>1, <2>1 DEF RingTypes, TransformSide, Leasing
    <2>4. /\ transform.in \in 1 .. Depth /\ slots'["in"][transform.in].n # 0
          /\ slots'["in"][transform.in].n > transform.last
      BY <1>5, <2>1, <2>3
    <2>5. QED
      BY <1>1, <2>1, <2>2, <2>3, <2>4 DEF TransformSide, Leasing
  <1>10. CASE TransformThrows \/ TransformEnds \/ TransformDrops
    <2>1. Stop(transform) \in {"step", "exited"}
      BY DEF Stop
    <2>2. transform'.pc \in {"step", "exited"}
      <3>1. CASE TransformThrows
        BY <1>1, <2>1, <3>1 DEF TransformThrows, TransformType
      <3>2. CASE TransformEnds
        BY <1>1, <3>2 DEF TransformEnds, TransformType
      <3>3. CASE TransformDrops
        BY <1>1, <2>1, <3>3 DEF TransformDrops, TransformType
      <3>4. QED
        BY <1>10, <3>1, <3>2, <3>3
    <2>3. transform'.last <= supplied'[Left]
      <3>1. CASE transform'.last = transform.last
        BY <1>1, <1>2, <1>3, <3>1
      <3>2. CASE TransformDrops /\ transform'.last # transform.last
        <4>1. transform' = [transform EXCEPT !.pc = Stop(transform), !.in = NoSlot, !.last = LastSeen(transform.in)]
          BY <1>1, <3>2 DEF TransformDrops, TransformType
        <4>2. transform'.last = slots["in"][transform.in].n
          BY <1>1, <4>1 DEF LastSeen, TransformType
        <4>3. transform.in \in 1 .. Depth /\ slots["in"][transform.in].n # 0
          BY <1>1, <3>2 DEF TransformDrops, TransformSide, Leasing
        <4>4. slots["in"][transform.in].n <= supplied[Left]
          BY <1>1, <1>2, <4>3 DEF Supplies, SuppliedRing
        <4>5. supplied' = supplied
          BY <3>2 DEF TransformDrops
        <4>6. QED
          BY <4>2, <4>4, <4>5
      <3>3. TransformThrows \/ TransformEnds => transform'.last = transform.last
        BY <1>1 DEF TransformThrows, TransformEnds, TransformType
      <3>4. QED
        BY <1>10, <3>1, <3>2, <3>3
    <2>4. QED
      BY <2>2, <2>3 DEF TransformSide
  <1>11. CASE StopTransform
    <2>1. /\ transform'.pc = transform.pc /\ transform'.in = transform.in /\ transform'.last = transform.last
          /\ transform'.out = transform.out
      BY <1>1, <1>11 DEF StopTransform, TransformType
    <2>2. UNCHANGED <<slots, holds, latest, supplied>>
      BY <1>11 DEF StopTransform, ringVars
    <2>3. QED
      BY <1>1, <2>1, <2>2 DEF TransformSide, Leasing
  <1>12. QED
    BY <1>6, <1>7, <1>8, <1>9, <1>10, <1>11 DEF RingPairNext, Supply, Announce, TransformStep, PairStep, PairLeases,
       PairCounts, FindPartner, NoPartner, PairDrops, PairEnds, PairThrows, StopPair, ringPairVars
\* What the pair consumer has of the reference ring.
ReferenceAt(i) ==
  Leasing("reference", "pair", i) /\ (transform.pc = "enqueue" => i # transform.out)

LEMMA ReferenceKept ==
  ASSUME RingHold, [RingPairNext]_ringPairVars, NEW i, ReferenceAt(i), <<"pair", i>> \in holds'["reference"]
  PROVE  ReferenceAt(i)' /\ slots'["reference"][i] = slots["reference"][i]
  <1>1. "reference" \in Rings /\ "pair" \in Workers /\ transform \in TransformType
    BY DEF Rings, Workers, RingHold, WorkerTypes
  <1>2. PICK r \in Rings, w \in Workers : r = "reference" /\ w = "pair"
    BY <1>1
  <1>3. Leasing(r, w, i) /\ <<w, i>> \in holds'[r] /\ ~(r = "reference" /\ transform.pc = "enqueue" /\ i = transform.out)
    BY <1>2 DEF ReferenceAt
  <1>4. Leasing(r, w, i)' /\ slots'[r][i] = slots[r][i]
    BY <1>3, LeaseKept
  <1>5. Leasing("reference", "pair", i)' /\ slots'["reference"][i] = slots["reference"][i]
    <2>1. i \in 1 .. Depth /\ <<w, i>> \in holds'[r] /\ slots'[r][i].n # 0
      BY <1>4 DEF Leasing
    <2>2. QED
      BY <1>2, <1>4, <2>1 DEF Leasing
  <1>6. ASSUME transform'.pc = "enqueue" PROVE i # transform'.out
    <2>1. CASE TransformAcquires
      <3>1. PICK c : c = Claimed("reference")
        OBVIOUS
      <3>2. Claimable("reference", c)
        BY <1>1, <2>1, <3>1, ClaimedIsFree DEF TransformAcquires
      <3>3. c # i
        BY <3>2 DEF Claimable, Held, ReferenceAt, Leasing
      <3>4. transform' = [transform EXCEPT !.pc = "enqueue", !.out = c]
        BY <2>1, <3>1 DEF TransformAcquires
      <3>5. QED
        BY <1>1, <3>3, <3>4 DEF TransformType
    <2>2. CASE UNCHANGED transform \/ StopTransform
      <3>1. transform'.pc = transform.pc /\ transform'.out = transform.out
        BY <1>1, <2>2 DEF StopTransform, TransformType
      <3>2. QED
        BY <1>6, <3>1 DEF ReferenceAt
    <2>3. CASE TransformLeases \/ TransformPublishes \/ TransformEnds
      BY <1>1, <1>6, <2>3 DEF TransformLeases, TransformPublishes, TransformEnds, TransformType
    <2>4. CASE TransformDrops \/ TransformThrows
      <3>1. Stop(transform) \in {"step", "exited"}
        BY DEF Stop
      <3>2. QED
        BY <1>1, <1>6, <2>4, <3>1 DEF TransformDrops, TransformThrows, TransformType
    <2>5. QED
      BY <2>1, <2>2, <2>3, <2>4 DEF RingPairNext, Supply, Announce, TransformStep, PairStep, PairLeases,
         PairCounts, FindPartner, NoPartner, PairDrops, PairEnds, PairThrows, StopPair, ringPairVars
  <1>7. QED
    BY <1>5, <1>6 DEF ReferenceAt

LEMMA PairSideKept ==
  ASSUME RingHold, [RingPairNext]_ringPairVars
  PROVE  /\ PairSide'
         /\ HasReference /\ pair'.pc # "step" /\ pair'.pc # "exited" => 
              /\ HasReference' /\ pair'.reference = pair.reference
              /\ slots'["reference"][pair.reference] = slots["reference"][pair.reference]
  <1>1. /\ RingTypes /\ PairSide /\ pair \in PairType /\ pair' \in PairType
        /\ {"in", "other", "reference"} \subseteq Rings /\ "pair" \in Workers /\ ReferenceCounted /\ TransformSide
        /\ Depth \in Nat
    BY WorkerTypesKept, RingPairAssumption DEF RingHold, WorkerTypes, Rings, Workers
  <1>2. HasReference => ReferenceAt(pair.reference)
    BY <1>1 DEF PairSide, ReferenceAt
  <1>3. CASE pair'.pc \in {"step", "exited"}
    BY <1>3 DEF PairSide, HasReference
  <1>4. ASSUME \A r \in Rings : \A i : <<"pair", i>> \in holds[r] => <<"pair", i>> \in holds'[r], HasReference, HasReference',
               pair'.reference = pair.reference,
               pair'.pc = "call" => pair.pc = "call" /\ pair'.other = pair.other
        PROVE  /\ PairSide' /\ slots'["reference"][pair.reference] = slots["reference"][pair.reference]
    <2>1. PICK i : i = pair.reference
      OBVIOUS
    <2>2. ReferenceAt(i) /\ <<"pair", i>> \in holds'["reference"]
      BY <1>1, <1>2, <1>4, <2>1 DEF ReferenceAt, Leasing
    <2>3. ReferenceAt(i)' /\ slots'["reference"][i] = slots["reference"][i]
      BY <2>2, ReferenceKept
    <2>4. ReferenceAt(pair.reference)'
      BY <1>4, <2>1, <2>3 DEF ReferenceAt, Leasing
    <2>5. ASSUME pair'.pc = "call" PROVE Leasing("other", "pair", pair.other)'
      <3>1. PICK r, w, j : r \in Rings /\ w \in Workers /\ r = "other" /\ w = "pair" /\ j = pair.other
        BY <1>1
      <3>2. Leasing(r, w, j)
        BY <1>1, <1>4, <2>5, <3>1 DEF PairSide
      <3>3. <<w, j>> \in holds'[r] /\ r # "reference"
        BY <1>4, <3>1, <3>2 DEF Leasing
      <3>4. Leasing(r, w, j)'
        BY <3>1, <3>2, <3>3, LeaseKept
      <3>5. QED
        BY <1>4, <2>5, <3>1, <3>4 DEF Leasing
    <2>6. QED
      BY <2>1, <2>3, <2>4, <2>5 DEF PairSide, ReferenceAt
  <1>5. CASE pair' = pair
    <2>1. \A r \in Rings : \A i : <<"pair", i>> \in holds[r] => <<"pair", i>> \in holds'[r]
      BY <1>5, HoldsOfOthers
    <2>2. CASE HasReference
      <3>1. HasReference'
        BY <1>5, <2>2 DEF HasReference
      <3>2. QED
        BY <1>4, <1>5, <2>1, <2>2, <3>1
    <2>3. CASE ~HasReference
      BY <1>5, <2>3 DEF HasReference, PairSide
    <2>4. QED
      BY <2>2, <2>3
  <1>6. CASE PairLeases /\ pair' # pair
    <2>1. /\ pair' = [pair EXCEPT !.pc = "count", !.reference = latest["reference"]]
          /\ holds' = [holds EXCEPT !["reference"] = @ \cup {<<"pair", latest["reference"]>>}]
          /\ slots' = slots /\ transform' = transform /\ latest["reference"] # 0 /\ pair.pc = "step"
      BY <1>6 DEF PairLeases, New, NoSlot
    <2>2. PICK i \in 1 .. Depth : i = latest["reference"]
      BY <1>1, <2>1 DEF RingTypes
    <2>3. pair' = [pair EXCEPT !.pc = "count", !.reference = i]
      BY <2>1, <2>2
    <2>4. pair'.pc = "count" /\ pair'.reference = i
      BY <1>1, <2>3 DEF PairType
    <2>5. slots["reference"][i].n # 0
      BY <1>1, <2>1, <2>2 DEF ReferenceCounted, Publications, Newest, NoSlot
    <2>6. transform.pc = "enqueue" => i # transform.out
      BY <1>1, <2>2 DEF TransformSide
    <2>7. <<"pair", i>> \in holds'["reference"]
      BY <1>1, <2>1, <2>2 DEF RingTypes
    <2>8. ~HasReference
      BY <2>1 DEF HasReference
    <2>9. QED
      BY <2>1, <2>4, <2>5, <2>6, <2>7, <2>8 DEF PairSide, HasReference, Leasing
  <1>7. CASE PairCounts
    <2>1. PICK frame : pair' = [pair EXCEPT !.pc = "partner", !.lastPublished = published, !.last = frame, !.tries = 0]
      BY <1>7 DEF PairCounts
    <2>2. pair'.pc = "partner" /\ pair'.reference = pair.reference /\ holds' = holds /\ pair.pc = "count"
      BY <1>1, <1>7, <2>1 DEF PairCounts, PairType, ringVars
    <2>3. HasReference /\ HasReference'
      BY <2>2 DEF HasReference
    <2>4. QED
      BY <1>4, <2>2, <2>3
  <1>8. CASE FindPartner
    <2>1. PICK j \in 1 .. Depth :
            /\ slots["other"][j].n # 0 /\ pair' = [pair EXCEPT !.pc = "call", !.other = j]
            /\ holds' = [holds EXCEPT !["other"] = @ \cup {<<"pair", j>>}]
      BY <1>8 DEF FindPartner, Partners, Candidates
    <2>2. pair'.pc = "call" /\ pair'.reference = pair.reference /\ pair'.other = j /\ pair.pc = "partner"
          /\ slots' = slots /\ transform' = transform
      BY <1>1, <1>8, <2>1 DEF FindPartner, PairType
    <2>3. <<"pair", j>> \in holds'["other"] /\ holds'["reference"] = holds["reference"]
      BY <1>1, <2>1 DEF RingTypes
    <2>4. HasReference
      BY <2>2 DEF HasReference
    <2>5. QED
      BY <1>1, <2>1, <2>2, <2>3, <2>4 DEF PairSide, HasReference, Leasing
  <1>9. CASE NoPartner /\ pair'.pc \notin {"step", "exited"}
    <2>1. Stop(pair) \in {"step", "exited"}
      BY DEF Stop
    <2>2. pair' = [pair EXCEPT !.tries = @ + 1] /\ holds' = holds /\ pair.pc = "partner"
      BY <1>1, <1>9, <2>1 DEF NoPartner, PairType
    <2>3. pair'.pc = "partner" /\ pair'.reference = pair.reference
      BY <1>1, <2>2 DEF PairType
    <2>4. HasReference /\ HasReference'
      BY <2>2, <2>3 DEF HasReference
    <2>5. QED
      BY <1>4, <2>2, <2>3, <2>4
  <1>10. CASE StopPair
    <2>1. pair'.pc = pair.pc /\ pair'.reference = pair.reference /\ pair'.other = pair.other
      BY <1>1, <1>10 DEF StopPair, PairType
    <2>2. UNCHANGED <<slots, holds, transform>>
      BY <1>10 DEF StopPair, ringVars
    <2>3. QED
      BY <1>1, <2>1, <2>2 DEF PairSide, HasReference, Leasing
  <1>11. ASSUME PairThrows \/ PairDrops \/ PairEnds PROVE pair'.pc \in {"step", "exited"}
    <2>1. Stop(pair) \in {"step", "exited"}
      BY DEF Stop
    <2>2. CASE PairThrows
      BY <1>1, <2>1, <2>2 DEF PairThrows, PairType
    <2>3. CASE PairDrops
      BY <1>1, <2>1, <2>3 DEF PairDrops, PairType
    <2>4. CASE PairEnds
      BY <1>1, <2>4 DEF PairEnds, PairType
    <2>5. QED
      BY <1>11, <2>2, <2>3, <2>4
  <1>12. QED
    BY <1>3, <1>5, <1>6, <1>7, <1>8, <1>9, <1>10, <1>11 DEF RingPairNext, Supply, Announce, TransformStep,
       TransformLeases, TransformAcquires, TransformPublishes, TransformDrops, TransformEnds, TransformThrows,
       StopTransform, PairStep, ringPairVars

LEMMA RingHoldKept == RingHold /\ [RingPairNext]_ringPairVars => RingHold'
  BY RingTypesKept, WorkerTypesKept, TransformSideKept, PairSideKept, SuppliesKept, ReferenceCountedKept DEF RingHold
LEMMA RingHoldStarts == Init => RingHold
  <1> SUFFICES ASSUME Init PROVE RingHold
    OBVIOUS
  <1> USE DEF Init, RingPairInit, Empty, NoSlot
  <1>1. Depth \in Nat /\ Left \in Streams /\ Right \in Streams
    BY RingPairAssumption, StreamsCounted DEF Left, Right
  <1>2. \A s \in Streams : Len(Shots[s]) >= 0
    BY ShotsOf
  <1>3. RingTypes
    BY <1>1, <1>2 DEF RingTypes
  <1>4. /\ transform \in TransformType /\ pair \in PairType /\ stats \in StatsType /\ leased \in LeasedType
        /\ pairsMade \in Seq(Nat \X Nat) /\ transformed \in Seq(Nat) /\ faults \in Nat
    BY <1>1 DEF TransformType, PairType, StatsType, LeasedType
  <1>5. TransformSide /\ PairSide /\ transform.last <= supplied[Left]
    BY <1>1 DEF TransformSide, PairSide, HasReference
  <1>6. Supplies /\ ReferenceCounted
    BY <1>1 DEF Supplies, SuppliedRing, ReferenceCounted, Publications, Rings
  <1>7. QED
    BY <1>3, <1>4, <1>5, <1>6 DEF RingHold, WorkerTypes

-----------------------------------------------------------------------------
(* Where the pair consumer is among the publications, and what its counters say. *)

PairPlace ==
  /\ pair.last <= Publications("reference")
  /\ pair.pc = "count" => slots["reference"][pair.reference].n > pair.last
  /\ pair.pc \in {"partner", "call"} => slots["reference"][pair.reference].n = pair.last

LEMMA PairPlaceKept ==
  ASSUME RingHold, PairPlace, [RingPairNext]_ringPairVars
  PROVE  PairPlace'
  <1>1. /\ RingTypes /\ PairSide /\ pair \in PairType /\ ReferenceCounted /\ "reference" \in Rings /\ Depth \in Nat
        /\ pair.last \in Nat /\ slots["reference"] \in [1 .. Depth -> [n : Nat, stamp : Nat]]
    BY RingPairAssumption DEF RingHold, WorkerTypes, Rings, RingTypes, PairType
  <1>2. /\ Publications("reference") \in Nat /\ Publications("reference")' \in Nat
        /\ Publications("reference")' >= Publications("reference")
    BY ReferenceCount
  <1>3. CASE /\ pair'.pc = pair.pc /\ pair'.last = pair.last
             /\ HasReference => pair'.reference = pair.reference
    <2>1. CASE HasReference
      <3>1. pair'.pc # "step" /\ pair'.pc # "exited"
        BY <1>3, <2>1 DEF HasReference
      <3>2. slots'["reference"][pair.reference] = slots["reference"][pair.reference]
        BY <2>1, <3>1, PairSideKept
      <3>3. pair'.last <= Publications("reference")'
        BY <1>1, <1>2, <1>3 DEF PairPlace
      <3>4. QED
        BY <1>3, <2>1, <3>2, <3>3 DEF PairPlace
    <2>2. CASE ~HasReference
      BY <1>1, <1>2, <1>3, <2>2 DEF PairPlace, HasReference
    <2>3. QED
      BY <2>1, <2>2
  <1>4. CASE PairLeases /\ pair' # pair
    <2>1. /\ pair' = [pair EXCEPT !.pc = "count", !.reference = latest["reference"]]
          /\ slots' = slots /\ latest["reference"] # 0 /\ slots["reference"][latest["reference"]].n # pair.last
      BY <1>4 DEF PairLeases, New, NoSlot, Newest
    <2>2. PICK i \in 1 .. Depth : i = latest["reference"]
      BY <1>1, <2>1 DEF RingTypes
    <2>3. pair' = [pair EXCEPT !.pc = "count", !.reference = i]
      BY <2>1, <2>2
    <2>4. pair'.pc = "count" /\ pair'.reference = i /\ pair'.last = pair.last
      BY <1>1, <2>3 DEF PairType
    <2>5. Publications("reference") = slots["reference"][i].n
      BY <2>1, <2>2 DEF Publications, Newest, NoSlot
    <2>6. QED
      BY <1>1, <1>2, <2>1, <2>2, <2>4, <2>5 DEF PairPlace
  <1>5. CASE PairCounts
    <2>1. PICK frame : /\ pair' = [pair EXCEPT !.pc = "partner", !.lastPublished = published, !.last = frame, !.tries = 0]
                       /\ frame = slots["reference"][pair.reference].n
      BY <1>5 DEF PairCounts
    <2>2. pair'.pc = "partner" /\ pair'.reference = pair.reference /\ pair'.last = frame /\ slots' = slots
      BY <1>1, <1>5, <2>1 DEF PairCounts, PairType, ringVars
    <2>3. pair.reference \in 1 .. Depth
      BY <1>1, <1>5 DEF PairCounts, PairSide, HasReference, Leasing
    <2>4. frame \in Nat /\ frame <= Publications("reference")
      BY <1>1, <2>1, <2>3 DEF ReferenceCounted
    <2>5. QED
      BY <1>2, <2>1, <2>2, <2>4 DEF PairPlace
  <1>6. CASE FindPartner
    <2>1. PICK j : pair' = [pair EXCEPT !.pc = "call", !.other = j] /\ pair.pc = "partner" /\ slots' = slots
      BY <1>6 DEF FindPartner
    <2>2. pair'.pc = "call" /\ pair'.reference = pair.reference /\ pair'.last = pair.last
      BY <1>1, <2>1 DEF PairType
    <2>3. QED
      BY <1>1, <1>2, <2>1, <2>2 DEF PairPlace
  <1>7. ASSUME NoPartner \/ PairThrows \/ PairDrops \/ PairEnds \/ StopPair
        PROVE  \/ pair'.pc \in {"step", "exited"} /\ pair'.last = pair.last
               \/ pair'.pc = pair.pc /\ pair'.last = pair.last /\ pair'.reference = pair.reference
    <2>1. Stop(pair) \in {"step", "exited"}
      BY DEF Stop
    <2>2. CASE NoPartner
      BY <1>1, <2>1, <2>2 DEF NoPartner, PairType
    <2>3. CASE PairThrows
      BY <1>1, <2>1, <2>3 DEF PairThrows, PairType
    <2>4. CASE PairDrops
      BY <1>1, <2>1, <2>4 DEF PairDrops, PairType
    <2>5. CASE PairEnds \/ StopPair
      BY <1>1, <2>5 DEF PairEnds, StopPair, PairType
    <2>6. QED
      BY <1>7, <2>2, <2>3, <2>4, <2>5
  <1>8. CASE pair'.pc \in {"step", "exited"} /\ pair'.last = pair.last
    BY <1>1, <1>2, <1>8 DEF PairPlace
  <1>9. CASE pair' = pair
    BY <1>3, <1>9
  <1>10. QED
    BY <1>3, <1>4, <1>5, <1>6, <1>7, <1>8, <1>9 DEF RingPairNext, Supply, Announce, TransformStep,
       TransformLeases, TransformAcquires, TransformPublishes, TransformDrops, TransformEnds, TransformThrows,
       StopTransform, PairStep, ringPairVars
InPartner == IF pair.pc = "partner" THEN 1 ELSE 0

\* What was leased adds up, and so does what lies between.
Accounts ==
  LET frames == leased.frames IN
  /\ stats.paired + stats.unpaired + leased.failed + InPartner = Len(frames)
  /\ stats.paired = Len(pairsMade)
  /\ frames = <<>> => pair.last = 0 /\ stats.skipped = 0
  /\ frames # <<>> =>
       /\ pair.last # 0 /\ pair.last = frames[Len(frames)]
       /\ leased.exact => /\ pair.lastPublished = pair.last
                          /\ stats.skipped = pair.last - frames[1] + 1 - Len(frames)

LEMMA AccountsSame ==
  ASSUME RingHold, Accounts, leased'.frames = leased.frames, leased'.exact = leased.exact,
         stats'.skipped = stats.skipped, pair'.last = pair.last, pair'.lastPublished = pair.lastPublished,
         stats'.paired + stats'.unpaired + leased'.failed + InPartner'
           = stats.paired + stats.unpaired + leased.failed + InPartner,
         stats'.paired = Len(pairsMade')
  PROVE  Accounts'
  BY DEF Accounts

LEMMA AccountsKept ==
  ASSUME RingHold, PairPlace, Accounts, [RingPairNext]_ringPairVars
  PROVE  Accounts'
  <1>1. /\ RingTypes /\ PairSide /\ pair \in PairType /\ stats \in StatsType /\ leased \in LeasedType
        /\ pairsMade \in Seq(Nat \X Nat) /\ Depth \in Nat
        /\ slots["reference"] \in [1 .. Depth -> [n : Nat, stamp : Nat]] /\ published \in Nat
    BY RingPairAssumption DEF RingHold, WorkerTypes, Rings, RingTypes
  <1>2. /\ {pair.last, pair.lastPublished} \subseteq Nat
        /\ {stats.paired, stats.unpaired, stats.late, stats.missed, stats.skipped, leased.failed} \subseteq Nat
        /\ leased.frames \in Seq(Nat) /\ Len(leased.frames) \in Nat /\ leased.exact \in BOOLEAN
    BY <1>1 DEF PairType, StatsType, LeasedType
  <1>3. Stop(pair) \in {"step", "exited"} /\ stats.paired = Len(pairsMade)
    BY DEF Stop, Accounts
  <1>4. CASE PairLeases
    <2>1. pair'.pc # "partner" /\ pair.pc # "partner" /\ pair'.last = pair.last /\ pair'.lastPublished = pair.lastPublished
      <3>1. pair' = pair \/ pair' = [pair EXCEPT !.pc = "count", !.reference = latest["reference"]]
        BY <1>4 DEF PairLeases
      <3>2. pair.pc = "step"
        BY <1>4 DEF PairLeases
      <3>3. QED
        BY <1>1, <3>1, <3>2 DEF PairType
    <2>2. stats'.paired = stats.paired /\ stats'.unpaired = stats.unpaired /\ stats'.skipped = stats.skipped
      <3>1. stats' = stats \/ stats' = [stats EXCEPT !.missed = @ + 1]
        BY <1>4 DEF PairLeases
      <3>2. QED
        BY <1>1, <3>1 DEF StatsType
    <2>3. leased' = leased /\ pairsMade' = pairsMade
      BY <1>4 DEF PairLeases
    <2>4. QED
      BY <1>3, <2>1, <2>2, <2>3, AccountsSame DEF InPartner
  <1>5. CASE PairCounts
    <2>1. PICK f : f = slots["reference"][pair.reference].n
      OBVIOUS
    <2>2. /\ pair.pc = "count"
          /\ pair' = [pair EXCEPT !.pc = "partner", !.lastPublished = published, !.last = f, !.tries = 0]
          /\ leased' = [leased EXCEPT !.frames = Append(@, f), !.exact = @ /\ published = f]
          /\ pairsMade' = pairsMade
      BY <1>5, <2>1 DEF PairCounts
    <2>3. f \in Nat /\ f > pair.last
      <3>1. pair.reference \in 1 .. Depth
        BY <1>1, <1>5 DEF PairCounts, PairSide, HasReference, Leasing
      <3>2. QED
        BY <1>1, <2>1, <2>2, <3>1 DEF PairPlace
    <2>4. pair'.pc = "partner" /\ pair'.lastPublished = published /\ pair'.last = f
      BY <1>1, <2>2 DEF PairType
    <2>5. /\ leased'.frames = Append(leased.frames, f) /\ leased'.failed = leased.failed
          /\ leased'.exact = (leased.exact /\ published = f)
      BY <1>1, <2>2 DEF LeasedType
    <2>6. PICK k \in Nat : k = Skipped
      <3>1. Skipped \in Nat
        BY <1>1, <1>2 DEF Skipped
      <3>2. QED
        BY <3>1
    <2>7. /\ stats'.paired = stats.paired /\ stats'.unpaired = stats.unpaired
          /\ stats'.skipped = IF pair.last = 0 THEN stats.skipped ELSE stats.skipped + k
      <3>1. stats' = IF pair.last = 0 THEN stats ELSE [stats EXCEPT !.skipped = @ + k]
        BY <1>5, <2>6 DEF PairCounts
      <3>2. QED
        BY <1>1, <3>1 DEF StatsType
    <2>8. PICK frames \in Seq(Nat) : frames = leased.frames
      BY <1>2
    <2>9. /\ leased'.frames \in Seq(Nat) /\ Len(leased'.frames) = Len(frames) + 1
          /\ leased'.frames[Len(leased'.frames)] = f /\ leased'.frames # <<>>
          /\ leased'.frames[1] = IF frames = <<>> THEN f ELSE frames[1]
      <3>1. PICK grown : grown = Append(frames, f)
        OBVIOUS
      <3>2. /\ grown \in Seq(Nat) /\ Len(grown) = Len(frames) + 1 /\ grown[Len(frames) + 1] = f
            /\ \A i \in 1 .. Len(frames) : grown[i] = frames[i]
        BY <2>3, <3>1, AppendProperties
      <3>3. frames # <<>> => 1 \in 1 .. Len(frames)
        BY EmptySeq, LenProperties
      <3>4. frames = <<>> => Len(frames) = 0
        BY EmptySeq
      <3>5. grown # <<>>
        BY <3>2, EmptySeq, LenProperties
      <3>6. grown[1] = IF frames = <<>> THEN f ELSE frames[1]
        BY <3>2, <3>3, <3>4
      <3>7. leased'.frames = grown
        BY <2>5, <2>8, <3>1
      <3>8. QED
        BY <3>2, <3>5, <3>6, <3>7
    <2>10. /\ stats.paired + stats.unpaired + leased.failed = Len(frames)
           /\ frames = <<>> => pair.last = 0 /\ stats.skipped = 0 /\ Len(frames) = 0
           /\ frames # <<>> => pair.last # 0 /\ (leased.exact => pair.lastPublished = pair.last
                                   /\ stats.skipped = pair.last - frames[1] + 1 - Len(frames))
      BY <1>2, <2>2, <2>8, EmptySeq DEF Accounts, InPartner
    <2>11. stats'.paired + stats'.unpaired + leased'.failed + InPartner' = Len(leased'.frames)
      BY <1>2, <2>4, <2>5, <2>7, <2>8, <2>9, <2>10 DEF InPartner
    <2>12. ASSUME leased'.exact PROVE stats'.skipped = f - leased'.frames[1] + 1 - Len(leased'.frames)
      <3>1. leased.exact /\ published = f
        BY <1>2, <2>5, <2>12
      <3>2. CASE frames = <<>>
        BY <1>2, <2>3, <2>7, <2>9, <2>10, <3>2
      <3>3. CASE frames # <<>>
        <4>1. k = f - pair.last - 1
          BY <1>2, <2>3, <2>6, <2>10, <3>1, <3>3 DEF Skipped
        <4>2. frames[1] \in Nat
          BY <3>3, EmptySeq, LenProperties, ElementOfSeq
        <4>3. PICK n \in Nat, a \in Nat : n = Len(frames) /\ a = frames[1]
          BY <1>2, <2>8, <4>2
        <4>4. stats.skipped = pair.last - a + 1 - n
          BY <2>10, <3>1, <3>3, <4>3
        <4>5. stats'.skipped = stats.skipped + k
          BY <2>7, <2>10, <3>3
        <4>6. stats'.skipped = f - a + 1 - (n + 1)
          <5>1. PICK l \in Nat, sk \in Nat : l = pair.last /\ sk = stats.skipped
            BY <1>2
          <5>2. k = f - l - 1 /\ sk = l - a + 1 - n /\ stats'.skipped = sk + k
            BY <4>1, <4>4, <4>5, <5>1
          <5>3. QED
            BY <2>3, <5>2
        <4>7. leased'.frames[1] = a /\ Len(leased'.frames) = n + 1
          BY <2>9, <3>3, <4>3
        <4>8. QED
          BY <4>6, <4>7
      <3>4. QED
        BY <3>2, <3>3
    <2>13. leased'.exact => published = f
      BY <2>5
    <2>14. QED
      <3>1. stats'.paired = Len(pairsMade') /\ f # 0
        BY <1>2, <1>3, <2>2, <2>3, <2>7
      <3>2. pair'.last = f /\ pair'.lastPublished = published
        BY <2>4
      <3>3. leased'.frames[Len(leased'.frames)] = f /\ leased'.frames # <<>>
        BY <2>9
      <3>4. QED
        BY <3>1, <3>2, <3>3, <2>11, <2>12, <2>13 DEF Accounts
  <1>6. CASE FindPartner
    <2>1. PICK e, j, k :
            /\ k \in {0, 1}
            /\ pair' = [pair EXCEPT !.pc = "call", !.other = j] /\ pair.pc = "partner"
            /\ pairsMade' = Append(pairsMade, e)
            /\ stats' = [stats EXCEPT !.paired = @ + 1, !.late = @ + k] /\ leased' = leased
      <3>1. PICK j \in Partners :
              /\ pair' = [pair EXCEPT !.pc = "call", !.other = j] /\ pair.pc = "partner"
              /\ pairsMade' = Append(pairsMade, <<RefStamp, slots["other"][j].stamp>>)
              /\ stats' = [stats EXCEPT !.paired = @ + 1, !.late = @ + (IF pair.tries > 0 THEN 1 ELSE 0)]
              /\ leased' = leased
        BY <1>6 DEF FindPartner
      <3>2. PICK k \in {0, 1} : k = IF pair.tries > 0 THEN 1 ELSE 0
        OBVIOUS
      <3>3. PICK e : e = <<RefStamp, slots["other"][j].stamp>>
        OBVIOUS
      <3>4. stats' = [stats EXCEPT !.paired = @ + 1, !.late = @ + k] /\ pairsMade' = Append(pairsMade, e)
        BY <3>1, <3>2, <3>3
      <3>5. QED
        BY <3>1, <3>2, <3>4
    <2>2. pair'.pc = "call" /\ pair'.last = pair.last /\ pair'.lastPublished = pair.lastPublished
      BY <1>1, <2>1 DEF PairType
    <2>3. stats'.paired = stats.paired + 1 /\ stats'.unpaired = stats.unpaired /\ stats'.skipped = stats.skipped
      BY <1>1, <2>1 DEF StatsType
    <2>4. Len(pairsMade') = Len(pairsMade) + 1
      <3>1. pairsMade' = pairsMade \o <<e>> /\ Len(<<e>>) = 1
        BY <1>1, <2>1
      <3>2. QED
        BY <1>1, <2>1
    <2>5. stats'.paired + stats'.unpaired + leased'.failed + InPartner'
            = stats.paired + stats.unpaired + leased.failed + InPartner
      BY <1>2, <2>1, <2>2, <2>3 DEF InPartner
    <2>6. stats'.paired = Len(pairsMade')
      BY <1>2, <1>3, <2>3, <2>4
    <2>7. QED
      BY <2>1, <2>2, <2>3, <2>5, <2>6, AccountsSame
  <1>7. CASE PairThrows
    <2>1. PICK k \in {0, 1} : stats' = [stats EXCEPT !.late = @ + k]
      <3>1. (IF pair.tries > 0 THEN 1 ELSE 0) \in {0, 1}
        OBVIOUS
      <3>2. QED
        BY <1>7, <3>1 DEF PairThrows
    <2>2. pair'.pc \in {"step", "exited"} /\ pair'.last = pair.last /\ pair'.lastPublished = pair.lastPublished
          /\ pair.pc = "partner"
      BY <1>1, <1>3, <1>7 DEF PairThrows, PairType
    <2>3. stats'.paired = stats.paired /\ stats'.unpaired = stats.unpaired /\ stats'.skipped = stats.skipped
      BY <1>1, <2>1 DEF StatsType
    <2>4. leased'.failed = leased.failed + 1 /\ leased'.frames = leased.frames /\ leased'.exact = leased.exact
      BY <1>1, <1>7 DEF PairThrows, LeasedType
    <2>5. pairsMade' = pairsMade
      BY <1>7 DEF PairThrows
    <2>6. stats'.paired + stats'.unpaired + leased'.failed + InPartner'
            = stats.paired + stats.unpaired + leased.failed + InPartner
      <3>1. InPartner = 1 /\ InPartner' = 0
        BY <2>2 DEF InPartner
      <3>2. QED
        BY SMTT(30), <1>2, <2>3, <2>4, <3>1
    <2>7. QED
      BY <1>3, <2>2, <2>3, <2>4, <2>5, <2>6, AccountsSame
  <1>8. CASE NoPartner
    <2>1. leased' = leased /\ pairsMade' = pairsMade /\ pair.pc = "partner"
      BY <1>8 DEF NoPartner
    <2>2. CASE pair' = [pair EXCEPT !.tries = @ + 1] /\ stats' = stats
      <3>1. pair'.pc = pair.pc /\ pair'.last = pair.last /\ pair'.lastPublished = pair.lastPublished
        BY <1>1, <2>2 DEF PairType
      <3>2. QED
        BY <1>2, <1>3, <2>1, <2>2, <3>1, AccountsSame DEF InPartner
    <2>3. CASE /\ stats' = [stats EXCEPT !.unpaired = @ + 1]
               /\ pair' = [pair EXCEPT !.pc = Stop(pair), !.reference = NoSlot]
      <3>1. pair'.pc \in {"step", "exited"} /\ pair'.last = pair.last /\ pair'.lastPublished = pair.lastPublished
        BY <1>1, <1>3, <2>3 DEF PairType
      <3>2. stats'.paired = stats.paired /\ stats'.unpaired = stats.unpaired + 1 /\ stats'.skipped = stats.skipped
        BY <1>1, <2>3 DEF StatsType
      <3>3. stats'.paired + stats'.unpaired + leased'.failed + InPartner'
              = stats.paired + stats.unpaired + leased.failed + InPartner
        <4>1. InPartner = 1 /\ InPartner' = 0
          BY <2>1, <3>1 DEF InPartner
        <4>2. QED
          BY <1>2, <2>1, <3>2, <4>1
      <3>4. QED
        BY <1>3, <2>1, <3>1, <3>2, <3>3, AccountsSame
    <2>4. QED
      BY <1>8, <2>2, <2>3 DEF NoPartner
  <1>9. CASE PairDrops \/ PairEnds \/ StopPair
    <2>1. leased' = leased /\ pairsMade' = pairsMade /\ stats' = stats
      BY <1>9 DEF PairDrops, PairEnds, StopPair
    <2>2. pair'.last = pair.last /\ pair'.lastPublished = pair.lastPublished /\ InPartner' = InPartner
      <3>1. CASE PairDrops
        BY <1>1, <1>3, <3>1 DEF PairDrops, PairType, InPartner
      <3>2. CASE PairEnds \/ StopPair
        BY <1>1, <3>2 DEF PairEnds, StopPair, PairType, InPartner
      <3>3. QED
        BY <1>9, <3>1, <3>2
    <2>3. QED
      BY <1>3, <2>1, <2>2, AccountsSame
  <1>10. CASE UNCHANGED <<pair, stats, leased, pairsMade>>
    BY <1>10 DEF Accounts, InPartner
  <1>11. QED
    BY <1>4, <1>5, <1>6, <1>7, <1>8, <1>9, <1>10 DEF RingPairNext, Supply, Announce, TransformStep,
       TransformLeases, TransformAcquires, TransformPublishes, TransformDrops, TransformEnds, TransformThrows,
       StopTransform, PairStep, ringPairVars
-----------------------------------------------------------------------------
(* The stamps in the reference ring, and those of the pairs. *)

LEMMA SuppliedGrows ==
  ASSUME RingHold, [RingPairNext]_ringPairVars, NEW s \in Streams
  PROVE  /\ supplied[s] \in Nat /\ supplied'[s] \in Nat /\ supplied'[s] >= supplied[s]
         /\ supplied'[s] <= Len(Shots[s]) /\ Len(Shots[s]) \in Nat
  <1>1. /\ supplied \in [Streams -> Nat] /\ supplied' \in [Streams -> Nat] /\ supplied'[s] <= Len(Shots[s])
        /\ Len(Shots[s]) \in Nat
    BY RingTypesKept, ShotsOf DEF RingHold, RingTypes
  <1>2. supplied' = supplied \/ \E p \in Streams : supplied' = [supplied EXCEPT ![p] = @ + 1]
    BY DEF RingPairNext, Supply, Announce, TransformStep, TransformLeases, TransformAcquires, TransformPublishes,
     TransformDrops, TransformEnds, PairStep, PairLeases, PairCounts, FindPartner, NoPartner, TransformThrows,
     PairDrops, PairEnds, PairThrows, StopTransform, StopPair, ringPairVars, ringVars
  <1>3. QED
    BY <1>1, <1>2

\* The frame the transform stage has is a frame of the left camera, newer than the last.
LEMMA TransformHas ==
  ASSUME RingHold, transform.pc \in {"acquire", "enqueue", "drop"}
  PROVE  LET k == slots["in"][transform.in].n IN
         /\ k \in 1 .. supplied[Left] /\ k > transform.last /\ transform.last \in Nat
         /\ slots["in"][transform.in].stamp = Shots[Left][k]
         /\ transform.in \in 1 .. Depth
  BY DEF RingHold, TransformSide, Leasing, Supplies, SuppliedRing, WorkerTypes, TransformType

ReferenceKnown ==
  \A i \in 1 .. Depth : slots["reference"][i].n # 0 =>
    \E k \in 1 .. supplied[Left] : slots["reference"][i].stamp = Shots[Left][k]

LEMMA ReferenceKnownKept ==
  ASSUME RingHold, ReferenceKnown, [RingPairNext]_ringPairVars
  PROVE  ReferenceKnown'
  <1> SUFFICES ASSUME NEW i \in 1 .. Depth, slots'["reference"][i].n # 0
               PROVE  \E k \in 1 .. supplied'[Left] : slots'["reference"][i].stamp = Shots[Left][k]
    BY DEF ReferenceKnown
  <1>1. Left \in Streams
    BY StreamsCounted DEF Left
  <1>2. supplied[Left] \in Nat /\ supplied'[Left] \in Nat /\ supplied'[Left] >= supplied[Left]
    BY <1>1, SuppliedGrows
  <1>3. \E k \in 1 .. supplied[Left] : slots'["reference"][i].stamp = Shots[Left][k]
    <2>1. CASE slots'["reference"][i] = slots["reference"][i]
      BY <2>1 DEF ReferenceKnown
    <2>2. CASE TransformPublishes /\ slots'["reference"][i].stamp = slots["in"][transform.in].stamp
      BY <2>2, TransformHas DEF TransformPublishes
    <2>3. QED
      BY <2>1, <2>2, ReferenceSlots
  <1>4. QED
    BY <1>2, <1>3

KnownPair(e) ==
  \E k \in 1 .. Len(Shots[Left]), m \in 1 .. Len(Shots[Right]) :
    e = <<Shots[Left][k], Shots[Right][m]>> /\ Distance(Shots[Left][k], Shots[Right][m]) <= Tolerance

PairInHand == <<slots["reference"][pair.reference].stamp, slots["other"][pair.other].stamp>>

PairsKnown ==
  /\ \A p \in 1 .. Len(pairsMade) : KnownPair(pairsMade[p])
  /\ pair.pc = "call" => Len(pairsMade) # 0 /\ pairsMade[Len(pairsMade)] = PairInHand

\* The pair that is made when a partner is found.
LEMMA PairFound ==
  ASSUME RingHold, ReferenceKnown, FindPartner
  PROVE  \E j \in 1 .. Depth, x, y \in Nat :
           /\ pair' = [pair EXCEPT !.pc = "call", !.other = j] /\ pair.pc = "partner"
           /\ pairsMade' = Append(pairsMade, <<x, y>>) /\ KnownPair(<<x, y>>)
           /\ x = slots["reference"][pair.reference].stamp /\ y = slots["other"][j].stamp
           /\ UNCHANGED <<slots, transform, faults>>
  <1>1. PICK j \in Partners :
          /\ pair' = [pair EXCEPT !.pc = "call", !.other = j] /\ pair.pc = "partner"
          /\ pairsMade' = Append(pairsMade, <<RefStamp, slots["other"][j].stamp>>)
          /\ UNCHANGED <<slots, transform, faults>>
    BY DEF FindPartner
  <1>2. PICK x, y : x = slots["reference"][pair.reference].stamp /\ y = slots["other"][j].stamp
    OBVIOUS
  <1>3. j \in 1 .. Depth /\ slots["other"][j].n # 0 /\ Distance(y, x) <= Tolerance
    BY <1>1, <1>2 DEF Partners, Candidates, RefStamp
  <1>4. Left \in Streams /\ Right \in Streams
    BY StreamsCounted DEF Left, Right
  <1>5. PICK m \in 1 .. supplied[Right] : y = Shots[Right][m]
    BY <1>2, <1>3 DEF RingHold, Supplies, SuppliedRing
  <1>6. PICK k \in 1 .. supplied[Left] : x = Shots[Left][k]
    BY <1>1, <1>2 DEF ReferenceKnown, RingHold, PairSide, HasReference, Leasing
  <1>7. /\ supplied[Left] \in Nat /\ supplied[Left] <= Len(Shots[Left]) /\ Len(Shots[Left]) \in Nat
        /\ supplied[Right] \in Nat /\ supplied[Right] <= Len(Shots[Right]) /\ Len(Shots[Right]) \in Nat
    BY <1>4, ShotsOf DEF RingHold, RingTypes
  <1>8. k \in 1 .. Len(Shots[Left]) /\ m \in 1 .. Len(Shots[Right])
    BY <1>7
  <1>9. x \in Nat /\ y \in Nat
    BY <1>4, <1>5, <1>6, <1>8, ShotsOf
  <1>10. Distance(x, y) <= Tolerance
    BY <1>3, <1>9 DEF Distance
  <1>11. KnownPair(<<x, y>>)
    BY <1>5, <1>6, <1>8, <1>10 DEF KnownPair
  <1>12. pairsMade' = Append(pairsMade, <<x, y>>)
    BY <1>1, <1>2 DEF RefStamp
  <1>13. QED
    BY <1>1, <1>2, <1>3, <1>9, <1>11, <1>12

\* What Append does to the pairs.
LEMMA PairAppended ==
  ASSUME RingHold, NEW x \in Nat, NEW y \in Nat, pairsMade' = Append(pairsMade, <<x, y>>)
  PROVE  /\ Len(pairsMade) \in Nat /\ Len(pairsMade') = Len(pairsMade) + 1
         /\ pairsMade'[Len(pairsMade) + 1] = <<x, y>>
         /\ \A p \in 1 .. Len(pairsMade) : pairsMade'[p] = pairsMade[p]
  <1>1. PICK e \in Nat \X Nat : e = <<x, y>>
    OBVIOUS
  <1>2. pairsMade \in Seq(Nat \X Nat) /\ pairsMade' = Append(pairsMade, e)
    BY <1>1 DEF RingHold, WorkerTypes
  <1>3. QED
    BY <1>1, <1>2, AppendProperties, LenProperties

LEMMA PairsMadeOtherwise ==
  ASSUME RingHold, [RingPairNext]_ringPairVars
  PROVE  FindPartner \/ (pairsMade' = pairsMade /\ (pair'.pc = "call" => pair.pc = "call" /\ pair'.other = pair.other))
  <1>1. pair \in PairType /\ Stop(pair) \in {"step", "exited"}
    BY DEF RingHold, WorkerTypes, Stop
  <1>2. CASE PairLeases
    <2>1. pair' = pair \/ pair' = [pair EXCEPT !.pc = "count", !.reference = latest["reference"]]
      BY <1>2 DEF PairLeases
    <2>2. QED
      BY <1>1, <1>2, <2>1 DEF PairLeases, PairType
  <1>3. CASE PairCounts
    <2>1. PICK f : pair' = [pair EXCEPT !.pc = "partner", !.lastPublished = published, !.last = f, !.tries = 0]
      BY <1>3 DEF PairCounts
    <2>2. QED
      BY <1>1, <1>3, <2>1 DEF PairCounts, PairType
  <1>4. CASE PairThrows
    BY <1>1, <1>4 DEF PairThrows, PairType
  <1>5. CASE NoPartner
    BY <1>1, <1>5 DEF NoPartner, PairType
  <1>6. CASE PairDrops
    BY <1>1, <1>6 DEF PairDrops, PairType
  <1>7. CASE PairEnds \/ StopPair
    BY <1>1, <1>7 DEF PairEnds, StopPair, PairType
  <1>8. CASE UNCHANGED <<pair, pairsMade>>
    BY <1>8
  <1>9. QED
    BY <1>2, <1>3, <1>4, <1>5, <1>6, <1>7, <1>8 DEF RingPairNext, Supply, Announce, TransformStep,
       TransformLeases, TransformAcquires, TransformPublishes, TransformDrops, TransformEnds, TransformThrows,
       StopTransform, PairStep, ringPairVars

LEMMA PairsKnownKept ==
  ASSUME RingHold, ReferenceKnown, PairsKnown, [RingPairNext]_ringPairVars
  PROVE  PairsKnown'
  <1>1. PairSide /\ pair \in PairType /\ {"other", "reference"} \subseteq Rings
    BY DEF RingHold, WorkerTypes, Rings
  <1>2. CASE FindPartner
    <2>1. PICK j \in 1 .. Depth, x, y \in Nat :
           /\ pair' = [pair EXCEPT !.pc = "call", !.other = j] /\ pair.pc = "partner"
           /\ pairsMade' = Append(pairsMade, <<x, y>>) /\ KnownPair(<<x, y>>)
           /\ x = slots["reference"][pair.reference].stamp /\ y = slots["other"][j].stamp
           /\ UNCHANGED <<slots, transform, faults>>
      BY <1>2, PairFound
    <2>2. /\ Len(pairsMade) \in Nat /\ Len(pairsMade') = Len(pairsMade) + 1
          /\ pairsMade'[Len(pairsMade) + 1] = <<x, y>>
          /\ \A p \in 1 .. Len(pairsMade) : pairsMade'[p] = pairsMade[p]
      BY <2>1, PairAppended
    <2>3. pair'.pc = "call" /\ pair'.other = j /\ pair'.reference = pair.reference
      BY <1>1, <2>1 DEF PairType
    <2>4. PairInHand' = <<x, y>>
      BY <2>1, <2>3 DEF PairInHand
    <2>5. \A p \in 1 .. Len(pairsMade') : KnownPair(pairsMade'[p])
      BY <2>1, <2>2 DEF PairsKnown
    <2>6. QED
      <3>1. Len(pairsMade') # 0 /\ pairsMade'[Len(pairsMade')] = PairInHand'
        BY <2>2, <2>4
      <3>2. QED
        BY <2>5, <3>1 DEF PairsKnown, KnownPair
  <1>3. CASE pairsMade' = pairsMade /\ (pair'.pc = "call" => pair.pc = "call" /\ pair'.other = pair.other)
    <2>1. ASSUME pair'.pc = "call" PROVE PairInHand' = PairInHand
      <3>1. HasReference /\ pair.pc = "call"
        BY <1>3, <2>1 DEF HasReference
      <3>2. pair'.reference = pair.reference /\ slots'["reference"][pair.reference] = slots["reference"][pair.reference]
        BY <2>1, <3>1, PairSideKept
      <3>3. PICK r \in Rings, i \in 1 .. Depth : r = "other" /\ i = pair.other /\ Held(r, i)
        BY <1>1, <3>1 DEF PairSide, Leasing, Held
      <3>4. slots'[r][i] = slots[r][i]
        BY <3>3, SlotKept
      <3>5. QED
        BY <1>3, <2>1, <3>2, <3>3, <3>4 DEF PairInHand
    <2>2. QED
      BY <1>3, <2>1 DEF PairsKnown, KnownPair
  <1>4. QED
    BY <1>2, <1>3, PairsMadeOtherwise
-----------------------------------------------------------------------------
(* The order of the stamps, for cameras whose stamps ascend. *)

StampsAscend == \A s \in Streams : \A i, j \in 1 .. Len(Shots[s]) : i < j => Shots[s][i] < Shots[s][j]

\* The newest frame of the left camera the transform stage has published.
Seen == IF transform.pc = "drop" THEN slots["in"][transform.in].n ELSE transform.last

\* The stamp of one of the left camera's first frames.
AmongFirst(stamp, last) == \E k \in 1 .. last : stamp = Shots[Left][k]

LEMMA AmongFirstOlder ==
  ASSUME StampsAscend, NEW stamp, NEW last \in Nat, AmongFirst(stamp, last), NEW k \in 1 .. Len(Shots[Left]), last < k
  PROVE  stamp \in Nat /\ stamp < Shots[Left][k]
  <1>1. Left \in Streams
    BY StreamsCounted DEF Left
  <1>2. Len(Shots[Left]) \in Nat /\ \A i \in 1 .. Len(Shots[Left]) : Shots[Left][i] \in Nat \ {0}
    BY <1>1, ShotsOf
  <1>3. PICK i \in 1 .. last : stamp = Shots[Left][i]
    BY DEF AmongFirst
  <1>4. i \in 1 .. Len(Shots[Left]) /\ i < k
    BY <1>2
  <1>5. QED
    BY <1>1, <1>2, <1>3, <1>4 DEF StampsAscend

\* What a step does to what the transform stage has seen.
LEMMA TransformMoves ==
  ASSUME RingHold, [RingPairNext]_ringPairVars
  PROVE  /\ \/ transformed' = transformed /\ transform'.last = transform.last
            \/ /\ transform.pc = "drop" /\ transform'.last = slots["in"][transform.in].n
               /\ transformed' = Append(transformed, slots["in"][transform.in].stamp)
         /\ \/ Seen' = Seen /\ ~TransformPublishes
            \/ TransformPublishes /\ transform.pc = "enqueue" /\ Seen' = slots["in"][transform.in].n
            \/ faults' # 0
  <1>1. /\ transform \in TransformType /\ "in" \in Rings /\ TransformSide /\ faults \in Nat
        /\ Stop(transform) \in {"step", "exited"}
    BY DEF RingHold, WorkerTypes, Rings, Stop
  <1>2. ASSUME transform.pc \in {"acquire", "enqueue", "drop"}
        PROVE  slots'["in"][transform.in] = slots["in"][transform.in]
    <2>1. PICK r \in Rings, i \in 1 .. Depth : r = "in" /\ i = transform.in /\ Held(r, i)
      BY <1>1, <1>2 DEF TransformSide, Leasing, Held
    <2>2. slots'[r][i] = slots[r][i]
      BY <2>1, SlotKept
    <2>3. QED
      BY <2>1, <2>2
  <1>3. CASE TransformLeases \/ TransformAcquires \/ TransformEnds
    <2>1. transform.pc # "drop" /\ transform'.pc # "drop" /\ transform'.last = transform.last
      <3>1. CASE TransformLeases
        BY <1>1, <3>1 DEF TransformLeases, TransformType
      <3>2. CASE TransformAcquires
        BY <1>1, <3>2 DEF TransformAcquires, TransformType
      <3>3. CASE TransformEnds
        BY <1>1, <3>3 DEF TransformEnds, TransformType
      <3>4. QED
        BY <1>3, <3>1, <3>2, <3>3
    <2>2. transformed' = transformed
      BY <1>3 DEF TransformLeases, TransformAcquires, TransformEnds
    <2>3. ~TransformPublishes
      <3>1. TransformPublishes => transform'.pc = "drop"
        BY <1>1 DEF TransformPublishes, TransformType
      <3>2. QED
        BY <2>1, <3>1
    <2>4. QED
      BY <2>1, <2>2, <2>3 DEF Seen
  <1>4. CASE TransformPublishes
    <2>1. /\ transform.pc = "enqueue" /\ transform'.pc = "drop" /\ transform'.in = transform.in
          /\ transform'.last = transform.last /\ transformed' = transformed
      BY <1>1, <1>4 DEF TransformPublishes, TransformType
    <2>2. slots'["in"][transform.in] = slots["in"][transform.in]
      BY <1>2, <2>1
    <2>3. Seen' = slots["in"][transform.in].n
      BY <2>1, <2>2 DEF Seen
    <2>4. QED
      BY <1>4, <2>1, <2>3
  <1>5. CASE TransformThrows
    <2>1. transform'.last = transform.last /\ transformed' = transformed /\ faults' # 0
      BY <1>1, <1>5 DEF TransformThrows, Fault, TransformType
    <2>2. QED
      BY <2>1
  <1>6. CASE TransformDrops
    <2>1. transform.pc = "drop"
      BY <1>6 DEF TransformDrops
    <2>2. CASE /\ transform' = [transform EXCEPT !.pc = Stop(transform), !.in = NoSlot, !.last = LastSeen(transform.in)]
               /\ transformed' = Append(transformed, slots["in"][transform.in].stamp)
      <3>1. PICK l : l = LastSeen(transform.in)
        OBVIOUS
      <3>2. transform'.last = l /\ transform'.pc # "drop"
        BY <1>1, <2>2, <3>1 DEF TransformType
      <3>3. ~TransformPublishes
        BY <2>1 DEF TransformPublishes
      <3>4. QED
        BY <2>1, <2>2, <3>1, <3>2, <3>3 DEF Seen, LastSeen
    <2>3. CASE transform' = [transform EXCEPT !.pc = Stop(transform), !.in = NoSlot] /\ UNCHANGED transformed /\ Fault
      <3>1. transform'.last = transform.last /\ faults' # 0
        BY <1>1, <2>3 DEF Fault, TransformType
      <3>2. QED
        BY <2>3, <3>1
    <2>4. QED
      BY <1>6, <2>2, <2>3 DEF TransformDrops
  <1>7. CASE UNCHANGED transformed /\ (UNCHANGED transform \/ StopTransform)
    <2>1. transform'.pc = transform.pc /\ transform'.in = transform.in /\ transform'.last = transform.last
      BY <1>1, <1>7 DEF StopTransform, TransformType
    <2>2. ~TransformPublishes
      <3>1. TransformPublishes => transform'.pc # transform.pc
        BY <1>1 DEF TransformPublishes, TransformType
      <3>2. QED
        BY <2>1, <3>1
    <2>3. Seen' = Seen
      BY <1>2, <2>1 DEF Seen
    <2>4. QED
      BY <1>7, <2>1, <2>2, <2>3
  <1>8. QED
    BY <1>3, <1>4, <1>5, <1>6, <1>7 DEF RingPairNext, Supply, Announce, TransformStep, PairStep, PairLeases,
       PairCounts, FindPartner, NoPartner, PairDrops, PairEnds, PairThrows, StopTransform, StopPair, ringPairVars

TransformedInOrder ==
  /\ \A i \in 1 .. Len(transformed) : AmongFirst(transformed[i], transform.last)
  /\ TransformedOnce

LEMMA TransformedInOrderKept ==
  ASSUME StampsAscend, RingHold, TransformedInOrder, [RingPairNext]_ringPairVars
  PROVE  TransformedInOrder'
  <1>1. transformed \in Seq(Nat) /\ Len(transformed) \in Nat /\ DOMAIN transformed = 1 .. Len(transformed)
    BY DEF RingHold, WorkerTypes
  <1>2. CASE transformed' = transformed /\ transform'.last = transform.last
    BY <1>2 DEF TransformedInOrder, TransformedOnce, AmongFirst
  <1>3. CASE /\ transform.pc = "drop" /\ transform'.last = slots["in"][transform.in].n
             /\ transformed' = Append(transformed, slots["in"][transform.in].stamp)
    <2>1. PICK k, x :
            /\ k = slots["in"][transform.in].n /\ x = slots["in"][transform.in].stamp
            /\ k \in 1 .. supplied[Left] /\ k > transform.last /\ transform.last \in Nat /\ x = Shots[Left][k]
      BY <1>3, TransformHas
    <2>2. Left \in Streams
      BY StreamsCounted DEF Left
    <2>3. k \in 1 .. Len(Shots[Left]) /\ k \in Nat /\ x \in Nat
      <3>1. supplied[Left] \in Nat /\ supplied[Left] <= Len(Shots[Left]) /\ Len(Shots[Left]) \in Nat
        BY <2>2, ShotsOf DEF RingHold, RingTypes
      <3>2. k \in 1 .. Len(Shots[Left])
        BY <2>1, <3>1
      <3>3. QED
        BY <2>1, <2>2, <3>2, ShotsOf
    <2>4. transformed' = Append(transformed, x) /\ transform'.last = k
      BY <1>3, <2>1
    <2>5. /\ Len(transformed') = Len(transformed) + 1 /\ transformed'[Len(transformed) + 1] = x
          /\ \A i \in 1 .. Len(transformed) : transformed'[i] = transformed[i]
          /\ DOMAIN transformed' = 1 .. Len(transformed) + 1
      <3>1. Append(transformed, x) \in Seq(Nat)
        BY <1>1, <2>3, AppendProperties
      <3>2. QED
        BY <1>1, <2>3, <2>4, <3>1, AppendProperties, LenProperties
    <2>6. \A i \in 1 .. Len(transformed) : AmongFirst(transformed[i], transform.last)
      BY DEF TransformedInOrder
    <2>7. \A i \in 1 .. Len(transformed) : transformed[i] < x /\ AmongFirst(transformed[i], k)
      <3>1. PICK last \in Nat : last = transform.last /\ last < k
        BY <2>1, <2>3
      <3>2. ASSUME NEW stamp, AmongFirst(stamp, last) PROVE stamp < x /\ AmongFirst(stamp, k)
        <4>1. stamp < Shots[Left][k]
          BY <2>3, <3>1, <3>2, AmongFirstOlder
        <4>2. AmongFirst(stamp, k)
          BY <2>3, <3>1, <3>2 DEF AmongFirst
        <4>3. QED
          BY <2>1, <4>1, <4>2
      <3>3. QED
        BY <2>6, <3>1, <3>2
    <2>8. AmongFirst(x, k)
      BY <2>1, <2>3 DEF AmongFirst
    <2>9. \A i \in 1 .. Len(transformed') : AmongFirst(transformed'[i], k)
      BY <1>1, <2>5, <2>7, <2>8
    <2>10. TransformedOnce'
      BY <1>1, <2>5, <2>7 DEF TransformedInOrder, TransformedOnce
    <2>11. QED
      BY <2>4, <2>9, <2>10 DEF TransformedInOrder, AmongFirst
  <1>4. QED
    BY <1>2, <1>3, TransformMoves
\* While no call has failed: the reference ring has its frames in the camera's order, and
\* the pairs are older than what is still to be paired.
RefSlot(i) == slots["reference"][i]

InOrder ==
  faults = 0 =>
  /\ \A i \in 1 .. Depth : RefSlot(i).n # 0 => AmongFirst(RefSlot(i).stamp, Seen)
  /\ \A i, j \in 1 .. Depth : RefSlot(i).n # 0 /\ RefSlot(i).n < RefSlot(j).n => RefSlot(i).stamp < RefSlot(j).stamp
  /\ \A p \in 1 .. Len(pairsMade) :
       /\ AmongFirst(pairsMade[p][1], Seen)
       /\ \A i \in 1 .. Depth : RefSlot(i).n > pair.last => pairsMade[p][1] < RefSlot(i).stamp
       /\ pair.pc = "partner" => pairsMade[p][1] < RefSlot(pair.reference).stamp
  /\ \A p, q \in 1 .. Len(pairsMade) : p < q => pairsMade[p][1] < pairsMade[q][1]

LEMMA PairMovesOtherwise ==
  ASSUME RingHold, [RingPairNext]_ringPairVars
  PROVE  \/ FindPartner
         \/ PairCounts /\ pairsMade' = pairsMade /\ slots' = slots
            /\ pair'.last = slots["reference"][pair.reference].n /\ pair'.reference = pair.reference
         \/ pairsMade' = pairsMade /\ pair'.last = pair.last /\ (pair'.pc = "partner" => pair.pc = "partner")
  <1>1. pair \in PairType /\ Stop(pair) \in {"step", "exited"}
    BY DEF RingHold, WorkerTypes, Stop
  <1>2. CASE PairLeases
    <2>1. pair' = pair \/ pair' = [pair EXCEPT !.pc = "count", !.reference = latest["reference"]]
      BY <1>2 DEF PairLeases
    <2>2. QED
      BY <1>1, <1>2, <2>1 DEF PairLeases, PairType
  <1>3. CASE PairCounts
    <2>1. PICK f : /\ pair' = [pair EXCEPT !.pc = "partner", !.lastPublished = published, !.last = f, !.tries = 0]
                   /\ f = slots["reference"][pair.reference].n
      BY <1>3 DEF PairCounts
    <2>2. pair'.last = f /\ pair'.reference = pair.reference
      BY <1>1, <2>1 DEF PairType
    <2>3. QED
      BY <1>3, <2>1, <2>2 DEF PairCounts, ringVars
  <1>4. CASE PairThrows
    BY <1>1, <1>4 DEF PairThrows, PairType
  <1>5. CASE NoPartner
    BY <1>1, <1>5 DEF NoPartner, PairType
  <1>6. CASE PairDrops
    BY <1>1, <1>6 DEF PairDrops, PairType
  <1>7. CASE PairEnds \/ StopPair
    BY <1>1, <1>7 DEF PairEnds, StopPair, PairType
  <1>8. CASE UNCHANGED <<pair, pairsMade>>
    BY <1>8
  <1>9. QED
    BY <1>2, <1>3, <1>4, <1>5, <1>6, <1>7, <1>8 DEF RingPairNext, Supply, Announce, TransformStep,
       TransformLeases, TransformAcquires, TransformPublishes, TransformDrops, TransformEnds, TransformThrows,
       StopTransform, PairStep, ringPairVars

\* A publication that is not followed by a failure.
LEMMA InOrderPublished ==
  ASSUME StampsAscend, RingHold, PairPlace, InOrder, [RingPairNext]_ringPairVars, faults' = 0, faults = 0,
         TransformPublishes
  PROVE  InOrder'
  <1>1. PICK k, x :
          /\ k = slots["in"][transform.in].n /\ x = slots["in"][transform.in].stamp
          /\ k \in 1 .. supplied[Left] /\ k > transform.last /\ transform.last \in Nat /\ x = Shots[Left][k]
    BY TransformHas DEF TransformPublishes
  <1>2. Left \in Streams /\ "reference" \in Rings
    BY StreamsCounted DEF Left, Rings
  <1>3. k \in 1 .. Len(Shots[Left]) /\ k \in Nat /\ x \in Nat
    <2>1. supplied[Left] \in Nat /\ supplied[Left] <= Len(Shots[Left]) /\ Len(Shots[Left]) \in Nat
      BY <1>2, ShotsOf DEF RingHold, RingTypes
    <2>2. k \in 1 .. Len(Shots[Left])
      BY <1>1, <2>1
    <2>3. QED
      BY <1>1, <1>2, <2>2, ShotsOf
  <1>4. PICK last \in Nat : last = transform.last /\ last < k /\ Seen = last
    BY <1>1, <1>3 DEF Seen, TransformPublishes
  <1>5. Seen' = k
    BY <1>1, TransformMoves
  <1>6. UNCHANGED <<pair, pairsMade>>
    BY DEF TransformPublishes
  <1>7. \A stamp : AmongFirst(stamp, last) => stamp < x /\ AmongFirst(stamp, k)
    <2>1. ASSUME NEW stamp, AmongFirst(stamp, last) PROVE stamp < x /\ AmongFirst(stamp, k)
      <3>1. stamp < Shots[Left][k]
        BY <1>3, <1>4, <2>1, AmongFirstOlder
      <3>2. AmongFirst(stamp, k)
        BY <1>3, <1>4, <2>1 DEF AmongFirst
      <3>3. QED
        BY <1>1, <3>1, <3>2
    <2>2. QED
      BY <2>1
  <1>8. AmongFirst(x, k)
    BY <1>1, <1>3 DEF AmongFirst
  <1>9. PICK n \in Nat : n = Publications("reference")
    BY ReferenceCount
  <1>10. \A i \in 1 .. Depth :
            \/ RefSlot(i)' = RefSlot(i) /\ RefSlot(i).n \in Nat /\ RefSlot(i).n <= n
            \/ RefSlot(i)'.n = 0
            \/ RefSlot(i)'.n = n + 1 /\ RefSlot(i)'.stamp = x
    BY <1>1, <1>2, <1>9, ReferenceSlots DEF RefSlot, RingHold, RingTypes, ReferenceCounted
  <1>11. /\ \A i \in 1 .. Depth : RefSlot(i).n # 0 => AmongFirst(RefSlot(i).stamp, last)
         /\ \A i, j \in 1 .. Depth : RefSlot(i).n # 0 /\ RefSlot(i).n < RefSlot(j).n => RefSlot(i).stamp < RefSlot(j).stamp
         /\ \A p \in 1 .. Len(pairsMade) :
              /\ AmongFirst(pairsMade[p][1], last)
              /\ \A i \in 1 .. Depth : RefSlot(i).n > pair.last => pairsMade[p][1] < RefSlot(i).stamp
              /\ pair.pc = "partner" => pairsMade[p][1] < RefSlot(pair.reference).stamp
         /\ \A p, q \in 1 .. Len(pairsMade) : p < q => pairsMade[p][1] < pairsMade[q][1]
    BY <1>4 DEF InOrder
  <1>12. ASSUME NEW i \in 1 .. Depth, RefSlot(i)'.n # 0 PROVE AmongFirst(RefSlot(i)'.stamp, k)
    BY <1>7, <1>8, <1>10, <1>11, <1>12
  <1>13. ASSUME NEW i \in 1 .. Depth, NEW j \in 1 .. Depth, RefSlot(i)'.n # 0, RefSlot(i)'.n < RefSlot(j)'.n
         PROVE  RefSlot(i)'.stamp < RefSlot(j)'.stamp
    <2>1. CASE RefSlot(j)'.n = n + 1 /\ RefSlot(j)'.stamp = x
      <3>1. RefSlot(i)' = RefSlot(i)
        BY <1>9, <1>10, <1>13, <2>1
      <3>2. QED
        BY <1>7, <1>11, <1>13, <2>1, <3>1
    <2>2. CASE RefSlot(j)' = RefSlot(j) /\ RefSlot(j).n \in Nat /\ RefSlot(j).n <= n
      <3>1. RefSlot(i)' = RefSlot(i)
        BY <1>9, <1>10, <1>13, <2>2
      <3>2. QED
        BY <1>11, <1>13, <2>2, <3>1
    <2>3. CASE RefSlot(j)'.n = 0
      BY <1>9, <1>10, <1>13, <2>3
    <2>4. QED
      BY <1>10, <2>1, <2>2, <2>3
  <1>14. ASSUME NEW p \in 1 .. Len(pairsMade)
         PROVE  /\ AmongFirst(pairsMade[p][1], k)
                /\ \A i \in 1 .. Depth : RefSlot(i)'.n > pair.last => pairsMade[p][1] < RefSlot(i)'.stamp
                /\ pair.pc = "partner" => pairsMade[p][1] < RefSlot(pair.reference)'.stamp
    <2>1. AmongFirst(pairsMade[p][1], k) /\ pairsMade[p][1] < x
      BY <1>7, <1>11
    <2>2. pair.last \in Nat
      BY DEF RingHold, WorkerTypes, PairType
    <2>3. \A i \in 1 .. Depth : RefSlot(i)'.n > pair.last => pairsMade[p][1] < RefSlot(i)'.stamp
      BY <1>10, <1>11, <2>1, <2>2
    <2>4. ASSUME pair.pc = "partner" PROVE RefSlot(pair.reference)' = RefSlot(pair.reference)
      <3>1. HasReference /\ pair'.pc # "step" /\ pair'.pc # "exited" /\ pair'.reference = pair.reference
        BY <1>6, <2>4 DEF HasReference
      <3>2. slots'["reference"][pair.reference] = slots["reference"][pair.reference]
        BY <3>1, PairSideKept
      <3>3. QED
        BY <3>1, <3>2 DEF RefSlot
    <2>5. QED
      BY <1>11, <2>1, <2>3, <2>4
  <1>15. QED
    BY <1>5, <1>6, <1>11, <1>12, <1>13, <1>14 DEF InOrder, AmongFirst, RefSlot
LEMMA InOrderKept ==
  ASSUME StampsAscend, RingHold, PairPlace, ReferenceKnown, InOrder, [RingPairNext]_ringPairVars
  PROVE  InOrder'
  <1> SUFFICES ASSUME faults' = 0 PROVE InOrder'
    BY DEF InOrder
  <1>1. faults = 0
    <2>1. faults' = faults \/ faults' = faults + 1
      BY DEF RingPairNext, Supply, Announce, TransformStep, TransformLeases, TransformAcquires, TransformPublishes,
       TransformDrops, TransformEnds, PairStep, PairLeases, PairCounts, FindPartner, NoPartner, TransformThrows,
       PairDrops, PairEnds, PairThrows, StopTransform, StopPair, ringPairVars, ringVars, Fault
    <2>2. faults \in Nat
      BY DEF RingHold, WorkerTypes
    <2>3. QED
      BY <2>1, <2>2
  <1>2. CASE TransformPublishes
    BY <1>1, <1>2, InOrderPublished
  <1>3. CASE ~TransformPublishes
    <2>1. Seen' = Seen
      BY <1>3, TransformMoves
    <2>2. /\ \A i \in 1 .. Depth : RefSlot(i).n # 0 => AmongFirst(RefSlot(i).stamp, Seen)
          /\ \A i, j \in 1 .. Depth : RefSlot(i).n # 0 /\ RefSlot(i).n < RefSlot(j).n => RefSlot(i).stamp < RefSlot(j).stamp
          /\ \A p \in 1 .. Len(pairsMade) :
               /\ AmongFirst(pairsMade[p][1], Seen)
               /\ \A i \in 1 .. Depth : RefSlot(i).n > pair.last => pairsMade[p][1] < RefSlot(i).stamp
               /\ pair.pc = "partner" => pairsMade[p][1] < RefSlot(pair.reference).stamp
          /\ \A p, q \in 1 .. Len(pairsMade) : p < q => pairsMade[p][1] < pairsMade[q][1]
      BY <1>1 DEF InOrder
    <2>3. \A i \in 1 .. Depth : RefSlot(i)' = RefSlot(i) \/ RefSlot(i)'.n = 0
      BY <1>3, ReferenceSlots DEF RefSlot
    <2>4. /\ pair.last \in Nat /\ pair'.last \in Nat
          /\ \A i \in 1 .. Depth : RefSlot(i).n \in Nat /\ RefSlot(i).stamp \in Nat
      BY WorkerTypesKept DEF RingHold, WorkerTypes, PairType, RingTypes, Rings, RefSlot
    <2>5. /\ \A i \in 1 .. Depth : RefSlot(i)'.n # 0 => AmongFirst(RefSlot(i)'.stamp, Seen')
          /\ \A i, j \in 1 .. Depth :
               RefSlot(i)'.n # 0 /\ RefSlot(i)'.n < RefSlot(j)'.n => RefSlot(i)'.stamp < RefSlot(j)'.stamp
      <3>1. \A i \in 1 .. Depth : RefSlot(i)'.n # 0 => AmongFirst(RefSlot(i)'.stamp, Seen')
        BY <2>1, <2>2, <2>3
      <3>2. ASSUME NEW i \in 1 .. Depth, NEW j \in 1 .. Depth, RefSlot(i)'.n # 0, RefSlot(i)'.n < RefSlot(j)'.n
            PROVE  RefSlot(i)'.stamp < RefSlot(j)'.stamp
        <4>1. RefSlot(i)' = RefSlot(i)
          BY <2>3, <3>2
        <4>2. RefSlot(j)' = RefSlot(j)
          BY <2>3, <2>4, <3>2, <4>1
        <4>3. QED
          BY <2>2, <3>2, <4>1, <4>2
      <3>3. QED
        BY <3>1, <3>2
    <2>6. CASE FindPartner
      <3>1. PICK j \in 1 .. Depth, x \in Nat, y \in Nat :
             /\ pair' = [pair EXCEPT !.pc = "call", !.other = j] /\ pair.pc = "partner"
             /\ pairsMade' = Append(pairsMade, <<x, y>>)
             /\ x = slots["reference"][pair.reference].stamp
             /\ UNCHANGED <<slots, transform, faults>>
        BY <2>6, PairFound
      <3>2. /\ Len(pairsMade) \in Nat /\ Len(pairsMade') = Len(pairsMade) + 1
            /\ pairsMade'[Len(pairsMade) + 1] = <<x, y>>
            /\ \A p \in 1 .. Len(pairsMade) : pairsMade'[p] = pairsMade[p]
        BY <3>1, PairAppended
      <3>3. pair'.pc = "call" /\ pair'.last = pair.last
        BY <3>1 DEF RingHold, WorkerTypes, PairType
      <3>4. PICK r \in 1 .. Depth : r = pair.reference
        BY <3>1 DEF RingHold, PairSide, HasReference, Leasing
      <3>5. RefSlot(r).n # 0 /\ RefSlot(r).n = pair.last /\ RefSlot(r).stamp = x
        BY <3>1, <3>4 DEF RingHold, PairSide, HasReference, Leasing, PairPlace, RefSlot
      <3>6. AmongFirst(x, Seen)
        BY <2>2, <3>5
      <3>7. \A i \in 1 .. Depth : RefSlot(i).n > pair.last => x < RefSlot(i).stamp
        BY <2>2, <2>4, <3>5
      <3>8. \A i \in 1 .. Depth : RefSlot(i)' = RefSlot(i)
        BY <3>1 DEF RefSlot
      <3>9. \A p \in 1 .. Len(pairsMade) : pairsMade[p][1] < x
        BY <2>2, <3>1, <3>4, <3>5
      <3>10. ASSUME NEW p \in 1 .. Len(pairsMade')
             PROVE  /\ AmongFirst(pairsMade'[p][1], Seen)
                    /\ \A i \in 1 .. Depth : RefSlot(i).n > pair.last => pairsMade'[p][1] < RefSlot(i).stamp
        <4>1. CASE p \in 1 .. Len(pairsMade)
          BY <2>2, <3>2, <4>1
        <4>2. CASE p = Len(pairsMade) + 1
          BY <3>2, <3>6, <3>7, <4>2
        <4>3. QED
          BY <3>2, <4>1, <4>2
      <3>11. \A p, q \in 1 .. Len(pairsMade') : p < q => pairsMade'[p][1] < pairsMade'[q][1]
        <4>1. SUFFICES ASSUME NEW p \in 1 .. Len(pairsMade'), NEW q \in 1 .. Len(pairsMade'), p < q
                       PROVE  pairsMade'[p][1] < pairsMade'[q][1]
          OBVIOUS
        <4>2. p \in 1 .. Len(pairsMade) /\ pairsMade'[p] = pairsMade[p]
          BY <3>2, <4>1
        <4>3. CASE q = Len(pairsMade) + 1
          BY <3>2, <3>9, <4>2, <4>3
        <4>4. CASE q \in 1 .. Len(pairsMade)
          BY <2>2, <3>2, <4>1, <4>2, <4>4
        <4>5. QED
          BY <3>2, <4>3, <4>4
      <3>12. QED
        BY <2>1, <2>5, <3>3, <3>8, <3>10, <3>11 DEF InOrder, AmongFirst
    <2>7. CASE PairCounts /\ pairsMade' = pairsMade /\ slots' = slots
               /\ pair'.last = slots["reference"][pair.reference].n /\ pair'.reference = pair.reference
      <3>1. PICK r \in 1 .. Depth : r = pair.reference /\ RefSlot(r).n > pair.last
        BY <2>7 DEF PairCounts, RingHold, PairSide, HasReference, Leasing, PairPlace, RefSlot
      <3>2. pair'.last = RefSlot(r).n /\ \A i \in 1 .. Depth : RefSlot(i)' = RefSlot(i)
        BY <2>7, <3>1 DEF RefSlot
      <3>3. ASSUME NEW p \in 1 .. Len(pairsMade)
            PROVE  /\ AmongFirst(pairsMade[p][1], Seen)
                   /\ \A i \in 1 .. Depth : RefSlot(i).n > pair'.last => pairsMade[p][1] < RefSlot(i).stamp
                   /\ pairsMade[p][1] < RefSlot(r).stamp
        BY <2>2, <2>4, <3>1, <3>2
      <3>4. QED
        BY <2>1, <2>2, <2>5, <2>7, <3>1, <3>2, <3>3 DEF InOrder, AmongFirst, RefSlot
    <2>8. CASE pairsMade' = pairsMade /\ pair'.last = pair.last /\ (pair'.pc = "partner" => pair.pc = "partner")
      <3>1. ASSUME pair'.pc = "partner"
            PROVE  pair.pc = "partner" /\ slots'["reference"][pair'.reference].stamp = RefSlot(pair.reference).stamp
        <4>1. pair.pc = "partner" /\ HasReference
          BY <2>8, <3>1 DEF HasReference
        <4>2. pair'.reference = pair.reference /\ slots'["reference"][pair.reference] = slots["reference"][pair.reference]
          BY <3>1, <4>1, PairSideKept
        <4>3. QED
          BY <4>1, <4>2 DEF RefSlot
      <3>2. ASSUME NEW p \in 1 .. Len(pairsMade)
            PROVE  \A i \in 1 .. Depth : RefSlot(i)'.n > pair.last => pairsMade[p][1] < RefSlot(i)'.stamp
        BY <2>2, <2>3, <2>4
      <3>3. QED
        BY <2>1, <2>2, <2>5, <2>8, <3>1, <3>2 DEF InOrder, AmongFirst, RefSlot
    <2>9. QED
      BY <2>6, <2>7, <2>8, PairMovesOtherwise
  <1>4. QED
    BY <1>2, <1>3
-----------------------------------------------------------------------------
(* Frames that are spaced. *)

\* Any two frames of a spaced camera are as far apart as two that follow one another.
LEMMA SpacedApart ==
  ASSUME Spaced, NEW s \in Streams, NEW i \in 1 .. Len(Shots[s]), NEW j \in 1 .. Len(Shots[s]), i < j
  PROVE  Shots[s][j] - Shots[s][i] > 2 * Tolerance
  <1>1. /\ Len(Shots[s]) \in Nat /\ Tolerance \in Nat
        /\ \A k \in 1 .. Len(Shots[s]) : Shots[s][k] \in Nat
    BY ShotsOf, PairerAssumption
  <1>2. \A k \in 1 .. Len(Shots[s]) - 1 : Shots[s][k + 1] - Shots[s][k] > 2 * Tolerance
    BY DEF Spaced
  <1> DEFINE Near == {k \in 1 .. Len(Shots[s]) : i < k /\ ~(Shots[s][k] - Shots[s][i] > 2 * Tolerance)}
  <1>3. SUFFICES ASSUME Near # {} PROVE FALSE
    OBVIOUS
  <1>4. PICK k \in Near : \A m \in Near : k <= m
    <2>1. Near \in SUBSET Nat
      BY <1>1
    <2> HIDE DEF Near
    <2>2. QED
      BY <2>1, <1>3, LeastOf
  <1>5. k \in 1 .. Len(Shots[s]) /\ i < k /\ ~(Shots[s][k] - Shots[s][i] > 2 * Tolerance)
    OBVIOUS
  <1>6. PICK m \in 1 .. Len(Shots[s]) - 1 : k = m + 1
    BY <1>1, <1>5
  <1>7. Shots[s][k] - Shots[s][m] > 2 * Tolerance
    BY <1>2, <1>6
  <1>8. m # i /\ i < m /\ m \in 1 .. Len(Shots[s])
    BY <1>1, <1>5, <1>6, <1>7
  <1>9. Shots[s][m] - Shots[s][i] > 2 * Tolerance
    BY <1>1, <1>4, <1>6, <1>8
  <1>10. QED
    BY <1>1, <1>5, <1>7, <1>8, <1>9

LEMMA SpacedAscends == Spaced => StampsAscend
  <1> SUFFICES ASSUME Spaced, NEW s \in Streams, NEW i \in 1 .. Len(Shots[s]), NEW j \in 1 .. Len(Shots[s]), i < j
               PROVE  Shots[s][i] < Shots[s][j]
    BY DEF StampsAscend
  <1>1. Tolerance \in Nat /\ \A k \in 1 .. Len(Shots[s]) : Shots[s][k] \in Nat
    BY ShotsOf, PairerAssumption
  <1>2. QED
    BY <1>1, SpacedApart

-----------------------------------------------------------------------------
(* What the offline merge finds. *)

\* Frames so far apart that a frame of another stream is near one of them at most.
Apart(a, tolerance) == \A i, j \in 1 .. Len(a) : i < j => a[j] - a[i] > 2 * tolerance

\* The pairs of near frames from two places on.
NearFrom(a, b, tolerance, i, j) ==
  {p \in (i .. Len(a)) \X (j .. Len(b)) : Distance(a[p[1]], b[p[2]]) <= tolerance}

LEMMA Within ==
  ASSUME NEW x \in Nat, NEW y \in Nat, NEW t \in Nat
  PROVE  Distance(x, y) <= t <=> x - y <= t /\ y - x <= t
  BY DEF Distance

LEMMA FarFromLater ==
  ASSUME NEW x \in Nat, NEW y \in Nat, NEW z \in Nat, NEW t \in Nat, z - x > 2 * t, y - x <= t
  PROVE  ~(z - y <= t)
  OBVIOUS

LEMMA OlderStaysFar ==
  ASSUME NEW x \in Nat, NEW y \in Nat, NEW z \in Nat, NEW t \in Nat, x <= y, ~(x - y <= t /\ y - x <= t),
         z = y \/ z - y > 2 * t
  PROVE  ~(z - x <= t)
  OBVIOUS

\* For frames so far apart, a step of the merge finds the near ones.
LEMMA MergeFindsNear ==
  ASSUME NEW a \in Seq(Nat), NEW b \in Seq(Nat), NEW t \in Nat, Apart(a, t), Apart(b, t),
         NEW i \in 1 .. Len(a) + 1, NEW j \in 1 .. Len(b) + 1, NEW rest,
         i <= Len(a) /\ j <= Len(b) =>
           /\ rest[<<i + 1, j + 1>>] = NearFrom(a, b, t, i + 1, j + 1)
           /\ rest[<<i + 1, j>>] = NearFrom(a, b, t, i + 1, j)
           /\ rest[<<i, j + 1>>] = NearFrom(a, b, t, i, j + 1)
  PROVE  MergeFrom(a, b, t, rest, i, j) = NearFrom(a, b, t, i, j)
  <1>1. /\ Len(a) \in Nat /\ Len(b) \in Nat /\ i \in Nat /\ j \in Nat
        /\ \A k \in 1 .. Len(a) : a[k] \in Nat
        /\ \A k \in 1 .. Len(b) : b[k] \in Nat
    OBVIOUS
  <1> DEFINE Close(x, y) == a[x] - b[y] <= t /\ b[y] - a[x] <= t
  <1>2. \A x \in 1 .. Len(a), y \in 1 .. Len(b) : Distance(a[x], b[y]) <= t <=> Close(x, y)
    BY <1>1, Within
  <1>3. CASE i > Len(a) \/ j > Len(b)
    BY SMTT(30), <1>1, <1>3 DEF MergeFrom, NearFrom
  <1>4. CASE i <= Len(a) /\ j <= Len(b)
    <2>1. /\ i \in 1 .. Len(a) /\ j \in 1 .. Len(b)
          /\ i .. Len(a) = {i} \cup (i + 1 .. Len(a)) /\ j .. Len(b) = {j} \cup (j + 1 .. Len(b))
          /\ \A x \in i + 1 .. Len(a) : x \in 1 .. Len(a) /\ x \in i .. Len(a) /\ a[x] - a[i] > 2 * t
          /\ \A y \in j + 1 .. Len(b) : y \in 1 .. Len(b) /\ y \in j .. Len(b) /\ b[y] - b[j] > 2 * t
      <3>1. i \in 1 .. Len(a) /\ j \in 1 .. Len(b)
        BY <1>1, <1>4
      <3>2. i .. Len(a) = {i} \cup (i + 1 .. Len(a)) /\ j .. Len(b) = {j} \cup (j + 1 .. Len(b))
        BY <1>1, <1>4
      <3>3. ASSUME NEW x \in i + 1 .. Len(a) PROVE x \in 1 .. Len(a) /\ x \in i .. Len(a) /\ a[x] - a[i] > 2 * t
        <4>1. x \in 1 .. Len(a) /\ x \in i .. Len(a) /\ i < x
          BY <1>1
        <4>2. QED
          BY <3>1, <4>1 DEF Apart
      <3>4. ASSUME NEW y \in j + 1 .. Len(b) PROVE y \in 1 .. Len(b) /\ y \in j .. Len(b) /\ b[y] - b[j] > 2 * t
        <4>1. y \in 1 .. Len(b) /\ y \in j .. Len(b) /\ j < y
          BY <1>1
        <4>2. QED
          BY <3>1, <4>1 DEF Apart
      <3>5. QED
        BY <3>1, <3>2, <3>3, <3>4
    <2> HIDE DEF Close
    <2>10. ASSUME NEW x \in 1 .. Len(a), NEW y \in 1 .. Len(b)
           PROVE  Close(x, y) <=> a[x] - b[y] <= t /\ b[y] - a[x] <= t
      BY DEF Close
    <2>11. a[i] \in Nat /\ b[j] \in Nat
      BY <1>1, <2>1
    <2>12. PICK u \in Nat : u = a[i]
      BY <2>11
    <2>13. PICK w \in Nat : w = b[j]
      BY <2>11
    <2>14. Close(i, j) <=> u - w <= t /\ w - u <= t
      BY <2>1, <2>10, <2>12, <2>13
    <2>2. CASE Close(i, j)
      <3>1. \A x \in i + 1 .. Len(a) : ~Close(x, j)
        <4>1. SUFFICES ASSUME NEW x \in i + 1 .. Len(a) PROVE ~Close(x, j)
          OBVIOUS
        <4>2. a[x] \in Nat /\ x \in 1 .. Len(a) /\ a[x] - a[i] > 2 * t
          BY <1>1, <2>1
        <4>3. QED
          <5>1. Close(x, j) <=> (a[x] - b[j] <= t /\ b[j] - a[x] <= t)
            BY <2>1, <2>10, <4>2
          <5>2. (a[i] - b[j] <= t /\ b[j] - a[i] <= t)
            BY <2>1, <2>10, <2>2
          <5>3. QED
            BY <2>11, <4>2, <5>1, <5>2, FarFromLater
      <3>2. \A y \in j + 1 .. Len(b) : ~Close(i, y)
        <4>1. SUFFICES ASSUME NEW y \in j + 1 .. Len(b) PROVE ~Close(i, y)
          OBVIOUS
        <4>2. b[y] \in Nat /\ y \in 1 .. Len(b) /\ b[y] - b[j] > 2 * t
          BY <1>1, <2>1
        <4>3. QED
          <5>1. Close(i, y) <=> (a[i] - b[y] <= t /\ b[y] - a[i] <= t)
            BY <2>1, <2>10, <4>2
          <5>2. (a[i] - b[j] <= t /\ b[j] - a[i] <= t)
            BY <2>1, <2>10, <2>2
          <5>3. QED
            BY <2>11, <4>2, <5>1, <5>2, FarFromLater
      <3>3. NearFrom(a, b, t, i, j) = {<<i, j>>} \cup NearFrom(a, b, t, i + 1, j + 1)
        <4>1. <<i, j>> \in NearFrom(a, b, t, i, j)
          BY <1>2, <2>1, <2>2 DEF NearFrom
        <4>2. NearFrom(a, b, t, i + 1, j + 1) \subseteq NearFrom(a, b, t, i, j)
          BY <2>1 DEF NearFrom
        <4>3. NearFrom(a, b, t, i, j) \subseteq {<<i, j>>} \cup NearFrom(a, b, t, i + 1, j + 1)
          <5>1. SUFFICES ASSUME NEW x \in i .. Len(a), NEW y \in j .. Len(b), Close(x, y)
                         PROVE  <<x, y>> \in {<<i, j>>} \cup NearFrom(a, b, t, i + 1, j + 1)
            <6>1. SUFFICES ASSUME NEW p \in NearFrom(a, b, t, i, j)
                           PROVE  p \in {<<i, j>>} \cup NearFrom(a, b, t, i + 1, j + 1)
              OBVIOUS
            <6>2. PICK x \in i .. Len(a), y \in j .. Len(b) : p = <<x, y>> /\ Distance(a[x], b[y]) <= t
              BY SMTT(30) DEF NearFrom
            <6>3. Close(x, y)
              BY <1>2, <2>1, <6>2
            <6>4. QED
              BY <6>2, <6>3
          <5>2. CASE x = i
            BY <2>1, <3>2, <5>1, <5>2
          <5>3. CASE x # i
            <6>1. x \in i + 1 .. Len(a)
              BY <2>1, <5>1, <5>3
            <6>2. y # j
              BY <3>1, <5>1, <6>1
            <6>3. y \in j + 1 .. Len(b)
              BY <2>1, <5>1, <6>2
            <6>4. Distance(a[x], b[y]) <= t
              BY <1>2, <2>1, <5>1
            <6>5. QED
              BY <6>1, <6>3, <6>4 DEF NearFrom
          <5>4. QED
            BY <5>2, <5>3
        <4>4. QED
          BY <4>1, <4>2, <4>3
      <3>4. QED
        <4>1. Distance(a[i], b[j]) <= t /\ ~(i > Len(a) \/ j > Len(b))
          BY SMTT(30), <1>1, <1>2, <1>4, <2>1, <2>2
        <4>2. MergeFrom(a, b, t, rest, i, j) = {<<i, j>>} \cup rest[<<i + 1, j + 1>>]
          BY <4>1 DEF MergeFrom
        <4>3. QED
          BY <1>4, <3>3, <4>2
    <2>3. CASE ~Close(i, j) /\ a[i] < b[j]
      <3>1. \A y \in j .. Len(b) : ~Close(i, y)
        <4>1. SUFFICES ASSUME NEW y \in j .. Len(b) PROVE ~Close(i, y)
          OBVIOUS
        <4>2. b[y] \in Nat /\ y \in 1 .. Len(b) /\ (y = j \/ b[y] - b[j] > 2 * t)
          BY <1>1, <2>1
        <4>3. PICK z \in Nat : z = b[y]
          BY <4>2
        <4>4. u <= w /\ ~(u - w <= t /\ w - u <= t)
          <5>1. u < w
            BY <2>3, <2>12, <2>13
          <5>2. ~(u - w <= t /\ w - u <= t)
            BY <2>3, <2>14
          <5>3. QED
            BY <5>1, <5>2
        <4>5. z = w \/ z - w > 2 * t
          BY <4>2, <4>3, <2>13
        <4>6. ~(z - u <= t)
          BY <4>4, <4>5, OlderStaysFar
        <4>7. QED
          BY <2>1, <2>10, <2>12, <4>2, <4>3, <4>6
      <3>2. NearFrom(a, b, t, i, j) = NearFrom(a, b, t, i + 1, j)
        BY <1>2, <2>1, <3>1 DEF NearFrom
      <3>3. QED
        <4>1. ~(Distance(a[i], b[j]) <= t) /\ ~(i > Len(a) \/ j > Len(b)) /\ FirstIsOlder(a[i], b[j])
          BY <1>1, <1>2, <1>4, <2>1, <2>3 DEF FirstIsOlder
        <4>2. MergeFrom(a, b, t, rest, i, j) = rest[<<i + 1, j>>]
          BY <4>1 DEF MergeFrom
        <4>3. QED
          BY <1>4, <3>2, <4>2
    <2>4. CASE ~Close(i, j) /\ ~(a[i] < b[j])
      <3>1. \A x \in i .. Len(a) : ~Close(x, j)
        <4>1. SUFFICES ASSUME NEW x \in i .. Len(a) PROVE ~Close(x, j)
          OBVIOUS
        <4>2. a[x] \in Nat /\ x \in 1 .. Len(a) /\ (x = i \/ a[x] - a[i] > 2 * t)
          BY <1>1, <2>1
        <4>3. PICK z \in Nat : z = a[x]
          BY <4>2
        <4>4. w <= u /\ ~(u - w <= t /\ w - u <= t)
          <5>1. ~(u < w)
            BY <2>4, <2>12, <2>13
          <5>2. ~(u - w <= t /\ w - u <= t)
            BY <2>4, <2>14
          <5>3. QED
            BY <5>1, <5>2
        <4>5. z = u \/ z - u > 2 * t
          BY <4>2, <4>3, <2>12
        <4>6. ~(z - w <= t)
          BY <4>4, <4>5, OlderStaysFar
        <4>7. QED
          BY <2>1, <2>10, <2>13, <4>2, <4>3, <4>6
      <3>2. NearFrom(a, b, t, i, j) = NearFrom(a, b, t, i, j + 1)
        BY <1>2, <2>1, <3>1 DEF NearFrom
      <3>3. QED
        <4>1. ~(Distance(a[i], b[j]) <= t) /\ ~(i > Len(a) \/ j > Len(b)) /\ ~FirstIsOlder(a[i], b[j])
          BY SMTT(30), <1>1, <1>2, <1>4, <2>1, <2>4 DEF FirstIsOlder
        <4>2. MergeFrom(a, b, t, rest, i, j) = rest[<<i, j + 1>>]
          BY <4>1 DEF MergeFrom
        <4>3. QED
          BY <1>4, <3>2, <4>2
    <2>5. QED
      BY <2>2, <2>3, <2>4
  <1>5. QED
    BY <1>1, <1>3, <1>4

\* The offline merge pairs all frames that are near one another.
LEMMA PairUpFindsNear ==
  ASSUME NEW a \in Seq(Nat), NEW b \in Seq(Nat), NEW t \in Nat, Apart(a, t), Apart(b, t)
  PROVE  PairUp(a, b, t) = NearFrom(a, b, t, 1, 1)
  <1>1. Len(a) \in Nat /\ Len(b) \in Nat
    OBVIOUS
  <1>2. PICK near : near = [at \in MergePlaces(a, b) |-> NearFrom(a, b, t, at[1], at[2])]
    OBVIOUS
  <1>3. ASSUME NEW i \in 1 .. Len(a) + 1, NEW j \in 1 .. Len(b) + 1
        PROVE  <<i, j>> \in MergePlaces(a, b) /\ near[<<i, j>>] = NearFrom(a, b, t, i, j)
    BY <1>2 DEF MergePlaces
  <1>4. ASSUME NEW i \in 1 .. Len(a) + 1, NEW j \in 1 .. Len(b) + 1, NEW f,
               i <= Len(a) /\ j <= Len(b) =>
                 /\ f[<<i + 1, j + 1>>] = near[<<i + 1, j + 1>>]
                 /\ f[<<i + 1, j>>] = near[<<i + 1, j>>]
                 /\ f[<<i, j + 1>>] = near[<<i, j + 1>>]
        PROVE  MergeFrom(a, b, t, f, i, j) = near[<<i, j>>]
    <2>1. i <= Len(a) /\ j <= Len(b) =>
            /\ f[<<i + 1, j + 1>>] = NearFrom(a, b, t, i + 1, j + 1)
            /\ f[<<i + 1, j>>] = NearFrom(a, b, t, i + 1, j)
            /\ f[<<i, j + 1>>] = NearFrom(a, b, t, i, j + 1)
      <3>1. CASE i <= Len(a) /\ j <= Len(b)
        <4>1. i + 1 \in 1 .. Len(a) + 1 /\ j + 1 \in 1 .. Len(b) + 1
          BY <1>1, <3>1
        <4>2. QED
          BY <1>3, <1>4, <3>1, <4>1
      <3>2. QED
        BY <3>1
    <2>2. MergeFrom(a, b, t, f, i, j) = NearFrom(a, b, t, i, j)
      BY <2>1, MergeFindsNear
    <2>3. QED
      BY <1>3, <2>2
  <1>5. near = [at \in MergePlaces(a, b) |-> MergeFrom(a, b, t, near, at[1], at[2])]
    <2>1. ASSUME NEW at \in MergePlaces(a, b) PROVE near[at] = MergeFrom(a, b, t, near, at[1], at[2])
      <3>1. PICK i \in 1 .. Len(a) + 1, j \in 1 .. Len(b) + 1 : at = <<i, j>>
        BY DEF MergePlaces
      <3>2. MergeFrom(a, b, t, near, i, j) = near[<<i, j>>]
        BY <1>4
      <3>3. QED
        BY <3>1, <3>2
    <2>2. QED
      BY <1>2, <2>1
  <1>6. PICK f : f = CHOOSE g : g = [at \in MergePlaces(a, b) |-> MergeFrom(a, b, t, g, at[1], at[2])]
    OBVIOUS
  <1>7. f = [at \in MergePlaces(a, b) |-> MergeFrom(a, b, t, f, at[1], at[2])]
    BY <1>5, <1>6
  <1>8. PairUp(a, b, t) = f[<<1, 1>>]
    BY <1>6 DEF PairUp
  <1> DEFINE Ahead(i, j) == (Len(a) + 1 - i) + (Len(b) + 1 - j)
             Wrong == {n \in Nat : \E i \in 1 .. Len(a) + 1, j \in 1 .. Len(b) + 1 :
                                     n = Ahead(i, j) /\ f[<<i, j>>] # near[<<i, j>>]}
  <1>9. Wrong = {}
    <2>1. SUFFICES ASSUME Wrong # {} PROVE FALSE
      OBVIOUS
    <2>2. Wrong \in SUBSET Nat
      OBVIOUS
    <2>3. PICK n \in Wrong : \A m \in Wrong : n <= m
      <3> HIDE DEF Wrong
      <3>1. QED
        BY <2>1, <2>2, LeastOf
    <2>4. PICK i \in 1 .. Len(a) + 1, j \in 1 .. Len(b) + 1 : n = Ahead(i, j) /\ f[<<i, j>>] # near[<<i, j>>]
      OBVIOUS
    <2>5. ASSUME NEW k \in 1 .. Len(a) + 1, NEW l \in 1 .. Len(b) + 1, Ahead(k, l) < n
          PROVE  f[<<k, l>>] = near[<<k, l>>]
      <3>1. Ahead(k, l) \in Nat /\ n \in Nat
        BY <1>1
      <3>2. Ahead(k, l) \notin Wrong
        <4> HIDE DEF Wrong, Ahead
        <4>1. QED
          BY <2>3, <2>5, <3>1
      <3>3. QED
        BY <3>1, <3>2
    <2>6. i <= Len(a) /\ j <= Len(b) =>
            /\ f[<<i + 1, j + 1>>] = near[<<i + 1, j + 1>>]
            /\ f[<<i + 1, j>>] = near[<<i + 1, j>>]
            /\ f[<<i, j + 1>>] = near[<<i, j + 1>>]
      <3>1. SUFFICES ASSUME i <= Len(a), j <= Len(b)
                     PROVE  /\ f[<<i + 1, j + 1>>] = near[<<i + 1, j + 1>>]
                            /\ f[<<i + 1, j>>] = near[<<i + 1, j>>]
                            /\ f[<<i, j + 1>>] = near[<<i, j + 1>>]
        OBVIOUS
      <3>2. i + 1 \in 1 .. Len(a) + 1 /\ j + 1 \in 1 .. Len(b) + 1
        BY <1>1, <3>1
      <3>3. Ahead(i + 1, j + 1) < n /\ Ahead(i + 1, j) < n /\ Ahead(i, j + 1) < n
        BY <1>1, <2>4
      <3>4. QED
        <4> HIDE DEF Ahead
        <4>1. QED
          BY <2>5, <3>2, <3>3
    <2>7. MergeFrom(a, b, t, f, i, j) = near[<<i, j>>]
      BY <2>6, <1>4
    <2>8. f[<<i, j>>] = MergeFrom(a, b, t, f, i, j)
      BY <1>3, <1>7
    <2>9. QED
      BY <2>4, <2>7, <2>8
  <1>10. f[<<1, 1>>] = near[<<1, 1>>]
    <2>1. Ahead(1, 1) \in Nat /\ 1 \in 1 .. Len(a) + 1 /\ 1 \in 1 .. Len(b) + 1
      BY <1>1
    <2>2. QED
      BY <1>9, <2>1
  <1>11. QED
    BY <1>1, <1>3, <1>8, <1>10

\* Of the two cameras' frames, when they are spaced, it pairs those within the tolerance.
THEOREM OfflinePairs ==
  ASSUME Spaced
  PROVE  PairUp(Shots[Left], Shots[Right], Tolerance)
           = {p \in (1 .. Len(Shots[Left])) \X (1 .. Len(Shots[Right])) :
                Distance(Shots[Left][p[1]], Shots[Right][p[2]]) <= Tolerance}
  <1>1. Left \in Streams /\ Right \in Streams /\ Tolerance \in Nat
    BY StreamsCounted, PairerAssumption DEF Left, Right
  <1>2. \A s \in Streams : Shots[s] \in Seq(Nat \ {0}) /\ Shots[s] \in Seq(Nat) /\ Apart(Shots[s], Tolerance)
    <2>1. ASSUME NEW s \in Streams PROVE Shots[s] \in Seq(Nat \ {0}) /\ Apart(Shots[s], Tolerance)
      BY ShotsOf, SpacedApart DEF Apart
    <2>2. QED
      BY <2>1
  <1>3. PairUp(Shots[Left], Shots[Right], Tolerance) = NearFrom(Shots[Left], Shots[Right], Tolerance, 1, 1)
    BY <1>1, <1>2, PairUpFindsNear
  <1>4. QED
    BY <1>3 DEF NearFrom

-----------------------------------------------------------------------------
(* What holds from the start and is kept. *)

RingTrue ==
  /\ RingHold /\ PairPlace /\ Accounts /\ ReferenceKnown /\ PairsKnown
  /\ StampsAscend => TransformedInOrder /\ InOrder

LEMMA RingTrueStarts == Init => RingTrue
  <1> SUFFICES ASSUME Init PROVE RingTrue
    OBVIOUS
  <1> USE DEF Init, RingPairInit, Empty, NoSlot
  <1>1. Depth \in Nat /\ "reference" \in Rings /\ RingHold
    BY RingPairAssumption, RingHoldStarts DEF Rings
  <1>2. PairPlace
    BY <1>1 DEF PairPlace, Publications
  <1>3. Accounts
    BY DEF Accounts, InPartner
  <1>4. ReferenceKnown
    BY <1>1 DEF ReferenceKnown
  <1>5. PairsKnown
    BY DEF PairsKnown
  <1>6. TransformedInOrder
    BY DEF TransformedInOrder, TransformedOnce
  <1>7. InOrder
    BY <1>1 DEF InOrder, RefSlot
  <1>8. QED
    BY <1>1, <1>2, <1>3, <1>4, <1>5, <1>6, <1>7 DEF RingTrue

LEMMA RingTrueKept == RingTrue /\ [Next]_vars => RingTrue'
  <1> SUFFICES ASSUME RingTrue, [RingPairNext]_ringPairVars PROVE RingTrue'
    BY StepsOfTheRings
  <1>1. RingHold /\ PairPlace /\ Accounts /\ ReferenceKnown /\ PairsKnown
    BY DEF RingTrue
  <1>2. RingHold' /\ PairPlace' /\ Accounts' /\ ReferenceKnown' /\ PairsKnown'
    BY <1>1, RingHoldKept, PairPlaceKept, AccountsKept, ReferenceKnownKept, PairsKnownKept
  <1>3. StampsAscend => TransformedInOrder' /\ InOrder'
    BY <1>1, TransformedInOrderKept, InOrderKept DEF RingTrue
  <1>4. StampsAscend' <=> StampsAscend
    BY DEF StampsAscend
  <1>5. QED
    BY <1>2, <1>3, <1>4 DEF RingTrue

LEMMA RingStaysTrue == Spec => []RingTrue
  BY RingTrueStarts, RingTrueKept, PTL DEF Spec

LEMMA NoFrameTwice ==
  ASSUME RingTrue, Spaced, faults = 0, NEW i \in DOMAIN pairsMade, NEW j \in DOMAIN pairsMade, i < j
  PROVE  pairsMade[i][1] # pairsMade[j][1] /\ pairsMade[i][2] # pairsMade[j][2]
  <1>1. pairsMade \in Seq(Nat \X Nat) /\ i \in 1 .. Len(pairsMade) /\ j \in 1 .. Len(pairsMade)
    BY DEF RingTrue, RingHold, WorkerTypes
  <1>2. pairsMade[i][1] < pairsMade[j][1] /\ KnownPair(pairsMade[i]) /\ KnownPair(pairsMade[j])
    BY <1>1, SpacedAscends DEF RingTrue, InOrder, PairsKnown
  <1>3. PICK k \in 1 .. Len(Shots[Left]), m \in 1 .. Len(Shots[Right]) :
          pairsMade[i] = <<Shots[Left][k], Shots[Right][m]>> /\ Distance(Shots[Left][k], Shots[Right][m]) <= Tolerance
    BY <1>2 DEF KnownPair
  <1>4. PICK l \in 1 .. Len(Shots[Left]), n \in 1 .. Len(Shots[Right]) :
          pairsMade[j] = <<Shots[Left][l], Shots[Right][n]>> /\ Distance(Shots[Left][l], Shots[Right][n]) <= Tolerance
    BY <1>2 DEF KnownPair
  <1>5. Left \in Streams /\ Right \in Streams /\ Tolerance \in Nat
    BY StreamsCounted, PairerAssumption DEF Left, Right
  <1>6. /\ Shots[Left][k] \in Nat /\ Shots[Left][l] \in Nat /\ Shots[Right][m] \in Nat /\ Shots[Right][n] \in Nat
        /\ k \in Nat /\ l \in Nat
    BY SMTT(30), <1>5, ShotsOf
  <1>7. Shots[Left][k] < Shots[Left][l]
    BY <1>2, <1>3, <1>4
  <1>8. Shots[Left][l] - Shots[Left][k] > 2 * Tolerance
    <2>1. CASE k < l
      BY <1>5, <2>1, SpacedApart
    <2>2. CASE ~(k < l)
      <3>1. l = k \/ Shots[Left][l] < Shots[Left][k]
        BY <1>5, <1>6, <2>2, SpacedAscends DEF StampsAscend
      <3>2. QED
        BY <1>6, <1>7, <3>1
    <2>3. QED
      BY <2>1, <2>2
  <1>9. Shots[Right][m] # Shots[Right][n]
    <2>1. Shots[Left][l] - Shots[Right][n] <= Tolerance /\ Shots[Right][m] - Shots[Left][k] <= Tolerance
      <3>1. Distance(Shots[Left][k], Shots[Right][m]) <= Tolerance /\ Distance(Shots[Left][l], Shots[Right][n]) <= Tolerance
        BY <1>3, <1>4
      <3>2. QED
        BY <3>1, <1>5, <1>6, Within
    <2>2. QED
      BY SMTT(30), <1>5, <1>6, <1>8, <2>1
  <1>10. QED
    BY <1>2, <1>3, <1>4, <1>6, <1>7, <1>9

(* The two frames of a pair are held while the callback looks at them, and as long as no *)
(* call failed no frame of either camera is handed over twice.                           *)
THEOREM PairsStayIntact == Spec => []PairsIntact
  <1>1. ASSUME RingTrue PROVE PairsIntact
    <2>1. ASSUME pair.pc = "call"
          PROVE  LET made == pairsMade[Len(pairsMade)] IN
                 /\ <<slots["reference"][pair.reference].stamp, slots["other"][pair.other].stamp>> = made
                 /\ Distance(made[1], made[2]) <= Tolerance
      <3>1. Len(pairsMade) \in 1 .. Len(pairsMade) /\ pairsMade[Len(pairsMade)] = PairInHand
        BY <1>1, <2>1 DEF RingTrue, RingHold, WorkerTypes, PairsKnown
      <3>2. KnownPair(pairsMade[Len(pairsMade)])
        BY <1>1, <3>1 DEF RingTrue, PairsKnown
      <3>3. QED
        BY <3>1, <3>2 DEF KnownPair, PairInHand
    <2>2. ASSUME Spaced, faults = 0, NEW i \in DOMAIN pairsMade, NEW j \in DOMAIN pairsMade
          PROVE  ~Twice(i, j, 1) /\ ~Twice(i, j, 2)
      <3>1. i \in Nat /\ j \in Nat
        BY <1>1 DEF RingTrue, RingHold, WorkerTypes
      <3>2. QED
        BY <1>1, <2>2, <3>1, NoFrameTwice DEF Twice
    <2>3. QED
      BY <2>1, <2>2 DEF PairsIntact
  <1>2. QED
    BY <1>1, RingStaysTrue, PTL

(* Every reference frame that was leased is paired, unpaired or lost to an exception, and *)
(* the counters say how many and how many were skipped.                                   *)
THEOREM ReferencesAddUp == Spec => []ReferencesAccounted
  <1>1. ASSUME RingTrue PROVE ReferencesAccounted
    <2>1. leased.frames \in Seq(Nat)
      BY <1>1 DEF RingTrue, RingHold, WorkerTypes, LeasedType
    <2>2. QED
      BY <1>1, <2>1 DEF RingTrue, Accounts, InPartner, ReferencesAccounted
  <1>2. QED
    BY <1>1, RingStaysTrue, PTL

(* For cameras whose stamps ascend, the transform stage is through with a frame once, *)
(* whatever fails on the way.                                                         *)
THEOREM FramesTransformedOnce == ASSUME StampsAscend PROVE Spec => []TransformedOnce
  <1>1. RingTrue => TransformedOnce
    BY DEF RingTrue, TransformedInOrder
  <1>2. QED
    BY <1>1, RingStaysTrue, PTL

(* The pairs made of two device rings are pairs that the merge of the whole streams makes. *)
THEOREM DevicePairsBelong == Spec => []DevicePairsTrue
  <1>1. ASSUME RingTrue PROVE DevicePairsTrue
    <2>1. SUFFICES ASSUME Spaced, NEW i \in DOMAIN pairsMade
                   PROVE  \E p \in PairUp(Shots[Left], Shots[Right], Tolerance) :
                            pairsMade[i] = <<Shots[Left][p[1]], Shots[Right][p[2]]>>
      BY DEF DevicePairsTrue
    <2>2. KnownPair(pairsMade[i])
      BY SMTT(30), <1>1, <2>1 DEF RingTrue, RingHold, WorkerTypes, PairsKnown
    <2>3. PICK k \in 1 .. Len(Shots[Left]), m \in 1 .. Len(Shots[Right]) :
            pairsMade[i] = <<Shots[Left][k], Shots[Right][m]>> /\ Distance(Shots[Left][k], Shots[Right][m]) <= Tolerance
      BY <2>2 DEF KnownPair
    <2>4. <<k, m>> \in PairUp(Shots[Left], Shots[Right], Tolerance)
      BY <2>1, <2>3, OfflinePairs
    <2>5. QED
      BY <2>3, <2>4
  <1>2. QED
    BY <1>1, RingStaysTrue, PTL
-----------------------------------------------------------------------------
(* The live pairing: what the readers are still to push. *)

\* The buffers in flight that the reader has not handed over.
Unpushed(s, b) == buffer[s][b] # Idle /\ ~(reader[s].pc = "release" /\ reader[s].buffer = b)

\* What a step leaves to be pushed: what was, and what is exposed in it.
UnpushedLater(s) ==
  /\ exposed[s] <= exposed'[s]
  /\ \A b \in 1 .. Buffers : Unpushed(s, b)' =>
       (Unpushed(s, b) /\ buffer'[s][b] = buffer[s][b]) \/ buffer'[s][b] > exposed[s]

LEMMA UnpushedMoves ==
  ASSUME RigInv, [Next]_vars, NEW s \in Streams
  PROVE  UnpushedLater(s)
  <1>1. /\ RigNext \/ UNCHANGED liveVars
        /\ exposed[s] \in Nat /\ buffer[s] \in [1 .. Buffers -> Nat] /\ BuffersInLine(s)
        /\ exposed \in [Streams -> Nat] /\ buffer \in [Streams -> [1 .. Buffers -> Nat]]
        /\ reader \in [Streams -> [pc : {"none", "pop", "call", "release", "exited"}, buffer : 0 .. Buffers]]
        /\ Again \in {"pop", "exited"}
    BY StepsOfTheRig, RigFacts DEF RigInv, RigTypes, Again
  <1>2. CASE exposed' = exposed /\ buffer' = buffer /\ (reader'[s] = reader[s] \/ reader[s].pc # "release")
    BY <1>1, <1>2 DEF UnpushedLater, Unpushed
  <1>3. ASSUME NEW r \in Streams, Commit(r) PROVE UnpushedLater(s)
    <2>1. PICK c \in 1 .. Buffers : buffer[r][c] = Idle /\ buffer' = [buffer EXCEPT ![r][c] = exposed[r] + 1]
      BY <1>3 DEF Commit
    <2>2. exposed' = [exposed EXCEPT ![r] = @ + 1] /\ reader' = reader
      BY <1>3 DEF Commit
    <2>3. exposed'[s] = (IF r = s THEN exposed[s] + 1 ELSE exposed[s])
      BY <1>1, <2>2
    <2>4. ASSUME NEW b \in 1 .. Buffers
          PROVE  buffer'[s][b] = buffer[s][b] \/ buffer'[s][b] = exposed[s] + 1
      BY <1>1, <2>1
    <2>5. QED
      BY <1>1, <2>2, <2>3, <2>4 DEF UnpushedLater, Unpushed
  <1>4. ASSUME NEW r \in Streams, Starve(r) PROVE UnpushedLater(s)
    <2>1. exposed' = [exposed EXCEPT ![r] = @ + 1] /\ UNCHANGED <<buffer, reader>>
      BY <1>4 DEF Starve, sinkVars
    <2>2. exposed'[s] = (IF r = s THEN exposed[s] + 1 ELSE exposed[s])
      BY <1>1, <2>1
    <2>3. QED
      BY <1>1, <2>1, <2>2 DEF UnpushedLater, Unpushed
  <1>5. ASSUME NEW r \in Streams, Release(r) PROVE UnpushedLater(s)
    <2>1. /\ reader[r].pc = "release" /\ exposed' = exposed
          /\ buffer' = [buffer EXCEPT ![r][reader[r].buffer] = Idle]
          /\ reader' = [reader EXCEPT ![r] = [pc |-> Again, buffer |-> NoBuffer]]
      BY <1>5 DEF Release, cameraVars
    <2>2. CASE r = s
      <3>1. /\ reader'[s].pc # "release"
            /\ \A b \in 1 .. Buffers : buffer'[s][b] = IF b = reader[s].buffer THEN Idle ELSE buffer[s][b]
        BY <1>1, <2>1, <2>2
      <3>2. QED
        BY <1>1, <2>1, <3>1 DEF UnpushedLater, Unpushed
    <2>3. CASE r # s
      <3>1. reader'[s] = reader[s] /\ buffer'[s] = buffer[s]
        BY <1>1, <2>1, <2>3
      <3>2. QED
        BY <1>1, <2>1, <3>1 DEF UnpushedLater, Unpushed
    <2>4. QED
      BY <2>2, <2>3
  <1>6. ASSUME NEW r \in Streams, Pop(r) \/ PopNothing(r) \/ Callback(r) PROVE UnpushedLater(s)
    <2>1. UNCHANGED <<exposed, buffer>> /\ reader[r].pc # "release"
      BY <1>6 DEF Pop, PopNothing, Callback, cameraVars, sinkVars
    <2>2. r # s => reader'[s] = reader[s]
      BY <1>1, <1>6 DEF Pop, PopNothing, Callback
    <2>3. QED
      BY <1>2, <2>1, <2>2
  <1>7. ASSUME NEW r \in Streams, main = "start", StartStream(r) \/ StartThrows(r) PROVE UnpushedLater(s)
    <2>1. UNCHANGED <<exposed, buffer>> /\ reader' = [reader EXCEPT ![r].pc = "pop"] /\ camera[r] = "off"
      BY <1>7 DEF StartStream, StartThrows, cameraVars, sinkVars
    <2>2. reader[r].pc # "release" /\ (r # s => reader'[s] = reader[s])
      <3>1. reader[r].buffer = NoBuffer /\ BuffersInLine(r)
        BY <1>7, <2>1 DEF RigInv, RigTypes
      <3>2. QED
        BY <1>1, <2>1, <3>1 DEF BuffersInLine, InHands
    <2>3. QED
      BY <1>2, <2>1, <2>2
  <1>8. CASE StopLive \/ StopStep \/ (\E r \in Streams : GiveUp(r)) \/ UNCHANGED liveVars
    BY <1>2, <1>8 DEF StopLive, StopStep, StopSource, Drained, ClearRunning, CloseSink, JoinReader, GiveUp,
         cameraVars, sinkVars, controlVars, liveVars
  <1>9. QED
    BY <1>1, <1>3, <1>4, <1>5, <1>6, <1>7, <1>8 DEF RigNext

\* The callback is given the oldest of them.
LEMMA OldestDelivered ==
  ASSUME RigInv, NEW s \in Streams, Callback(s)
  PROVE  /\ reader[s].buffer \in 1 .. Buffers /\ Unpushed(s, reader[s].buffer)
         /\ Delivered(s) \in 1 .. exposed[s] /\ exposed' = exposed
         /\ \A b \in 1 .. Buffers : Unpushed(s, b)' => Delivered(s) < buffer'[s][b]
  <1>1. /\ reader[s].pc = "call" /\ reader' = [reader EXCEPT ![s].pc = "release"]
        /\ UNCHANGED <<buffer, ready, exposed>>
    BY DEF Callback, cameraVars, sinkVars
  <1>2. /\ exposed[s] \in Nat /\ buffer[s] \in [1 .. Buffers -> Nat] /\ BuffersInLine(s)
        /\ reader[s].buffer \in 0 .. Buffers /\ Buffers \in Nat
        /\ reader \in [Streams -> [pc : {"none", "pop", "call", "release", "exited"}, buffer : 0 .. Buffers]]
    BY RigFacts, BuffersAssumption DEF RigInv, RigTypes
  <1>3. InHands(s) /\ reader[s].buffer \in 1 .. Buffers
    BY <1>1, <1>2 DEF BuffersInLine, InHands, NoBuffer
  <1>4. buffer[s][reader[s].buffer] # Idle /\ buffer[s][reader[s].buffer] <= exposed[s]
    BY <1>2, <1>3 DEF BuffersInLine
  <1>5. reader'[s].pc = "release" /\ reader'[s].buffer = reader[s].buffer
    BY <1>1, <1>2
  <1>6. ASSUME NEW b \in 1 .. Buffers, Unpushed(s, b)' PROVE Delivered(s) < buffer'[s][b]
    <2>1. buffer[s][b] # Idle /\ b # reader[s].buffer
      BY <1>1, <1>5, <1>6 DEF Unpushed
    <2>2. PICK i \in 1 .. Len(ready[s]) : ready[s][i] = b
      BY <1>2, <2>1 DEF BuffersInLine
    <2>3. QED
      BY <1>1, <1>2, <1>3, <2>2 DEF BuffersInLine, Delivered
  <1>7. QED
    BY <1>1, <1>2, <1>3, <1>4, <1>6 DEF Unpushed, Delivered, Idle

-----------------------------------------------------------------------------
(* What push() and try_pop() do to the frames. *)

EntryType == [frame : Nat, block : Nat]

FramesOf(entries) == {entries[i].frame : i \in 1 .. Len(entries)}
Ascending(entries) == \A i, j \in 1 .. Len(entries) : i < j => entries[i].frame < entries[j].frame

PairerTypes ==
  /\ queue \in [Streams -> Seq(EntryType)] /\ held \in [Streams -> EntryType]
  /\ recycled \in [Streams -> Seq(Nat)] /\ blocks \in [Streams -> Seq(Nat)]
  /\ results \in Seq([Streams -> Nat]) /\ pushed \in [Streams -> Seq(Nat)]
  /\ overrun \in [Streams -> SUBSET Nat] /\ expired \in [Streams -> SUBSET Nat]

LEMMA EntryAppended ==
  ASSUME NEW q \in Seq(EntryType), NEW e \in EntryType
  PROVE  /\ Append(q, e) \in Seq(EntryType)
         /\ FramesOf(Append(q, e)) = FramesOf(q) \cup {e.frame}
         /\ Ascending(q) /\ (\A f \in FramesOf(q) : f < e.frame) => Ascending(Append(q, e))
  <1>1. /\ Append(q, e) \in Seq(EntryType) /\ Len(Append(q, e)) = Len(q) + 1 /\ Len(q) \in Nat
        /\ \A i \in 1 .. Len(q) : Append(q, e)[i] = q[i]
        /\ Append(q, e)[Len(q) + 1] = e
    BY AppendProperties, LenProperties
  <1>2. 1 .. Len(Append(q, e)) = (1 .. Len(q)) \cup {Len(q) + 1}
    BY <1>1
  <1>3. FramesOf(Append(q, e)) = FramesOf(q) \cup {e.frame}
    BY <1>1, <1>2 DEF FramesOf
  <1>4. ASSUME Ascending(q), \A f \in FramesOf(q) : f < e.frame
        PROVE  Ascending(Append(q, e))
    <2>1. SUFFICES ASSUME NEW i \in 1 .. Len(q) + 1, NEW j \in 1 .. Len(q) + 1, i < j
                   PROVE  Append(q, e)[i].frame < Append(q, e)[j].frame
      BY <1>1 DEF Ascending
    <2>2. i \in 1 .. Len(q)
      BY <1>1, <2>1
    <2>3. CASE j \in 1 .. Len(q)
      BY <1>1, <1>4, <2>1, <2>2, <2>3 DEF Ascending
    <2>4. CASE j = Len(q) + 1
      BY <1>1, <1>4, <2>2, <2>4 DEF FramesOf
    <2>5. QED
      BY <1>1, <2>3, <2>4
  <1>5. QED
    BY <1>1, <1>3, <1>4

LEMMA EntryTaken ==
  ASSUME NEW q \in Seq(EntryType), q # <<>>
  PROVE  /\ Head(q) \in EntryType /\ Tail(q) \in Seq(EntryType)
         /\ FramesOf(q) = {Head(q).frame} \cup FramesOf(Tail(q))
         /\ Ascending(q) => Ascending(Tail(q)) /\ \A f \in FramesOf(Tail(q)) : Head(q).frame < f
  <1>1. /\ Head(q) \in EntryType /\ Tail(q) \in Seq(EntryType) /\ Len(Tail(q)) = Len(q) - 1
        /\ \A i \in 1 .. Len(Tail(q)) : Tail(q)[i] = q[i + 1]
    BY HeadTailProperties
  <1>2. Len(q) \in Nat \ {0} /\ Head(q) = q[1]
    BY EmptySeq
  <1>3. /\ \A i \in 1 .. Len(Tail(q)) : i + 1 \in 1 .. Len(q)
        /\ \A i \in 1 .. Len(q) : i = 1 \/ \E j \in 1 .. Len(Tail(q)) : i = j + 1
    <2>1. ASSUME NEW i \in 1 .. Len(q), i # 1 PROVE i - 1 \in 1 .. Len(Tail(q)) /\ i = (i - 1) + 1
      BY <1>1, <1>2, <2>1
    <2>2. QED
      BY <1>1, <1>2, <2>1
  <1>4. FramesOf(q) = {Head(q).frame} \cup FramesOf(Tail(q))
    <2>1. 1 \in 1 .. Len(q)
      BY <1>2
    <2>2. QED
      <3>1. FramesOf(q) \subseteq {Head(q).frame} \cup FramesOf(Tail(q))
        <4>1. SUFFICES ASSUME NEW i \in 1 .. Len(q) PROVE q[i].frame \in {Head(q).frame} \cup FramesOf(Tail(q))
          BY DEF FramesOf
        <4>2. CASE i = 1
          BY <1>2, <4>2
        <4>3. CASE i # 1
          <5>1. PICK j \in 1 .. Len(Tail(q)) : i = j + 1
            BY <1>3, <4>3
          <5>2. q[i].frame = Tail(q)[j].frame
            BY <1>1, <5>1
          <5>3. QED
            BY <5>2 DEF FramesOf
        <4>4. QED
          BY <4>2, <4>3
      <3>2. FramesOf(Tail(q)) \subseteq FramesOf(q)
        <4>1. SUFFICES ASSUME NEW j \in 1 .. Len(Tail(q)) PROVE Tail(q)[j].frame \in FramesOf(q)
          BY DEF FramesOf
        <4>2. Tail(q)[j] = q[j + 1] /\ j + 1 \in 1 .. Len(q)
          BY <1>1, <1>3
        <4>3. QED
          BY <4>2 DEF FramesOf
      <3>3. Head(q).frame \in FramesOf(q)
        BY <1>2, <2>1 DEF FramesOf
      <3>4. QED
        BY <3>1, <3>2, <3>3
  <1>5. ASSUME Ascending(q) PROVE Ascending(Tail(q)) /\ \A f \in FramesOf(Tail(q)) : Head(q).frame < f
    <2>1. ASSUME NEW i \in 1 .. Len(Tail(q)), NEW j \in 1 .. Len(Tail(q)), i < j
          PROVE  Tail(q)[i].frame < Tail(q)[j].frame
      <3>1. i + 1 \in 1 .. Len(q) /\ j + 1 \in 1 .. Len(q) /\ i + 1 < j + 1
        BY <1>3, <2>1
      <3>2. QED
        BY <1>1, <1>5, <3>1 DEF Ascending
    <2>2. ASSUME NEW i \in 1 .. Len(Tail(q)) PROVE Head(q).frame < Tail(q)[i].frame
      <3>1. 1 \in 1 .. Len(q) /\ i + 1 \in 1 .. Len(q) /\ 1 < i + 1
        BY <1>2, <1>3
      <3>2. QED
        BY <1>1, <1>2, <1>5, <3>1 DEF Ascending
    <2>3. QED
      BY <2>1, <2>2 DEF Ascending, FramesOf
  <1>6. QED
    BY <1>1, <1>4, <1>5

FramesQueued(s) == FramesOf(queue[s])
FramesPushed(s) == {pushed[s][i] : i \in 1 .. Len(pushed[s])}

\* What a push of a frame does.
Pushes(s, frame) ==
  /\ \A r \in Streams \ {s} : queue'[r] = queue[r] /\ pushed'[r] = pushed[r] /\ overrun'[r] = overrun[r]
  /\ UNCHANGED <<results, expired>>
  /\ FramesPushed(s)' = FramesPushed(s) \cup {frame}
  /\ FramesQueued(s)' \subseteq FramesQueued(s) \cup {frame}
  /\ FramesQueued(s) \cup {frame} \subseteq FramesQueued(s)' \cup overrun'[s]
  /\ overrun[s] \subseteq overrun'[s]
  /\ Ascending(queue[s]) /\ (\A f \in FramesQueued(s) : f < frame) => Ascending(queue'[s])

LEMMA PushMoves ==
  ASSUME PairerTypes, NEW s \in Streams, NEW frame \in Nat, Push(s, frame)
  PROVE  PairerTypes' /\ Pushes(s, frame)
  <1>1. PICK q \in Seq(EntryType) : q = queue[s]
    BY DEF PairerTypes
  <1>2. PICK full \in BOOLEAN : full <=> Full(s)
    OBVIOUS
  <1>3. full => q # <<>>
    <2>1. QueueFrames \in Nat \ {0}
      BY PairerAssumption
    <2>2. QED
      BY <1>1, <1>2, <2>1, EmptySeq DEF Full
  <1>4. PICK rest \in Seq(EntryType) : rest = IF full THEN Tail(q) ELSE q
    BY <1>3, EntryTaken
  <1>5. PICK spare \in Seq(Nat) : spare = IF full THEN Append(recycled[s], Head(q).block) ELSE recycled[s]
    <2>1. recycled[s] \in Seq(Nat)
      BY DEF PairerTypes
    <2>2. full => Head(q).block \in Nat
      BY <1>3, EntryTaken DEF EntryType
    <2>3. full => Append(recycled[s], Head(q).block) \in Seq(Nat)
      BY <2>1, <2>2, AppendProperties
    <2>4. QED
      BY <2>1, <2>3
  <1>6. PICK block \in Nat : block = IF spare = <<>> THEN Len(blocks[s]) + 1 ELSE spare[Len(spare)]
    <2>1. blocks[s] \in Seq(Nat)
      BY DEF PairerTypes
    <2>2. spare # <<>> => spare[Len(spare)] \in Nat
      BY EmptySeq, ElementOfSeq
    <2>3. QED
      BY <2>1, <2>2, LenProperties
  <1>7. PICK e \in EntryType : e = [frame |-> frame, block |-> block]
    BY DEF EntryType
  <1>8. PICK dropped \in SUBSET Nat : dropped = IF full THEN {Head(q).frame} ELSE {}
    <2>1. full => Head(q).frame \in Nat
      BY <1>3, EntryTaken DEF EntryType
    <2>2. QED
      BY <2>1
  <1>9. /\ overrun' = [overrun EXCEPT ![s] = @ \cup dropped]
        /\ recycled' = [recycled EXCEPT ![s] =
             IF spare = <<>> THEN <<>> ELSE SubSeq(spare, 1, Len(spare) - 1)]
        /\ blocks' = [blocks EXCEPT ![s] =
             IF spare = <<>> THEN Append(@, frame) ELSE [@ EXCEPT ![block] = frame]]
        /\ queue' = [queue EXCEPT ![s] = Append(rest, e)]
        /\ pushed' = [pushed EXCEPT ![s] = Append(@, frame)]
        /\ UNCHANGED <<held, results, expired>>
    BY <1>1, <1>2, <1>4, <1>5, <1>6, <1>7, <1>8 DEF Push, Dropped
  <1>10. /\ Append(rest, e) \in Seq(EntryType) /\ FramesOf(Append(rest, e)) = FramesOf(rest) \cup {frame}
         /\ Ascending(rest) /\ (\A f \in FramesOf(rest) : f < frame) => Ascending(Append(rest, e))
    <2>1. e.frame = frame
      BY <1>7
    <2>2. QED
      BY <2>1, EntryAppended
  <1>11. FramesOf(q) = FramesOf(rest) \cup dropped /\ (Ascending(q) => Ascending(rest))
    BY <1>3, <1>4, <1>8, EntryTaken
  <1>12. /\ queue'[s] = Append(rest, e) /\ overrun'[s] = overrun[s] \cup dropped
         /\ pushed'[s] = Append(pushed[s], frame)
         /\ \A r \in Streams \ {s} : queue'[r] = queue[r] /\ pushed'[r] = pushed[r] /\ overrun'[r] = overrun[r]
    BY <1>9 DEF PairerTypes
  <1>13. /\ pushed[s] \in Seq(Nat) /\ Append(pushed[s], frame) \in Seq(Nat)
         /\ FramesPushed(s)' = FramesPushed(s) \cup {frame}
    <2>1. pushed[s] \in Seq(Nat)
      BY DEF PairerTypes
    <2>2. /\ Append(pushed[s], frame) \in Seq(Nat) /\ Len(Append(pushed[s], frame)) = Len(pushed[s]) + 1
          /\ \A i \in 1 .. Len(pushed[s]) : Append(pushed[s], frame)[i] = pushed[s][i]
          /\ Append(pushed[s], frame)[Len(pushed[s]) + 1] = frame /\ Len(pushed[s]) \in Nat
      BY <2>1, AppendProperties, LenProperties
    <2>3. 1 .. Len(Append(pushed[s], frame)) = (1 .. Len(pushed[s])) \cup {Len(pushed[s]) + 1}
      BY <2>2
    <2>4. QED
      BY <1>12, <2>1, <2>2, <2>3 DEF FramesPushed
  <1>14. PairerTypes'
    <2>1. queue' \in [Streams -> Seq(EntryType)] /\ pushed' \in [Streams -> Seq(Nat)]
          /\ overrun' \in [Streams -> SUBSET Nat]
      BY <1>9, <1>10, <1>13 DEF PairerTypes
    <2>2. recycled' \in [Streams -> Seq(Nat)]
      <3>1. <<>> \in Seq(Nat)
        BY EmptySeq
      <3>2. spare # <<>> => SubSeq(spare, 1, Len(spare) - 1) \in Seq(Nat)
        <4>1. Len(spare) \in Nat /\ \A i \in 1 .. Len(spare) - 1 : spare[i] \in Nat
          BY LenProperties, ElementOfSeq
        <4>2. QED
          BY <4>1, SubSeqProperties
      <3>3. QED
        BY <1>9, <3>1, <3>2 DEF PairerTypes
    <2>3. blocks' \in [Streams -> Seq(Nat)]
      <3>1. blocks[s] \in Seq(Nat)
        BY DEF PairerTypes
      <3>2. Append(blocks[s], frame) \in Seq(Nat)
        BY <3>1, AppendProperties
      <3>3. [blocks[s] EXCEPT ![block] = frame] \in Seq(Nat)
        <4>1. CASE block \in 1 .. Len(blocks[s])
          BY <3>1, <4>1, ExceptSeq
        <4>2. CASE block \notin 1 .. Len(blocks[s])
          <5>1. blocks[s] \in [1 .. Len(blocks[s]) -> Nat]
            BY <3>1, LenProperties
          <5>2. [blocks[s] EXCEPT ![block] = frame] = blocks[s]
            BY <4>2, <5>1
          <5>3. QED
            BY <3>1, <5>2
        <4>3. QED
          BY <4>1, <4>2
      <3>4. QED
        BY <1>9, <3>2, <3>3 DEF PairerTypes
    <2>4. QED
      BY <1>9, <2>1, <2>2, <2>3 DEF PairerTypes
  <1>15. Pushes(s, frame)
    BY <1>1, <1>9, <1>10, <1>11, <1>12, <1>13 DEF Pushes, FramesQueued
  <1>16. QED
    BY <1>14, <1>15

\* What a result of these streams' oldest frames does.
Pops(S) ==
  /\ \A s \in S :
       /\ Oldest(s).frame \in Nat /\ FramesQueued(s) = {Oldest(s).frame} \cup FramesQueued(s)'
       /\ Ascending(queue[s]) =>
            Ascending(queue'[s]) /\ \A f \in FramesQueued(s)' : Oldest(s).frame < f
  /\ \A s \in Streams \ S : queue'[s] = queue[s]
  /\ UNCHANGED <<pushed, overrun>>
  /\ Len(results') = Len(results) + 1
  /\ \A i \in 1 .. Len(results) : results'[i] = results[i]
  /\ results'[Len(results) + 1] = [s \in Streams |-> IF s \in S THEN Oldest(s).frame ELSE 0]

LEMMA HoldMoves ==
  ASSUME PairerTypes, NEW S \in SUBSET Streams, \A s \in S : Queued(s), Hold(S),
         expired' \in [Streams -> SUBSET Nat]
  PROVE  PairerTypes' /\ Pops(S)
  <1>1. ASSUME NEW s \in S
        PROVE  /\ queue[s] \in Seq(EntryType) /\ queue[s] # <<>> /\ Oldest(s) = Head(queue[s])
               /\ Oldest(s) \in EntryType /\ Tail(queue[s]) \in Seq(EntryType)
               /\ FramesOf(queue[s]) = {Oldest(s).frame} \cup FramesOf(Tail(queue[s]))
               /\ Ascending(queue[s]) =>
                    Ascending(Tail(queue[s])) /\ \A f \in FramesOf(Tail(queue[s])) : Oldest(s).frame < f
    <2>1. queue[s] \in Seq(EntryType) /\ queue[s] # <<>>
      BY DEF PairerTypes, Queued
    <2>2. QED
      BY <2>1, EntryTaken DEF Oldest
  <1>2. /\ queue' = [s \in Streams |-> IF s \in S THEN Tail(queue[s]) ELSE queue[s]]
        /\ recycled' = [s \in Streams |-> IF s \in S THEN LetGo(s) ELSE recycled[s]]
        /\ held' = [s \in Streams |-> IF s \in S THEN Oldest(s) ELSE held[s]]
        /\ results' = Append(results, [s \in Streams |-> IF s \in S THEN Oldest(s).frame ELSE 0])
        /\ UNCHANGED <<blocks, pushed, overrun>>
    BY DEF Hold
  <1>3. PICK r \in [Streams -> Nat] : r = [s \in Streams |-> IF s \in S THEN Oldest(s).frame ELSE 0]
    <2>1. \A s \in S : Oldest(s).frame \in Nat
      BY <1>1 DEF EntryType
    <2>2. QED
      BY <2>1
  <1>4. /\ Append(results, r) \in Seq([Streams -> Nat]) /\ Len(Append(results, r)) = Len(results) + 1
        /\ \A i \in 1 .. Len(results) : Append(results, r)[i] = results[i]
        /\ Append(results, r)[Len(results) + 1] = r
    BY AppendProperties DEF PairerTypes
  <1>5. PairerTypes'
    <2>1. queue' \in [Streams -> Seq(EntryType)] /\ held' \in [Streams -> EntryType]
      BY <1>1, <1>2 DEF PairerTypes
    <2>2. recycled' \in [Streams -> Seq(Nat)]
      <3>1. ASSUME NEW s \in Streams PROVE LetGo(s) \in Seq(Nat)
        <4>1. recycled[s] \in Seq(Nat) /\ held[s].block \in Nat
          BY DEF PairerTypes, EntryType
        <4>2. Append(recycled[s], held[s].block) \in Seq(Nat)
          BY <4>1, AppendProperties
        <4>3. QED
          BY <4>1, <4>2 DEF LetGo
      <3>2. QED
        BY <1>2, <3>1 DEF PairerTypes
    <2>3. results' \in Seq([Streams -> Nat])
      BY <1>2, <1>3, <1>4
    <2>4. QED
      BY <1>2, <2>1, <2>2, <2>3 DEF PairerTypes
  <1>6. Pops(S)
    <2>1. ASSUME NEW s \in S
          PROVE  /\ Oldest(s).frame \in Nat /\ FramesQueued(s) = {Oldest(s).frame} \cup FramesQueued(s)'
                 /\ Ascending(queue[s]) =>
                      Ascending(queue'[s]) /\ \A f \in FramesQueued(s)' : Oldest(s).frame < f
      <3>1. queue'[s] = Tail(queue[s])
        BY <1>2
      <3>2. Oldest(s).frame \in Nat
        BY <1>1 DEF EntryType
      <3>3. QED
        BY <1>1, <3>1, <3>2 DEF FramesQueued
    <2>2. QED
      BY <1>2, <1>3, <1>4, <2>1 DEF Pops
  <1>7. QED
    BY <1>5, <1>6

\* The steps of the pairer: a reader pushes what it is given, the loop pops a pair, the older
\* head or one whose hold has run out.
PopsExpired(s) == /\ ~BothQueued /\ Queued(s) /\ Hold({s})
                  /\ expired' = [expired EXCEPT ![s] = @ \cup {Oldest(s).frame}]

LEMMA StepsOfThePairer ==
  ASSUME [Next]_vars
  PROVE  \/ UNCHANGED pairerVars
         \/ \E s \in Streams : Callback(s) /\ Push(s, Delivered(s))
         \/ (PopPair \/ PopStale \/ \E s \in Streams : PopsExpired(s)) /\ UNCHANGED liveVars
  <1>1. CASE Viewing(ViewNext)
    <2>1. CASE PopOnce \/ ReportThrows
      BY <2>1 DEF PopOnce, ReportThrows, PopResult, PopExpired, PopsExpired
    <2>2. CASE \E s \in Streams : ReaderStep(s)
      BY <2>2 DEF ReaderStep, ReaderPushes
    <2>3. CASE MainStep /\ ~PopOnce
      BY <2>3 DEF MainStep, Starting, PtpWaited, CheckKeys, Arm, StartTriggers, LeaveLoop,
           StopTriggers, StopCalled, Stopping, Finish
    <2>4. CASE TriggerStep \/ Interrupt \/ SendThrows \/ \E s \in Streams : CameraStep(s) \/ CameraFails(s)
      BY <2>4 DEF TriggerStep, LookAtTrigRun, SendTrigger, Sleep, Interrupt, SendThrows, CameraStep,
           CameraFails
    <2>5. QED
      BY <1>1, <2>1, <2>2, <2>3, <2>4 DEF Viewing, ViewNext
  <1>2. CASE Testing(TestNext)
    BY <1>2 DEF Testing, TestNext, TestStep, RigStarts, RigWaited, BeginBurst, SendCommand, Pace,
         EndSends, Settle, RigStops, RigStopping, FinishTest, InterruptTest, CommandThrows, RigCamera,
         RigGivesUp, RigReads, RigOnly, MainOnly
  <1>3. CASE Watching \/ Pairing(RingPairNext) \/ UNCHANGED vars
    BY <1>3 DEF Watching, Pairing, vars, stereoVars
  <1>4. QED
    BY <1>1, <1>2, <1>3 DEF Next

-----------------------------------------------------------------------------
(* A stream's frames go through the pairer in their order. *)

FramesOut(s) == {results[i][s] : i \in 1 .. Len(results)} \ {0}

StreamInOrder(s) ==
  /\ FramesPushed(s) \subseteq 1 .. exposed[s]
  /\ \A f \in FramesPushed(s), b \in 1 .. Buffers : Unpushed(s, b) => f < buffer[s][b]
  /\ Ascending(queue[s])
  /\ FramesQueued(s) \subseteq FramesPushed(s)
  /\ FramesOut(s) \subseteq FramesPushed(s)
  /\ \A f \in FramesOut(s), g \in FramesQueued(s) : f < g
  /\ FramesPushed(s) \subseteq FramesQueued(s) \cup FramesOut(s) \cup overrun[s]

PairerOrder == PairerTypes /\ \A s \in Streams : StreamInOrder(s)

LEMMA PairerTyped ==
  ASSUME PairerTypes, NEW s \in Streams
  PROVE  /\ queue[s] \in Seq(EntryType) /\ FramesQueued(s) \in SUBSET Nat
         /\ pushed[s] \in Seq(Nat) /\ FramesPushed(s) \in SUBSET Nat
         /\ Len(results) \in Nat /\ \A i \in 1 .. Len(results) : results[i] \in [Streams -> Nat]
         /\ FramesOut(s) \in SUBSET Nat
  <1>1. queue[s] \in Seq(EntryType) /\ pushed[s] \in Seq(Nat) /\ results \in Seq([Streams -> Nat])
    BY DEF PairerTypes
  <1>2. /\ \A i \in 1 .. Len(queue[s]) : queue[s][i] \in EntryType
        /\ \A i \in 1 .. Len(pushed[s]) : pushed[s][i] \in Nat
        /\ \A i \in 1 .. Len(results) : results[i] \in [Streams -> Nat]
    BY <1>1, ElementOfSeq
  <1>3. QED
    BY <1>1, <1>2, LenProperties DEF FramesQueued, FramesPushed, FramesOf, FramesOut, EntryType

LEMMA OutAfter ==
  ASSUME PairerTypes, NEW S \in SUBSET Streams, Pops(S), NEW s \in Streams
  PROVE  FramesOut(s)' = FramesOut(s) \cup ((IF s \in S THEN {Oldest(s).frame} ELSE {0}) \ {0})
  <1>1. /\ Len(results) \in Nat /\ Len(results') = Len(results) + 1
        /\ \A i \in 1 .. Len(results) : results'[i][s] = results[i][s]
        /\ results'[Len(results) + 1][s] = IF s \in S THEN Oldest(s).frame ELSE 0
    BY PairerTyped DEF Pops
  <1>2. 1 .. Len(results') = (1 .. Len(results)) \cup {Len(results) + 1}
    BY <1>1
  <1>3. QED
    BY <1>1, <1>2 DEF FramesOut

LEMMA PopMoves ==
  ASSUME PairerTypes, PopPair \/ PopStale \/ \E s \in Streams : PopsExpired(s)
  PROVE  /\ PairerTypes'
         /\ \/ PopPair /\ Pops(Streams) /\ expired' = expired
            \/ PopStale /\ Stale \in Streams /\ Pops({Stale}) /\ expired' = expired
            \/ \E s \in Streams : /\ PopsExpired(s) /\ Pops({s})
                                   /\ \A r \in Streams : expired[r] \subseteq expired'[r]
                                   /\ Oldest(s).frame \in expired'[s]
  <1>1. /\ Left \in Streams /\ Right \in Streams /\ Streams = {Left, Right}
        /\ expired \in [Streams -> SUBSET Nat]
    BY StreamsCounted DEF Left, Right, PairerTypes
  <1>2. CASE PopPair
    <2>1. \A s \in Streams : Queued(s)
      BY <1>1, <1>2 DEF PopPair, HeadsMatch, BothQueued
    <2>2. QED
      BY <1>1, <1>2, <2>1, HoldMoves DEF PopPair
  <1>3. CASE PopStale
    <2>1. Stale \in Streams /\ \A s \in {Stale} : Queued(s)
      BY <1>1, <1>3 DEF PopStale, BothQueued, Stale
    <2>2. Hold({Stale}) /\ expired' = expired
      BY <1>3 DEF PopStale
    <2>3. PICK S \in SUBSET Streams : S = {Stale}
      BY <2>1
    <2>4. QED
      BY <1>1, <1>3, <2>1, <2>2, <2>3, HoldMoves
  <1>4. ASSUME NEW s \in Streams, PopsExpired(s)
        PROVE  /\ PairerTypes' /\ Pops({s}) /\ \A r \in Streams : expired[r] \subseteq expired'[r]
               /\ Oldest(s).frame \in expired'[s]
    <2>1. Queued(s) /\ Hold({s}) /\ expired' = [expired EXCEPT ![s] = @ \cup {Oldest(s).frame}]
      BY <1>4 DEF PopsExpired
    <2>2. Oldest(s).frame \in Nat
      <3>1. queue[s] \in Seq(EntryType) /\ queue[s] # <<>>
        BY <2>1 DEF PairerTypes, Queued
      <3>2. QED
        BY <3>1, EntryTaken DEF Oldest, EntryType
    <2>3. expired' \in [Streams -> SUBSET Nat]
      BY <1>1, <2>1, <2>2
    <2>4. PICK S \in SUBSET Streams : S = {s}
      OBVIOUS
    <2>5. PairerTypes' /\ Pops(S)
      BY <2>1, <2>3, <2>4, HoldMoves
    <2>6. QED
      BY <1>1, <2>1, <2>4, <2>5
  <1>5. QED
    BY <1>2, <1>3, <1>4

LEMMA OrderKept ==
  ASSUME RigInv, PairerOrder, [Next]_vars
  PROVE  PairerOrder'
  <1>1. PairerTypes /\ \A s \in Streams : StreamInOrder(s)
    BY DEF PairerOrder
  <1>2. \A s \in Streams : exposed[s] \in Nat /\ exposed'[s] \in Nat /\ UnpushedLater(s)
    BY UnpushedMoves, RigKept, RigFacts DEF RigInv, RigTypes
  <1>3. ASSUME NEW s \in Streams, pushed'[s] = pushed[s]
        PROVE  /\ FramesPushed(s)' = FramesPushed(s)
               /\ FramesPushed(s)' \subseteq 1 .. exposed'[s]
               /\ \A f \in FramesPushed(s)', b \in 1 .. Buffers : Unpushed(s, b)' => f < buffer'[s][b]
    <2>1. FramesPushed(s)' = FramesPushed(s)
      BY <1>3 DEF FramesPushed
    <2>2. FramesPushed(s) \subseteq 1 .. exposed[s] /\ exposed[s] <= exposed'[s]
      BY <1>1, <1>2 DEF StreamInOrder, UnpushedLater
    <2>3. FramesPushed(s)' \subseteq 1 .. exposed'[s]
      BY <1>2, <2>1, <2>2
    <2>4. ASSUME NEW f \in FramesPushed(s), NEW b \in 1 .. Buffers, Unpushed(s, b)' PROVE f < buffer'[s][b]
      <3>1. CASE Unpushed(s, b) /\ buffer'[s][b] = buffer[s][b]
        BY <1>1, <3>1 DEF StreamInOrder
      <3>2. CASE buffer'[s][b] > exposed[s]
        <4>1. buffer' \in [Streams -> [1 .. Buffers -> Nat]]
          BY RigKept DEF RigInv, RigTypes
        <4>2. buffer'[s][b] \in Nat /\ f \in 1 .. exposed[s]
          BY <2>2, <4>1
        <4>3. QED
          BY <1>2, <3>2, <4>2
      <3>3. QED
        BY <1>2, <2>4, <3>1, <3>2 DEF UnpushedLater
    <2>5. QED
      BY <2>1, <2>3, <2>4
  <1>4. ASSUME NEW s \in Streams, pushed'[s] = pushed[s], queue'[s] = queue[s], results' = results,
               overrun'[s] = overrun[s]
        PROVE  StreamInOrder(s)'
    <2>1. FramesQueued(s)' = FramesQueued(s) /\ FramesOut(s)' = FramesOut(s) /\ Ascending(queue'[s])
      BY <1>1, <1>4 DEF FramesQueued, FramesOut, StreamInOrder
    <2>2. QED
      BY <1>1, <1>3, <1>4, <2>1 DEF StreamInOrder
  <1>5. CASE UNCHANGED pairerVars
    BY <1>1, <1>4, <1>5 DEF pairerVars, PairerOrder, PairerTypes
  <1>6. ASSUME NEW s \in Streams, Callback(s), Push(s, Delivered(s)) PROVE PairerOrder'
    <2>1. PICK frame \in Nat : frame = Delivered(s)
      BY <1>2, <1>6, OldestDelivered
    <2>2. /\ frame \in 1 .. exposed[s] /\ exposed' = exposed
          /\ \A b \in 1 .. Buffers : Unpushed(s, b)' => frame < buffer'[s][b]
          /\ \A f \in FramesPushed(s) : f < frame
      <3>1. /\ frame \in 1 .. exposed[s] /\ exposed' = exposed
            /\ \A b \in 1 .. Buffers : Unpushed(s, b)' => frame < buffer'[s][b]
            /\ reader[s].buffer \in 1 .. Buffers /\ Unpushed(s, reader[s].buffer)
            /\ buffer[s][reader[s].buffer] = frame
        BY <1>6, <2>1, OldestDelivered DEF Delivered
      <3>2. QED
        BY <1>1, <3>1 DEF StreamInOrder
    <2>3. PairerTypes' /\ Pushes(s, frame)
      BY <1>1, <1>6, <2>1, PushMoves
    <2>4. FramesPushed(s)' = FramesPushed(s) \cup {frame} /\ FramesOut(s)' = FramesOut(s)
      BY <2>3 DEF Pushes, FramesOut
    <2>5. \A f \in FramesPushed(s), b \in 1 .. Buffers : Unpushed(s, b)' => f < buffer'[s][b]
      <3>1. SUFFICES ASSUME NEW f \in FramesPushed(s), NEW b \in 1 .. Buffers, Unpushed(s, b)'
                     PROVE  f < buffer'[s][b]
        OBVIOUS
      <3>2. f < frame /\ frame < buffer'[s][b]
        BY <2>2, <3>1
      <3>3. f \in Nat /\ buffer'[s][b] \in Nat
        <4>1. buffer' \in [Streams -> [1 .. Buffers -> Nat]]
          BY RigKept DEF RigInv, RigTypes
        <4>2. FramesPushed(s) \in SUBSET Nat
          BY <1>1, PairerTyped
        <4>3. QED
          BY <4>1, <4>2
      <3>4. QED
        BY <3>2, <3>3
    <2>6. StreamInOrder(s)'
      <3>1. FramesPushed(s)' \subseteq 1 .. exposed'[s]
        BY <1>1, <2>2, <2>4 DEF StreamInOrder
      <3>2. \A f \in FramesPushed(s)', b \in 1 .. Buffers : Unpushed(s, b)' => f < buffer'[s][b]
        BY <2>2, <2>4, <2>5
      <3>3. FramesQueued(s) \subseteq FramesPushed(s) /\ \A f \in FramesQueued(s) : f < frame
        BY <1>1, <2>2 DEF StreamInOrder
      <3>4. Ascending(queue'[s]) /\ FramesQueued(s)' \subseteq FramesQueued(s) \cup {frame}
        BY <1>1, <2>3, <3>3 DEF StreamInOrder, Pushes
      <3>5. \A f \in FramesOut(s), g \in FramesQueued(s)' : f < g
        BY <1>1, <2>2, <3>4 DEF StreamInOrder
      <3>6. FramesPushed(s)' \subseteq FramesQueued(s)' \cup FramesOut(s) \cup overrun'[s]
        BY <1>1, <2>3, <2>4 DEF StreamInOrder, Pushes
      <3>7. QED
        BY <1>1, <2>4, <3>1, <3>2, <3>3, <3>4, <3>5, <3>6 DEF StreamInOrder
    <2>7. \A r \in Streams \ {s} : StreamInOrder(r)'
      BY <1>4, <2>3 DEF Pushes
    <2>8. QED
      BY <2>3, <2>6, <2>7 DEF PairerOrder
  <1>7. ASSUME NEW S \in SUBSET Streams, PairerTypes', Pops(S) PROVE PairerOrder'
    <2>1. ASSUME NEW s \in S PROVE StreamInOrder(s)'
      <3>1. /\ Oldest(s).frame \in Nat /\ FramesQueued(s) = {Oldest(s).frame} \cup FramesQueued(s)'
            /\ Ascending(queue'[s]) /\ \A f \in FramesQueued(s)' : Oldest(s).frame < f
            /\ pushed'[s] = pushed[s] /\ overrun'[s] = overrun[s]
        BY <1>1, <1>7 DEF Pops, StreamInOrder
      <3>2. Oldest(s).frame \in FramesPushed(s) /\ Oldest(s).frame # 0
        BY <1>1, <3>1 DEF StreamInOrder
      <3>3. FramesOut(s)' = FramesOut(s) \cup {Oldest(s).frame}
        BY <1>1, <1>7, <3>2, OutAfter
      <3>4. QED
        BY <1>1, <1>3, <3>1, <3>2, <3>3 DEF StreamInOrder
    <2>2. ASSUME NEW s \in Streams \ S PROVE StreamInOrder(s)'
      <3>1. queue'[s] = queue[s] /\ pushed'[s] = pushed[s] /\ overrun'[s] = overrun[s]
        BY <1>7 DEF Pops
      <3>2. FramesOut(s)' = FramesOut(s)
        BY <1>1, <1>7, OutAfter
      <3>3. FramesQueued(s)' = FramesQueued(s)
        BY <3>1 DEF FramesQueued
      <3>4. QED
        BY <1>1, <1>3, <3>1, <3>2, <3>3 DEF StreamInOrder
    <2>3. QED
      BY <1>7, <2>1, <2>2 DEF PairerOrder
  <1>8. CASE PopPair \/ PopStale \/ \E s \in Streams : PopsExpired(s)
    BY <1>1, <1>7, <1>8, PopMoves
  <1>9. QED
    BY <1>5, <1>6, <1>8, StepsOfThePairer

-----------------------------------------------------------------------------
(* What becomes of a frame's partner. *)

OtherOf(s) == 3 - s
Near(s, f, g) == Distance(Shots[s][f], Shots[OtherOf(s)][g]) <= Tolerance

\* A result that has this frame and no other.
Alone(s, f) == \E i \in 1 .. Len(results) : results[i][s] = f /\ results[i][OtherOf(s)] = 0

ResultsNear ==
  \A i \in 1 .. Len(results), s \in Streams :
    Complete(results[i]) => Near(s, results[i][s], results[i][OtherOf(s)])

\* A frame that came out alone, and not because its hold ran out, has no partner queued and
\* none still to come; a partner that was pushed is dropped or came out when its hold ran out.
GivenUp(s) ==
  \A f \in 1 .. Len(Shots[s]), g \in 1 .. Len(Shots[OtherOf(s)]) :
    (Alone(s, f) /\ f \notin expired[s] /\ Near(s, f, g)) =>
      /\ g \notin FramesQueued(OtherOf(s))
      /\ \E h \in FramesPushed(OtherOf(s)) : g < h
      /\ g \in FramesPushed(OtherOf(s)) => g \in overrun[OtherOf(s)] \cup expired[OtherOf(s)]

LEMMA TwoStreams ==
  /\ Streams = {Left, Right} /\ Left # Right /\ OtherOf(Left) = Right /\ OtherOf(Right) = Left
  /\ \A s \in Streams : OtherOf(s) \in Streams /\ OtherOf(s) # s /\ OtherOf(OtherOf(s)) = s
  /\ Tolerance \in Nat
  BY StreamsCounted, PairerAssumption DEF Left, Right, OtherOf

LEMMA NearIs ==
  ASSUME NEW s \in Streams, NEW f \in 1 .. Len(Shots[s]), NEW g \in 1 .. Len(Shots[OtherOf(s)])
  PROVE  /\ Shots[s][f] \in Nat /\ Shots[OtherOf(s)][g] \in Nat /\ Tolerance \in Nat
         /\ Near(s, f, g) <=> /\ Shots[s][f] - Shots[OtherOf(s)][g] <= Tolerance
                              /\ Shots[OtherOf(s)][g] - Shots[s][f] <= Tolerance
  <1>1. OtherOf(s) \in Streams /\ Tolerance \in Nat
    BY TwoStreams
  <1>2. Shots[s][f] \in Nat /\ Shots[OtherOf(s)][g] \in Nat
    BY <1>1, ShotsOf
  <1>3. QED
    BY <1>1, <1>2, Within DEF Near

LEMMA NearBothWays ==
  ASSUME NEW s \in Streams, NEW f \in 1 .. Len(Shots[s]), NEW g \in 1 .. Len(Shots[OtherOf(s)])
  PROVE  Near(s, f, g) <=> Near(OtherOf(s), g, f)
  <1>1. PICK o \in Streams : o = OtherOf(s) /\ OtherOf(o) = s
    BY TwoStreams
  <1>2. Shots[s][f] \in Nat /\ Shots[o][g] \in Nat
    BY <1>1, ShotsOf
  <1>3. Distance(Shots[s][f], Shots[o][g]) = Distance(Shots[o][g], Shots[s][f])
    <2>1. PICK x \in Nat : x = Shots[s][f]
      BY <1>2
    <2>2. PICK y \in Nat : y = Shots[o][g]
      BY <1>2
    <2>3. Distance(x, y) = Distance(y, x)
      BY DEF Distance
    <2>4. QED
      BY <2>1, <2>2, <2>3
  <1>4. QED
    BY <1>1, <1>3 DEF Near

\* Of frames that are spaced, one at most is near a frame of the other stream.
LEMMA NearOnce ==
  ASSUME Spaced, NEW s \in Streams, NEW f \in 1 .. Len(Shots[s]), NEW e \in 1 .. Len(Shots[s]),
         NEW g \in 1 .. Len(Shots[OtherOf(s)]), Near(s, f, g), Near(s, e, g)
  PROVE  e = f
  <1>1. PICK x \in Nat, z \in Nat, y \in Nat, t \in Nat :
          x = Shots[s][f] /\ z = Shots[s][e] /\ y = Shots[OtherOf(s)][g] /\ t = Tolerance
    BY NearIs
  <1>2. x - y <= t /\ y - x <= t /\ z - y <= t /\ y - z <= t
    BY <1>1, NearIs
  <1>3. ~(z - x > 2 * t) /\ ~(x - z > 2 * t)
    BY <1>2
  <1>4. ~(f < e) /\ ~(e < f)
    BY <1>1, <1>3, SpacedApart
  <1>5. f \in Nat /\ e \in Nat
    BY ShotsOf
  <1>6. QED
    BY <1>4, <1>5

LEMMA PushedAreShots ==
  ASSUME RigInv, PairerOrder, NEW s \in Streams
  PROVE  /\ FramesPushed(s) \subseteq 1 .. Len(Shots[s]) /\ FramesQueued(s) \subseteq 1 .. Len(Shots[s])
         /\ FramesOut(s) \subseteq 1 .. Len(Shots[s])
  <1>1. exposed[s] \in Nat /\ exposed[s] <= Len(Shots[s]) /\ Len(Shots[s]) \in Nat
    BY RigFacts
  <1>2. FramesPushed(s) \subseteq 1 .. exposed[s]
    BY DEF PairerOrder, StreamInOrder
  <1>3. FramesPushed(s) \subseteq 1 .. Len(Shots[s])
    BY <1>1, <1>2
  <1>4. QED
    BY <1>3 DEF PairerOrder, StreamInOrder

LEMMA ResultsNearKept ==
  ASSUME RigInv, PairerOrder, ResultsNear, [Next]_vars
  PROVE  ResultsNear'
  <1>1. PairerTypes
    BY DEF PairerOrder
  <1>2. CASE results' = results
    BY <1>2 DEF ResultsNear, Complete
  <1>3. ASSUME NEW S \in SUBSET Streams, Pops(S), S = Streams => PopPair
        PROVE  ResultsNear'
    <2>1. /\ Len(results) \in Nat /\ Len(results') = Len(results) + 1
          /\ \A i \in 1 .. Len(results) : results'[i] = results[i]
          /\ results'[Len(results) + 1] = [s \in Streams |-> IF s \in S THEN Oldest(s).frame ELSE 0]
      BY <1>1, <1>3, PairerTyped, TwoStreams DEF Pops
    <2>2. SUFFICES ASSUME NEW i \in 1 .. Len(results'), NEW s \in Streams, Complete(results'[i])
                   PROVE  Near(s, results'[i][s], results'[i][OtherOf(s)])
      BY DEF ResultsNear, Complete, Near
    <2>3. CASE i \in 1 .. Len(results)
      BY <2>1, <2>2, <2>3 DEF ResultsNear
    <2>4. CASE i = Len(results) + 1
      <3>1. S = Streams
        BY <2>1, <2>2, <2>4, TwoStreams DEF Complete
      <3>2. Distance(OldestStamp(Left), OldestStamp(Right)) <= Tolerance
        BY <1>3, <3>1 DEF PopPair, HeadsMatch
      <3>3. ASSUME NEW r \in Streams PROVE Queued(r) /\ Oldest(r).frame \in 1 .. Len(Shots[r])
        <4>1. FramesQueued(r) = {Oldest(r).frame} \cup FramesQueued(r)'
          BY <1>3, <3>1 DEF Pops
        <4>2. QED
          BY <1>3, <3>1, <4>1, PushedAreShots, TwoStreams DEF PopPair, HeadsMatch, BothQueued
      <3>4. Near(Left, Oldest(Left).frame, Oldest(Right).frame)
        BY <3>2, TwoStreams DEF OldestStamp, StampOf, Near
      <3>5. Near(Right, Oldest(Right).frame, Oldest(Left).frame)
        BY <3>3, <3>4, TwoStreams, NearBothWays
      <3>6. QED
        BY <2>1, <2>4, <3>1, <3>4, <3>5, TwoStreams
    <2>5. QED
      BY <2>1, <2>3, <2>4
  <1>4. CASE PopPair \/ PopStale \/ \E s \in Streams : PopsExpired(s)
    <2>1. ASSUME NEW s \in Streams, Pops({s}) PROVE ResultsNear'
      BY <1>3, <2>1, TwoStreams
    <2>2. QED
      BY <1>1, <1>3, <1>4, <2>1, PopMoves
  <1>5. CASE \E s \in Streams : Push(s, Delivered(s))
    BY <1>2, <1>5 DEF Push
  <1>6. QED
    BY <1>2, <1>4, <1>5, StepsOfThePairer DEF pairerVars

\* The frame that leaves as the older of two heads has no partner in what the other stream
\* has queued, nor will it be pushed one.
LEMMA StaleIsAlone ==
  ASSUME Spaced, RigInv, PairerOrder, PopStale, NEW s \in Streams, s = Stale,
         NEW g \in 1 .. Len(Shots[OtherOf(s)]), Near(s, Oldest(s).frame, g)
  PROVE  /\ Oldest(s).frame \in FramesQueued(s)
         /\ g \notin FramesQueued(OtherOf(s))
         /\ \E h \in FramesPushed(OtherOf(s)) : g < h
  <1>1. PICK o \in Streams : o = OtherOf(s) /\ OtherOf(o) = s
    BY TwoStreams
  <1>2. Queued(s) /\ Queued(o) /\ ~HeadsMatch
    BY <1>1, TwoStreams DEF PopStale, BothQueued
  <1>3. ASSUME NEW r \in Streams, Queued(r)
        PROVE  /\ FramesQueued(r) = {Oldest(r).frame} \cup FramesOf(Tail(queue[r]))
               /\ Oldest(r).frame \in 1 .. Len(Shots[r])
               /\ \A f \in FramesQueued(r) : Oldest(r).frame <= f
    <2>1. queue[r] \in Seq(EntryType) /\ queue[r] # <<>> /\ Ascending(queue[r])
      BY <1>3 DEF PairerOrder, PairerTypes, StreamInOrder, Queued
    <2>2. FramesQueued(r) = {Oldest(r).frame} \cup FramesOf(Tail(queue[r]))
          /\ \A f \in FramesOf(Tail(queue[r])) : Oldest(r).frame < f
      BY <2>1, EntryTaken DEF FramesQueued, Oldest
    <2>3. FramesQueued(r) \subseteq 1 .. Len(Shots[r]) /\ Len(Shots[r]) \in Nat
      BY PushedAreShots, ShotsOf
    <2>4. QED
      BY <2>2, <2>3
  <1>4. PICK f \in 1 .. Len(Shots[s]), h \in 1 .. Len(Shots[o]) : f = Oldest(s).frame /\ h = Oldest(o).frame
    BY <1>2, <1>3
  <1>5. ~Near(s, f, h) /\ Shots[s][f] <= Shots[o][h]
    <2>1. Shots[s][f] \in Nat /\ Shots[o][h] \in Nat
      BY ShotsOf
    <2>2. CASE s = Left
      <3>1. o = Right
        BY <1>1, <2>2, TwoStreams
      <3>2. ~Near(s, f, h)
        BY <1>1, <1>2, <1>4, <2>2, <3>1, TwoStreams DEF HeadsMatch, PopStale, OldestStamp, StampOf, Near
      <3>3. Shots[s][f] < Shots[o][h]
        BY <1>4, <2>2, <3>1, TwoStreams DEF Stale, OldestStamp, StampOf
      <3>4. QED
        BY <2>1, <3>2, <3>3
    <2>3. CASE s = Right
      <3>1. o = Left
        BY <1>1, <2>3, TwoStreams
      <3>2. ~Near(o, h, f)
        BY <1>1, <1>2, <1>4, <2>3, <3>1, TwoStreams DEF HeadsMatch, PopStale, OldestStamp, StampOf, Near
      <3>3. ~(Shots[o][h] < Shots[s][f])
        BY <1>4, <2>3, <3>1, TwoStreams DEF Stale, OldestStamp, StampOf
      <3>4. ~Near(s, f, h)
        BY <1>1, <3>2, NearBothWays
      <3>5. QED
        BY <2>1, <3>3, <3>4
    <2>4. QED
      BY <2>2, <2>3, TwoStreams
  <1>6. g < h
    <2>1. SUFFICES ASSUME ~(g < h) PROVE FALSE
      OBVIOUS
    <2>2. g \in Nat /\ h \in Nat
      BY <1>1, ShotsOf
    <2>3. g # h /\ h < g
      BY <1>1, <1>4, <1>5, <2>1, <2>2
    <2>4. Shots[o][g] - Shots[o][h] > 2 * Tolerance
      BY <1>1, <2>3, SpacedApart
    <2>5. PICK x \in Nat, y \in Nat, z \in Nat, t \in Nat :
            x = Shots[s][f] /\ y = Shots[o][h] /\ z = Shots[o][g] /\ t = Tolerance
      BY <1>1, NearIs
    <2>6. z - x <= t
      BY <1>1, <1>4, <2>5, NearIs
    <2>7. ~(x - y <= t /\ y - x <= t)
      BY <1>1, <1>5, <2>5, NearIs
    <2>8. x <= y /\ z - y > 2 * t
      BY <1>5, <2>4, <2>5
    <2>9. QED
      BY <2>6, <2>7, <2>8
  <1>7. \A e \in FramesQueued(o) : h <= e
    BY <1>2, <1>3, <1>4
  <1>8. g \notin FramesQueued(o)
    <2>1. g \in Nat /\ h \in Nat
      BY <1>1, ShotsOf
    <2>2. QED
      BY <1>6, <1>7, <2>1
  <1>9. h \in FramesPushed(o)
    BY <1>2, <1>3, <1>4 DEF PairerOrder, StreamInOrder
  <1>10. QED
    BY <1>1, <1>2, <1>3, <1>6, <1>8, <1>9

\* What a frame that leaves alone is the partner of did not come out in a pair.
LEMMA PartnerNotPaired ==
  ASSUME Spaced, RigInv, PairerOrder, ResultsNear, NEW s \in Streams, GivenUp(OtherOf(s)),
         NEW f \in FramesQueued(s), NEW g \in 1 .. Len(Shots[OtherOf(s)]), Near(s, f, g),
         g \in FramesOut(OtherOf(s))
  PROVE  g \in expired[OtherOf(s)]
  <1>1. PICK o \in Streams : o = OtherOf(s) /\ OtherOf(o) = s
    BY TwoStreams
  <1>2. f \in 1 .. Len(Shots[s])
    BY PushedAreShots
  <1>3. Near(o, g, f)
    BY <1>1, <1>2, NearBothWays
  <1>4. PICK i \in 1 .. Len(results) : results[i][o] = g
    BY <1>1 DEF FramesOut
  <1>5. g # 0
    BY <1>1 DEF FramesOut
  <1>6. CASE results[i][s] = 0
    <2>1. Alone(o, g)
      BY <1>1, <1>4, <1>6 DEF Alone
    <2>2. QED
      BY <1>1, <1>2, <1>3, <2>1 DEF GivenUp
  <1>7. CASE results[i][s] # 0
    <2>1. Complete(results[i])
      BY <1>1, <1>4, <1>5, <1>7, TwoStreams DEF Complete
    <2>2. Near(s, results[i][s], g)
      BY <1>1, <1>4, <2>1 DEF ResultsNear
    <2>3. results[i][s] \in FramesOut(s)
      BY <1>7 DEF FramesOut
    <2>4. results[i][s] = f
      BY <1>1, <1>2, <2>2, <2>3, PushedAreShots, NearOnce
    <2>5. f < f /\ f \in Nat
      BY <1>2, <2>3, <2>4, ShotsOf DEF PairerOrder, StreamInOrder
    <2>6. QED
      BY <2>5
  <1>8. QED
    BY <1>6, <1>7

LEMMA AloneAfter ==
  ASSUME PairerTypes, NEW S \in SUBSET Streams, Pops(S), NEW s \in Streams, NEW f \in Nat \ {0}, Alone(s, f)'
  PROVE  Alone(s, f) \/ (s \in S /\ OtherOf(s) \notin S /\ f = Oldest(s).frame)
         \/ (S = Streams /\ Oldest(OtherOf(s)).frame = 0)
  <1>1. /\ Len(results) \in Nat /\ Len(results') = Len(results) + 1
        /\ \A i \in 1 .. Len(results) : results'[i] = results[i]
        /\ results'[Len(results) + 1] = [r \in Streams |-> IF r \in S THEN Oldest(r).frame ELSE 0]
    BY PairerTyped DEF Pops
  <1>2. PICK i \in 1 .. Len(results') : results'[i][s] = f /\ results'[i][OtherOf(s)] = 0
    BY DEF Alone
  <1>3. CASE i \in 1 .. Len(results)
    BY <1>1, <1>2, <1>3 DEF Alone
  <1>4. CASE i = Len(results) + 1
    BY <1>1, <1>2, <1>4, TwoStreams
  <1>5. QED
    BY <1>1, <1>3, <1>4

LEMMA GivenUpKept ==
  ASSUME Spaced, RigInv, PairerOrder, ResultsNear, \A s \in Streams : GivenUp(s), [Next]_vars
  PROVE  \A s \in Streams : GivenUp(s)'
  <1>1. SUFFICES ASSUME NEW s \in Streams, NEW f \in 1 .. Len(Shots[s]), NEW g \in 1 .. Len(Shots[OtherOf(s)]),
                        Alone(s, f)', f \notin expired'[s], Near(s, f, g)
                 PROVE  /\ g \notin FramesQueued(OtherOf(s))'
                        /\ \E h \in FramesPushed(OtherOf(s))' : g < h
                        /\ g \in FramesPushed(OtherOf(s))' =>
                             g \in overrun'[OtherOf(s)] \cup expired'[OtherOf(s)]
    BY DEF GivenUp, Near
  <1>2. PICK o \in Streams : o = OtherOf(s) /\ OtherOf(o) = s /\ o # s
    BY TwoStreams
  <1>3. PairerTypes /\ f \in Nat \ {0} /\ g \in Nat
    BY <1>2, ShotsOf DEF PairerOrder
  <1>4. ASSUME Alone(s, f), f \notin expired[s]
        PROVE  /\ g \notin FramesQueued(o) /\ \E h \in FramesPushed(o) : g < h
               /\ g \in FramesPushed(o) => g \in overrun[o] \cup expired[o]
    BY <1>1, <1>2, <1>4 DEF GivenUp
  <1>5. CASE UNCHANGED pairerVars
    BY <1>1, <1>2, <1>4, <1>5 DEF pairerVars, Alone, FramesQueued, FramesPushed
  <1>6. ASSUME NEW r \in Streams, Callback(r), Push(r, Delivered(r))
        PROVE  /\ g \notin FramesQueued(o)' /\ \E h \in FramesPushed(o)' : g < h
               /\ g \in FramesPushed(o)' => g \in overrun'[o] \cup expired'[o]
    <2>1. PICK frame \in Nat : frame = Delivered(r)
      BY <1>6, OldestDelivered, RigFacts
    <2>2. Pushes(r, frame)
      BY <1>3, <1>6, <2>1, PushMoves
    <2>3. \A e \in FramesPushed(r) : e < frame
      BY <1>6, <2>1, OldestDelivered DEF PairerOrder, StreamInOrder, Delivered
    <2>4. Alone(s, f) /\ f \notin expired[s] /\ expired' = expired
      BY <1>1, <2>2 DEF Pushes, Alone
    <2>5. CASE r = o
      <3>1. PICK h \in FramesPushed(o) : g < h
        BY <1>4, <2>4
      <3>2. g # frame
        BY <1>3, <2>3, <2>5, <3>1, PairerTyped
      <3>3. FramesPushed(o)' = FramesPushed(o) \cup {frame} /\ FramesQueued(o)' \subseteq FramesQueued(o) \cup {frame}
            /\ overrun[o] \subseteq overrun'[o]
        BY <2>2, <2>5 DEF Pushes
      <3>4. QED
        BY <1>4, <2>4, <3>1, <3>2, <3>3
    <2>6. CASE r # o
      <3>1. queue'[o] = queue[o] /\ pushed'[o] = pushed[o] /\ overrun'[o] = overrun[o]
        BY <2>2, <2>6 DEF Pushes
      <3>2. QED
        BY <1>4, <2>4, <3>1 DEF FramesQueued, FramesPushed
    <2>7. QED
      BY <2>5, <2>6
  <1>7. ASSUME NEW S \in SUBSET Streams, Pops(S), \A r \in Streams : expired[r] \subseteq expired'[r],
               \/ S = Streams
               \/ PopStale /\ S = {Stale}
               \/ \E r \in Streams : S = {r} /\ Oldest(r).frame \in expired'[r]
        PROVE  /\ g \notin FramesQueued(o)' /\ \E h \in FramesPushed(o)' : g < h
               /\ g \in FramesPushed(o)' => g \in overrun'[o] \cup expired'[o]
    <2>1. /\ FramesQueued(o)' \subseteq FramesQueued(o) /\ FramesPushed(o)' = FramesPushed(o)
          /\ overrun'[o] = overrun[o] /\ expired[o] \subseteq expired'[o] /\ expired[s] \subseteq expired'[s]
      <3>1. FramesQueued(o)' \subseteq FramesQueued(o)
        BY <1>7 DEF Pops, FramesQueued
      <3>2. pushed' = pushed /\ overrun' = overrun
        BY <1>7 DEF Pops
      <3>3. QED
        BY <1>7, <3>1, <3>2 DEF FramesPushed
    <2>2. CASE Alone(s, f)
      BY <1>1, <1>4, <2>1, <2>2
    <2>3. CASE s \in S /\ o \notin S /\ f = Oldest(s).frame
      <3>1. PopStale /\ s = Stale
        BY <1>1, <1>2, <1>7, <2>3
      <3>2. /\ f \in FramesQueued(s) /\ g \notin FramesQueued(o) /\ \E h \in FramesPushed(o) : g < h
        BY <1>1, <1>2, <2>3, <3>1, StaleIsAlone
      <3>3. ASSUME g \in FramesPushed(o) PROVE g \in overrun[o] \cup expired[o]
        <4>1. g \in FramesOut(o) \cup overrun[o]
          BY <3>2, <3>3 DEF PairerOrder, StreamInOrder
        <4>2. g \in FramesOut(o) => g \in expired[o]
          BY <1>1, <1>2, <3>2, PartnerNotPaired
        <4>3. QED
          BY <4>1, <4>2
      <3>4. QED
        BY <2>1, <3>2, <3>3
    <2>4. CASE S = Streams /\ Oldest(o).frame = 0
      <3>1. 0 \in FramesQueued(o)
        BY <1>7, <2>4 DEF Pops
      <3>2. QED
        BY <3>1, PushedAreShots, ShotsOf
    <2>5. QED
      BY <1>1, <1>2, <1>3, <1>7, <2>2, <2>3, <2>4, AloneAfter
  <1>8. CASE PopPair \/ PopStale \/ \E r \in Streams : PopsExpired(r)
    <2>1. ASSUME NEW r \in Streams, Pops({r}), \A q \in Streams : expired[q] \subseteq expired'[q],
                 (PopStale /\ r = Stale) \/ Oldest(r).frame \in expired'[r]
          PROVE  /\ g \notin FramesQueued(o)' /\ \E h \in FramesPushed(o)' : g < h
                 /\ g \in FramesPushed(o)' => g \in overrun'[o] \cup expired'[o]
      BY <1>7, <2>1
    <2>2. QED
      BY <1>2, <1>3, <1>7, <1>8, <2>1, PopMoves
  <1>9. QED
    BY <1>2, <1>5, <1>6, <1>8, StepsOfThePairer

\* What holds of the pairer at every step.
PairerTrue == PairerOrder /\ ResultsNear /\ (Spaced => \A s \in Streams : GivenUp(s))

LEMMA PairerStarts == Init => PairerTrue
  <1>1. SUFFICES ASSUME Init PROVE PairerTrue
    OBVIOUS
  <1>2. /\ results = <<>> /\ Len(results) = 0 /\ \A i \in 1 .. Len(results) : FALSE
        /\ \A s \in Streams : /\ queue[s] = <<>> /\ pushed[s] = <<>> /\ expired[s] = {}
                              /\ \A b \in 1 .. Buffers : ~Unpushed(s, b)
    BY <1>1, EmptySeq DEF Init, PairerInit, LiveInit, Unpushed
  <1>3. PairerTypes
    <2>1. /\ <<>> \in Seq(EntryType) /\ <<>> \in Seq(Nat) /\ <<>> \in Seq([Streams -> Nat])
          /\ NoEntry \in EntryType
      BY EmptySeq DEF EntryType, NoEntry
    <2>2. QED
      BY <1>1, <2>1 DEF Init, PairerInit, PairerTypes
  <1>4. \A s \in Streams : /\ FramesQueued(s) = {} /\ FramesPushed(s) = {} /\ FramesOut(s) = {}
                           /\ Len(queue[s]) = 0 /\ Ascending(queue[s])
    BY <1>2, EmptySeq DEF FramesQueued, FramesPushed, FramesOut, FramesOf, Ascending
  <1>5. \A s \in Streams : StreamInOrder(s) /\ GivenUp(s)
    BY <1>2, <1>4 DEF StreamInOrder, GivenUp, Alone
  <1>6. QED
    BY <1>2, <1>3, <1>5 DEF PairerTrue, PairerOrder, ResultsNear

LEMMA PairerGoesOn == Spec => []PairerTrue
  <1>1. ASSUME RigInv, PairerTrue, [Next]_vars PROVE PairerTrue'
    <2>1. PairerOrder' /\ ResultsNear'
      BY <1>1, OrderKept, ResultsNearKept DEF PairerTrue
    <2>2. Spaced => \A s \in Streams : GivenUp(s)'
      BY <1>1, GivenUpKept DEF PairerTrue
    <2>3. Spaced' <=> Spaced
      BY DEF Spaced
    <2>4. QED
      BY <2>1, <2>2, <2>3 DEF PairerTrue
  <1>2. QED
    BY <1>1, PairerStarts, RigGoesOn, PTL DEF Spec

\* A frame that a result has alone is one of the stream's, and alone.
LEMMA InResult ==
  ASSUME RigInv, PairerTrue, NEW i \in DOMAIN results, NEW s \in Streams, results[i][s] # 0
  PROVE  /\ i \in 1 .. Len(results) /\ results[i][s] \in 1 .. Len(Shots[s])
         /\ results[i][OtherOf(s)] = 0 => Alone(s, results[i][s])
  <1>1. i \in 1 .. Len(results)
    BY LenProperties DEF PairerTrue, PairerOrder, PairerTypes
  <1>2. results[i][s] \in FramesOut(s)
    BY <1>1 DEF FramesOut
  <1>3. QED
    BY <1>1, <1>2, PushedAreShots DEF PairerTrue, Alone

\* What of a pair of the offline merge came out alone.
LEMMA PartnerLost ==
  ASSUME RigInv, PairerTrue, Spaced, NEW s \in Streams,
         NEW f \in 1 .. Len(Shots[s]), NEW g \in 1 .. Len(Shots[OtherOf(s)]), Near(s, f, g),
         \E i \in DOMAIN results : results[i][s] = f /\ results[i][OtherOf(s)] = 0,
         \E j \in DOMAIN pushed[OtherOf(s)] : pushed[OtherOf(s)][j] = g
  PROVE  f \in expired[s] \/ g \in overrun[OtherOf(s)] \cup expired[OtherOf(s)]
  <1>1. PICK o \in Streams : o = OtherOf(s)
    BY TwoStreams
  <1>2. Alone(s, f)
    BY InResult
  <1>3. pushed[o] \in Seq(Nat)
    BY <1>1, PairerTyped DEF PairerTrue, PairerOrder
  <1>4. g \in FramesPushed(o)
    BY <1>1, <1>3, LenProperties DEF FramesPushed
  <1>5. QED
    BY <1>1, <1>2, <1>4 DEF PairerTrue, GivenUp

(* The live pairs are pairs the offline merge makes, and of those that it makes one is   *)
(* missed only where a partner fell to a full queue or a frame's hold ran out.           *)
THEOREM LivePairsBelong == Spec => []PairsTrue
  <1>1. ASSUME RigInv, PairerTrue PROVE PairsTrue
    <2>1. SUFFICES ASSUME Spaced, NEW offline, offline = PairUp(Shots[Left], Shots[Right], Tolerance)
                   PROVE
            /\ \A r \in Pairs : <<r[Left], r[Right]>> \in offline
            /\ \A p \in offline :
                 (\E i \in DOMAIN results : results[i][Left] = p[1] /\ results[i][Right] = 0)
                   /\ (\E j \in DOMAIN pushed[Right] : pushed[Right][j] = p[2])
                   => \/ p[1] \in expired[Left]
                      \/ p[2] \in overrun[Right] \cup expired[Right]
            /\ \A p \in offline :
                 (\E i \in DOMAIN results : results[i][Right] = p[2] /\ results[i][Left] = 0)
                   /\ (\E j \in DOMAIN pushed[Left] : pushed[Left][j] = p[1])
                   => \/ p[2] \in expired[Right]
                      \/ p[1] \in overrun[Left] \cup expired[Left]
      BY DEF PairsTrue
    <2>2. \A f \in 1 .. Len(Shots[Left]), g \in 1 .. Len(Shots[Right]) :
            /\ <<f, g>> \in offline <=> Near(Left, f, g)
            /\ Near(Left, f, g) <=> Near(Right, g, f)
      BY <2>1, OfflinePairs, NearBothWays, TwoStreams DEF Near
    <2>3. ASSUME NEW p \in offline
          PROVE  /\ p[1] \in 1 .. Len(Shots[Left]) /\ p[2] \in 1 .. Len(Shots[Right])
                 /\ Near(Left, p[1], p[2]) /\ Near(Right, p[2], p[1])
      <3>1. PICK f \in 1 .. Len(Shots[Left]), g \in 1 .. Len(Shots[Right]) : p = <<f, g>>
        BY <2>1, OfflinePairs
      <3>2. QED
        BY <2>2, <3>1
    <2>4. ASSUME NEW r \in Pairs PROVE <<r[Left], r[Right]>> \in offline
      <3>1. PICK i \in DOMAIN results : r = results[i] /\ Complete(results[i])
        BY DEF Pairs
      <3>2. /\ i \in 1 .. Len(results)
            /\ r[Left] \in 1 .. Len(Shots[Left]) /\ r[Right] \in 1 .. Len(Shots[Right])
        BY <1>1, <3>1, InResult, TwoStreams DEF Complete
      <3>3. Near(Left, r[Left], r[Right])
        BY <1>1, <3>1, <3>2, TwoStreams DEF PairerTrue, ResultsNear
      <3>4. QED
        BY <2>2, <3>2, <3>3
    <2>5. ASSUME NEW p \in offline,
                 \E i \in DOMAIN results : results[i][Left] = p[1] /\ results[i][Right] = 0,
                 \E j \in DOMAIN pushed[Right] : pushed[Right][j] = p[2]
          PROVE  p[1] \in expired[Left] \/ p[2] \in overrun[Right] \cup expired[Right]
      BY <1>1, <2>1, <2>3, <2>5, PartnerLost, TwoStreams
    <2>6. ASSUME NEW p \in offline,
                 \E i \in DOMAIN results : results[i][Right] = p[2] /\ results[i][Left] = 0,
                 \E j \in DOMAIN pushed[Left] : pushed[Left][j] = p[1]
          PROVE  p[2] \in expired[Right] \/ p[1] \in overrun[Left] \cup expired[Left]
      BY <1>1, <2>1, <2>3, <2>6, PartnerLost, TwoStreams
    <2>7. QED
      BY <2>4, <2>5, <2>6
  <1>2. QED
    BY <1>1, RigGoesOn, PairerGoesOn, PTL

(* What is paired belongs together, of the live readers' queues and of the device rings;  *)
(* the rings' pair consumer accounts for what it leased, and for cameras whose stamps     *)
(* ascend the transform stage is through with a frame once.                               *)
THEOREM PairingStaysTrue == ASSUME StampsAscend PROVE Spec => []PairingTrue
  <1>1. PairsTrue /\ PairsIntact /\ DevicePairsTrue /\ TransformedOnce /\ ReferencesAccounted => PairingTrue
    BY DEF PairingTrue, RingPairInv
  <1>2. QED
    BY <1>1, LivePairsBelong, PairsStayIntact, DevicePairsBelong, FramesTransformedOnce, ReferencesAddUp, PTL
=============================================================================
