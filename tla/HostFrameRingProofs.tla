-------------------------- MODULE HostFrameRingProofs --------------------------
(* What HostFrameRing guarantees for every number of slots and consumers. *)
EXTENDS HostFrameRing, FiniteSetTheorems, WellFoundedInduction, TLAPS

USE SlotCountAssumption, ConsumersAssumption

(* The slot a scan from 0 finds first is one of those it looks for. *)
LEMMA FirstIsFree == ASSUME NEW S \in SUBSET Nat, S # {} PROVE Min(S) \in S
  <1> DEFINE Less == OpToRel(<, Nat)
  <1>1. \E x \in S : \A y \in S : ~ (<<y, x>> \in Less)
    <2> HIDE DEF Less
    <2>1. IsWellFoundedOn(Less, Nat)
      BY NatLessThanWellFounded DEF Less
    <2>2. QED
      BY <2>1, WFMin
  <1>2. \A x, y \in Nat : ~ (<<y, x>> \in Less) => x =< y
    BY DEF OpToRel
  <1>3. \E x \in S : \A y \in S : x =< y
    BY <1>1, <1>2
  <1>4. QED
    BY <1>3 DEF Min

LEMMA SlotsFinite == IsFiniteSet(Slots) /\ Cardinality(Slots) = SlotCount
  BY FS_Interval DEF Slots

(* Counting the consumers that have a slot and the slots that are in use. *)
LEMMA HoldersFinite ==
  ASSUME NEW s
  PROVE  IsFiniteSet(Holders(s)) /\ Cardinality(Holders(s)) \in Nat
  <1>1. Holders(s) \subseteq Consumers
    BY DEF Holders
  <1>2. QED
    BY <1>1, FS_Subset, FS_CardinalityType

LEMMA BusyFinite == IsFiniteSet(Busy) /\ Cardinality(Busy) \in Nat
  <1>1. Busy \subseteq Slots
    BY DEF Busy
  <1>2. QED
    BY <1>1, SlotsFinite, FS_Subset, FS_CardinalityType

LEMMA BusyPositive == ASSUME Busy # {} PROVE Cardinality(Busy) >= 1
  BY BusyFinite, FS_EmptySet

LEMMA NobodyHolds == ASSUME NEW s PROVE Cardinality(Holders(s)) = 0 <=> Holders(s) = {}
  BY HoldersFinite, FS_EmptySet

-----------------------------------------------------------------------------
LEMMA InvInit == Init => IInv
  <1> SUFFICES ASSUME Init
               PROVE  IInv
    OBVIOUS
  <1>1. TypeOK /\ Chosen /\ NewestIntact /\ FramesAccounted /\ HeldStable
    BY DEF Init, TypeOK, Chosen, NewestIntact, FramesAccounted, HeldStable, Slots, NoSlot
  <1>2. Ordered
    BY DEF Init, Ordered
  <1>3. HeldBounded
    BY FS_EmptySet, MaxHeldAssumption DEF Init, HeldBounded
  <1>4. HoldsCounted
    <2>1. \A s \in Slots : Holders(s) = {} /\ Copying(s) = 0
      BY DEF Init, Holders, Copying
    <2>2. QED
      BY <2>1, FS_EmptySet DEF Init, HoldsCounted
  <1>5. InUseCounted
    <2>1. Busy = {}
      BY DEF Init, Busy, Slots, NoSlot
    <2>2. QED
      BY <2>1, FS_EmptySet DEF Init, InUseCounted
  <1>6. QED
    BY <1>1, <1>2, <1>3, <1>4, <1>5 DEF IInv

-----------------------------------------------------------------------------
(* Every step keeps the types. *)
LEMMA TypesKept == ASSUME IInv, [Next]_vars PROVE TypeOK'
  <1> USE DEF IInv, TypeOK
  <1>1. CASE Reserve
    <2>1. FreeSlots \in SUBSET Nat /\ FreeSlots \subseteq Slots
      BY DEF FreeSlots, Slots
    <2>2. Min(FreeSlots) \in Slots
      BY <1>1, <2>1, FirstIsFree DEF Reserve
    <2>3. QED
      BY <1>1, <2>2 DEF Reserve, consumerVars
  <1>2. CASE Drop
    BY <1>2 DEF Drop, consumerVars
  <1>3. CASE Reject
    <2>1. pslot \in Busy
      BY <1>3, NobodyHolds DEF Reject, Busy, Chosen, HoldsCounted, Copying
    <2>2. inUse >= 1
      BY <2>1, BusyPositive DEF InUseCounted
    <2>3. QED
      BY <1>3, <2>2 DEF Reject, consumerVars, Chosen
  <1>4. CASE Copy
    BY <1>4 DEF Copy, consumerVars
  <1>5. CASE Commit
    <2>1. holds[pslot] = 1
      BY <1>5, NobodyHolds DEF Commit, Chosen, HoldsCounted, Copying
    <2>2. Retired(latest) => latest \in Busy
      BY DEF Retired, Busy
    <2>3. Retired(latest) => inUse >= 1
      BY <2>2, BusyPositive DEF InUseCounted
    <2>4. inUse' \in Nat
      BY <1>5, <2>3 DEF Commit
    <2>5. QED
      BY <1>5, <2>1, <2>4 DEF Commit, consumerVars, Chosen
  <1>6. ASSUME NEW c \in Consumers, AcquireLatest(c)
        PROVE  TypeOK'
    <2>1. latest \in Slots /\ latestSeq \in Nat \ {0}
      BY <1>6 DEF AcquireLatest, Ready, Ordered
    <2>2. [slot |-> latest, frame |-> latestSeq] \in Frames
      BY <2>1 DEF Frames
    <2>3. SteppedOver(c) \in Nat
      BY <1>6 DEF AcquireLatest, Ready, SteppedOver
    <2>4. QED
      BY <1>6, <2>1, <2>2, <2>3 DEF AcquireLatest, producerVars
  <1>7. ASSUME NEW c \in Consumers, NEW f \in held[c], Release(c, f)
        PROVE  TypeOK'
    <2>1. f.slot \in Slots /\ c \in Holders(f.slot)
      BY DEF Frames, Holders
    <2>2. holds[f.slot] >= 1
      <3>1. Cardinality(Holders(f.slot)) >= 1
        BY <2>1, NobodyHolds, HoldersFinite
      <3>2. QED
        BY <2>1, <3>1, HoldersFinite DEF HoldsCounted, Copying
    <2>3. inUse >= 1
      <3>1. f.slot \in Busy
        BY <2>1, <2>2 DEF Busy
      <3>2. QED
        BY <3>1, BusyPositive DEF InUseCounted
    <2>4. holds' \in [Slots -> Nat] /\ inUse' \in Nat
      BY <1>7, <2>1, <2>2, <2>3 DEF Release
    <2>5. held' \in [Consumers -> SUBSET Frames]
      BY <1>7 DEF Release
    <2>6. UNCHANGED <<latest, latestSeq, sequence, peak, running, content, producer, pslot, brought,
                      drops, cursor, skipped, handed, exited>>
      BY <1>7 DEF Release, producerVars
    <2>7. QED
      BY <2>4, <2>5, <2>6
  <1>8. ASSUME NEW c \in Consumers, Exit(c)
        PROVE  TypeOK'
    BY <1>8 DEF Exit, producerVars
  <1>9. CASE Stop
    BY <1>9 DEF Stop, producerVars, consumerVars
  <1>10. CASE UNCHANGED vars
    BY <1>10 DEF vars, producerVars, consumerVars
  <1>11. QED
    BY <1>1, <1>2, <1>3, <1>4, <1>5, <1>6, <1>7, <1>8, <1>9, <1>10
       DEF Next, ProducerStep, ConsumerStep

-----------------------------------------------------------------------------
(* Every step keeps the frames in order, and what a consumer has within bounds. *)
LEMMA OrderedKept == ASSUME IInv, [Next]_vars PROVE Ordered'
  <1> USE DEF IInv, TypeOK, Ordered
  <1>1. CASE Commit
    BY <1>1 DEF Commit, consumerVars, Chosen, NoSlot, Slots
  <1>2. ASSUME NEW c \in Consumers, AcquireLatest(c)
        PROVE  Ordered'
    <2>1. UNCHANGED <<latest, latestSeq, sequence>> /\ cursor' = [cursor EXCEPT ![c] = latestSeq]
      BY <1>2 DEF AcquireLatest
    <2>2. held' = [held EXCEPT ![c] = @ \cup {[slot |-> latest, frame |-> latestSeq]}]
      BY <1>2 DEF AcquireLatest
    <2>3. \A d \in Consumers : cursor[d] <= cursor'[d] /\ cursor'[d] <= latestSeq
      BY <2>1
    <2>4. \A d \in Consumers : \A f \in held'[d] : f.frame <= cursor'[d]
      <3> SUFFICES ASSUME NEW d \in Consumers, NEW f \in held'[d]
                   PROVE  f.frame <= cursor'[d]
        OBVIOUS
      <3>1. CASE f \in held[d]
        <4>1. f.frame \in Nat /\ cursor[d] \in Nat /\ cursor'[d] \in Nat
          BY <2>1, <3>1 DEF Frames
        <4>2. QED
          BY <2>3, <3>1, <4>1
      <3>2. CASE f \notin held[d]
        <4>1. d = c /\ f = [slot |-> latest, frame |-> latestSeq]
          BY <2>2, <3>2
        <4>2. QED
          BY <2>1, <4>1
      <3>3. QED
        BY <3>1, <3>2
    <2>5. QED
      BY <2>1, <2>3, <2>4
  <1>3. ASSUME NEW c \in Consumers, NEW f \in held[c], Release(c, f)
        PROVE  Ordered'
    BY <1>3 DEF Release, producerVars
  <1>4. CASE Reserve \/ Drop \/ Reject \/ Copy \/ Stop \/ UNCHANGED vars
    BY <1>4 DEF Reserve, Drop, Reject, Copy, Stop, vars, consumerVars, producerVars
  <1>5. ASSUME NEW c \in Consumers, Exit(c)
        PROVE  Ordered'
    BY <1>5 DEF Exit, producerVars
  <1>6. QED
    BY <1>1, <1>2, <1>3, <1>4, <1>5 DEF Next, ProducerStep, ConsumerStep

LEMMA GrowBounded ==
  ASSUME NEW S, NEW x, IsFiniteSet(S), Cardinality(S) < MaxHeld
  PROVE  IsFiniteSet(S \cup {x}) /\ Cardinality(S \cup {x}) <= MaxHeld
  <1>1. Cardinality(S) \in Nat
    BY FS_CardinalityType
  <1>2. /\ IsFiniteSet(S \cup {x})
        /\ Cardinality(S \cup {x}) = IF x \in S THEN Cardinality(S) ELSE Cardinality(S) + 1
    BY FS_AddElement
  <1>3. QED
    BY <1>1, <1>2, MaxHeldAssumption

LEMMA ShrinkBounded ==
  ASSUME NEW S, NEW x, IsFiniteSet(S), Cardinality(S) <= MaxHeld
  PROVE  IsFiniteSet(S \ {x}) /\ Cardinality(S \ {x}) <= MaxHeld
  <1>1. Cardinality(S) \in Nat
    BY FS_CardinalityType
  <1>2. /\ IsFiniteSet(S \ {x})
        /\ Cardinality(S \ {x}) = IF x \in S THEN Cardinality(S) - 1 ELSE Cardinality(S)
    BY FS_RemoveElement
  <1>3. QED
    BY <1>1, <1>2, MaxHeldAssumption

LEMMA HeldBoundedKept == ASSUME IInv, [Next]_vars PROVE HeldBounded'
  <1> USE DEF IInv, TypeOK, HeldBounded, MaxHeldAssumption
  <1>1. ASSUME NEW c \in Consumers, AcquireLatest(c)
        PROVE  HeldBounded'
    <2> DEFINE f == [slot |-> latest, frame |-> latestSeq]
    <2>1. held' = [held EXCEPT ![c] = @ \cup {f}] /\ Cardinality(held[c]) < MaxHeld
      BY <1>1 DEF AcquireLatest
    <2> HIDE DEF f
    <2>2. IsFiniteSet(held[c] \cup {f}) /\ Cardinality(held[c] \cup {f}) <= MaxHeld
      BY <2>1, GrowBounded
    <2>3. QED
      BY <2>1, <2>2
  <1>2. ASSUME NEW c \in Consumers, NEW f \in held[c], Release(c, f)
        PROVE  HeldBounded'
    <2>1. held' = [held EXCEPT ![c] = @ \ {f}]
      BY <1>2 DEF Release
    <2>2. IsFiniteSet(held[c] \ {f}) /\ Cardinality(held[c] \ {f}) <= MaxHeld
      BY ShrinkBounded
    <2>3. QED
      BY <2>1, <2>2
  <1>3. CASE ProducerStep \/ Stop \/ UNCHANGED vars
    BY <1>3 DEF ProducerStep, Reserve, Drop, Reject, Copy, Commit, Stop, vars, consumerVars
  <1>4. ASSUME NEW c \in Consumers, Exit(c)
        PROVE  HeldBounded'
    BY <1>4 DEF Exit
  <1>5. QED
    BY <1>1, <1>2, <1>3, <1>4 DEF Next, ConsumerStep

-----------------------------------------------------------------------------
(* Every step keeps the count of holds. *)

(* Reserving takes a slot that nobody has. *)
LEMMA ReserveFree ==
  ASSUME IInv, Reserve
  PROVE  /\ pslot' \in Slots /\ pslot' # latest /\ holds[pslot'] = 0
         /\ Holders(pslot') = {} /\ holds' = [holds EXCEPT ![pslot'] = 1]
  <1>1. FreeSlots \in SUBSET Nat /\ FreeSlots # {}
    BY DEF Reserve, FreeSlots, Slots
  <1>2. pslot' \in FreeSlots
    BY <1>1, FirstIsFree DEF Reserve
  <1>3. pslot' \in Slots /\ holds[pslot'] = 0 /\ pslot' # latest
    BY <1>2 DEF FreeSlots
  <1>4. Cardinality(Holders(pslot')) = 0
    BY <1>3, HoldersFinite DEF IInv, HoldsCounted, Copying
  <1>5. QED
    BY <1>3, <1>4, NobodyHolds DEF Reserve

(* The slot being filled is held by the copy alone. *)
LEMMA FilledHeldOnce ==
  ASSUME IInv, producer \in {"sized", "copying"}
  PROVE  pslot \in Slots /\ pslot # latest /\ holds[pslot] = 1 /\ Holders(pslot) = {}
  BY NobodyHolds DEF IInv, Chosen, HoldsCounted, Copying

(* A consumer takes a slot it does not have. *)
LEMMA TakesAnother ==
  ASSUME IInv, NEW c \in Consumers, AcquireLatest(c)
  PROVE  /\ latest \in Slots /\ c \notin Holders(latest)
         /\ ~ (producer # "idle" /\ pslot = latest)
  <1>1. latest \in Slots /\ content[latest] = latestSeq /\ latestSeq > cursor[c]
    BY DEF IInv, TypeOK, AcquireLatest, Ready, Ordered, NewestIntact
  <1>2. \A f \in held[c] : f.slot # latest
    <2> SUFFICES ASSUME NEW f \in held[c], f.slot = latest
                 PROVE  FALSE
      OBVIOUS
    <2>1. f.frame = latestSeq /\ f.frame <= cursor[c]
      BY <1>1 DEF IInv, HeldStable, Ordered
    <2>2. latestSeq \in Nat /\ cursor[c] \in Nat
      BY DEF IInv, TypeOK
    <2>3. QED
      BY <1>1, <2>1, <2>2
  <1>3. QED
    BY <1>1, <1>2 DEF Holders, IInv, Chosen

(* Two frames of one consumer are in two slots. *)
LEMMA OneSlotEach ==
  ASSUME IInv, NEW c \in Consumers, NEW f \in held[c], NEW g \in held[c], f.slot = g.slot
  PROVE  f = g
  <1>1. f \in Frames /\ g \in Frames /\ f.frame = g.frame
    BY DEF IInv, TypeOK, HeldStable
  <1>2. QED
    BY <1>1 DEF Frames

LEMMA AcquireHolders ==
  ASSUME IInv, NEW c \in Consumers, AcquireLatest(c), NEW s \in Slots
  PROVE  Holders(s)' = IF s = latest THEN Holders(s) \cup {c} ELSE Holders(s)
  <1> DEFINE f == [slot |-> latest, frame |-> latestSeq]
  <1>1. held' = [held EXCEPT ![c] = @ \cup {f}] /\ held \in [Consumers -> SUBSET Frames]
    BY DEF AcquireLatest, IInv, TypeOK
  <1>2. f.slot = latest
    OBVIOUS
  <1> HIDE DEF f
  <1>3. \A d \in Consumers : (\E g \in held'[d] : g.slot = s) <=>
                               (\E g \in held[d] : g.slot = s) \/ (d = c /\ s = latest)
    BY <1>1, <1>2
  <1>4. QED
    BY <1>3 DEF Holders

LEMMA ReleaseHolders ==
  ASSUME IInv, NEW c \in Consumers, NEW f \in held[c], Release(c, f), NEW s \in Slots
  PROVE  Holders(s)' = IF s = f.slot THEN Holders(s) \ {c} ELSE Holders(s)
  <1>1. held' = [held EXCEPT ![c] = @ \ {f}] /\ held \in [Consumers -> SUBSET Frames]
    BY DEF Release, IInv, TypeOK
  <1>2. \A g \in held[c] : g.slot = f.slot => g = f
    BY OneSlotEach
  <1>3. \A d \in Consumers : (\E g \in held'[d] : g.slot = s) <=>
                               (\E g \in held[d] : g.slot = s) /\ ~ (d = c /\ s = f.slot)
    BY <1>1, <1>2
  <1>4. QED
    BY <1>3 DEF Holders

LEMMA HoldsKept == ASSUME IInv, [Next]_vars PROVE HoldsCounted'
  <1>1. TypeOK /\ HoldsCounted
    BY DEF IInv
  <1>2. CASE Reserve
    <2>1. \A s \in Slots : Holders(s)' = Holders(s)
      BY <1>2 DEF Reserve, Holders, consumerVars
    <2>2. \A s \in Slots : Copying(s) = 0 /\ Copying(s)' = IF s = pslot' THEN 1 ELSE 0
      BY <1>2 DEF Reserve, Copying
    <2>3. /\ pslot' \in Slots /\ holds[pslot'] = 0
          /\ Cardinality(Holders(pslot')) = 0 /\ holds' = [holds EXCEPT ![pslot'] = 1]
      BY <1>2, ReserveFree, NobodyHolds
    <2>4. SUFFICES ASSUME NEW s \in Slots
                   PROVE  holds'[s] = Cardinality(Holders(s)) + Copying(s)'
      BY <2>1 DEF HoldsCounted
    <2>5. CASE s = pslot'
      BY <1>1, <2>2, <2>3, <2>5 DEF TypeOK
    <2>6. CASE s # pslot'
      BY <1>1, <2>2, <2>3, <2>6 DEF TypeOK, HoldsCounted
    <2>7. QED
      BY <2>5, <2>6
  <1>3. CASE Drop \/ Copy \/ Stop \/ (\E c \in Consumers : Exit(c)) \/ UNCHANGED vars
    <2>1. \A s \in Slots : Holders(s)' = Holders(s) /\ Copying(s)' = Copying(s)
      BY <1>3 DEF Drop, Copy, Stop, Exit, vars, Holders, Copying, consumerVars, producerVars
    <2>2. holds' = holds
      BY <1>3 DEF Drop, Copy, Stop, Exit, vars
    <2>3. QED
      BY <1>1, <2>1, <2>2 DEF HoldsCounted
  <1>4. CASE Reject \/ Commit
    <2>1. \A s \in Slots : Holders(s)' = Holders(s)
      BY <1>4 DEF Reject, Commit, Holders, consumerVars
    <2>2. \A s \in Slots : Copying(s)' = 0 /\ Copying(s) = IF s = pslot THEN 1 ELSE 0
      BY <1>4 DEF Reject, Commit, Copying
    <2>3. producer \in {"sized", "copying"} /\ holds' = [holds EXCEPT ![pslot] = 0]
      BY <1>1, <1>4, FilledHeldOnce DEF Reject, Commit, TypeOK
    <2>4. QED
      BY <1>1, <2>1, <2>2, <2>3, FilledHeldOnce, HoldersFinite, NobodyHolds
         DEF TypeOK, HoldsCounted
  <1>5. ASSUME NEW c \in Consumers, AcquireLatest(c)
        PROVE  HoldsCounted'
    <2>1. \A s \in Slots : Copying(s)' = Copying(s) /\ Copying(s) \in {0, 1}
      BY <1>5 DEF AcquireLatest, Copying, producerVars
    <2>2. holds' = [holds EXCEPT ![latest] = @ + 1]
      BY <1>5 DEF AcquireLatest
    <2>3. c \notin Holders(latest) /\ latest \in Slots
      BY <1>5, TakesAnother
    <2>4. Cardinality(Holders(latest) \cup {c}) = Cardinality(Holders(latest)) + 1
      BY <2>3, HoldersFinite, FS_AddElement
    <2>5. \A s \in Slots : Holders(s)' = IF s = latest THEN Holders(s) \cup {c} ELSE Holders(s)
      BY <1>5, AcquireHolders
    <2>6. SUFFICES ASSUME NEW s \in Slots
                   PROVE  holds'[s] = Cardinality(Holders(s)') + Copying(s)
      BY <2>1 DEF HoldsCounted
    <2>7. holds[s] = Cardinality(Holders(s)) + Copying(s) /\ holds[s] \in Nat
      BY <1>1 DEF TypeOK, HoldsCounted
    <2>8. CASE s = latest
      <3>1. Cardinality(Holders(s)') = Cardinality(Holders(s)) + 1
        BY <2>4, <2>5, <2>8
      <3>2. holds'[s] = holds[s] + 1
        BY <1>1, <2>2, <2>8 DEF TypeOK
      <3>3. QED
        BY <2>1, <2>7, <3>1, <3>2, HoldersFinite
    <2>9. CASE s # latest
      BY <1>1, <2>2, <2>5, <2>7, <2>9 DEF TypeOK
    <2>10. QED
      BY <2>8, <2>9
  <1>6. ASSUME NEW c \in Consumers, NEW f \in held[c], Release(c, f)
        PROVE  HoldsCounted'
    <2>1. \A s \in Slots : Copying(s)' = Copying(s) /\ Copying(s) \in {0, 1}
      BY <1>6 DEF Release, Copying, producerVars
    <2>2. holds' = [holds EXCEPT ![f.slot] = @ - 1]
      BY <1>6 DEF Release
    <2>3. c \in Holders(f.slot) /\ f.slot \in Slots
      BY <1>1 DEF Holders, TypeOK, Frames
    <2>4. Cardinality(Holders(f.slot) \ {c}) = Cardinality(Holders(f.slot)) - 1
      BY <2>3, HoldersFinite, FS_RemoveElement
    <2>5. \A s \in Slots : Holders(s)' = IF s = f.slot THEN Holders(s) \ {c} ELSE Holders(s)
      BY <1>6, ReleaseHolders
    <2>6. SUFFICES ASSUME NEW s \in Slots
                   PROVE  holds'[s] = Cardinality(Holders(s)') + Copying(s)
      BY <2>1 DEF HoldsCounted
    <2>7. holds[s] = Cardinality(Holders(s)) + Copying(s) /\ holds[s] \in Nat
      BY <1>1 DEF TypeOK, HoldsCounted
    <2>8. CASE s = f.slot
      <3>1. Cardinality(Holders(s)') = Cardinality(Holders(s)) - 1
        BY <2>4, <2>5, <2>8
      <3>2. holds'[s] = holds[s] - 1
        BY <1>1, <2>2, <2>8 DEF TypeOK
      <3>3. QED
        BY <2>1, <2>7, <3>1, <3>2, HoldersFinite
    <2>9. CASE s # f.slot
      BY <1>1, <2>2, <2>5, <2>7, <2>9 DEF TypeOK
    <2>10. QED
      BY <2>8, <2>9
  <1>7. QED
    BY <1>2, <1>3, <1>4, <1>5, <1>6 DEF Next, ProducerStep, ConsumerStep

(* Every step leaves the slot being filled to the copy, and what is held or the *)
(* newest as it was. *)
LEMMA ChosenKept == ASSUME IInv, [Next]_vars PROVE Chosen'
  <1>1. TypeOK /\ Chosen
    BY DEF IInv
  <1>2. CASE Reserve
    <2>1. Holders(pslot') = {} => Holders(pslot)' = {}
      BY <1>2 DEF Reserve, Holders, consumerVars
    <2>2. latest' = latest
      BY <1>2 DEF Reserve
    <2>3. QED
      BY <1>2, <2>1, <2>2, ReserveFree DEF Chosen
  <1>3. CASE Reject \/ Commit
    BY <1>3 DEF Reject, Commit, Chosen
  <1>4. CASE Drop \/ Copy \/ Stop \/ (\E c \in Consumers : Exit(c)) \/ UNCHANGED vars
    BY <1>1, <1>4 DEF Drop, Copy, Stop, Exit, vars, Chosen, Holders, consumerVars, producerVars
  <1>5. ASSUME NEW c \in Consumers, AcquireLatest(c)
        PROVE  Chosen'
    <2>1. pslot' = pslot /\ producer' = producer /\ latest' = latest
      BY <1>5 DEF AcquireLatest, producerVars
    <2>2. QED
      BY <1>1, <1>5, <2>1, TakesAnother, AcquireHolders DEF Chosen
  <1>6. ASSUME NEW c \in Consumers, NEW f \in held[c], Release(c, f)
        PROVE  Chosen'
    <2>1. pslot' = pslot /\ producer' = producer /\ latest' = latest
      BY <1>6 DEF Release, producerVars
    <2>2. producer # "idle" => Holders(pslot)' = Holders(pslot) \ {c} \/ Holders(pslot)' = Holders(pslot)
      <3>1. producer # "idle" => pslot \in Slots
        BY <1>1 DEF Chosen
      <3>2. \A s \in Slots : Holders(s)' = Holders(s) \ {c} \/ Holders(s)' = Holders(s)
        BY <1>6, ReleaseHolders
      <3>3. QED
        BY <2>1, <3>1, <3>2 DEF Holders
    <2>3. QED
      BY <1>1, <2>1, <2>2 DEF Chosen
  <1>7. QED
    BY <1>2, <1>3, <1>4, <1>5, <1>6 DEF Next, ProducerStep, ConsumerStep

LEMMA HeldStableKept == ASSUME IInv, [Next]_vars PROVE HeldStable' /\ NewestIntact'
  <1>1. TypeOK /\ Chosen /\ HeldStable /\ NewestIntact /\ Ordered
    BY DEF IInv
  <1>2. producer # "idle" => pslot # latest /\ \A c \in Consumers : \A f \in held[c] : f.slot # pslot
    BY <1>1 DEF Chosen, Holders
  <1>3. CASE Copy
    BY <1>1, <1>2, <1>3 DEF Copy, consumerVars, HeldStable, NewestIntact, TypeOK, Frames
  <1>4. CASE Commit
    <2>1. HeldStable'
      BY <1>1, <1>2, <1>4 DEF Commit, consumerVars, HeldStable, TypeOK, Frames
    <2>2. NewestIntact'
      BY <1>1, <1>4 DEF Commit, NewestIntact, TypeOK, Chosen
    <2>3. QED
      BY <2>1, <2>2
  <1>5. CASE Reserve \/ Drop \/ Reject \/ Stop \/ (\E c \in Consumers : Exit(c)) \/ UNCHANGED vars
    BY <1>1, <1>5 DEF Reserve, Drop, Reject, Stop, Exit, vars, HeldStable, NewestIntact,
       consumerVars, producerVars
  <1>6. ASSUME NEW c \in Consumers, AcquireLatest(c)
        PROVE  HeldStable' /\ NewestIntact'
    <2>1. UNCHANGED <<latest, latestSeq, content>> /\ content[latest] = latestSeq
      <3>1. latest \in Slots
        BY <1>6, TakesAnother
      <3>2. latest # NoSlot
        BY <3>1 DEF NoSlot, Slots
      <3>3. QED
        BY <1>1, <1>6, <3>2 DEF AcquireLatest, NewestIntact
    <2>2. held' = [held EXCEPT ![c] = @ \cup {[slot |-> latest, frame |-> latestSeq]}]
      BY <1>6 DEF AcquireLatest
    <2>3. QED
      BY <1>1, <2>1, <2>2 DEF HeldStable, NewestIntact, TypeOK
  <1>7. ASSUME NEW c \in Consumers, NEW f \in held[c], Release(c, f)
        PROVE  HeldStable' /\ NewestIntact'
    BY <1>1, <1>7 DEF Release, HeldStable, NewestIntact, TypeOK
  <1>8. QED
    BY <1>3, <1>4, <1>5, <1>6, <1>7 DEF Next, ProducerStep, ConsumerStep

(* in_use follows the slots that are held or the newest. *)
LEMMA InUseKept == ASSUME IInv, [Next]_vars PROVE InUseCounted'
  <1>1. TypeOK /\ InUseCounted /\ inUse \in Nat
    BY DEF IInv, TypeOK
  <1>2. CASE Reserve
    <2>1. Busy' = Busy \cup {pslot'}
      <3>1. latest' = latest
        BY <1>2 DEF Reserve
      <3>2. QED
        BY <1>1, <1>2, <3>1, ReserveFree DEF Busy, TypeOK
    <2>2. pslot' \notin Busy
      BY <1>2, ReserveFree DEF Busy
    <2>3. Cardinality(Busy') = Cardinality(Busy) + 1
      BY <2>1, <2>2, BusyFinite, FS_AddElement
    <2>4. inUse' = inUse + 1
      BY <1>2 DEF Reserve
    <2>5. QED
      BY <1>1, <2>3, <2>4 DEF InUseCounted
  <1>3. CASE Reject
    <2>1. pslot \in Busy /\ holds' = [holds EXCEPT ![pslot] = 0] /\ pslot # latest /\ latest' = latest
      BY <1>3, FilledHeldOnce DEF Reject, Busy
    <2>2. Busy' = Busy \ {pslot}
      BY <1>1, <2>1 DEF Busy, TypeOK
    <2>3. Cardinality(Busy') = Cardinality(Busy) - 1
      BY <2>1, <2>2, BusyFinite, FS_RemoveElement
    <2>4. inUse' = inUse - 1
      BY <1>3 DEF Reject
    <2>5. QED
      BY <1>1, <2>3, <2>4 DEF InUseCounted
  <1>4. CASE Commit
    <2>1. /\ holds' = [holds EXCEPT ![pslot] = 0] /\ latest' = pslot
          /\ pslot \in Slots /\ pslot # latest /\ holds[pslot] = 1
      BY <1>1, <1>4, FilledHeldOnce DEF Commit, TypeOK
    <2>2. CASE Retired(latest)
      <3>1. latest \in Busy /\ Busy' = Busy \ {latest}
        BY <1>1, <2>1, <2>2 DEF Busy, Retired, TypeOK
      <3>2. Cardinality(Busy') = Cardinality(Busy) - 1
        BY <3>1, BusyFinite, FS_RemoveElement
      <3>3. inUse' = inUse - 1
        BY <1>4, <2>2 DEF Commit
      <3>4. QED
        BY <1>1, <3>2, <3>3 DEF InUseCounted
    <2>3. CASE ~Retired(latest)
      <3>1. \A s \in Slots : s = latest => holds[s] > 0
        BY <1>1, <2>3 DEF Retired, TypeOK, NoSlot, Slots
      <3>2. Busy' = Busy
        BY <1>1, <2>1, <3>1 DEF Busy, TypeOK
      <3>3. inUse' = inUse
        BY <1>4, <2>3 DEF Commit
      <3>4. QED
        BY <1>1, <3>2, <3>3 DEF InUseCounted
    <2>4. QED
      BY <2>2, <2>3
  <1>5. ASSUME NEW c \in Consumers, AcquireLatest(c)
        PROVE  InUseCounted'
    <2>1. holds' = [holds EXCEPT ![latest] = @ + 1] /\ latest' = latest /\ inUse' = inUse
      BY <1>5 DEF AcquireLatest
    <2>2. Busy' = Busy
      BY <1>1, <2>1 DEF Busy, TypeOK
    <2>3. QED
      BY <1>1, <2>1, <2>2 DEF InUseCounted
  <1>6. ASSUME NEW c \in Consumers, NEW f \in held[c], Release(c, f)
        PROVE  InUseCounted'
    <2>1. holds' = [holds EXCEPT ![f.slot] = @ - 1] /\ latest' = latest
      BY <1>6 DEF Release
    <2>2. f.slot \in Slots /\ holds[f.slot] \in Nat /\ holds[f.slot] >= 1
      <3>1. f.slot \in Slots /\ c \in Holders(f.slot)
        BY <1>1 DEF TypeOK, Frames, Holders
      <3>2. Cardinality(Holders(f.slot)) \in Nat /\ Cardinality(Holders(f.slot)) # 0
        BY <3>1, HoldersFinite, NobodyHolds
      <3>3. QED
        BY <1>1, <3>1, <3>2 DEF IInv, HoldsCounted, Copying, TypeOK
    <2>3. CASE LastUse(f.slot)
      <3>1. f.slot \in Busy /\ Busy' = Busy \ {f.slot}
        BY <1>1, <2>1, <2>2, <2>3 DEF Busy, LastUse, TypeOK
      <3>2. Cardinality(Busy') = Cardinality(Busy) - 1
        BY <3>1, BusyFinite, FS_RemoveElement
      <3>3. inUse' = inUse - 1
        BY <1>6, <2>3 DEF Release
      <3>4. QED
        BY <1>1, <3>2, <3>3 DEF InUseCounted
    <2>4. CASE ~LastUse(f.slot)
      <3>1. Busy' = Busy
        BY <1>1, <2>1, <2>2, <2>4 DEF Busy, LastUse, TypeOK
      <3>2. inUse' = inUse
        BY <1>6, <2>4 DEF Release
      <3>3. QED
        BY <1>1, <3>1, <3>2 DEF InUseCounted
    <2>5. QED
      BY <2>3, <2>4
  <1>7. CASE Drop \/ Copy \/ Stop \/ (\E c \in Consumers : Exit(c)) \/ UNCHANGED vars
    BY <1>1, <1>7 DEF Drop, Copy, Stop, Exit, vars, InUseCounted, Busy
  <1>8. QED
    BY <1>2, <1>3, <1>4, <1>5, <1>6, <1>7 DEF Next, ProducerStep, ConsumerStep

LEMMA AccountsKept == ASSUME IInv, [Next]_vars PROVE FramesAccounted'
  <1>1. TypeOK /\ FramesAccounted
    BY DEF IInv
  <1>2. ASSUME NEW c \in Consumers, AcquireLatest(c)
        PROVE  FramesAccounted'
    BY <1>1, <1>2 DEF AcquireLatest, SteppedOver, FramesAccounted, TypeOK
  <1>3. ASSUME NEW c \in Consumers, NEW f \in held[c], Release(c, f)
        PROVE  FramesAccounted'
    BY <1>1, <1>3 DEF Release, FramesAccounted
  <1>4. CASE ProducerStep \/ Stop \/ (\E c \in Consumers : Exit(c)) \/ UNCHANGED vars
    BY <1>1, <1>4 DEF ProducerStep, Reserve, Drop, Reject, Copy, Commit, Stop, Exit, vars,
       consumerVars, FramesAccounted
  <1>5. QED
    BY <1>2, <1>3, <1>4 DEF Next, ConsumerStep

LEMMA InvKept == IInv /\ [Next]_vars => IInv'
  BY TypesKept, OrderedKept, HeldBoundedKept, HoldsKept, ChosenKept, HeldStableKept, InUseKept,
     AccountsKept DEF IInv

(* The invariant holds of the ring. *)
THEOREM InvariantHolds == Spec => []IInv
  BY InvInit, InvKept, PTL DEF Spec

(* What a consumer holds is never written: the frame under its pointer is the one *)
(* it was handed. *)
THEOREM HeldFramesStable == Spec => []HeldStable
  <1>1. IInv => HeldStable
    BY DEF IInv
  <1>2. QED
    BY <1>1, InvariantHolds, PTL

(* in_use is exactly the number of slots that are held or the newest. *)
THEOREM InUseExact == Spec => []InUseCounted
  <1>1. IInv => InUseCounted
    BY DEF IInv
  <1>2. QED
    BY <1>1, InvariantHolds, PTL

(* Handed and skipped frames add up, for every consumer. *)
THEOREM NothingUnaccounted == Spec => []FramesAccounted
  <1>1. IInv => FramesAccounted
    BY DEF IInv
  <1>2. QED
    BY <1>1, InvariantHolds, PTL

-----------------------------------------------------------------------------
(* The sizing rule. *)

(* With one frame each, the consumers pin at most one slot each. *)
LEMMA PinnedBound ==
  ASSUME IInv, MaxHeld = 1, producer = "idle"
  PROVE  LET Pinned == {s \in Slots : holds[s] > 0}
         IN  IsFiniteSet(Pinned) /\ Cardinality(Pinned) <= Cardinality(Consumers)
  <1> DEFINE Pinned == {s \in Slots : holds[s] > 0}
  <1> DEFINE owner == [s \in Pinned |-> CHOOSE c \in Consumers : c \in Holders(s)]
  <1>1. \A s \in Pinned : \E c \in Consumers : c \in Holders(s)
    <2> SUFFICES ASSUME NEW s \in Pinned
                 PROVE  Holders(s) # {}
      BY DEF Holders
    <2>1. holds[s] = Cardinality(Holders(s)) /\ holds[s] > 0
      BY HoldersFinite DEF IInv, HoldsCounted, Copying
    <2>2. QED
      BY <2>1, NobodyHolds
  <1>2. \A s \in Pinned : owner[s] \in Consumers /\ owner[s] \in Holders(s)
    BY <1>1
  <1>3. \A c \in Consumers : \A f, g \in held[c] : f = g
    <2> SUFFICES ASSUME NEW c \in Consumers, NEW f \in held[c], NEW g \in held[c], f # g
                 PROVE  FALSE
      OBVIOUS
    <2>1. IsFiniteSet(held[c]) /\ Cardinality(held[c]) <= 1 /\ Cardinality(held[c]) \in Nat
      BY FS_CardinalityType DEF IInv, HeldBounded
    <2>2. Cardinality(held[c]) # 0
      BY <2>1, FS_EmptySet
    <2>3. \E x : held[c] = {x}
      <3>1. Cardinality(held[c]) = 1
        BY <2>1, <2>2
      <3>2. QED
        BY <2>1, <3>1, FS_Singleton
    <2>4. QED
      BY <2>3
  <1> HIDE DEF owner
  <1>4. \A s, t \in Pinned : owner[s] = owner[t] => s = t
    BY <1>2, <1>3 DEF Holders
  <1>5. owner \in [Pinned -> Consumers]
    BY <1>2 DEF owner
  <1>6. owner \in Injection(Pinned, Consumers)
    BY <1>4, <1>5 DEF Injection, IsInjective
  <1>7. QED
    BY <1>6, FS_Injection

(* A free slot is found whenever a frame comes. *)
LEMMA AlwaysFree ==
  ASSUME IInv, MaxHeld = 1, SlotCount >= Cardinality(Consumers) + 2, producer = "idle"
  PROVE  FreeSlots # {}
  <1> DEFINE Pinned == {s \in Slots : holds[s] > 0}
  <1>1. IsFiniteSet(Pinned) /\ Cardinality(Pinned) <= Cardinality(Consumers)
    BY PinnedBound
  <1>2. Cardinality(Consumers) \in Nat /\ Cardinality(Pinned) \in Nat
    BY <1>1, FS_CardinalityType
  <1> HIDE DEF Pinned
  <1>3. IsFiniteSet(Pinned \cup {latest}) /\ Cardinality(Pinned \cup {latest}) <= Cardinality(Pinned) + 1
    <2>1. Cardinality(Pinned \cup {latest}) = IF latest \in Pinned THEN Cardinality(Pinned) ELSE Cardinality(Pinned) + 1
      BY <1>1, FS_AddElement
    <2>2. QED
      BY <1>1, <1>2, <2>1, FS_AddElement
  <1>4. ASSUME FreeSlots = {}
        PROVE  FALSE
    <2>1. Slots \subseteq Pinned \cup {latest}
      BY <1>4 DEF FreeSlots, Pinned, IInv, TypeOK
    <2>2. Cardinality(Slots) <= Cardinality(Pinned \cup {latest})
      BY <1>3, <2>1, FS_Subset
    <2>3. Cardinality(Pinned \cup {latest}) \in Nat
      BY <1>3, FS_CardinalityType
    <2>4. QED
      BY <1>1, <1>2, <1>3, <2>2, <2>3, SlotsFinite
  <1>5. QED
    BY <1>4

(* "Sized consumers + 2" is enough for consumers that keep one frame: publish() *)
(* never finds every slot pinned. *)
THEOREM SizingSuffices ==
  ASSUME MaxHeld = 1, SlotCount >= Cardinality(Consumers) + 2
  PROVE  Spec => []NoDrops
  <1>1. Init => NoDrops
    BY DEF Init, NoDrops
  <1>2. IInv /\ NoDrops /\ [Next]_vars => NoDrops'
    <2> SUFFICES ASSUME IInv, NoDrops, [Next]_vars
                 PROVE  NoDrops'
      OBVIOUS
    <2>1. ~Drop
      BY AlwaysFree DEF Drop
    <2>2. QED
      BY <2>1 DEF NoDrops, Next, ProducerStep, ConsumerStep, Reserve, Reject, Copy, Commit,
         AcquireLatest, Release, Exit, Stop, vars, producerVars
  <1>3. QED
    BY <1>1, <1>2, InvariantHolds, PTL DEF Spec

-----------------------------------------------------------------------------
(* The ring is a latest-wins hand-off: nobody takes a frame twice, an older one or *)
(* any after stop(). *)
THEOREM RingKeepsPromise == Spec => KeepsPromise
  <1>1. Init => Promised!Begin
    BY DEF Init, Promised!Begin
  <1>2. IInv /\ [Next]_vars => [Promised!Step]_(Promised!latestWinsVars)
    <2> SUFFICES ASSUME IInv, [Next]_vars
                 PROVE  Promised!Step \/ UNCHANGED Promised!latestWinsVars
      OBVIOUS
    <2>1. CASE Commit
      BY <2>1 DEF Commit, consumerVars, IInv, Ordered, Promised!Step, Promised!Offer
    <2>2. CASE Stop
      BY <2>2 DEF Stop, consumerVars, IInv, TypeOK, Promised!Step, Promised!Close
    <2>3. ASSUME NEW c \in Consumers, AcquireLatest(c)
          PROVE  Promised!Step
      BY <2>3 DEF AcquireLatest, Ready, Promised!Step, Promised!TakeNewest
    <2>4. CASE Reserve \/ Drop \/ Reject \/ Copy \/ UNCHANGED vars
      BY <2>4 DEF Reserve, Drop, Reject, Copy, vars, consumerVars, Promised!latestWinsVars
    <2>5. ASSUME NEW c \in Consumers, Exit(c) \/ \E f \in held[c] : Release(c, f)
          PROVE  UNCHANGED Promised!latestWinsVars
      BY <2>5 DEF Exit, Release, Promised!latestWinsVars
    <2>6. QED
      BY <2>1, <2>2, <2>3, <2>4, <2>5 DEF Next, ProducerStep, ConsumerStep
  <1>3. QED
    BY <1>1, <1>2, InvariantHolds, PTL DEF Spec, KeepsPromise, Promised!Promise
=============================================================================
