--------------------------- MODULE DeviceRingProofs ---------------------------
(***************************************************************************)
(* What DeviceRingBuffer guarantees for every depth, every set of consumers *)
(* and every bound; and, second, what DeviceRingStreams does.               *)
(*                                                                         *)
(* The ring with its streams takes only steps of the ring: what is proved   *)
(* of DeviceRingBuffer, where the scan may find any slot read or retired    *)
(* and a lease may be handed out at once, holds whatever the device does.   *)
(* And what the device does: the frame a read runs on is the one its lease  *)
(* was given, and no stream waits for another that waits for it.            *)
(***************************************************************************)
EXTENDS DeviceRingStreams, FiniteSetTheorems, SequenceTheorems, TLAPS

(* Parity alternates. *)
LEMMA OddSuccessor == \A n \in Nat : Odd(n + 1) <=> ~Odd(n)
  BY DEF Odd

(* The slot after the last is the first. *)
LEMMA WrapInSlots == \A a \in Slots, b \in 0 .. SlotCount : Wrap(a + b) \in Slots
  BY SlotCountAssumption DEF Wrap, Slots

(* Two slots in a row are two different slots. *)
LEMMA WrapMoves == \A a \in Slots : Wrap(a) # Wrap(a + 1)
  BY SlotCountAssumption DEF Wrap, Slots

-----------------------------------------------------------------------------
(* Counting holds. *)

LEMMA HoldsFinite == \A s : IsFiniteSet(HoldsOn(s)) /\ Cardinality(HoldsOn(s)) \in Nat
  <1> SUFFICES ASSUME NEW s
               PROVE  IsFiniteSet(HoldsOn(s)) /\ Cardinality(HoldsOn(s)) \in Nat
    OBVIOUS
  <1>1. HoldsOn(s) \subseteq Consumers
    BY DEF HoldsOn
  <1>2. QED
    BY <1>1, ConsumersAssumption, FS_Subset, FS_CardinalityType


-----------------------------------------------------------------------------
HostInv == TypeOK /\ SlotsChosen /\ ScanSound /\ HoldsCounted

LEMMA HostInvInit == Init => HostInv
  <1> SUFFICES ASSUME Init PROVE HostInv
    OBVIOUS
  <1>1. TypeOK
    <2>1. SlotTypes /\ ConsumerTypes
      BY SlotCountAssumption
         DEF Init, SlotTypes, ConsumerTypes, ViewType, Slots, NoView, Counted
    <2>2. scan \in ScanType /\ threw \in BOOLEAN /\ nextWrite \in Slots
      <3>1. threw = FALSE /\ scan = NoScan /\ nextWrite = 0
        BY DEF Init
      <3>2. NoScan \in ScanType /\ 0 \in Slots
        BY SlotCountAssumption DEF ScanType, Slots, NoScan
      <3>3. QED
        BY <3>1, <3>2
    <2>3. ProducerTypes
      BY <2>2 DEF Init, ProducerTypes, Fenced
    <2>4. QED
      BY <2>1, <2>3 DEF TypeOK
  <1>2. SlotsChosen
    BY DEF Init, SlotsChosen, Fenced, Counted
  <1>3. ScanSound
    BY DEF Init, ScanSound, NoScan, Fenced
  <1>4. HoldsCounted
    <2>1. \A s \in Slots : HoldsOn(s) = {}
      BY DEF Init, HoldsOn, Counted
    <2>2. QED
      BY <2>1, FS_EmptySet DEF Init, HoldsCounted
  <1>5. QED
    BY <1>1, <1>2, <1>3, <1>4 DEF HostInv

(* The two scans that a producer can begin with. *)
LEMMA FreshScan == TypeOK => NoScan \in ScanType /\ Rescan \in ScanType
  BY SlotCountAssumption DEF TypeOK, ProducerTypes, NoScan, Rescan, ScanType

(* A claim leaves the producer's variables in their types. *)
LEMMA ClaimTypes ==
  ASSUME TypeOK, NEW s \in Slots, Claim(s)
  PROVE  /\ pslot' \in Slots /\ nextWrite' \in Slots
         /\ scan' \in ScanType /\ producer' = "fence"
  <1>1. Wrap(s + 1) \in Slots
    BY WrapInSlots, SlotCountAssumption
  <1>2. QED
    BY <1>1, FreshScan DEF Claim

(* A scan that saw every slot and none being read saw a leased one. *)
LEMMA ScanFindsBusy ==
  ASSUME HostInv, producer = "scan", scan.i = SlotCount, scan.reading = NoSlot
  PROVE  scan.busy \in Slots
  <1> SUFFICES ASSUME scan.busy = NoSlot PROVE FALSE
    BY DEF HostInv, TypeOK, ProducerTypes, ScanType
  <1>1. Wrap(nextWrite + 0) = scan.newest /\ Wrap(nextWrite + 1) = scan.newest
    BY SlotCountAssumption DEF HostInv, ScanSound
  <1>2. nextWrite \in Slots /\ nextWrite + 0 = nextWrite
    BY DEF HostInv, TypeOK, ProducerTypes, Slots
  <1>3. QED
    BY <1>1, <1>2, WrapMoves

(* A producer step keeps every variable in its type. *)
LEMMA ProducerTypesKept ==
  ASSUME HostInv, ProducerStep
  PROVE  TypeOK'
  <1> USE DEF HostInv, TypeOK, ProducerTypes
  <1>a. consumerVars' = consumerVars => ConsumerTypes'
    BY DEF ConsumerTypes, consumerVars
  <1>b. slotVars' = slotVars => SlotTypes'
    BY DEF SlotTypes, slotVars
  <1> USE <1>a, <1>b
  <1>1. ASSUME NEW m \in Modes, Acquire(m)
        PROVE  TypeOK'
    <2>1. m \in {"blocking", "try"}
      BY ModesAssumption
    <2>2. CASE Claim(nextWrite)
      BY <1>1, <2>1, <2>2, ClaimTypes DEF Acquire, Fenced
    <2>3. CASE producer' = "scan" /\ scan' = Rescan /\ UNCHANGED <<pslot, nextWrite>>
      BY <1>1, <2>1, <2>3, FreshScan DEF Acquire
    <2>4. QED
      BY <1>1, <2>2, <2>3 DEF Acquire
  <1>2. ASSUME NEW retired \in BOOLEAN, ScanSlot(retired)
        PROVE  TypeOK'
    <2> DEFINE s == Wrap(nextWrite + scan.i)
    <2> HIDE DEF s
    <2>1. s \in Slots /\ scan.i \in 0 .. SlotCount /\ scan.i + 1 \in 0 .. SlotCount
      BY <1>2, WrapInSlots, SlotCountAssumption DEF ScanSlot, s, ScanType
    <2>2. CASE Claim(s)
      BY <1>2, <2>1, <2>2, ClaimTypes DEF ScanSlot, Fenced
    <2>3. CASE scan' = [scan EXCEPT !.i = @ + 1] /\ UNCHANGED <<pslot, nextWrite, producer>>
      <3>1. scan' \in ScanType
        BY <2>1, <2>3 DEF ScanType
      <3>2. QED
        BY <1>2, <2>3, <3>1 DEF ScanSlot
    <2>4. CASE /\ scan' = [scan EXCEPT !.i = @ + 1, !.busy = IF @ = NoSlot THEN s ELSE @]
               /\ UNCHANGED <<pslot, nextWrite, producer>>
      <3>1. scan' \in ScanType
        BY <2>1, <2>4 DEF ScanType
      <3>2. QED
        BY <1>2, <2>4, <3>1 DEF ScanSlot
    <2>5. CASE /\ scan' = [scan EXCEPT !.i = @ + 1, !.reading = IF @ = NoSlot THEN s ELSE @]
               /\ UNCHANGED <<pslot, nextWrite, producer>>
      <3>1. scan' \in ScanType
        BY <2>1, <2>5 DEF ScanType
      <3>2. QED
        BY <1>2, <2>5, <3>1 DEF ScanSlot
    <2>6. QED
      BY <1>2, <2>2, <2>3, <2>4, <2>5 DEF ScanSlot, s
  <1>3. ASSUME ScanEnd
        PROVE  TypeOK'
    <2>1. CASE mode = "try"
      BY <1>3, <2>1, FreshScan DEF ScanEnd
    <2>2. CASE mode = "blocking" /\ scan.reading # NoSlot
      <3>1. Claim(scan.reading) /\ scan.reading \in Slots
        BY <1>3, <2>2 DEF ScanEnd, ScanType
      <3>2. QED
        BY <1>3, <3>1, ClaimTypes DEF ScanEnd, Fenced
    <2>3. CASE mode = "blocking" /\ scan.reading = NoSlot
      <3>1. readers[scan.busy] \in Nat
        BY <1>3, <2>3, ScanFindsBusy DEF ScanEnd, SlotTypes
      <3>2. scan' = [scan EXCEPT !.seen = readers[scan.busy]] /\ producer' = "parked"
        BY <1>3, <2>3 DEF ScanEnd
      <3>3. scan' \in ScanType
        BY <3>1, <3>2 DEF ScanType
      <3>4. QED
        BY <1>3, <2>3, <3>2, <3>3 DEF ScanEnd
    <2>4. QED
      BY <2>1, <2>2, <2>3
  <1>4. ASSUME Unpark PROVE TypeOK'
    BY <1>4, FreshScan DEF Unpark
  <1>5. ASSUME Fence PROVE TypeOK'
    <2>1. SlotTypes'
      BY <1>5 DEF Fence, SlotTypes, slotVars
    <2>2. QED
      BY <1>5, <2>1 DEF Fence, Fenced
  <1>6. ASSUME Settle PROVE TypeOK'
    <2>1. SlotTypes'
      BY <1>6 DEF Settle, SlotTypes
    <2>2. QED
      BY <1>6, <2>1 DEF Settle, Fenced
  <1>7. ASSUME Own \/ AcquireThrows PROVE TypeOK'
    BY <1>7 DEF Own, AcquireThrows, Fenced
  <1>8. ASSUME PublishStamp \/ AbandonStamp PROVE TypeOK'
    <2>1. SlotTypes'
      BY <1>8 DEF PublishStamp, AbandonStamp, SlotTypes
    <2>2. QED
      BY <1>8, <2>1 DEF PublishStamp, AbandonStamp, Fenced
  <1>9. ASSUME PublishSeq \/ AbandonSeq PROVE TypeOK'
    <2>1. SlotTypes'
      BY <1>9 DEF PublishSeq, AbandonSeq, SlotTypes
    <2>2. QED
      BY <1>9, <2>1 DEF PublishSeq, AbandonSeq, Fenced
  <1>10. ASSUME PublishLatest PROVE TypeOK'
    BY <1>10 DEF PublishLatest
  <1>11. ASSUME PublishCount PROVE TypeOK'
    BY <1>11 DEF PublishCount
  <1>12. QED
    BY <1>1, <1>2, <1>3, <1>4, <1>5, <1>6, <1>7, <1>8, <1>9, <1>10, <1>11
       DEF ProducerStep, HostStep
(* A producer step leaves every consumer's choice where it is, and chooses a slot *)
(* before it touches one.                                                         *)
LEMMA ProducerChooses ==
  ASSUME HostInv, ProducerStep
  PROVE  SlotsChosen'
  <1> USE DEF HostInv, TypeOK, ProducerTypes
  <1>1. cpc' = cpc /\ cslot' = cslot /\ cview' = cview /\ cquery' = cquery
    BY DEF ProducerStep, HostStep, Acquire, ScanSlot, ScanEnd, Unpark, Fence, Settle, Own,
           AcquireThrows, PublishStamp, PublishSeq, PublishLatest, PublishCount, AbandonStamp,
           AbandonSeq, consumerVars
  <1>2. producer' \in Fenced \cup {"fence", "even", "announce"} => pslot' \in Slots
    <2>1. ASSUME NEW m \in Modes, Acquire(m)
          PROVE  <1>2!1 => <1>2!2
      BY <2>1, ClaimTypes DEF Acquire, Fenced
    <2>2. ASSUME NEW retired \in BOOLEAN, ScanSlot(retired)
          PROVE  <1>2!1 => <1>2!2
      <3>1. Wrap(nextWrite + scan.i) \in Slots
        BY <2>2, WrapInSlots DEF ScanSlot, ScanType
      <3>2. QED
        BY <2>2, <3>1, ClaimTypes DEF ScanSlot, Fenced
    <2>3. ASSUME ScanEnd
          PROVE  <1>2!1 => <1>2!2
      <3>1. scan.reading \in Slots \cup {NoSlot}
        BY DEF ScanType
      <3>2. QED
        BY <2>3, <3>1, ClaimTypes DEF ScanEnd, Fenced
    <2>4. ASSUME Unpark \/ AcquireThrows \/ PublishCount \/ AbandonSeq
          PROVE  <1>2!1 => <1>2!2
      BY <2>4 DEF Unpark, AcquireThrows, PublishCount, AbandonSeq, Fenced
    <2>5. ASSUME \/ Fence \/ Settle \/ Own \/ PublishStamp \/ PublishSeq
                 \/ PublishLatest \/ AbandonStamp
          PROVE  <1>2!1 => <1>2!2
      BY <2>5 DEF Fence, Settle, Own, PublishStamp, PublishSeq, PublishLatest, AbandonStamp,
                  Fenced, SlotsChosen
    <2>6. QED
      BY <2>1, <2>2, <2>3, <2>4, <2>5 DEF ProducerStep, HostStep
  <1>3. QED
    BY <1>1, <1>2 DEF SlotsChosen

(* The scan of claim_free_slot sees every slot once and spares the newest. *)
LEMMA ProducerScans ==
  ASSUME HostInv, ProducerStep
  PROVE  ScanSound'
  <1> USE DEF HostInv, TypeOK, ProducerTypes
  <1>1. ASSUME NEW m \in Modes, Acquire(m)
        PROVE  ScanSound'
    BY <1>1 DEF Acquire, ScanSound, Claim, Rescan, NoScan, Fenced
  <1>2. ASSUME NEW retired \in BOOLEAN, ScanSlot(retired)
        PROVE  ScanSound'
    <2> DEFINE s == Wrap(nextWrite + scan.i)
    <2> HIDE DEF s
    <2>1. s \in Slots /\ scan.i \in Nat /\ scan.newest = latest /\ latest' = latest
      BY <1>2, WrapInSlots DEF ScanSlot, ScanSound, s, ScanType
    <2>2. CASE s # scan.newest /\ Claim(s)
      BY <1>2, <2>1, <2>2 DEF ScanSlot, ScanSound, Claim, NoScan
    <2>3. CASE /\ s = scan.newest
               /\ scan' = [scan EXCEPT !.i = @ + 1] /\ UNCHANGED <<pslot, nextWrite, producer>>
      <3>1. /\ scan'.i = scan.i + 1 /\ scan'.newest = scan.newest /\ scan'.busy = scan.busy
            /\ scan'.reading = scan.reading
        BY <2>3 DEF ScanType
      <3>2. producer = "scan" /\ producer' = "scan"
        BY <1>2, <2>3 DEF ScanSlot
      <3>3. ASSUME scan.busy = NoSlot, scan.reading = NoSlot, NEW j \in 0 .. scan.i
            PROVE  Wrap(nextWrite + j) = scan.newest
        <4>1. CASE j = scan.i
          BY <4>1, <2>3 DEF s
        <4>2. CASE j # scan.i
          <5>1. j \in 0 .. scan.i - 1
            BY <4>2, <2>1
          <5>2. QED
            BY <5>1, <3>2, <3>3 DEF ScanSound
        <4>3. QED
          BY <4>1, <4>2
      <3>4. 0 .. (scan'.i - 1) = 0 .. scan.i
        BY <3>1, <2>1
      <3>5. QED
        BY <2>1, <2>3, <3>1, <3>2, <3>3, <3>4 DEF ScanSound, Fenced
    <2>4. CASE /\ scan' = [scan EXCEPT !.i = @ + 1, !.busy = IF @ = NoSlot THEN s ELSE @]
               /\ UNCHANGED <<pslot, nextWrite, producer>>
      <3>1. /\ scan'.newest = scan.newest /\ scan'.busy # NoSlot
            /\ scan'.reading = scan.reading
        BY <2>1, <2>4 DEF ScanType, Slots, NoSlot
      <3>2. producer = "scan" /\ producer' = "scan"
        BY <1>2, <2>4 DEF ScanSlot
      <3>3. QED
        BY <2>1, <2>4, <3>1, <3>2 DEF ScanSound, Fenced
    <2>5. CASE /\ s # scan.newest
               /\ scan' = [scan EXCEPT !.i = @ + 1, !.reading = IF @ = NoSlot THEN s ELSE @]
               /\ UNCHANGED <<pslot, nextWrite, producer>>
      <3>1. /\ scan'.newest = scan.newest /\ scan'.reading # NoSlot
            /\ scan'.reading # scan.newest
        BY <2>1, <2>5 DEF ScanType, Slots, NoSlot, ScanSound
      <3>2. producer = "scan" /\ producer' = "scan"
        BY <1>2, <2>5 DEF ScanSlot
      <3>3. QED
        BY <2>1, <2>5, <3>1, <3>2 DEF ScanSound, Fenced
    <2>6. QED
      BY <1>2, <2>2, <2>3, <2>4, <2>5 DEF ScanSlot, s
  <1>3. ASSUME ScanEnd
        PROVE  ScanSound'
    <2>1. scan.newest = latest /\ latest' = latest
      BY <1>3 DEF ScanEnd, ScanSound
    <2>2. CASE mode = "try"
      BY <1>3, <2>1, <2>2 DEF ScanEnd, ScanSound, NoScan, Fenced
    <2>3. CASE mode = "blocking" /\ scan.reading # NoSlot
      BY <1>3, <2>1, <2>3 DEF ScanEnd, ScanSound, Claim, NoScan
    <2>4. CASE mode = "blocking" /\ scan.reading = NoSlot
      <3>1. scan'.reading = NoSlot /\ producer' = "parked"
        BY <1>3, <2>4 DEF ScanEnd, ScanType
      <3>2. QED
        BY <3>1 DEF ScanSound, Fenced
    <2>5. QED
      BY <2>2, <2>3, <2>4
  <1>4. ASSUME Unpark
        PROVE  ScanSound'
    BY <1>4 DEF Unpark, ScanSound, Rescan, NoScan, Fenced
  <1>5. ASSUME \/ Fence \/ Settle \/ Own \/ AcquireThrows \/ PublishStamp \/ PublishSeq
               \/ PublishCount \/ AbandonStamp \/ AbandonSeq
        PROVE  ScanSound'
    BY <1>5 DEF Fence, Settle, Own, AcquireThrows, PublishStamp, PublishSeq, PublishCount,
                AbandonStamp, AbandonSeq, ScanSound, Fenced
  <1>6. ASSUME PublishLatest
        PROVE  ScanSound'
    BY <1>6 DEF PublishLatest, ScanSound, Fenced
  <1>7. QED
    BY <1>1, <1>2, <1>3, <1>4, <1>5, <1>6 DEF ProducerStep, HostStep

(* The producer holds nothing. *)
LEMMA ProducerCounts ==
  ASSUME HostInv, ProducerStep
  PROVE  HoldsCounted'
  <1>1. cpc' = cpc /\ cslot' = cslot /\ readers' = readers
    BY DEF ProducerStep, HostStep, Acquire, ScanSlot, ScanEnd, Unpark, Fence, Settle, Own,
           AcquireThrows, PublishStamp, PublishSeq, PublishLatest, PublishCount, AbandonStamp,
           AbandonSeq, consumerVars, slotVars
  <1>2. \A s : HoldsOn(s)' = HoldsOn(s)
    BY <1>1 DEF HoldsOn
  <1>3. QED
    BY <1>1, <1>2 DEF HostInv, HoldsCounted
-----------------------------------------------------------------------------
(* The consumers' steps. *)

(* A program counter set to a label stays one. *)
LEMMA GotoTypes ==
  ASSUME ConsumerTypes, NEW c \in Consumers,
         NEW label \in Counted \cup {"idle", "latest", "seq", "scan", "stamp", "hold"},
         Goto(c, label)
  PROVE  /\ cpc' \in [Consumers -> Counted \cup {"idle", "latest", "seq", "scan", "stamp", "hold"}]
         /\ cpc'[c] = label
         /\ \A d \in Consumers \ {c} : cpc'[d] = cpc[d]
  BY DEF ConsumerTypes, Goto

(* A call begins, or begins again, at one of two labels. *)
LEMMA StartLabels == \A q : Start(q) \in {"latest", "scan"}
  BY DEF Start

LEMMA RetryTypes ==
  ASSUME ConsumerTypes, NEW c \in Consumers, Retry(c)
  PROVE  /\ cpc' \in [Consumers -> Counted \cup {"idle", "latest", "seq", "scan", "stamp", "hold"}]
         /\ cpc'[c] \in {"idle", Start(cquery[c])}
         /\ \A d \in Consumers \ {c} : cpc'[d] = cpc[d]
         /\ ctries' \in [Consumers -> Nat]
  <1> DEFINE label == IF ctries[c] + 1 < MaxAttempts THEN Start(cquery[c]) ELSE "idle"
  <1>1. label \in {"idle", Start(cquery[c])}
    OBVIOUS
  <1>2. label \in {"idle", "latest", "scan"}
    BY <1>1, StartLabels
  <1>3. Goto(c, label)
    BY DEF Retry
  <1>4. ctries' \in [Consumers -> Nat]
    BY DEF Retry, ConsumerTypes
  <1> HIDE DEF label
  <1>5. QED
    BY <1>1, <1>2, <1>3, <1>4, GotoTypes

(* Distances are natural numbers. *)
LEMMA DistanceNat == \A a, b \in Nat : Distance(a, b) \in Nat
  BY DEF Distance

(* A consumer step keeps every variable of the consumers in its type. *)
LEMMA ConsumerTypesKept ==
  ASSUME HostInv, NEW c \in Consumers, ConsumerStep(c)
  PROVE  ConsumerTypes'
  <1> USE DEF HostInv, TypeOK, slotVars
  <1>1. ASSUME NEW q \in Requests \cup {Latest}, Lease(c, q)
        PROVE  ConsumerTypes'
    <2>1. Goto(c, Start(q)) /\ Start(q) \in {"latest", "scan"}
      BY <1>1, StartLabels DEF Lease
    <2>2. cpc' \in [Consumers -> Counted \cup {"idle", "latest", "seq", "scan", "stamp", "hold"}]
      BY <2>1, GotoTypes
    <2>3. QED
      BY <1>1, <2>2 DEF Lease, ConsumerTypes, ProducerTypes
  <1>2. ASSUME LoadLatest(c)
        PROVE  ConsumerTypes'
    <2>1. IF latest = NoSlot THEN Goto(c, "idle") ELSE Goto(c, "seq")
      BY <1>2 DEF LoadLatest
    <2>2. cpc' \in [Consumers -> Counted \cup {"idle", "latest", "seq", "scan", "stamp", "hold"}]
      BY <2>1, GotoTypes
    <2>3. QED
      BY <1>2, <2>2 DEF LoadLatest, ConsumerTypes, ProducerTypes, SlotTypes
  <1>3. ASSUME LoadSeq(c)
        PROVE  ConsumerTypes'
    <2>1. cslot[c] \in Slots
      BY <1>3 DEF LoadSeq, SlotsChosen
    <2>2. CASE Retry(c) /\ UNCHANGED cseq
      BY <1>3, <2>2, RetryTypes DEF LoadSeq, ConsumerTypes
    <2>3. CASE /\ cseq' = [cseq EXCEPT ![c] = seq[cslot[c]]]
               /\ Goto(c, "hold") /\ UNCHANGED ctries
      BY <1>3, <2>1, <2>3, GotoTypes DEF LoadSeq, ConsumerTypes, SlotTypes
    <2>4. QED
      BY <1>3, <2>2, <2>3 DEF LoadSeq
  <1>4. ASSUME ViewSeq(c)
        PROVE  ConsumerTypes'
    <2>1. cview[c] \in ViewType /\ cview[c].i \in Slots /\ cview[c].i + 1 \in 0 .. SlotCount
      BY <1>4, SlotCountAssumption DEF ViewSeq, ConsumerTypes, ViewType, Slots
    <2>2. CASE cview' = [cview EXCEPT ![c].i = @ + 1] /\ UNCHANGED cpc
      <3>1. [cview[c] EXCEPT !.i = @ + 1] \in ViewType
        BY <2>1 DEF ViewType
      <3>2. cview' \in [Consumers -> ViewType]
        BY <2>2, <3>1 DEF ConsumerTypes
      <3>3. QED
        BY <1>4, <2>2, <3>2 DEF ViewSeq, ConsumerTypes
    <2>3. CASE cview' = [cview EXCEPT ![c].seq = seq[cview[c].i]] /\ Goto(c, "stamp")
      <3>1. [cview[c] EXCEPT !.seq = seq[cview[c].i]] \in ViewType
        BY <2>1 DEF ViewType, SlotTypes
      <3>2. cview' \in [Consumers -> ViewType]
        BY <2>3, <3>1 DEF ConsumerTypes
      <3>3. QED
        BY <1>4, <2>3, <3>2, GotoTypes DEF ViewSeq, ConsumerTypes
    <2>4. QED
      BY <1>4, <2>2, <2>3 DEF ViewSeq
  <1>5. ASSUME ViewStamp(c)
        PROVE  ConsumerTypes'
    <2> DEFINE v == cview[c]
               diff == Distance(cquery[c].at, timestamp[v.i])
               skip == timestamp[v.i] = NoTimestamp \/ diff > cquery[c].tol
               better == v.best = NoSlot \/ diff < v.bestDiff
               w == [i |-> IF ~skip /\ ~cquery[c].closest THEN SlotCount ELSE v.i + 1,
                     seq |-> 0,
                     best |-> IF ~skip /\ better THEN v.i ELSE v.best,
                     bestSeq |-> IF ~skip /\ better THEN v.seq ELSE v.bestSeq,
                     bestDiff |-> IF ~skip /\ better THEN diff ELSE v.bestDiff]
    <2>1. v \in ViewType /\ v.i \in Slots /\ cquery[c].at \in Nat
      BY <1>5, RequestsAssumption DEF ViewStamp, SlotsChosen, ConsumerTypes
    <2>2. timestamp[v.i] # NoTimestamp => diff \in Nat
      <3>1. timestamp[v.i] \in Nat \cup {NoTimestamp}
        BY <2>1 DEF SlotTypes
      <3>2. QED
        BY <2>1, <3>1, DistanceNat
    <2>3. w \in ViewType
      <3>1. v.i + 1 \in 0 .. SlotCount /\ SlotCount \in 0 .. SlotCount
        BY <2>1, SlotCountAssumption DEF Slots
      <3>2. /\ v.seq \in Nat /\ v.best \in Slots \cup {NoSlot} /\ v.bestSeq \in Nat
            /\ v.bestDiff \in Nat
        BY <2>1 DEF ViewType
      <3>3. ~skip => diff \in Nat
        BY <2>2
      <3> HIDE DEF diff, skip, better, v
      <3>4. QED
        BY <2>1, <3>1, <3>2, <3>3 DEF ViewType
    <2>4. cview' = [cview EXCEPT ![c] = w] /\ Goto(c, "scan")
      BY <1>5 DEF ViewStamp
    <2> HIDE DEF w
    <2>5. cview' \in [Consumers -> ViewType]
      BY <2>3, <2>4 DEF ConsumerTypes
    <2>6. QED
      BY <1>5, <2>4, <2>5, GotoTypes DEF ViewStamp, ConsumerTypes
  <1>6. ASSUME ViewEnd(c)
        PROVE  ConsumerTypes'
    <2>1. IF cview[c].best = NoSlot THEN Goto(c, "idle") ELSE Goto(c, "hold")
      BY <1>6 DEF ViewEnd
    <2>2. cpc' \in [Consumers -> Counted \cup {"idle", "latest", "seq", "scan", "stamp", "hold"}]
      BY <2>1, GotoTypes
    <2>3. cview[c].best \in Slots \cup {NoSlot} /\ cview[c].bestSeq \in Nat
      BY DEF ConsumerTypes, ViewType
    <2>4. NoView \in ViewType
      BY SlotCountAssumption DEF NoView, ViewType
    <2>5. QED
      BY <1>6, <2>2, <2>3, <2>4 DEF ViewEnd, ConsumerTypes
  <1>7. ASSUME Hold(c) \/ Drop(c)
        PROVE  ConsumerTypes'
    <2>1. Goto(c, "check") \/ Goto(c, "idle")
      BY <1>7 DEF Hold, Drop
    <2>2. cpc' \in [Consumers -> Counted \cup {"idle", "latest", "seq", "scan", "stamp", "hold"}]
      BY <2>1, GotoTypes DEF Counted
    <2>3. QED
      BY <1>7, <2>2 DEF Hold, Drop, ConsumerTypes
  <1>8. ASSUME Check(c)
        PROVE  ConsumerTypes'
    <2>1. Goto(c, "held") \/ Goto(c, "undo")
      BY <1>8 DEF Check
    <2>2. cpc' \in [Consumers -> Counted \cup {"idle", "latest", "seq", "scan", "stamp", "hold"}]
      BY <2>1, GotoTypes DEF Counted
    <2>3. cslot[c] \in Slots
      BY <1>8 DEF Check, SlotsChosen, Counted
    <2>4. QED
      BY <1>8, <2>2, <2>3 DEF Check, ConsumerTypes, SlotTypes
  <1>9. ASSUME Undo(c)
        PROVE  ConsumerTypes'
    BY <1>9, RetryTypes DEF Undo, ConsumerTypes
  <1>10. QED
    BY <1>1, <1>2, <1>3, <1>4, <1>5, <1>6, <1>7, <1>8, <1>9 DEF ConsumerStep, LeaseStep
(* Of the shared words a consumer writes only readers_. *)
LEMMA ConsumerWrites ==
  ASSUME NEW c \in Consumers, ConsumerStep(c)
  PROVE  UNCHANGED <<seq, timestamp, latest, published, producerVars>>
  BY DEF ConsumerStep, LeaseStep, Lease, LoadLatest, LoadSeq, ViewSeq, ViewStamp, ViewEnd, Hold,
         Check, Undo, Drop, slotVars

(* A consumer step moves that consumer and no other. *)
LEMMA ConsumerAlone ==
  ASSUME HostInv, NEW c \in Consumers, ConsumerStep(c), NEW d \in Consumers, d # c
  PROVE  /\ cpc'[d] = cpc[d] /\ cquery'[d] = cquery[d] /\ cslot'[d] = cslot[d]
         /\ cseq'[d] = cseq[d] /\ cview'[d] = cview[d] /\ cstamp'[d] = cstamp[d]
  <1> USE DEF HostInv, TypeOK, ConsumerTypes, Goto, Retry
  <1>1. CASE LoadLatest(c) \/ LoadSeq(c) \/ \E q \in Requests \cup {Latest} : Lease(c, q)
    BY <1>1 DEF LoadLatest, LoadSeq, Lease
  <1>2. CASE ViewSeq(c) \/ ViewStamp(c) \/ ViewEnd(c)
    BY <1>2 DEF ViewSeq, ViewStamp, ViewEnd
  <1>3. CASE Hold(c) \/ Check(c) \/ Undo(c) \/ Drop(c)
    BY <1>3 DEF Hold, Check, Undo, Drop
  <1>4. QED
    BY <1>1, <1>2, <1>3 DEF ConsumerStep, LeaseStep

(* A consumer chooses a slot before it touches one. *)
LEMMA ConsumerChooses ==
  ASSUME HostInv, NEW c \in Consumers, ConsumerStep(c)
  PROVE  SlotsChosen'
  <1> USE DEF HostInv, TypeOK
  <1> DEFINE Chosen(d) ==
        /\ cpc[d] \in Counted \cup {"seq", "hold"} => cslot[d] \in Slots
        /\ cpc[d] = "stamp" => cview[d].i \in Slots /\ cquery[d] # Latest
        /\ cpc[d] = "scan" => cquery[d] # Latest
        /\ cpc[d] \in {"latest", "seq"} => cquery[d] = Latest
  <1>1. \A d \in Consumers : Chosen(d)
    BY DEF SlotsChosen
  <1>2. ASSUME NEW q \in Requests \cup {Latest}, Lease(c, q)
        PROVE  Chosen(c)'
    BY <1>2 DEF Lease, Goto, Start, Counted, ConsumerTypes
  <1>3. ASSUME LoadLatest(c)
        PROVE  Chosen(c)'
    BY <1>1, <1>3 DEF LoadLatest, Goto, Counted, ConsumerTypes, ProducerTypes
  <1>4. ASSUME LoadSeq(c)
        PROVE  Chosen(c)'
    BY <1>1, <1>4 DEF LoadSeq, Goto, Retry, Start, Counted, ConsumerTypes
  <1>5. ASSUME ViewSeq(c)
        PROVE  Chosen(c)'
    <2>1. cview[c] \in ViewType /\ cview[c].i \in Slots
      BY <1>5, SlotCountAssumption DEF ViewSeq, ConsumerTypes, ViewType, Slots
    <2>2. CASE cview' = [cview EXCEPT ![c].i = @ + 1] /\ UNCHANGED cpc
      BY <1>1, <1>5, <2>2 DEF ViewSeq, Counted
    <2>3. CASE cview' = [cview EXCEPT ![c].seq = seq[cview[c].i]] /\ Goto(c, "stamp")
      BY <1>1, <1>5, <2>1, <2>3 DEF ViewSeq, Goto, Counted, ConsumerTypes, ViewType
    <2>4. QED
      BY <1>5, <2>2, <2>3 DEF ViewSeq
  <1>6. ASSUME ViewStamp(c)
        PROVE  Chosen(c)'
    <2>1. Goto(c, "scan") /\ cquery' = cquery
      BY <1>6 DEF ViewStamp
    <2>2. QED
      BY <1>1, <1>6, <2>1 DEF ViewStamp, Goto, Counted, ConsumerTypes
  <1>7. ASSUME ViewEnd(c)
        PROVE  Chosen(c)'
    <2>1. cview[c].best \in Slots \cup {NoSlot}
      BY DEF ConsumerTypes, ViewType
    <2>2. QED
      BY <1>7, <2>1 DEF ViewEnd, Goto, Counted, ConsumerTypes
  <1>8. ASSUME Hold(c) \/ Check(c) \/ Drop(c)
        PROVE  Chosen(c)'
    BY <1>1, <1>8 DEF Hold, Check, Drop, Goto, Counted, ConsumerTypes
  <1>9. ASSUME Undo(c)
        PROVE  Chosen(c)'
    BY <1>9 DEF Undo, Retry, Goto, Start, Counted, ConsumerTypes
  <1>10. Chosen(c)'
    BY <1>2, <1>3, <1>4, <1>5, <1>6, <1>7, <1>8, <1>9 DEF ConsumerStep, LeaseStep
  <1>11. ASSUME NEW d \in Consumers, d # c
         PROVE  Chosen(d)'
    BY <1>1, <1>11, ConsumerAlone
  <1>12. \A d \in Consumers : Chosen(d)'
    BY <1>10, <1>11
  <1>13. producer' = producer /\ pslot' = pslot
    BY ConsumerWrites DEF producerVars
  <1>14. QED
    BY <1>12, <1>13 DEF SlotsChosen

(* A hold is counted where it is taken and nowhere else. *)
LEMMA ConsumerCounts ==
  ASSUME HostInv, NEW c \in Consumers, ConsumerStep(c)
  PROVE  readers' \in [Slots -> Nat] /\ HoldsCounted'
  <1> USE DEF HostInv, TypeOK
  <1>1. \A d \in Consumers \ {c} : cpc'[d] = cpc[d] /\ cslot'[d] = cslot[d]
    BY ConsumerAlone
  <1>2. readers \in [Slots -> Nat]
    BY DEF SlotTypes
  <1>3. CASE Hold(c)
    <2> DEFINE s == cslot[c]
    <2>1. /\ s \in Slots /\ cpc[c] = "hold" /\ cpc'[c] = "check" /\ cslot' = cslot
          /\ readers' = [readers EXCEPT ![s] = @ + 1]
      BY <1>3 DEF Hold, Goto, SlotsChosen, ConsumerTypes
    <2>2. \A t \in Slots \ {s} : HoldsOn(t)' = HoldsOn(t)
      BY <1>1, <2>1 DEF HoldsOn, Counted
    <2>3. HoldsOn(s)' = HoldsOn(s) \cup {c} /\ c \notin HoldsOn(s)
      BY <1>1, <2>1 DEF HoldsOn, Counted
    <2>4. Cardinality(HoldsOn(s)') = Cardinality(HoldsOn(s)) + 1
      BY <2>3, HoldsFinite, FS_AddElement
    <2>5. QED
      BY <1>2, <2>1, <2>2, <2>4 DEF HoldsCounted
  <1>4. CASE Undo(c) \/ Drop(c)
    <2> DEFINE s == cslot[c]
    <2>1. /\ s \in Slots /\ cpc[c] \in Counted /\ cslot' = cslot
          /\ readers' = [readers EXCEPT ![s] = @ - 1]
      BY <1>4 DEF Undo, Drop, SlotsChosen, Counted
    <2>2. cpc'[c] \notin Counted
      <3>1. CASE Undo(c)
        <4>1. cpc'[c] \in {"idle", Start(cquery[c])}
          BY <3>1, RetryTypes DEF Undo
        <4>2. QED
          BY <4>1, StartLabels DEF Counted
      <3>2. CASE Drop(c)
        BY <3>2 DEF Drop, Goto, ConsumerTypes, Counted
      <3>3. QED
        BY <1>4, <3>1, <3>2
    <2>3. \A t \in Slots \ {s} : HoldsOn(t)' = HoldsOn(t)
      BY <1>1, <2>1 DEF HoldsOn
    <2>4. HoldsOn(s)' = HoldsOn(s) \ {c} /\ c \in HoldsOn(s)
      BY <1>1, <2>1, <2>2 DEF HoldsOn
    <2>5. Cardinality(HoldsOn(s)') = Cardinality(HoldsOn(s)) - 1
      BY <2>4, HoldsFinite, FS_RemoveElement
    <2>6. Cardinality(HoldsOn(s)') \in Nat
      BY <2>4, HoldsFinite, FS_RemoveElement, FS_CardinalityType
    <2>7. QED
      BY <1>2, <2>1, <2>3, <2>5, <2>6 DEF HoldsCounted
  <1>5. CASE Check(c)
    <2>1. /\ cpc[c] \in Counted /\ cpc'[c] \in Counted /\ cslot' = cslot /\ readers' = readers
      BY <1>5 DEF Check, Goto, ConsumerTypes, Counted, slotVars
    <2>2. \A t \in Slots : HoldsOn(t)' = HoldsOn(t)
      BY <1>1, <2>1 DEF HoldsOn
    <2>3. QED
      BY <1>2, <2>1, <2>2 DEF HoldsCounted
  <1>6. ASSUME cpc[c] \notin Counted, cpc'[c] \notin Counted, readers' = readers
        PROVE  readers' \in [Slots -> Nat] /\ HoldsCounted'
    <2>1. \A t \in Slots : HoldsOn(t)' = HoldsOn(t)
      BY <1>1, <1>6 DEF HoldsOn
    <2>2. QED
      BY <1>2, <1>6, <2>1 DEF HoldsCounted
  <1>7. CASE LoadLatest(c) \/ LoadSeq(c) \/ \E q \in Requests \cup {Latest} : Lease(c, q)
    <2>1. cpc[c] \notin Counted /\ cpc'[c] \notin Counted /\ readers' = readers
      BY <1>7 DEF LoadLatest, LoadSeq, Lease, Retry, Goto, Start, ConsumerTypes, Counted, slotVars
    <2>2. QED
      BY <1>6, <2>1
  <1>8. CASE ViewSeq(c) \/ ViewStamp(c) \/ ViewEnd(c)
    <2>1. cpc[c] \notin Counted /\ cpc'[c] \notin Counted /\ readers' = readers
      BY <1>8 DEF ViewSeq, ViewStamp, ViewEnd, Goto, ConsumerTypes, Counted, slotVars
    <2>2. QED
      BY <1>6, <2>1
  <1>9. QED
    BY <1>3, <1>4, <1>5, <1>7, <1>8 DEF ConsumerStep, LeaseStep

(* HostInv is inductive. *)
LEMMA HostInvKept == HostInv /\ [Next]_vars => HostInv'
  <1> SUFFICES ASSUME HostInv, [Next]_vars PROVE HostInv'
    OBVIOUS
  <1>1. CASE ProducerStep
    BY <1>1, ProducerTypesKept, ProducerChooses, ProducerScans, ProducerCounts DEF HostInv
  <1>2. ASSUME NEW c \in Consumers, ConsumerStep(c)
        PROVE  HostInv'
    <2>1. SlotTypes' /\ HoldsCounted'
      BY <1>2, ConsumerWrites, ConsumerCounts DEF HostInv, TypeOK, SlotTypes
    <2>2. ProducerTypes' /\ ScanSound'
      BY <1>2, ConsumerWrites DEF HostInv, TypeOK, ProducerTypes, ScanSound, producerVars
    <2>3. QED
      BY <1>2, <2>1, <2>2, ConsumerTypesKept, ConsumerChooses DEF HostInv, TypeOK
  <1>3. CASE UNCHANGED vars
    <2>1. \A s : HoldsOn(s)' = HoldsOn(s)
      BY <1>3 DEF vars, consumerVars, HoldsOn
    <2>2. QED
      BY <1>3, <2>1
         DEF vars, slotVars, producerVars, consumerVars, HostInv, TypeOK, SlotTypes, ProducerTypes,
             ConsumerTypes, SlotsChosen, ScanSound, HoldsCounted
  <1>4. QED
    BY <1>1, <1>2, <1>3 DEF Next

(* Every variable keeps its type: in particular readers_ never wraps below zero. *)
THEOREM TypeCorrect == Spec => []TypeOK
  <1>1. HostInv => TypeOK
    BY DEF HostInv
  <1>2. QED
    BY <1>1, HostInvInit, HostInvKept, PTL DEF Spec

(* readers_ is the number of holds that exist, whatever fails. *)
THEOREM ReadersCountHolds == Spec => []HoldsCounted
  <1>1. HostInv => HoldsCounted
    BY DEF HostInv
  <1>2. QED
    BY <1>1, HostInvInit, HostInvKept, PTL DEF Spec

(* A scanning producer spares the newest frame. *)
THEOREM NewestIsSpared == Spec => []NewestSpared
  <1>1. HostInv => NewestSpared
    BY DEF HostInv, ScanSound, NewestSpared
  <1>2. QED
    BY <1>1, HostInvInit, HostInvKept, PTL DEF Spec
-----------------------------------------------------------------------------
(* Exclusion.  It needs the parity of seq_, which a CUDA call that throws inside *)
(* acquire_write_impl breaks: every other step preserves it.                     *)

SafeInv == OddIsFenced /\ SeqsSound /\ Exclusive /\ Honoured

LEMMA SafeInvInit == Init => SafeInv
  <1> SUFFICES ASSUME Init PROVE SafeInv
    OBVIOUS
  <1>1. OddIsFenced
    BY DEF Init, OddIsFenced, Odd, Fenced
  <1>2. SeqsSound /\ Exclusive /\ Honoured
    BY DEF Init, SeqsSound, Exclusive, Honoured, NoView
  <1>3. QED
    BY <1>1, <1>2 DEF SafeInv

(* A counted hold keeps the reader count above zero. *)
LEMMA HeldIsCounted ==
  ASSUME HostInv, NEW c \in Consumers, cpc[c] \in Counted
  PROVE  readers[cslot[c]] # 0
  <1>1. cslot[c] \in Slots /\ c \in HoldsOn(cslot[c])
    BY DEF HostInv, SlotsChosen, HoldsOn
  <1>2. HoldsOn(cslot[c]) # {}
    BY <1>1
  <1>3. Cardinality(HoldsOn(cslot[c])) # 0
    BY <1>2, HoldsFinite, FS_EmptySet
  <1>4. QED
    BY <1>1, <1>3 DEF HostInv, HoldsCounted

(* The producer flips the parity of the slot it has, and of no other. *)
LEMMA ProducerParity ==
  ASSUME HostInv, OddIsFenced, ~AcquireThrows, ProducerStep
  PROVE  OddIsFenced'
  <1> USE DEF HostInv, TypeOK, SlotTypes
  <1>1. ASSUME UNCHANGED seq, producer \notin Fenced, producer' \notin Fenced
        PROVE  OddIsFenced'
    BY <1>1 DEF OddIsFenced
  <1>2. ASSUME UNCHANGED <<seq, pslot>>, producer \in Fenced, producer' \in Fenced
        PROVE  OddIsFenced'
    BY <1>2 DEF OddIsFenced
  <1>3. ASSUME seq' = [seq EXCEPT ![pslot] = @ + 1], pslot' = pslot, pslot \in Slots,
               producer \in Fenced <=> producer' \notin Fenced
        PROVE  OddIsFenced'
    <2>1. \A t \in Slots : seq'[t] = IF t = pslot THEN seq[t] + 1 ELSE seq[t]
      BY <1>3
    <2>2. \A t \in Slots : Odd(seq[t] + 1) <=> ~Odd(seq[t])
      BY OddSuccessor
    <2>3. QED
      BY <1>3, <2>1, <2>2 DEF OddIsFenced
  <1>4. CASE \/ \E m \in Modes : Acquire(m)
             \/ \E retired \in BOOLEAN : ScanSlot(retired)
             \/ ScanEnd \/ Unpark \/ PublishLatest \/ PublishCount
    BY <1>1, <1>4 DEF Acquire, ScanSlot, ScanEnd, Unpark, PublishLatest, PublishCount, Claim,
                      slotVars, Fenced
  <1>5. CASE Own \/ PublishStamp \/ AbandonStamp
    BY <1>2, <1>5 DEF Own, PublishStamp, AbandonStamp, slotVars, Fenced
  <1>6. CASE Fence \/ PublishSeq \/ AbandonSeq
    BY <1>3, <1>6 DEF Fence, PublishSeq, AbandonSeq, SlotsChosen, Fenced
  <1>7. CASE Settle
    BY <1>2, <1>3, <1>7 DEF Settle, SlotsChosen, Fenced
  <1>8. QED
    BY <1>4, <1>5, <1>6, <1>7 DEF ProducerStep, HostStep

(* Sequence numbers only grow, and a slot whose number a step leaves even was not *)
(* written by it.                                                                 *)
LEMMA ProducerSeqs ==
  ASSUME HostInv, OddIsFenced, ProducerStep, NEW s \in Slots
  PROVE  /\ seq'[s] \in Nat /\ seq'[s] >= seq[s]
         /\ ~Odd(seq[s]) => timestamp'[s] = timestamp[s]
  <1> USE DEF HostInv, TypeOK, SlotTypes
  <1>1. seq[s] \in Nat
    OBVIOUS
  <1>2. CASE \/ \E m \in Modes : Acquire(m)
             \/ \E retired \in BOOLEAN : ScanSlot(retired)
             \/ ScanEnd \/ Unpark \/ PublishLatest \/ PublishCount \/ Own \/ AcquireThrows
    BY <1>1, <1>2 DEF Acquire, ScanSlot, ScanEnd, Unpark, PublishLatest, PublishCount, Own,
                      AcquireThrows, slotVars
  <1>3. CASE Fence \/ PublishSeq \/ AbandonSeq \/ Settle
    BY <1>1, <1>3 DEF Fence, PublishSeq, AbandonSeq, Settle
  <1>4. CASE PublishStamp \/ AbandonStamp
    <2>1. Odd(seq[pslot]) /\ pslot \in Slots
      BY <1>4 DEF PublishStamp, AbandonStamp, OddIsFenced, SlotsChosen, Fenced
    <2>2. seq' = seq /\ (s # pslot => timestamp'[s] = timestamp[s])
      BY <1>4 DEF PublishStamp, AbandonStamp
    <2>3. QED
      BY <1>1, <2>1, <2>2
  <1>5. QED
    BY <1>2, <1>3, <1>4 DEF ProducerStep, HostStep

(* The consumers' own state is not the producer's to change. *)
LEMMA ProducerAlone == ProducerStep => consumerVars' = consumerVars /\ readers' = readers
  BY DEF ProducerStep, HostStep, Acquire, ScanSlot, ScanEnd, Unpark, Fence, Settle, Own,
         AcquireThrows, PublishStamp, PublishSeq, PublishLatest, PublishCount, AbandonStamp,
         AbandonSeq, slotVars

(* A number a consumer read stays sound while the producer works. *)
LEMMA ProducerSound ==
  ASSUME HostInv, OddIsFenced, SeqsSound, ProducerStep
  PROVE  SeqsSound'
  <1>1. /\ cpc' = cpc /\ cquery' = cquery /\ cslot' = cslot /\ cseq' = cseq /\ cview' = cview
    BY ProducerAlone DEF consumerVars
  <1>2. ASSUME NEW n \in Nat, NEW s \in Slots, NEW c \in Consumers, ~Odd(n), n <= seq[s]
        PROVE  /\ n <= seq'[s]
               /\ n = seq'[s] => n = seq[s] /\ (Matches(c, s) => Matches(c, s)')
    <2>1. seq[s] \in Nat /\ seq'[s] \in Nat /\ seq'[s] >= seq[s]
      BY ProducerSeqs DEF HostInv, TypeOK, SlotTypes
    <2>2. n = seq'[s] => n = seq[s]
      BY <1>2, <2>1
    <2>3. n = seq'[s] => timestamp'[s] = timestamp[s]
      BY <1>2, <2>2, ProducerSeqs
    <2>4. QED
      BY <1>1, <1>2, <2>1, <2>2, <2>3 DEF Matches
  <1>3. ASSUME NEW c \in Consumers, cpc[c] \in {"hold", "check"}
        PROVE  /\ ~Odd(cseq[c]) /\ cseq[c] <= seq'[cslot[c]]
               /\ (cquery[c] # Latest /\ cseq[c] = seq'[cslot[c]]) => Matches(c, cslot[c])'
    <2>1. cslot[c] \in Slots /\ cseq[c] \in Nat
      BY <1>3 DEF HostInv, SlotsChosen, TypeOK, ConsumerTypes
    <2>2. QED
      BY <1>1, <1>2, <1>3, <2>1 DEF SeqsSound, Matches
  <1>4. ASSUME NEW c \in Consumers, cpc[c] = "stamp"
        PROVE  ~Odd(cview[c].seq) /\ cview[c].seq <= seq'[cview[c].i]
    <2>1. cview[c].i \in Slots /\ cview[c].seq \in Nat
      BY <1>4 DEF HostInv, SlotsChosen, TypeOK, ConsumerTypes, ViewType
    <2>2. QED
      BY <1>2, <1>4, <2>1 DEF SeqsSound
  <1>5. ASSUME NEW c \in Consumers, cpc[c] \in {"scan", "stamp"}, cview[c].best # NoSlot
        PROVE  /\ ~Odd(cview[c].bestSeq) /\ cview[c].bestSeq <= seq'[cview[c].best]
               /\ cview[c].bestSeq = seq'[cview[c].best] => Matches(c, cview[c].best)'
    <2>1. cview[c].best \in Slots /\ cview[c].bestSeq \in Nat
      BY <1>5 DEF HostInv, TypeOK, ConsumerTypes, ViewType
    <2>2. QED
      BY <1>1, <1>2, <1>5, <2>1 DEF SeqsSound, Matches
  <1>6. QED
    BY <1>1, <1>3, <1>4, <1>5 DEF SeqsSound, Matches

(* The producer comes into possession only of a slot nobody holds. *)
LEMMA ProducerExcludes ==
  ASSUME HostInv, Exclusive, ProducerStep
  PROVE  Exclusive'
  <1>1. cpc' = cpc /\ cslot' = cslot
    BY ProducerAlone DEF consumerVars
  <1>2. CASE Settle
    <2>1. ASSUME NEW c \in Consumers, cpc[c] = "held", cslot[c] = pslot
          PROVE  producer' \notin Owning
      <3>1. readers[pslot] # 0
        BY <2>1, HeldIsCounted DEF Counted
      <3>2. QED
        BY <1>2, <3>1 DEF Settle, Owning
    <2>2. pslot' = pslot
      BY <1>2 DEF Settle
    <2>3. QED
      BY <1>1, <2>1, <2>2 DEF Exclusive
  <1>3. CASE \/ \E m \in Modes : Acquire(m)
             \/ \E retired \in BOOLEAN : ScanSlot(retired)
             \/ ScanEnd \/ Unpark \/ Fence \/ PublishSeq \/ PublishLatest \/ PublishCount
             \/ AbandonSeq \/ AcquireThrows
    <2>1. producer' \notin Owning
      BY <1>3 DEF Acquire, ScanSlot, ScanEnd, Unpark, Fence, PublishSeq, PublishLatest,
                  PublishCount, AbandonSeq, AcquireThrows, Claim, Owning
    <2>2. QED
      BY <2>1 DEF Exclusive
  <1>4. CASE Own \/ PublishStamp \/ AbandonStamp
    BY <1>1, <1>4 DEF Own, PublishStamp, AbandonStamp, Exclusive, Owning
  <1>5. QED
    BY <1>2, <1>3, <1>4 DEF ProducerStep, HostStep

(* What a consumer goes by is sound when it reads it. *)
LEMMA ConsumerSound ==
  ASSUME HostInv, SeqsSound, NEW c \in Consumers, ConsumerStep(c)
  PROVE  SeqsSound'
  <1> USE DEF HostInv, TypeOK
  <1> DEFINE Sound(d) ==
        /\ cpc[d] \in {"hold", "check"} =>
             /\ ~Odd(cseq[d]) /\ cseq[d] <= seq[cslot[d]]
             /\ (cquery[d] # Latest /\ cseq[d] = seq[cslot[d]]) => Matches(d, cslot[d])
        /\ cpc[d] = "stamp" => ~Odd(cview[d].seq) /\ cview[d].seq <= seq[cview[d].i]
        /\ cpc[d] \notin {"scan", "stamp"} => cview[d].best = NoSlot
        /\ (cpc[d] \in {"scan", "stamp"} /\ cview[d].best # NoSlot) =>
             /\ ~Odd(cview[d].bestSeq) /\ cview[d].bestSeq <= seq[cview[d].best]
             /\ cview[d].bestSeq = seq[cview[d].best] => Matches(d, cview[d].best)
  <1>1. \A d \in Consumers : Sound(d)
    BY DEF SeqsSound
  <1>2. seq' = seq /\ timestamp' = timestamp
    BY ConsumerWrites
  <1>3. ASSUME NEW d \in Consumers, d # c
        PROVE  Sound(d)'
    BY <1>1, <1>2, <1>3, ConsumerAlone DEF Matches
  <1>4. ASSUME NEW q \in Requests \cup {Latest}, Lease(c, q)
        PROVE  Sound(c)'
    <2>1. cpc'[c] \in {"latest", "scan"} /\ cview' = cview /\ cpc[c] = "idle"
      BY <1>4, StartLabels DEF Lease, Goto, ConsumerTypes
    <2>2. QED
      BY <1>1, <2>1
  <1>5. ASSUME LoadLatest(c)
        PROVE  Sound(c)'
    BY <1>1, <1>5 DEF LoadLatest, Goto, ConsumerTypes
  <1>6. ASSUME LoadSeq(c)
        PROVE  Sound(c)'
    <2>1. cview' = cview /\ cpc[c] = "seq" /\ cquery[c] = Latest /\ cquery' = cquery
      BY <1>6 DEF LoadSeq, SlotsChosen
    <2>2. CASE Retry(c)
      <3>1. cpc'[c] \in {"idle", "latest", "scan"}
        BY <2>2, RetryTypes, StartLabels
      <3>2. QED
        BY <1>1, <2>1, <3>1
    <2>3. CASE ~Odd(seq[cslot[c]]) /\ cseq' = [cseq EXCEPT ![c] = seq[cslot[c]]] /\ Goto(c, "hold")
      <3>1. cslot[c] \in Slots /\ cslot' = cslot
        BY <1>6 DEF LoadSeq, SlotsChosen
      <3>2. cseq'[c] = seq[cslot[c]] /\ cpc'[c] = "hold" /\ seq[cslot[c]] \in Nat
        BY <2>3, <3>1 DEF Goto, ConsumerTypes, SlotTypes
      <3>3. QED
        BY <1>1, <1>2, <2>1, <2>3, <3>1, <3>2
    <2>4. QED
      BY <1>6, <2>2, <2>3 DEF LoadSeq
  <1>7. ASSUME ViewSeq(c)
        PROVE  Sound(c)'
    <2>1. cview[c] \in ViewType /\ cview[c].i \in Slots /\ cpc[c] = "scan"
      BY <1>7, SlotCountAssumption DEF ViewSeq, ConsumerTypes, ViewType, Slots
    <2>2. cquery' = cquery
      BY <1>7 DEF ViewSeq
    <2>3. CASE cview' = [cview EXCEPT ![c].i = @ + 1] /\ UNCHANGED cpc
      <3>1. cview'[c].best = cview[c].best /\ cview'[c].bestSeq = cview[c].bestSeq
        BY <2>1, <2>3 DEF ConsumerTypes, ViewType
      <3>2. QED
        BY <1>1, <1>2, <2>1, <2>2, <2>3, <3>1 DEF Matches
    <2>4. CASE /\ ~Odd(seq[cview[c].i]) /\ cview' = [cview EXCEPT ![c].seq = seq[cview[c].i]]
               /\ Goto(c, "stamp")
      <3>1. /\ cview'[c].best = cview[c].best /\ cview'[c].bestSeq = cview[c].bestSeq
            /\ cview'[c].seq = seq[cview[c].i] /\ cview'[c].i = cview[c].i
        BY <2>1, <2>4 DEF ConsumerTypes, ViewType
      <3>2. cpc'[c] = "stamp" /\ seq[cview[c].i] \in Nat
        BY <2>1, <2>4 DEF Goto, ConsumerTypes, SlotTypes
      <3>3. QED
        BY <1>1, <1>2, <2>1, <2>2, <2>4, <3>1, <3>2 DEF Matches
    <2>5. QED
      BY <1>7, <2>3, <2>4 DEF ViewSeq
  <1>8. ASSUME ViewStamp(c)
        PROVE  Sound(c)'
    <2> DEFINE v == cview[c]
               diff == Distance(cquery[c].at, timestamp[v.i])
               skip == timestamp[v.i] = NoTimestamp \/ diff > cquery[c].tol
               better == v.best = NoSlot \/ diff < v.bestDiff
    <2>1. /\ v \in ViewType /\ v.i \in Slots /\ cpc[c] = "stamp" /\ cquery' = cquery
          /\ cquery[c].tol \in Nat /\ cquery[c].at \in Nat
      BY <1>8, RequestsAssumption DEF ViewStamp, SlotsChosen, ConsumerTypes
    <2>2. cpc'[c] = "scan"
      BY <1>8 DEF ViewStamp, Goto, ConsumerTypes
    <2>3. /\ cview'[c].best = IF ~skip /\ better THEN v.i ELSE v.best
          /\ cview'[c].bestSeq = IF ~skip /\ better THEN v.seq ELSE v.bestSeq
      BY <1>8 DEF ViewStamp, ConsumerTypes
    <2>4. ~skip => Matches(c, v.i)
      <3>1. timestamp[v.i] \in Nat \cup {NoTimestamp}
        BY <2>1 DEF SlotTypes
      <3>2. timestamp[v.i] # NoTimestamp => diff \in Nat
        BY <2>1, <3>1, DistanceNat
      <3>3. QED
        BY <2>1, <3>2 DEF Matches
    <2>5. ~Odd(v.seq) /\ v.seq <= seq[v.i]
      BY <1>1, <2>1
    <2> HIDE DEF v, skip, better
    <2>6. \A s : Matches(c, s)' <=> Matches(c, s)
      BY <1>2, <2>1 DEF Matches
    <2>7. CASE ~skip /\ better
      BY <1>2, <2>2, <2>3, <2>4, <2>5, <2>6, <2>7
    <2>8. CASE ~(~skip /\ better)
      <3>1. cview'[c].best = cview[c].best /\ cview'[c].bestSeq = cview[c].bestSeq
        BY <2>3, <2>8 DEF v
      <3>2. QED
        BY <1>1, <1>2, <2>1, <2>2, <2>6, <3>1
    <2>9. QED
      BY <2>7, <2>8
  <1>9. ASSUME ViewEnd(c)
        PROVE  Sound(c)'
    <2>1. /\ cquery' = cquery /\ cpc[c] = "scan"
          /\ cslot'[c] = cview[c].best /\ cseq'[c] = cview[c].bestSeq /\ cview'[c] = NoView
          /\ cpc'[c] = IF cview[c].best = NoSlot THEN "idle" ELSE "hold"
      BY <1>9 DEF ViewEnd, Goto, ConsumerTypes
    <2>2. QED
      BY <1>1, <1>2, <2>1 DEF Matches, NoView
  <1>10. ASSUME Hold(c) \/ Check(c) \/ Drop(c)
         PROVE  Sound(c)'
    <2>1. /\ cquery' = cquery /\ cslot' = cslot /\ cseq' = cseq /\ cview' = cview
          /\ \/ cpc[c] = "hold" /\ cpc'[c] = "check"
             \/ cpc[c] = "check" /\ cpc'[c] \in {"held", "undo"}
             \/ cpc[c] = "held" /\ cpc'[c] = "idle"
      BY <1>10 DEF Hold, Check, Drop, Goto, ConsumerTypes
    <2>2. QED
      BY <1>1, <1>2, <2>1 DEF Matches
  <1>11. ASSUME Undo(c)
         PROVE  Sound(c)'
    <2>1. cview' = cview /\ cpc[c] = "undo" /\ cpc'[c] \in {"idle", "latest", "scan"}
      BY <1>11, RetryTypes, StartLabels DEF Undo
    <2>2. QED
      BY <1>1, <2>1
  <1>12. Sound(c)'
    BY <1>4, <1>5, <1>6, <1>7, <1>8, <1>9, <1>10, <1>11 DEF ConsumerStep, LeaseStep
  <1>13. \A d \in Consumers : Sound(d)'
    BY <1>3, <1>12
  <1> HIDE DEF Sound
  <1>14. QED
    BY <1>13 DEF SeqsSound, Sound

(* The second look at seq_ lets a consumer have only what the producer does not. *)
LEMMA ConsumerExcludes ==
  ASSUME HostInv, SafeInv, NEW c \in Consumers, ConsumerStep(c)
  PROVE  Exclusive' /\ Honoured'
  <1> USE DEF HostInv, TypeOK
  <1>1. producer' = producer /\ pslot' = pslot
    BY ConsumerWrites DEF producerVars
  <1>2. \A d \in Consumers \ {c} :
          /\ cpc'[d] = cpc[d] /\ cslot'[d] = cslot[d] /\ cstamp'[d] = cstamp[d]
          /\ cquery'[d] = cquery[d]
    BY ConsumerAlone
  <1>3. CASE Check(c) /\ seq[cslot[c]] = cseq[c]
    <2>1. /\ cpc[c] = "check" /\ cslot' = cslot /\ cquery' = cquery
          /\ cstamp'[c] = timestamp[cslot[c]] /\ cslot[c] \in Slots
      BY <1>3 DEF Check, ConsumerTypes, SlotsChosen, Counted
    <2>2. ~Odd(seq[cslot[c]])
      BY <1>3, <2>1 DEF SafeInv, SeqsSound
    <2>3. ~(producer \in Owning /\ cslot[c] = pslot)
      BY <2>1, <2>2 DEF SafeInv, OddIsFenced, Fenced, Owning
    <2>4. cquery[c] # Latest => Matches(c, cslot[c])
      BY <1>3, <2>1 DEF SafeInv, SeqsSound
    <2>5. Exclusive'
      BY <1>1, <1>2, <2>1, <2>3 DEF SafeInv, Exclusive
    <2>6. Honoured'
      BY <1>2, <2>1, <2>4 DEF SafeInv, Honoured, Matches
    <2>7. QED
      BY <2>5, <2>6
  <1>4. ASSUME cpc'[c] # "held"
        PROVE  Exclusive' /\ Honoured'
    BY <1>1, <1>2, <1>4 DEF SafeInv, Exclusive, Honoured
  <1>5. CASE Check(c) /\ seq[cslot[c]] # cseq[c]
    <2>1. cpc'[c] = "undo"
      BY <1>5 DEF Check, Goto, ConsumerTypes
    <2>2. QED
      BY <1>4, <2>1
  <1>6. CASE LoadLatest(c) \/ LoadSeq(c) \/ \E q \in Requests \cup {Latest} : Lease(c, q)
    <2>1. cpc'[c] # "held"
      BY <1>6 DEF LoadLatest, LoadSeq, Lease, Retry, Goto, Start, ConsumerTypes
    <2>2. QED
      BY <1>4, <2>1
  <1>7. CASE ViewSeq(c) \/ ViewStamp(c) \/ ViewEnd(c) \/ Hold(c) \/ Drop(c)
    <2>1. cpc'[c] # "held"
      BY <1>7 DEF ViewSeq, ViewStamp, ViewEnd, Hold, Drop, Goto, ConsumerTypes
    <2>2. QED
      BY <1>4, <2>1
  <1>8. CASE Undo(c)
    <2>1. cpc'[c] # "held"
      BY <1>8, RetryTypes, StartLabels DEF Undo
    <2>2. QED
      BY <1>4, <2>1
  <1>9. QED
    BY <1>3, <1>5, <1>6, <1>7, <1>8 DEF ConsumerStep, LeaseStep

(* Every step but the one that throws preserves exclusion and what it rests on. *)
LEMMA SafeInvStep == HostInv /\ SafeInv /\ [Next]_vars /\ ~AcquireThrows => SafeInv'
  <1> SUFFICES ASSUME HostInv, SafeInv, [Next]_vars, ~AcquireThrows PROVE SafeInv'
    OBVIOUS
  <1>1. CASE ProducerStep
    <2>1. Honoured'
      BY <1>1, ProducerAlone DEF SafeInv, Honoured, consumerVars
    <2>2. QED
      BY <1>1, <2>1, ProducerParity, ProducerSound, ProducerExcludes DEF SafeInv
  <1>2. ASSUME NEW c \in Consumers, ConsumerStep(c)
        PROVE  SafeInv'
    <2>1. OddIsFenced'
      BY <1>2, ConsumerWrites DEF SafeInv, OddIsFenced, producerVars
    <2>2. QED
      BY <1>2, <2>1, ConsumerSound, ConsumerExcludes DEF SafeInv
  <1>3. CASE UNCHANGED vars
    BY <1>3 DEF vars, slotVars, producerVars, consumerVars, SafeInv, OddIsFenced, SeqsSound,
                Exclusive, Honoured, Matches
  <1>4. QED
    BY <1>1, <1>2, <1>3 DEF Next

(* No step takes back that an acquire has thrown. *)
LEMMA ThrewStays == [Next]_vars /\ ~threw' => ~threw /\ ~AcquireThrows
  <1> SUFFICES ASSUME [Next]_vars, ~threw' PROVE ~threw /\ ~AcquireThrows
    OBVIOUS
  <1>1. CASE HostStep
    BY <1>1 DEF HostStep, Acquire, ScanEnd, Unpark, Fence, Settle, AcquireThrows, PublishSeq,
                PublishLatest, PublishCount, AbandonSeq
  <1>2. CASE \/ Own \/ PublishStamp \/ AbandonStamp
             \/ \E retired \in BOOLEAN : ScanSlot(retired)
    BY <1>2 DEF Own, PublishStamp, AbandonStamp, ScanSlot, AcquireThrows
  <1>3. ASSUME NEW c \in Consumers, ConsumerStep(c)
        PROVE  ~threw /\ ~AcquireThrows
    BY <1>3, ConsumerWrites DEF producerVars, AcquireThrows
  <1>4. CASE UNCHANGED vars
    BY <1>4 DEF vars, producerVars, AcquireThrows
  <1>5. QED
    BY <1>1, <1>2, <1>3, <1>4 DEF Next, ProducerStep

\* Safe until an acquire throws.
Guarded == ~threw => SafeInv

LEMMA GuardedInit == Init => Guarded
  BY SafeInvInit DEF Guarded

LEMMA GuardedKept == HostInv /\ Guarded /\ [Next]_vars => Guarded'
  BY SafeInvStep, ThrewStays DEF Guarded

(* As long as no CUDA call has thrown inside acquire_write, a valid read lease and a *)
(* producer in possession never meet on a slot, for every depth, both policies,       *)
(* both kinds of acquire and any number of consumers.                                 *)
THEOREM LeaseExcluded == Spec => []LeaseExclusion
  <1>1. HostInv /\ Guarded => LeaseExclusion
    BY DEF Guarded, SafeInv, LeaseExclusion
  <1>2. QED
    BY <1>1, HostInvInit, HostInvKept, GuardedInit, GuardedKept, PTL DEF Spec

(* Until then seq_ is odd exactly while the producer has the slot. *)
THEOREM ParityKept == Spec => [](~threw => OddIsFenced)
  <1>1. HostInv /\ Guarded => (~threw => OddIsFenced)
    BY DEF Guarded, SafeInv
  <1>2. QED
    BY <1>1, HostInvInit, HostInvKept, GuardedInit, GuardedKept, PTL DEF Spec

(* And a lease by timestamp is of a frame inside the tolerance it was asked for. *)
THEOREM RequestsHonoured == Spec => []RequestHonoured
  <1>1. HostInv /\ Guarded => RequestHonoured
    BY DEF Guarded, SafeInv, RequestHonoured
  <1>2. QED
    BY <1>1, HostInvInit, HostInvKept, GuardedInit, GuardedKept, PTL DEF Spec

(* All of the above at once, which is what the run checks of every state: the parts *)
(* hold together.                                                                   *)
THEOREM RingInvariantHolds == Spec => []IInv
  <1>1. HostInv /\ Guarded => IInv
    BY DEF HostInv, Guarded, SafeInv, IInv
  <1>2. QED
    BY <1>1, HostInvInit, HostInvKept, GuardedInit, GuardedKept, PTL DEF Spec
-----------------------------------------------------------------------------
(* Freshness.  Stamps are given in order, and latest_ is moved before the frame is *)
(* announced; a slot that is written again holds a newer frame, or, abandoned, none. *)

\* One more than what is announced, while the producer has a frame under way.
UnderWay == IF producer = "idle" THEN 0 ELSE 1

\* The frame latest_ names was announced last, or is about to be.
Announcing == IF producer = "announce" THEN 1 ELSE 0

\* A stamp is that of a frame no older than n, or that of an abandoned slot.
NotOlder(stamp, n) == stamp = NoTimestamp \/ stamp >= n

StampsInOrder ==
  /\ \A s \in Slots : timestamp[s] = NoTimestamp \/ timestamp[s] <= acquires
  /\ published + UnderWay <= acquires
  /\ producer \in {"stamped", "even"} => timestamp[pslot] = acquires
  /\ latest = NoSlot => published = 0 /\ producer # "announce"
  /\ latest # NoSlot => NotOlder(timestamp[latest], published + Announcing)

\* What a consumer that asked for the newest frame is after is no older than its call.
CallsFresh ==
  \A c \in Consumers :
    /\ cpc[c] # "idle" => cfloor[c] <= published
    /\ cquery[c] = Latest /\ cpc[c] \in {"seq", "hold", "check"} =>
         NotOlder(timestamp[cslot[c]], cfloor[c])
    /\ cquery[c] = Latest /\ cpc[c] = "held" => NotOlder(cstamp[c], cfloor[c])

LEMMA FreshInit == Init => StampsInOrder /\ CallsFresh
  BY DEF Init, StampsInOrder, CallsFresh, UnderWay, Announcing, NotOlder

LEMMA ProducerStampsInOrder ==
  ASSUME HostInv, StampsInOrder, ProducerStep
  PROVE  /\ StampsInOrder' /\ published' >= published
         /\ \A s \in Slots : timestamp'[s] = timestamp[s] \/ NotOlder(timestamp'[s], published)
  <1> USE DEF HostInv, TypeOK, SlotTypes, ProducerTypes
  <1>1. CASE \/ \E m \in Modes : Acquire(m)
             \/ \E retired \in BOOLEAN : ScanSlot(retired)
             \/ ScanEnd \/ Unpark \/ Fence \/ Settle \/ Own \/ AcquireThrows
    <2>1. /\ timestamp' = timestamp /\ published' = published /\ latest' = latest
          /\ acquires' \in Nat /\ acquires' >= acquires /\ producer # "announce"
          /\ producer' \notin {"stamped", "even", "announce", "abandon"}
          /\ producer = "idle" /\ producer' # "idle" => acquires' = acquires + 1
      BY <1>1 DEF Acquire, ScanSlot, ScanEnd, Unpark, Fence, Settle, Own, AcquireThrows, Claim,
                  slotVars
    <2>2. QED
      BY <2>1 DEF StampsInOrder, UnderWay, Announcing
  <1>2. CASE PublishStamp
    <2>1. pslot \in Slots
      BY <1>2 DEF PublishStamp, SlotsChosen, Fenced
    <2>2. QED
      BY <1>2, <2>1 DEF PublishStamp, StampsInOrder, UnderWay, Announcing, NotOlder
  <1>3. CASE PublishSeq
    BY <1>3 DEF PublishSeq, StampsInOrder, UnderWay, Announcing
  <1>4. CASE PublishLatest
    <2>1. pslot \in Slots /\ pslot # NoSlot
      BY <1>4 DEF PublishLatest, SlotsChosen, NoSlot, Slots
    <2>2. QED
      BY <1>4, <2>1 DEF PublishLatest, StampsInOrder, UnderWay, Announcing, slotVars, NotOlder
  <1>5. CASE PublishCount
    BY <1>5 DEF PublishCount, StampsInOrder, UnderWay, Announcing, slotVars, NotOlder
  <1>6. CASE AbandonStamp
    <2>1. pslot \in Slots
      BY <1>6 DEF AbandonStamp, SlotsChosen, Fenced
    <2>2. QED
      BY <1>6, <2>1 DEF AbandonStamp, StampsInOrder, UnderWay, Announcing, NotOlder
  <1>7. CASE AbandonSeq
    BY <1>7 DEF AbandonSeq, StampsInOrder, UnderWay, Announcing
  <1>8. QED
    BY <1>1, <1>2, <1>3, <1>4, <1>5, <1>6, <1>7 DEF ProducerStep, HostStep

LEMMA ConsumerFresh ==
  ASSUME HostInv, StampsInOrder, CallsFresh, NEW c \in Consumers, ConsumerStep(c)
  PROVE  CallsFresh'
  <1> USE DEF HostInv, TypeOK
  <1> DEFINE Fresh(d) ==
        /\ cpc[d] # "idle" => cfloor[d] <= published
        /\ cquery[d] = Latest /\ cpc[d] \in {"seq", "hold", "check"} =>
             NotOlder(timestamp[cslot[d]], cfloor[d])
        /\ cquery[d] = Latest /\ cpc[d] = "held" => NotOlder(cstamp[d], cfloor[d])
  <1>1. \A d \in Consumers : Fresh(d)
    BY DEF CallsFresh
  <1>2. timestamp' = timestamp /\ published' = published
    BY ConsumerWrites
  <1>3. ASSUME NEW d \in Consumers, d # c
        PROVE  Fresh(d)'
    <2>1. cfloor'[d] = cfloor[d]
      BY <1>3 DEF ConsumerStep, LeaseStep, Lease, LoadLatest, LoadSeq, ViewSeq, ViewStamp, ViewEnd,
                  Hold, Check, Undo, Drop, ConsumerTypes
    <2>2. QED
      BY <1>1, <1>2, <1>3, <2>1, ConsumerAlone
  <1>4. ASSUME NEW q \in Requests \cup {Latest}, Lease(c, q)
        PROVE  Fresh(c)'
    <2>1. cpc'[c] \in {"latest", "scan"} /\ cfloor'[c] = published /\ published \in Nat
      BY <1>4, StartLabels DEF Lease, Goto, ConsumerTypes, ProducerTypes
    <2>2. QED
      BY <1>2, <2>1
  <1>5. ASSUME LoadLatest(c)
        PROVE  Fresh(c)'
    <2>1. /\ cpc[c] = "latest" /\ cfloor' = cfloor /\ cquery' = cquery
          /\ cslot'[c] = latest /\ cpc'[c] = IF latest = NoSlot THEN "idle" ELSE "seq"
      BY <1>5 DEF LoadLatest, Goto, ConsumerTypes
    <2>2. latest # NoSlot => /\ NotOlder(timestamp[latest], published)
                             /\ timestamp[latest] \in Nat \cup {NoTimestamp}
      BY DEF StampsInOrder, Announcing, ProducerTypes, SlotTypes, NotOlder
    <2>3. published \in Nat /\ cfloor[c] \in Nat /\ cfloor[c] <= published
      BY <1>1, <2>1 DEF ProducerTypes, ConsumerTypes
    <2>4. QED
      BY <1>1, <1>2, <2>1, <2>2, <2>3 DEF NotOlder
  <1>6. ASSUME Retry(c), cfloor' = cfloor, cpc[c] # "idle"
        PROVE  Fresh(c)'
    <2>1. cpc'[c] \in {"idle", "latest", "scan"}
      BY <1>6, RetryTypes, StartLabels
    <2>2. QED
      BY <1>1, <1>2, <1>6, <2>1
  <1>7. ASSUME LoadSeq(c)
        PROVE  Fresh(c)'
    <2>1. CASE Goto(c, "hold")
      BY <1>1, <1>2, <1>7, <2>1 DEF LoadSeq, Goto, ConsumerTypes
    <2>2. QED
      BY <1>6, <1>7, <2>1 DEF LoadSeq
  <1>8. ASSUME ViewSeq(c) \/ ViewStamp(c) \/ ViewEnd(c)
        PROVE  Fresh(c)'
    <2>1. /\ cquery[c] # Latest /\ cquery' = cquery /\ cfloor' = cfloor /\ cpc[c] # "idle"
      BY <1>8 DEF ViewSeq, ViewStamp, ViewEnd, SlotsChosen
    <2>2. QED
      BY <1>1, <1>2, <2>1
  <1>9. ASSUME Hold(c) \/ Check(c) \/ Drop(c)
        PROVE  Fresh(c)'
    <2>1. /\ cquery' = cquery /\ cslot' = cslot /\ cfloor' = cfloor
          /\ \/ cpc[c] = "hold" /\ cpc'[c] = "check"
             \/ cpc[c] = "check" /\ cpc'[c] = "undo"
             \/ cpc[c] = "check" /\ cpc'[c] = "held" /\ cstamp'[c] = timestamp[cslot[c]]
             \/ cpc[c] = "held" /\ cpc'[c] = "idle"
      BY <1>9 DEF Hold, Check, Drop, Goto, ConsumerTypes
    <2>2. QED
      BY <1>1, <1>2, <2>1
  <1>10. ASSUME Undo(c)
         PROVE  Fresh(c)'
    BY <1>6, <1>10 DEF Undo
  <1>11. Fresh(c)'
    BY <1>4, <1>5, <1>7, <1>8, <1>9, <1>10 DEF ConsumerStep, LeaseStep
  <1>12. \A d \in Consumers : Fresh(d)'
    BY <1>3, <1>11
  <1> HIDE DEF Fresh
  <1>13. QED
    BY <1>12 DEF CallsFresh, Fresh

LEMMA FreshKept ==
  HostInv /\ StampsInOrder /\ CallsFresh /\ [Next]_vars => (StampsInOrder /\ CallsFresh)'
  <1> SUFFICES ASSUME HostInv, StampsInOrder, CallsFresh, [Next]_vars
               PROVE  (StampsInOrder /\ CallsFresh)'
    OBVIOUS
  <1>1. CASE ProducerStep
    <2>1. StampsInOrder' /\ published' >= published /\ consumerVars' = consumerVars
      BY <1>1, ProducerStampsInOrder, ProducerAlone
    <2>2. \A s \in Slots : timestamp'[s] = timestamp[s] \/ NotOlder(timestamp'[s], published)
      BY <1>1, ProducerStampsInOrder
    <2>3. /\ published \in Nat /\ published' \in Nat
          /\ \A s \in Slots : timestamp'[s] \in Nat \cup {NoTimestamp}
          /\ \A c \in Consumers : cfloor[c] \in Nat
          /\ \A c \in Consumers : cpc[c] \in {"seq", "hold", "check"} =>
               cslot[c] \in Slots /\ cfloor[c] <= published
      BY <1>1, ProducerTypesKept DEF HostInv, TypeOK, SlotTypes, ProducerTypes, ConsumerTypes,
                                      SlotsChosen, CallsFresh, Counted
    <2>4. CallsFresh'
      BY <2>1, <2>2, <2>3 DEF CallsFresh, consumerVars, NotOlder
    <2>5. QED
      BY <2>1, <2>4
  <1>2. ASSUME NEW c \in Consumers, ConsumerStep(c)
        PROVE  (StampsInOrder /\ CallsFresh)'
    <2>1. StampsInOrder'
      BY <1>2, ConsumerWrites DEF StampsInOrder, UnderWay, Announcing, producerVars
    <2>2. QED
      BY <1>2, <2>1, ConsumerFresh
  <1>3. CASE UNCHANGED vars
    BY <1>3 DEF vars, slotVars, producerVars, consumerVars, StampsInOrder, CallsFresh, UnderWay,
                Announcing
  <1>4. QED
    BY <1>1, <1>2, <1>3 DEF Next

(* Nobody who waits for a publish is handed an older frame than the one that woke him, *)
(* whatever throws and whatever is abandoned in between.                               *)
THEOREM LatestIsFresh == Spec => []NeverStale
  <1>1. CallsFresh => NeverStale
    BY DEF CallsFresh, NeverStale, NotOlder
  <1>2. QED
    BY <1>1, FreshInit, FreshKept, HostInvInit, HostInvKept, PTL DEF Spec

-----------------------------------------------------------------------------
(* The streams: the ring's steps first. *)

(* A step of the producer's thread is one of the ring's producer. *)
LEMMA ProducerStepMaps == StreamsProducerStep => ProducerStep
  <1>1. QuietProducerStep => HostStep
    BY DEF QuietProducerStep
  <1>2. ScanFree => \E retired \in BOOLEAN : ScanSlot(retired)
    <2>1. ReadsRetired(Wrap(nextWrite + scan.i)) \in BOOLEAN
      BY DEF ReadsRetired
    <2>2. QED
      BY <2>1 DEF ScanFree
  <1>3. Take => Own
    BY DEF Take
  <1>4. (Publish => PublishStamp) /\ (Abandon => AbandonStamp)
    BY DEF Publish, Abandon
  <1>5. QED
    BY <1>1, <1>2, <1>3, <1>4 DEF StreamsProducerStep, ProducerStep

(* A step of a consumer's thread is one of the ring's consumers, or touches only *)
(* what the device sees. *)
LEMMA ConsumerStepMaps ==
  ASSUME NEW c \in Consumers, StreamsConsumerStep(c)
  PROVE  ConsumerStep(c) \/ UNCHANGED vars
  <1>1. CASE \E query \in Requests \cup {Latest} : Lease(c, query) /\ UNCHANGED gpuVars
    BY <1>1 DEF ConsumerStep
  <1>2. CASE QuietLeaseStep(c)
    BY <1>2 DEF QuietLeaseStep, ConsumerStep
  <1>3. CASE EnqueueRead(c) \/ RecordReadDone(c)
    BY <1>3 DEF EnqueueRead, RecordReadDone
  <1>4. CASE LetGo(c)
    BY <1>4 DEF LetGo, ConsumerStep
  <1>5. QED
    BY <1>1, <1>2, <1>3, <1>4 DEF StreamsConsumerStep

(* A step of the ring with its streams is a step of the ring, or leaves it alone. *)
LEMMA StreamsStepMaps == [StreamsNext]_streamsVars => [Next]_vars
  <1> SUFFICES ASSUME [StreamsNext]_streamsVars
               PROVE  [Next]_vars
    OBVIOUS
  <1>1. CASE StreamsProducerStep
    BY <1>1, ProducerStepMaps DEF Next
  <1>2. CASE \E c \in Consumers : StreamsConsumerStep(c)
    BY <1>2, ConsumerStepMaps DEF Next
  <1>3. CASE GpuStep
    BY <1>3 DEF GpuStep, WriteStarts, WriteEnds, ReadEnds
  <1>4. CASE UNCHANGED streamsVars
    BY <1>4 DEF streamsVars
  <1>5. QED
    BY <1>1, <1>2, <1>3, <1>4 DEF StreamsNext

(* The ring on a device implements the ring: every behaviour of the one, with the *)
(* streams left out, is a behaviour of the other. *)
THEOREM StreamsImplementRing == StreamsSpec => Spec
  <1>1. StreamsInit => Init
    BY DEF StreamsInit
  <1>2. QED
    BY <1>1, StreamsStepMaps, PTL DEF StreamsSpec, Spec
-----------------------------------------------------------------------------
(* What the device does.  Nobody waits for it, so what keeps a read from finding *)
(* anything but the frame of its lease are the numbers the events stand for.     *)

WriteType == [slot : Slots, frame : Nat, behind : [Consumers -> Nat], left : BOOLEAN]
ReadType == [slot : Slots, frame : Nat \cup {NoTimestamp}, behind : Nat]

StreamsTypes ==
  /\ writes \in Seq(WriteType)
  /\ reads \in [Consumers -> Seq(ReadType)]
  /\ dataReady \in [Slots -> Nat]
  /\ readDone \in [Slots -> [Consumers -> Nat]]
  /\ memory \in [Slots -> Nat \cup {Torn}]
  /\ recorded \in [Consumers -> BOOLEAN]

\* No event waits for more than its stream has.
EventsInQueues ==
  /\ \A s \in Slots : dataReady[s] <= Len(writes)
  /\ \A s \in Slots, c \in Consumers : readDone[s][c] <= Len(reads[c])
  /\ \A j \in 1 .. Len(writes), c \in Consumers : writes[j].behind[c] <= Len(reads[c])
  /\ \A c \in Consumers : \A i \in 1 .. Len(reads[c]) : reads[c][i].behind <= Len(writes)

\* Once k more writes have completed slot s has frame f.
Lands(s, k, f) == IF k = 0 THEN memory[s] = f ELSE writes[k].slot = s /\ writes[k].frame = f

\* data_ready of a slot fires on the frame its stamp is of, and nothing is to be
\* written there after that, unless a write has been enqueued and not been published,
\* or never will be: an abandoned slot has no stamp.
SlotsSettle ==
  /\ \A s \in Slots : (timestamp[s] # NoTimestamp /\ ~(producer = "own" /\ pslot = s)) =>
       /\ Lands(s, dataReady[s], timestamp[s])
       /\ \A j \in 1 .. Len(writes) : writes[j].slot = s => j <= dataReady[s]
  /\ producer = "own" => Lands(pslot, Len(writes), acquires)

\* The write of the lease the producer has in its hands.
InHand(j) ==
  /\ producer = "own" /\ j = Len(writes)
  /\ writes[j].slot = pslot /\ writes[j].frame = acquires

\* A write no event tells of is the one in hand, or an abandoned one.
WritesTold ==
  \A j \in 1 .. Len(writes) :
    j <= dataReady[writes[j].slot] \/ writes[j].left \/ InHand(j)

\* A consumer that may yet read what it leased, and whose read_done is not recorded.
Reading(c, s) == cpc[c] = "held" /\ ~recorded[c] /\ cslot[c] = s

\* read_done of a slot waits for every read of it, but for those of a lease that lives.
ReadsCovered ==
  \A c \in Consumers : \A i \in 1 .. Len(reads[c]) :
    i <= readDone[reads[c][i].slot][c] \/ Reading(c, reads[c][i].slot)

\* A read comes behind the write of its frame, and every later write to its slot
\* comes behind the read.  Of an abandoned slot there is no frame to read.
ReadsOrdered ==
  \A c \in Consumers : \A i \in 1 .. Len(reads[c]) :
    LET r == reads[c][i] IN
    r.frame # NoTimestamp =>
      /\ Lands(r.slot, r.behind, r.frame)
      /\ \A j \in 1 .. Len(writes) :
           writes[j].slot = r.slot /\ j > r.behind => i <= writes[j].behind[c]

\* A write that waits for a read was enqueued after the write that read waits for.
NoCycle ==
  \A c \in Consumers : \A j \in 1 .. Len(writes), i \in 1 .. Len(reads[c]) :
    i <= writes[j].behind[c] => reads[c][i].behind < j

GpuInv ==
  /\ StreamsTypes /\ EventsInQueues /\ SlotsSettle /\ WritesTold
  /\ ReadsCovered /\ ReadsOrdered /\ NoCycle /\ HostSyncBounds

\* What the host says of a lease: its stamp is the one in the slot, as long as it lives.
LeasesStamped ==
  /\ \A c \in Consumers : cpc[c] = "held" => cstamp[c] = timestamp[cslot[c]]
  /\ \A c \in Consumers : recorded[c] => cpc[c] = "held"

(* Appending to a stream and taking its head, element by element. *)
LEMMA Appended ==
  ASSUME NEW S, NEW q \in Seq(S), NEW x \in S, NEW t, t = Append(q, x)
  PROVE  /\ t \in Seq(S) /\ Len(t) = Len(q) + 1 /\ Len(q) \in Nat
         /\ \A i \in 1 .. Len(q) : t[i] = q[i]
         /\ t[Len(q) + 1] = x
  BY AppendProperties, LenProperties

LEMMA Shifted ==
  ASSUME NEW S, NEW q \in Seq(S), q # <<>>, NEW t, t = Tail(q)
  PROVE  /\ t \in Seq(S) /\ Len(t) = Len(q) - 1 /\ Len(q) \in Nat \ {0}
         /\ \A i \in 1 .. Len(t) : t[i] = q[i + 1]
         /\ Head(q) = q[1] /\ q[1] \in S
  BY HeadTailProperties, LenProperties, EmptySeq, ElementOfSeq

(* A sequence changed in each of its elements is one of the same length. *)
LEMMA Mapped ==
  ASSUME NEW S, NEW n \in Nat, NEW t, t \in [1 .. n -> S]
  PROVE  t \in Seq(S) /\ Len(t) = n
  <1>1. t \in Seq(S)
    BY SeqDef
  <1>2. QED
    BY <1>1, LenProperties

(* What is in the streams, element by element. *)
LEMMA Elements ==
  ASSUME StreamsTypes
  PROVE  /\ Len(writes) \in Nat
         /\ \A j \in 1 .. Len(writes) :
              /\ writes[j].slot \in Slots /\ writes[j].frame \in Nat
              /\ writes[j].left \in BOOLEAN
              /\ \A c \in Consumers : writes[j].behind[c] \in Nat
         /\ \A c \in Consumers :
              /\ reads[c] \in Seq(ReadType) /\ Len(reads[c]) \in Nat
              /\ \A i \in 1 .. Len(reads[c]) :
                   /\ reads[c][i].slot \in Slots
                   /\ reads[c][i].frame \in Nat \cup {NoTimestamp}
                   /\ reads[c][i].behind \in Nat
         /\ \A s \in Slots : dataReady[s] \in Nat /\ \A c \in Consumers : readDone[s][c] \in Nat
  <1>1. writes \in Seq(WriteType) /\ Len(writes) \in Nat
    BY LenProperties DEF StreamsTypes
  <1>2. \A j \in 1 .. Len(writes) : writes[j] \in WriteType
    BY <1>1, ElementOfSeq
  <1>3. ASSUME NEW c \in Consumers
        PROVE  /\ reads[c] \in Seq(ReadType) /\ Len(reads[c]) \in Nat
               /\ \A i \in 1 .. Len(reads[c]) : reads[c][i] \in ReadType
    <2>1. reads[c] \in Seq(ReadType)
      BY DEF StreamsTypes
    <2>2. QED
      BY <2>1, LenProperties, ElementOfSeq
  <1>4. \A s \in Slots : dataReady[s] \in Nat /\ \A c \in Consumers : readDone[s][c] \in Nat
    BY DEF StreamsTypes
  <1>5. QED
    BY <1>1, <1>2, <1>3, <1>4 DEF WriteType, ReadType

LEMMA GpuInvInit == StreamsInit => GpuInv /\ LeasesStamped
  <1> SUFFICES ASSUME StreamsInit PROVE GpuInv /\ LeasesStamped
    OBVIOUS
  <1>1. StreamsTypes
    BY EmptySeq DEF StreamsInit, StreamsTypes
  <1>2. writes = <<>> /\ Len(writes) = 0 /\ \A c \in Consumers : Len(reads[c]) = 0
    BY EmptySeq DEF StreamsInit
  <1>3. EventsInQueues /\ SlotsSettle /\ WritesTold /\ ReadsCovered /\ ReadsOrdered /\ NoCycle
    BY <1>2 DEF StreamsInit, Init, EventsInQueues, SlotsSettle, WritesTold, ReadsCovered,
                ReadsOrdered, NoCycle, Lands
  <1>4. HostSyncBounds /\ LeasesStamped
    BY <1>2 DEF StreamsInit, Init, HostSyncBounds, LeasesStamped
  <1>5. QED
    BY <1>1, <1>3, <1>4 DEF GpuInv

(* The host's steps that touch neither streams nor events keep it all. *)
LEMMA QuietKept ==
  ASSUME GpuInv, UNCHANGED gpuVars, UNCHANGED timestamp,
         \/ producer # "own" /\ producer' # "own"
         \/ UNCHANGED <<producer, pslot, acquires>>,
         \A c \in Consumers : \A s \in Slots : Reading(c, s) => Reading(c, s)'
  PROVE  GpuInv'
  <1> USE DEF GpuInv, gpuVars
  <1>1. StreamsTypes' /\ EventsInQueues' /\ NoCycle' /\ HostSyncBounds'
    BY DEF StreamsTypes, EventsInQueues, NoCycle, HostSyncBounds
  <1>2. SlotsSettle' /\ ReadsOrdered' /\ WritesTold'
    BY DEF SlotsSettle, ReadsOrdered, Lands, WritesTold, InHand
  <1>3. ReadsCovered'
    <2>1. \A c \in Consumers : \A i \in 1 .. Len(reads[c]) : reads[c][i].slot \in Slots
      BY Elements
    <2>2. QED
      BY <2>1 DEF ReadsCovered
  <1>4. QED
    BY <1>1, <1>2, <1>3

(* The hand-out: the new write waits for every read of its slot. *)
LEMMA TakeKept ==
  ASSUME HostInv, SafeInv, GpuInv, Take
  PROVE  GpuInv'
  <1> USE DEF GpuInv
  <1> DEFINE w == [slot |-> pslot, frame |-> acquires, behind |-> readDone[pslot],
                    left |-> FALSE]
  <1>1. /\ producer = "order" /\ producer' = "own" /\ pslot \in Slots
        /\ UNCHANGED <<reads, dataReady, readDone, memory, recorded, pslot, acquires, timestamp,
                       cpc, cslot>>
    BY DEF Take, Own, HostInv, SlotsChosen, Fenced, slotVars, consumerVars
  <1>2. w \in WriteType /\ writes' = Append(writes, w)
    BY <1>1 DEF Take, OrderBehindReaders, WriteType, StreamsTypes, HostInv, TypeOK, ProducerTypes
  <1> HIDE DEF w
  <1>3. /\ writes \in Seq(WriteType) /\ writes' \in Seq(WriteType)
        /\ Len(writes') = Len(writes) + 1 /\ Len(writes) \in Nat
        /\ \A j \in 1 .. Len(writes) : writes'[j] = writes[j]
        /\ writes'[Len(writes) + 1] = w
    BY <1>2, Appended DEF StreamsTypes
  <1>4. w.slot = pslot /\ w.frame = acquires /\ w.behind = readDone[pslot]
    BY DEF w
  <1>6. StreamsTypes'
    BY <1>1, <1>3 DEF StreamsTypes
  <1>7. EventsInQueues'
    <2>1. \A s \in Slots : dataReady'[s] <= Len(writes')
      BY <1>1, <1>3, Elements DEF EventsInQueues
    <2>2. ASSUME NEW j \in 1 .. Len(writes'), NEW c \in Consumers
          PROVE  writes'[j].behind[c] <= Len(reads[c])
      BY <1>1, <1>3, <1>4 DEF EventsInQueues
    <2>3. \A c \in Consumers : \A i \in 1 .. Len(reads[c]) : reads[c][i].behind <= Len(writes')
      BY <1>3, Elements DEF EventsInQueues
    <2>4. QED
      BY <1>1, <2>1, <2>2, <2>3 DEF EventsInQueues
  <1>8. SlotsSettle'
    <2>1. Lands(pslot, Len(writes), acquires)'
      BY <1>1, <1>3, <1>4 DEF Lands
    <2>2. ASSUME NEW s \in Slots, s # pslot, timestamp[s] # NoTimestamp
          PROVE  /\ Lands(s, dataReady[s], timestamp[s])'
                 /\ \A j \in 1 .. Len(writes') : writes'[j].slot = s => j <= dataReady'[s]
      <3>1. dataReady[s] \in Nat /\ dataReady[s] <= Len(writes)
        BY Elements DEF EventsInQueues
      <3>2. QED
        BY <1>1, <1>3, <1>4, <2>2, <3>1 DEF SlotsSettle, Lands
    <2>3. QED
      BY <1>1, <2>1, <2>2 DEF SlotsSettle
  <1>9. ReadsCovered'
    BY <1>1 DEF ReadsCovered, Reading
  <1>10. \A c \in Consumers : \A i \in 1 .. Len(reads[c]) :
           reads[c][i].slot = pslot => i <= readDone[pslot][c]
    BY <1>1 DEF ReadsCovered, Reading, SafeInv, Exclusive, Owning
  <1>11. ReadsOrdered'
    <2>1. ASSUME NEW c \in Consumers, NEW i \in 1 .. Len(reads[c])
          PROVE  LET r == reads[c][i] IN
                 r.frame # NoTimestamp =>
                   /\ Lands(r.slot, r.behind, r.frame)'
                   /\ \A j \in 1 .. Len(writes') :
                        writes'[j].slot = r.slot /\ j > r.behind => i <= writes'[j].behind[c]
      <3>1. reads[c][i].behind \in Nat /\ reads[c][i].behind <= Len(writes)
        BY Elements DEF EventsInQueues
      <3>2. QED
        BY <1>1, <1>3, <1>4, <1>10, <3>1, SMTT(30) DEF ReadsOrdered, Lands
    <2>2. QED
      BY <1>1, <2>1 DEF ReadsOrdered, Lands
  <1>12. NoCycle'
    <2>1. ASSUME NEW c \in Consumers, NEW j \in 1 .. Len(writes'), NEW i \in 1 .. Len(reads[c]),
                 i <= writes'[j].behind[c]
          PROVE  reads[c][i].behind < j
      <3>1. reads[c][i].behind \in Nat /\ reads[c][i].behind <= Len(writes)
        BY Elements DEF EventsInQueues
      <3>2. QED
        BY <1>3, <2>1, <3>1 DEF NoCycle
    <2>2. QED
      BY <1>1, <2>1 DEF NoCycle
  <1>13. HostSyncBounds'
    <2>1. ASSUME ReuseWait = "HostSync", NEW j \in 1 .. Len(writes), writes[j].slot = pslot
          PROVE  writes[j].left
      <3>1. dataReady[pslot] = 0
        BY <2>1 DEF Take, Reusable
      <3>2. QED
        BY <1>1, <1>3, <2>1, <3>1 DEF WritesTold, InHand
    <2>2. DOMAIN writes = 1 .. Len(writes) /\ DOMAIN writes' = 1 .. Len(writes) + 1
      BY <1>3, LenProperties
    <2>3. QED
      BY <1>3, <1>4, <2>1, <2>2 DEF HostSyncBounds
  <1>14. WritesTold'
    <2>1. ASSUME NEW j \in 1 .. Len(writes)
          PROVE  j <= dataReady[writes[j].slot] \/ writes[j].left
      BY <1>1 DEF WritesTold, InHand
    <2>2. InHand(Len(writes))'
      BY <1>1, <1>3, <1>4 DEF InHand
    <2>3. ASSUME NEW j \in 1 .. Len(writes')
          PROVE  (j <= dataReady[writes[j].slot] \/ writes[j].left \/ InHand(j))'
      <3>1. CASE j = Len(writes')
        BY <2>2, <3>1
      <3>2. CASE j # Len(writes')
        <4>1. j \in 1 .. Len(writes) /\ writes'[j] = writes[j] /\ dataReady' = dataReady
          BY <1>1, <1>3, <3>2
        <4>2. QED
          BY <2>1, <4>1
      <3>3. QED
        BY <3>1, <3>2
    <2>4. QED
      BY <2>3 DEF WritesTold
  <1>15. QED
    BY <1>6, <1>7, <1>8, <1>9, <1>11, <1>12, <1>13, <1>14

(* The publish: data_ready of the slot fires on the write just enqueued. *)
LEMMA PublishKept ==
  ASSUME HostInv, SafeInv, GpuInv, Publish
  PROVE  GpuInv'
  <1> USE DEF HostInv, TypeOK, SlotTypes, ProducerTypes, GpuInv
  <1>1. /\ producer = "own" /\ producer' # "own" /\ pslot \in Slots
        /\ timestamp' = [timestamp EXCEPT ![pslot] = acquires]
        /\ dataReady' = [dataReady EXCEPT ![pslot] = Len(writes)]
        /\ UNCHANGED <<writes, reads, readDone, memory, recorded, cpc, cslot>>
    BY DEF Publish, PublishStamp, SlotsChosen, Fenced, consumerVars
  <1>2. Len(writes) \in Nat
    BY LenProperties DEF StreamsTypes
  <1>3. StreamsTypes' /\ EventsInQueues'
    <2>1. dataReady' \in [Slots -> Nat]
      BY <1>1, <1>2 DEF StreamsTypes
    <2>2. StreamsTypes'
      BY <1>1, <2>1 DEF StreamsTypes
    <2>3. \A s \in Slots : dataReady'[s] <= Len(writes)
      BY <1>1, <1>2 DEF StreamsTypes, EventsInQueues
    <2>4. EventsInQueues'
      BY <1>1, <2>3 DEF EventsInQueues
    <2>5. QED
      BY <2>2, <2>4
  <1>4. SlotsSettle'
    BY <1>1, <1>2 DEF SlotsSettle, Lands, StreamsTypes
  <1>5. ReadsCovered' /\ NoCycle' /\ HostSyncBounds'
    <2>1. ReadsCovered'
      BY <1>1 DEF ReadsCovered, Reading
    <2>2. NoCycle'
      BY <1>1 DEF NoCycle
    <2>3. HostSyncBounds'
      BY <1>1 DEF HostSyncBounds
    <2>4. QED
      BY <2>1, <2>2, <2>3
  <1>6. ReadsOrdered'
    BY <1>1 DEF ReadsOrdered, Lands
  <1>7. WritesTold'
    BY <1>1, <1>2, Elements DEF WritesTold, InHand, StreamsTypes
  <1>8. QED
    BY <1>3, <1>4, <1>5, <1>6, <1>7

(* The lease is abandoned: its write stays, and is told of by nobody; its slot has no *)
(* stamp any more.                                                                    *)
LEMMA AbandonKept ==
  ASSUME HostInv, GpuInv, Abandon
  PROVE  GpuInv'
  <1> USE DEF GpuInv
  <1>1. /\ producer = "own" /\ producer' # "own" /\ pslot \in Slots
        /\ timestamp' = [timestamp EXCEPT ![pslot] = NoTimestamp]
        /\ writes' = [j \in DOMAIN writes |->
             [writes[j] EXCEPT !.left = @ \/ writes[j].frame = acquires]]
        /\ UNCHANGED <<reads, dataReady, readDone, memory, recorded, cpc, cslot, acquires>>
    BY DEF Abandon, AbandonStamp, HostInv, SlotsChosen, Fenced, consumerVars
  <1>2. /\ writes' \in Seq(WriteType) /\ Len(writes') = Len(writes) /\ Len(writes) \in Nat
        /\ \A j \in 1 .. Len(writes) :
             /\ writes'[j].slot = writes[j].slot /\ writes'[j].frame = writes[j].frame
             /\ writes'[j].behind = writes[j].behind
             /\ writes[j].left \/ writes[j].frame = acquires => writes'[j].left
    <2>1. writes \in Seq(WriteType) /\ Len(writes) \in Nat /\ DOMAIN writes = 1 .. Len(writes)
      BY Elements, LenProperties DEF StreamsTypes
    <2>2. ASSUME NEW w \in WriteType, NEW x, x = [w EXCEPT !.left = @ \/ w.frame = acquires]
          PROVE  /\ x \in WriteType /\ x.slot = w.slot /\ x.frame = w.frame
                 /\ x.behind = w.behind /\ (w.left \/ w.frame = acquires => x.left)
      BY <2>2 DEF WriteType
    <2>3. ASSUME NEW j \in 1 .. Len(writes)
          PROVE  /\ writes[j] \in WriteType
                 /\ writes'[j] = [writes[j] EXCEPT !.left = @ \/ writes[j].frame = acquires]
      BY <1>1, <2>1, ElementOfSeq
    <2>4. writes' \in [1 .. Len(writes) -> WriteType]
      BY <1>1, <2>1, <2>2, <2>3
    <2>5. writes' \in Seq(WriteType) /\ Len(writes') = Len(writes)
      BY <2>1, <2>4, Mapped
    <2>6. QED
      BY <2>1, <2>2, <2>3, <2>5
  <1>3. StreamsTypes' /\ EventsInQueues' /\ NoCycle' /\ ReadsCovered'
    BY <1>1, <1>2 DEF StreamsTypes, EventsInQueues, NoCycle, ReadsCovered, Reading
  <1>4. SlotsSettle'
    <2>1. ASSUME NEW s \in Slots, timestamp'[s] # NoTimestamp
          PROVE  /\ Lands(s, dataReady[s], timestamp[s])'
                 /\ \A j \in 1 .. Len(writes) : writes[j].slot = s => j <= dataReady[s]
      <3>1. s # pslot /\ timestamp'[s] = timestamp[s] /\ dataReady[s] \in 0 .. Len(writes)
        BY <1>1, <2>1, Elements DEF HostInv, TypeOK, SlotTypes, EventsInQueues
      <3>2. QED
        BY <1>1, <1>2, <2>1, <3>1 DEF SlotsSettle, Lands
    <2>2. QED
      BY <1>1, <1>2, <2>1 DEF SlotsSettle
  <1>5. ReadsOrdered'
    <2>1. \A c \in Consumers : \A i \in 1 .. Len(reads[c]) :
            reads[c][i].behind \in 0 .. Len(writes)
      BY Elements DEF EventsInQueues
    <2>2. QED
      BY <1>1, <1>2, <2>1 DEF ReadsOrdered, Lands
  <1>6. WritesTold'
    BY <1>1, <1>2 DEF WritesTold, InHand
  <1>7. HostSyncBounds'
    <2>1. DOMAIN writes = 1 .. Len(writes) /\ DOMAIN writes' = 1 .. Len(writes)
      BY <1>2, LenProperties DEF StreamsTypes
    <2>2. QED
      BY <1>2, <2>1 DEF HostSyncBounds
  <1>8. QED
    BY <1>3, <1>4, <1>5, <1>6, <1>7

(* A read is enqueued behind the frame of its lease. *)
LEMMA EnqueueReadKept ==
  ASSUME HostInv, SafeInv, LeasesStamped, GpuInv, NEW c \in Consumers, EnqueueRead(c)
  PROVE  GpuInv'
  <1> USE DEF GpuInv
  <1> DEFINE s == cslot[c]
             r == [slot |-> s, frame |-> cstamp[c], behind |-> dataReady[s]]
             n == Len(reads[c])
  <1>1. /\ s \in Slots /\ Reading(c, s)
        /\ UNCHANGED <<cpc, cslot, producer, pslot, acquires, timestamp, writes, dataReady,
                       readDone, memory, recorded>>
        /\ reads' = [reads EXCEPT ![c] = Append(@, r)]
    BY DEF EnqueueRead, HostInv, SlotsChosen, Counted, Reading, vars, slotVars, producerVars,
           consumerVars
  <1>2. /\ ~(producer = "own" /\ pslot = s) /\ cstamp[c] = timestamp[s]
        /\ timestamp[s] \in Nat \cup {NoTimestamp}
    BY <1>1 DEF SafeInv, Exclusive, Owning, LeasesStamped, Reading, HostInv, TypeOK, SlotTypes
  <1>3. r \in ReadType /\ reads[c] \in Seq(ReadType)
    BY <1>1, <1>2, Elements DEF ReadType
  <1>4. r.slot = s /\ r.frame = timestamp[s] /\ r.behind = dataReady[s]
    BY <1>2
  <1> HIDE DEF s, r
  <1>5. /\ reads'[c] \in Seq(ReadType) /\ Len(reads'[c]) = n + 1 /\ n \in Nat
        /\ \A i \in 1 .. n : reads'[c][i] = reads[c][i]
        /\ reads'[c][n + 1] = r
    <2>1. reads'[c] = Append(reads[c], r)
      BY <1>1 DEF StreamsTypes
    <2>2. QED
      BY <2>1, <1>3, Appended
  <1>6. \A d \in Consumers \ {c} : reads'[d] = reads[d]
    BY <1>1 DEF StreamsTypes
  <1>7. StreamsTypes'
    BY <1>1, <1>5, <1>6 DEF StreamsTypes
  <1>8. dataReady[s] \in Nat /\ dataReady[s] <= Len(writes) /\ Len(writes) \in Nat
    BY <1>1, Elements DEF EventsInQueues
  <1>9. EventsInQueues'
    <2>1. ASSUME NEW d \in Consumers
          PROVE  Len(reads'[d]) >= Len(reads[d]) /\ Len(reads[d]) \in Nat
      BY <1>5, <1>6, Elements
    <2>2. \A t \in Slots, d \in Consumers : readDone[t][d] <= Len(reads'[d])
      BY <2>1, <1>5, <1>6, Elements DEF EventsInQueues
    <2>3. \A j \in 1 .. Len(writes), d \in Consumers : writes[j].behind[d] <= Len(reads'[d])
      BY <2>1, <1>5, <1>6, Elements DEF EventsInQueues
    <2>4. \A d \in Consumers : \A i \in 1 .. Len(reads'[d]) : reads'[d][i].behind <= Len(writes)
      <3> SUFFICES ASSUME NEW d \in Consumers, NEW i \in 1 .. Len(reads'[d])
                   PROVE  reads'[d][i].behind <= Len(writes)
        OBVIOUS
      <3>1. \A k \in 1 .. Len(reads[d]) : reads[d][k].behind <= Len(writes)
        BY DEF EventsInQueues
      <3>2. CASE d # c
        BY <1>6, <3>1, <3>2
      <3>3. CASE d = c /\ i = n + 1
        BY <1>4, <1>5, <1>8, <3>3
      <3>4. CASE d = c /\ i # n + 1
        <4>1. i \in 1 .. n /\ reads'[d][i] = reads[d][i]
          BY <1>5, <3>4
        <4> QED
          BY <3>1, <3>4, <4>1
      <3> QED
        BY <3>2, <3>3, <3>4
    <2>5. QED
      BY <1>1, <2>2, <2>3, <2>4 DEF EventsInQueues
  <1>10. SlotsSettle' /\ HostSyncBounds' /\ WritesTold'
    BY <1>1 DEF SlotsSettle, Lands, HostSyncBounds, WritesTold, InHand
  <1>11. ReadsCovered'
    <2>1. ASSUME NEW d \in Consumers, NEW i \in 1 .. Len(reads'[d])
          PROVE  i <= readDone[reads'[d][i].slot][d] \/ Reading(d, reads'[d][i].slot)
      <3>1. CASE d = c /\ i = n + 1
        BY <1>1, <1>4, <1>5, <3>1
      <3>2. CASE ~(d = c /\ i = n + 1)
        <4>1. i \in 1 .. Len(reads[d]) /\ reads'[d][i] = reads[d][i]
          BY <1>5, <1>6, <3>2
        <4>2. QED
          BY <4>1 DEF ReadsCovered
      <3>3. QED
        BY <3>1, <3>2
    <2>2. QED
      BY <1>1, <2>1 DEF ReadsCovered, Reading
  <1>12. timestamp[s] # NoTimestamp =>
           /\ Lands(s, dataReady[s], timestamp[s])
           /\ \A j \in 1 .. Len(writes) : writes[j].slot = s => j <= dataReady[s]
    BY <1>1, <1>2 DEF SlotsSettle
  <1>13. ReadsOrdered'
    <2>1. ASSUME NEW d \in Consumers, NEW i \in 1 .. Len(reads'[d])
          PROVE  LET x == reads'[d][i] IN
                 x.frame # NoTimestamp =>
                   /\ Lands(x.slot, x.behind, x.frame)
                   /\ \A j \in 1 .. Len(writes) :
                        writes[j].slot = x.slot /\ j > x.behind => i <= writes[j].behind[d]
      <3>1. CASE d = c /\ i = n + 1
        BY <1>4, <1>5, <1>8, <1>12, <3>1
      <3>2. CASE ~(d = c /\ i = n + 1)
        <4>1. i \in 1 .. Len(reads[d]) /\ reads'[d][i] = reads[d][i]
          BY <1>5, <1>6, <3>2
        <4>2. QED
          BY <4>1 DEF ReadsOrdered
      <3>3. QED
        BY <3>1, <3>2
    <2>2. QED
      BY <1>1, <2>1 DEF ReadsOrdered, Lands
  <1>14. NoCycle'
    <2>1. ASSUME NEW d \in Consumers, NEW j \in 1 .. Len(writes), NEW i \in 1 .. Len(reads'[d]),
                 i <= writes[j].behind[d]
          PROVE  reads'[d][i].behind < j
      <3>1. writes[j].behind[d] \in Nat /\ writes[j].behind[d] <= Len(reads[d])
        BY Elements DEF EventsInQueues
      <3>2. i \in 1 .. Len(reads[d]) /\ reads'[d][i] = reads[d][i]
        BY <1>5, <1>6, <2>1, <3>1, SMTT(30)
      <3>3. QED
        BY <2>1, <3>2 DEF NoCycle
    <2>2. QED
      BY <1>1, <2>1 DEF NoCycle
  <1>15. QED
    BY <1>7, <1>9, <1>10, <1>11, <1>13, <1>14

(* read_done of the slot waits for all that its holder has enqueued. *)
LEMMA RecordReadDoneKept ==
  ASSUME HostInv, GpuInv, NEW c \in Consumers, RecordReadDone(c)
  PROVE  GpuInv'
  <1> USE DEF GpuInv
  <1>1. /\ cslot[c] \in Slots
        /\ readDone' = [readDone EXCEPT ![cslot[c]][c] = Len(reads[c])]
        /\ recorded' = [recorded EXCEPT ![c] = TRUE]
        /\ UNCHANGED <<cpc, cslot, producer, pslot, acquires, timestamp, writes, reads, dataReady,
                       memory>>
    BY DEF RecordReadDone, HostInv, SlotsChosen, Counted, vars, slotVars, producerVars, consumerVars
  <1>2. \A s \in Slots, d \in Consumers :
          readDone'[s][d] = IF s = cslot[c] /\ d = c THEN Len(reads[c]) ELSE readDone[s][d]
    BY <1>1 DEF StreamsTypes
  <1>3. StreamsTypes'
    BY <1>1, Elements DEF StreamsTypes
  <1>4. EventsInQueues'
    BY <1>1, <1>2, Elements DEF EventsInQueues
  <1>5. SlotsSettle' /\ HostSyncBounds' /\ ReadsOrdered' /\ NoCycle' /\ WritesTold'
    BY <1>1 DEF SlotsSettle, Lands, HostSyncBounds, ReadsOrdered, NoCycle, WritesTold, InHand
  <1>6. ReadsCovered'
    <2>1. ASSUME NEW d \in Consumers, NEW i \in 1 .. Len(reads[d])
          PROVE  i <= readDone'[reads[d][i].slot][d] \/ Reading(d, reads[d][i].slot)'
      <3>1. reads[d][i].slot \in Slots /\ Len(reads[d]) \in Nat
        BY Elements
      <3>2. i <= readDone[reads[d][i].slot][d] \/ Reading(d, reads[d][i].slot)
        BY DEF ReadsCovered
      <3>3. d # c => recorded'[d] = recorded[d]
        BY <1>1 DEF StreamsTypes
      <3>4. CASE d = c /\ reads[d][i].slot = cslot[c]
        BY <1>2, <3>1, <3>4
      <3>5. CASE ~(d = c /\ reads[d][i].slot = cslot[c])
        BY <1>1, <1>2, <3>1, <3>2, <3>3, <3>5 DEF Reading
      <3>6. QED
        BY <3>4, <3>5
    <2>2. QED
      BY <1>1, <2>1 DEF ReadsCovered, Reading
  <1>7. QED
    BY <1>3, <1>4, <1>5, <1>6

(* The hold is dropped only then, so the reads of the lease stay covered. *)
LEMMA LetGoKept ==
  ASSUME HostInv, GpuInv, NEW c \in Consumers, LetGo(c)
  PROVE  GpuInv'
  <1> USE DEF GpuInv
  <1>1. /\ cslot' = cslot /\ recorded[c] /\ recorded' = [recorded EXCEPT ![c] = FALSE]
        /\ cpc' = [cpc EXCEPT ![c] = "idle"]
        /\ UNCHANGED <<producer, pslot, acquires, timestamp, writes, reads, dataReady, readDone,
                       memory>>
    BY DEF LetGo, Drop, Goto, producerVars
  <1>2. \A d \in Consumers, s \in Slots : Reading(d, s) => Reading(d, s)'
    <2>1. \A d \in Consumers \ {c} : cpc'[d] = cpc[d] /\ recorded'[d] = recorded[d]
      BY <1>1 DEF StreamsTypes, HostInv, TypeOK, ConsumerTypes
    <2>2. QED
      BY <1>1, <2>1 DEF Reading
  <1>3. StreamsTypes' /\ EventsInQueues'
    BY <1>1 DEF StreamsTypes, EventsInQueues
  <1>4. SlotsSettle' /\ HostSyncBounds' /\ ReadsOrdered' /\ NoCycle' /\ WritesTold'
    BY <1>1 DEF SlotsSettle, Lands, HostSyncBounds, ReadsOrdered, NoCycle, WritesTold, InHand
  <1>5. ReadsCovered'
    BY <1>1, <1>2, Elements DEF ReadsCovered
  <1>6. QED
    BY <1>3, <1>4, <1>5

(* A write starts only when every read before it is done: no read that may run loses *)
(* its frame.                                                                         *)
LEMMA WriteStartsKept ==
  ASSUME GpuInv, WriteStarts
  PROVE  GpuInv'
  <1> USE DEF GpuInv
  <1>1. /\ writes # <<>> /\ \A c \in Consumers : Head(writes).behind[c] = 0
        /\ memory' = [memory EXCEPT ![Head(writes).slot] = Torn]
        /\ UNCHANGED <<cpc, cslot, producer, pslot, acquires, timestamp, writes, reads, dataReady,
                       readDone, recorded>>
    BY DEF WriteStarts, vars, slotVars, producerVars, consumerVars
  <1>2. Head(writes) = writes[1] /\ Len(writes) \in Nat \ {0} /\ writes[1].slot \in Slots
    BY <1>1, HeadTailProperties, EmptySeq, Elements DEF StreamsTypes
  <1>3. StreamsTypes' /\ EventsInQueues'
    BY <1>1, <1>2 DEF StreamsTypes, EventsInQueues
  <1>4. \A f : \A s \in Slots, k \in Nat : s # writes[1].slot /\ Lands(s, k, f) => Lands(s, k, f)'
    BY <1>1, <1>2 DEF Lands, StreamsTypes
  <1>5. SlotsSettle'
    <2>1. ASSUME NEW s \in Slots, timestamp[s] # NoTimestamp, ~(producer = "own" /\ pslot = s)
          PROVE  Lands(s, dataReady[s], timestamp[s])'
      <3>1. /\ Lands(s, dataReady[s], timestamp[s]) /\ dataReady[s] \in Nat
            /\ s = writes[1].slot => 1 <= dataReady[s]
        BY <1>2, <2>1, Elements DEF SlotsSettle
      <3>2. QED
        BY <1>1, <1>4, <3>1 DEF Lands
    <2>2. producer = "own" => Lands(pslot, Len(writes), acquires)'
      BY <1>1, <1>2 DEF SlotsSettle, Lands
    <2>3. QED
      BY <1>1, <2>1, <2>2 DEF SlotsSettle
  <1>6. ReadsOrdered'
    <2>1. ASSUME NEW c \in Consumers, NEW i \in 1 .. Len(reads[c]),
                 reads[c][i].frame # NoTimestamp
          PROVE  LET r == reads[c][i] IN
                 /\ Lands(r.slot, r.behind, r.frame)'
                 /\ \A j \in 1 .. Len(writes) :
                      writes[j].slot = r.slot /\ j > r.behind => i <= writes[j].behind[c]
      <3>1. /\ reads[c][i].slot \in Slots /\ reads[c][i].behind \in Nat /\ i \in Nat \ {0}
            /\ writes[1].behind[c] = 0
        BY <1>1, <1>2, Elements
      <3>2. /\ Lands(reads[c][i].slot, reads[c][i].behind, reads[c][i].frame)
            /\ \A j \in 1 .. Len(writes) :
                 writes[j].slot = reads[c][i].slot /\ j > reads[c][i].behind =>
                   i <= writes[j].behind[c]
        BY <2>1 DEF ReadsOrdered
      <3>3. reads[c][i].slot = writes[1].slot => reads[c][i].behind # 0
        BY <1>2, <3>1, <3>2
      <3>4. QED
        BY <1>1, <1>4, <3>1, <3>2, <3>3 DEF Lands
    <2>2. QED
      BY <1>1, <2>1 DEF ReadsOrdered
  <1>7. ReadsCovered' /\ NoCycle' /\ HostSyncBounds' /\ WritesTold'
    BY <1>1 DEF ReadsCovered, Reading, NoCycle, HostSyncBounds, WritesTold, InHand
  <1>8. QED
    BY <1>3, <1>5, <1>6, <1>7

(* One write nearer, an event that waited for it alone has completed. *)
LEMMA NearerNat == \A n \in Nat : Nearer(n) \in Nat /\ (n > 0 => Nearer(n) = n - 1) /\ Nearer(0) = 0
  BY DEF Nearer

(* The device completes a write: it stands where it was to land. *)
LEMMA WriteEndsKept ==
  ASSUME HostInv, GpuInv, WriteEnds
  PROVE  GpuInv'
  <1> USE DEF GpuInv
  <1> DEFINE Landed(s, k, f) ==
        IF k = 0 THEN memory'[s] = f ELSE writes'[k].slot = s /\ writes'[k].frame = f
  <1>1. /\ writes # <<>> /\ memory[Head(writes).slot] = Torn /\ writes' = Tail(writes)
        /\ memory' = [memory EXCEPT ![Head(writes).slot] = Head(writes).frame]
        /\ dataReady' = [s \in Slots |-> Nearer(dataReady[s])]
        /\ reads' = [c \in Consumers |->
             [i \in DOMAIN reads[c] |-> [reads[c][i] EXCEPT !.behind = Nearer(@)]]]
        /\ UNCHANGED <<cpc, cslot, producer, pslot, acquires, timestamp, readDone, recorded>>
    BY DEF WriteEnds, vars, slotVars, producerVars, consumerVars
  <1>2. /\ writes' \in Seq(WriteType) /\ Len(writes') = Len(writes) - 1
        /\ Len(writes) \in Nat \ {0} /\ Head(writes) = writes[1]
        /\ \A j \in 1 .. Len(writes) - 1 : writes'[j] = writes[j + 1]
    BY <1>1, Shifted DEF StreamsTypes
  <1>3. ASSUME NEW c \in Consumers
        PROVE  /\ reads'[c] \in Seq(ReadType) /\ Len(reads'[c]) = Len(reads[c])
               /\ \A i \in 1 .. Len(reads[c]) :
                    /\ reads'[c][i].slot = reads[c][i].slot /\ reads'[c][i].frame = reads[c][i].frame
                    /\ reads'[c][i].behind = Nearer(reads[c][i].behind)
    <2>1. reads[c] \in Seq(ReadType) /\ Len(reads[c]) \in Nat /\ DOMAIN reads[c] = 1 .. Len(reads[c])
      BY Elements, LenProperties
    <2>2. reads'[c] = [i \in 1 .. Len(reads[c]) |-> [reads[c][i] EXCEPT !.behind = Nearer(@)]]
      BY <1>1, <2>1
    <2>3. ASSUME NEW i \in 1 .. Len(reads[c])
          PROVE  /\ reads'[c][i] = [reads[c][i] EXCEPT !.behind = Nearer(@)]
                 /\ reads[c][i] \in ReadType /\ Nearer(reads[c][i].behind) \in Nat
      BY <2>1, <2>2, ElementOfSeq, Elements, NearerNat
    <2>4. reads'[c] \in [1 .. Len(reads[c]) -> ReadType]
      BY <2>2, <2>3 DEF ReadType
    <2>5. QED
      BY <2>1, <2>3, <2>4, Mapped DEF ReadType
  <1>4. \A s \in Slots : dataReady'[s] = Nearer(dataReady[s])
    BY <1>1
  <1>5. /\ writes[1].slot \in Slots /\ writes[1].frame \in Nat
        /\ \A s \in Slots :
             memory'[s] = IF s = writes[1].slot THEN writes[1].frame ELSE memory[s]
    <2>1. writes[1].slot \in Slots /\ writes[1].frame \in Nat
      BY <1>2, Elements
    <2>2. memory' = [memory EXCEPT ![writes[1].slot] = writes[1].frame]
      BY <1>1, <1>2
    <2>3. QED
      BY <2>1, <2>2 DEF StreamsTypes
  <1>6. StreamsTypes'
    BY <1>1, <1>2, <1>3, <1>4, <1>5, Elements, NearerNat DEF StreamsTypes
  <1>7. ASSUME NEW s \in Slots, NEW k \in 0 .. Len(writes), NEW f \in Nat, Lands(s, k, f)
        PROVE  Landed(s, Nearer(k), f)
    <2>1. CASE k = 0
      BY <1>1, <1>2, <1>5, <1>7, <2>1 DEF Lands, Nearer, Torn
    <2>2. CASE k = 1
      BY <1>2, <1>5, <1>7, <2>2 DEF Lands, Nearer
    <2>3. CASE k > 1
      BY <1>2, <1>7, <2>3 DEF Lands, Nearer
    <2>4. QED
      BY <2>1, <2>2, <2>3
  <1>8. EventsInQueues'
    <2>1. \A s \in Slots : dataReady'[s] <= Len(writes')
      BY <1>2, <1>4, Elements DEF EventsInQueues, Nearer
    <2>2. \A c \in Consumers : \A i \in 1 .. Len(reads[c]) : reads'[c][i].behind <= Len(writes')
      BY <1>2, <1>3, Elements, SMTT(30) DEF EventsInQueues, Nearer
    <2>3. \A j \in 1 .. Len(writes'), c \in Consumers : writes'[j].behind[c] <= Len(reads[c])
      BY <1>2 DEF EventsInQueues
    <2>4. QED
      BY <1>1, <1>3, <2>1, <2>2, <2>3 DEF EventsInQueues
  <1>9. SlotsSettle'
    <2>1. ASSUME NEW s \in Slots, timestamp[s] # NoTimestamp, ~(producer = "own" /\ pslot = s)
          PROVE  /\ Landed(s, dataReady'[s], timestamp[s])
                 /\ \A j \in 1 .. Len(writes') : writes'[j].slot = s => j <= dataReady'[s]
      <3>1. /\ dataReady[s] \in 0 .. Len(writes) /\ timestamp[s] \in Nat
            /\ Lands(s, dataReady[s], timestamp[s])
            /\ \A j \in 1 .. Len(writes) : writes[j].slot = s => j <= dataReady[s]
        BY <2>1, Elements DEF SlotsSettle, EventsInQueues, HostInv, TypeOK, SlotTypes
      <3>2. Landed(s, Nearer(dataReady[s]), timestamp[s])
        BY <1>7, <3>1
      <3>3. ASSUME NEW j \in 1 .. Len(writes'), writes'[j].slot = s
            PROVE  j <= dataReady'[s]
        <4>1. j + 1 \in 1 .. Len(writes) /\ writes[j + 1].slot = s
          BY <1>2, <3>3
        <4>2. j + 1 <= dataReady[s]
          BY <3>1, <4>1
        <4>3. QED
          BY <1>4, <3>1, <4>2 DEF Nearer
      <3>4. QED
        BY <1>4, <3>2, <3>3
    <2>2. ASSUME producer = "own"
          PROVE  Landed(pslot, Len(writes'), acquires)
      <3>1. Lands(pslot, Len(writes), acquires) /\ pslot \in Slots /\ acquires \in Nat
        BY <2>2 DEF SlotsSettle, HostInv, SlotsChosen, Fenced, TypeOK, ProducerTypes
      <3>2. Nearer(Len(writes)) = Len(writes')
        BY <1>2 DEF Nearer
      <3>3. Landed(pslot, Nearer(Len(writes)), acquires)
        BY <1>2, <1>7, <3>1
      <3>4. QED
        BY <3>2, <3>3
    <2>3. QED
      BY <1>1, <2>1, <2>2 DEF SlotsSettle, Lands
  <1>10. ReadsCovered'
    <2>1. \A c \in Consumers : \A i \in 1 .. Len(reads[c]) :
            i <= readDone[reads'[c][i].slot][c] \/ Reading(c, reads'[c][i].slot)
      BY <1>3 DEF ReadsCovered
    <2>2. QED
      BY <1>1, <1>3, <2>1 DEF ReadsCovered, Reading
  <1>11. ReadsOrdered'
    <2>1. ASSUME NEW c \in Consumers, NEW i \in 1 .. Len(reads[c]),
                 reads'[c][i].frame # NoTimestamp
          PROVE  LET r == reads'[c][i] IN
                 /\ Landed(r.slot, r.behind, r.frame)
                 /\ \A j \in 1 .. Len(writes') :
                      writes'[j].slot = r.slot /\ j > r.behind => i <= writes'[j].behind[c]
      <3> DEFINE r == reads[c][i]
      <3>1. /\ r.slot \in Slots /\ r.frame \in Nat /\ r.behind \in 0 .. Len(writes)
            /\ Lands(r.slot, r.behind, r.frame)
            /\ \A j \in 1 .. Len(writes) :
                 writes[j].slot = r.slot /\ j > r.behind => i <= writes[j].behind[c]
        BY <1>3, <2>1, Elements DEF ReadsOrdered, EventsInQueues
      <3>2. /\ reads'[c][i].slot = r.slot /\ reads'[c][i].frame = r.frame
            /\ reads'[c][i].behind = Nearer(r.behind)
        BY <1>3
      <3> HIDE DEF r
      <3>3. Landed(r.slot, Nearer(r.behind), r.frame)
        BY <1>7, <3>1
      <3>4. ASSUME NEW j \in 1 .. Len(writes'), writes'[j].slot = r.slot, j > Nearer(r.behind)
            PROVE  i <= writes'[j].behind[c]
        <4>1. j + 1 \in 1 .. Len(writes) /\ writes'[j] = writes[j + 1] /\ j + 1 > r.behind
          BY <1>2, <3>1, <3>4 DEF Nearer
        <4>2. QED
          BY <3>1, <3>4, <4>1
      <3>5. QED
        BY <3>2, <3>3, <3>4
    <2>2. QED
      BY <1>3, <2>1 DEF ReadsOrdered, Lands
  <1>12. NoCycle'
    <2>1. ASSUME NEW c \in Consumers, NEW j \in 1 .. Len(writes'), NEW i \in 1 .. Len(reads[c]),
                 i <= writes'[j].behind[c]
          PROVE  reads'[c][i].behind < j
      <3>1. j + 1 \in 1 .. Len(writes) /\ i <= writes[j + 1].behind[c]
        BY <1>2, <2>1
      <3>2. reads[c][i].behind < j + 1 /\ reads[c][i].behind \in Nat
        BY <3>1, Elements DEF NoCycle
      <3>3. QED
        BY <1>3, <3>1, <3>2 DEF Nearer
    <2>2. QED
      BY <1>3, <2>1 DEF NoCycle
  <1>13. HostSyncBounds'
    <2>1. DOMAIN writes = 1 .. Len(writes) /\ DOMAIN writes' = 1 .. Len(writes) - 1
      BY <1>2, LenProperties DEF StreamsTypes
    <2>2. QED
      BY <1>2, <2>1 DEF HostSyncBounds
  <1>14. WritesTold'
    <2>1. ASSUME NEW j \in 1 .. Len(writes')
          PROVE  j <= dataReady'[writes'[j].slot] \/ writes'[j].left \/ InHand(j)'
      <3>1. /\ j + 1 \in 1 .. Len(writes) /\ writes'[j] = writes[j + 1]
            /\ writes[j + 1].slot \in Slots
        BY <1>2, Elements
      <3>2. j + 1 <= dataReady[writes[j + 1].slot] \/ writes[j + 1].left \/ InHand(j + 1)
        BY <3>1 DEF WritesTold
      <3>3. CASE j + 1 <= dataReady[writes[j + 1].slot]
        BY <1>4, <3>1, <3>3, Elements DEF Nearer
      <3>4. CASE InHand(j + 1)
        BY <1>1, <1>2, <3>1, <3>4 DEF InHand
      <3>5. QED
        BY <3>1, <3>2, <3>3, <3>4
    <2>2. QED
      BY <2>1 DEF WritesTold
  <1>15. QED
    BY <1>6, <1>8, <1>9, <1>10, <1>11, <1>12, <1>13, <1>14

(* The device completes the read at the head of c's stream. *)
LEMMA ReadEndsKept ==
  ASSUME GpuInv, NEW c \in Consumers, ReadEnds(c)
  PROVE  GpuInv'
  <1> USE DEF GpuInv
  <1>1. /\ reads[c] # <<>> /\ reads' = [reads EXCEPT ![c] = Tail(@)]
        /\ readDone' = [s \in Slots |-> [readDone[s] EXCEPT ![c] = Nearer(@)]]
        /\ writes' = [j \in DOMAIN writes |-> [writes[j] EXCEPT !.behind[c] = Nearer(@)]]
        /\ UNCHANGED <<cpc, cslot, producer, pslot, acquires, timestamp, dataReady, memory, recorded>>
    BY DEF ReadEnds, Readable, vars, slotVars, producerVars, consumerVars
  <1>2. /\ reads'[c] \in Seq(ReadType) /\ Len(reads'[c]) = Len(reads[c]) - 1
        /\ Len(reads[c]) \in Nat \ {0}
        /\ \A i \in 1 .. Len(reads'[c]) : reads'[c][i] = reads[c][i + 1]
        /\ \A d \in Consumers \ {c} : reads'[d] = reads[d]
    <2>1. reads'[c] = Tail(reads[c]) /\ reads[c] \in Seq(ReadType)
      BY <1>1 DEF StreamsTypes
    <2>2. \A d \in Consumers \ {c} : reads'[d] = reads[d]
      BY <1>1 DEF StreamsTypes
    <2>3. /\ reads'[c] \in Seq(ReadType) /\ Len(reads'[c]) = Len(reads[c]) - 1
          /\ Len(reads[c]) \in Nat \ {0}
          /\ \A i \in 1 .. Len(reads'[c]) : reads'[c][i] = reads[c][i + 1]
      <3>1. reads[c] # <<>>
        BY <1>1
      <3> HIDE <1>1
      <3>2. QED
        BY <2>1, <3>1, Shifted
    <2>4. QED
      BY <2>2, <2>3
  <1>3. \A s \in Slots, d \in Consumers :
          readDone'[s][d] = IF d = c THEN Nearer(readDone[s][d]) ELSE readDone[s][d]
    BY <1>1 DEF StreamsTypes
  <1>4. /\ writes' \in Seq(WriteType) /\ Len(writes') = Len(writes)
        /\ \A j \in 1 .. Len(writes) :
             /\ writes'[j].slot = writes[j].slot /\ writes'[j].frame = writes[j].frame
             /\ writes'[j].left = writes[j].left
             /\ \A d \in Consumers : writes'[j].behind[d] =
                  IF d = c THEN Nearer(writes[j].behind[d]) ELSE writes[j].behind[d]
    <2>1. writes \in Seq(WriteType) /\ Len(writes) \in Nat /\ DOMAIN writes = 1 .. Len(writes)
      BY Elements, LenProperties DEF StreamsTypes
    <2>2. writes' = [j \in 1 .. Len(writes) |-> [writes[j] EXCEPT !.behind[c] = Nearer(@)]]
      BY <1>1, <2>1
    <2>3. ASSUME NEW j \in 1 .. Len(writes)
          PROVE  /\ writes'[j] = [writes[j] EXCEPT !.behind[c] = Nearer(@)]
                 /\ writes[j] \in WriteType /\ Nearer(writes[j].behind[c]) \in Nat
      BY <2>1, <2>2, ElementOfSeq, Elements, NearerNat
    <2>4. writes' \in [1 .. Len(writes) -> WriteType]
      BY <2>2, <2>3 DEF WriteType
    <2>5. writes' \in Seq(WriteType) /\ Len(writes') = Len(writes)
      BY <2>1, <2>4, Mapped
    <2>6. ASSUME NEW w \in WriteType, NEW x, x = [w EXCEPT !.behind[c] = Nearer(@)]
          PROVE  /\ x.slot = w.slot /\ x.frame = w.frame /\ x.left = w.left
                 /\ \A d \in Consumers : x.behind[d] = IF d = c THEN Nearer(w.behind[d]) ELSE w.behind[d]
      <3>1. /\ x.behind = [w.behind EXCEPT ![c] = Nearer(@)]
            /\ x.slot = w.slot /\ x.frame = w.frame /\ x.left = w.left
        BY <2>6 DEF WriteType
      <3>2. w.behind \in [Consumers -> Nat]
        BY DEF WriteType
      <3>3. QED
        BY <3>1, <3>2
    <2>7. ASSUME NEW j \in 1 .. Len(writes)
          PROVE  /\ writes'[j].slot = writes[j].slot /\ writes'[j].frame = writes[j].frame
                 /\ writes'[j].left = writes[j].left
                 /\ \A d \in Consumers : writes'[j].behind[d] =
                      IF d = c THEN Nearer(writes[j].behind[d]) ELSE writes[j].behind[d]
      <3>1. writes[j] \in WriteType /\ writes'[j] = [writes[j] EXCEPT !.behind[c] = Nearer(@)]
        BY <2>3
      <3> HIDE <2>3
      <3>2. QED
        BY <2>6, <3>1
    <2>8. QED
      BY <2>5, <2>7
  <1>5. StreamsTypes'
    BY <1>1, <1>2, <1>3, <1>4, Elements, NearerNat DEF StreamsTypes
  <1>6. EventsInQueues'
    <2>1. \A s \in Slots, d \in Consumers : readDone'[s][d] <= Len(reads'[d])
      BY <1>2, <1>3, Elements DEF EventsInQueues, Nearer
    <2>2. ASSUME NEW j \in 1 .. Len(writes), NEW d \in Consumers
          PROVE  writes'[j].behind[d] <= Len(reads'[d])
      <3>1. /\ writes[j].behind[d] \in Nat /\ writes[j].behind[d] <= Len(reads[d])
            /\ Len(reads[d]) \in Nat
        BY Elements DEF EventsInQueues
      <3>2. QED
        BY <1>2, <1>4, <3>1, SMTT(30) DEF Nearer
    <2>3. ASSUME NEW d \in Consumers, NEW i \in 1 .. Len(reads'[d])
          PROVE  reads'[d][i].behind <= Len(writes)
      <3>1. CASE d = c
        BY <1>2, <3>1 DEF EventsInQueues
      <3>2. CASE d # c
        BY <1>2, <3>2 DEF EventsInQueues
      <3>3. QED
        BY <3>1, <3>2
    <2>4. QED
      BY <1>1, <1>4, <2>1, <2>2, <2>3 DEF EventsInQueues
  <1>8. SlotsSettle'
    <2>1. ASSUME NEW s \in Slots, timestamp[s] # NoTimestamp, ~(producer = "own" /\ pslot = s)
          PROVE  /\ IF dataReady[s] = 0 THEN memory[s] = timestamp[s]
                    ELSE writes'[dataReady[s]].slot = s /\ writes'[dataReady[s]].frame = timestamp[s]
                 /\ \A j \in 1 .. Len(writes) : writes'[j].slot = s => j <= dataReady[s]
      BY <1>4, <2>1, Elements DEF SlotsSettle, Lands, EventsInQueues
    <2>2. producer = "own" =>
            IF Len(writes) = 0 THEN memory[pslot] = acquires
            ELSE writes'[Len(writes)].slot = pslot /\ writes'[Len(writes)].frame = acquires
      BY <1>4, Elements DEF SlotsSettle, Lands
    <2>3. QED
      BY <1>1, <1>4, <2>1, <2>2 DEF SlotsSettle, Lands
  <1>9. ASSUME NEW d \in Consumers, NEW i \in 1 .. Len(reads'[d])
        PROVE  \/ d # c /\ i \in 1 .. Len(reads[d]) /\ reads'[d][i] = reads[d][i]
               \/ d = c /\ i + 1 \in 1 .. Len(reads[d]) /\ reads'[d][i] = reads[d][i + 1]
    BY <1>2
  <1>10. ReadsCovered'
    <2>1. ASSUME NEW d \in Consumers, NEW i \in 1 .. Len(reads'[d])
          PROVE  i <= readDone'[reads'[d][i].slot][d] \/ Reading(d, reads'[d][i].slot)
      <3>1. CASE d # c
        <4>1. i \in 1 .. Len(reads[d]) /\ reads'[d][i] = reads[d][i] /\ reads[d][i].slot \in Slots
          BY <1>9, <3>1, Elements
        <4>2. QED
          BY <1>3, <3>1, <4>1 DEF ReadsCovered
      <3>2. CASE d = c
        <4>1. /\ i + 1 \in 1 .. Len(reads[d]) /\ reads'[d][i] = reads[d][i + 1]
              /\ reads[d][i + 1].slot \in Slots
          BY <1>9, <3>2, Elements
        <4>2. i + 1 <= readDone[reads[d][i + 1].slot][d] \/ Reading(d, reads[d][i + 1].slot)
          BY <4>1 DEF ReadsCovered
        <4>3. QED
          BY <1>3, <3>2, <4>1, <4>2, Elements DEF Nearer
      <3>3. QED
        BY <3>1, <3>2
    <2>2. QED
      BY <1>1, <2>1 DEF ReadsCovered, Reading
  <1>11. ReadsOrdered'
    <2>1. ASSUME NEW d \in Consumers, NEW i \in 1 .. Len(reads'[d]),
                 reads'[d][i].frame # NoTimestamp
          PROVE  LET r == reads'[d][i] IN
                 /\ IF r.behind = 0 THEN memory'[r.slot] = r.frame
                    ELSE writes'[r.behind].slot = r.slot /\ writes'[r.behind].frame = r.frame
                 /\ \A j \in 1 .. Len(writes') :
                      writes'[j].slot = r.slot /\ j > r.behind => i <= writes'[j].behind[d]
      <3> DEFINE k == IF d = c THEN i + 1 ELSE i
                 r == reads[d][k]
      <3>1. k \in 1 .. Len(reads[d]) /\ reads'[d][i] = r
        BY <1>9
      <3>2. r.behind \in 0 .. Len(writes)
        BY <3>1, Elements DEF EventsInQueues
      <3>3. /\ Lands(r.slot, r.behind, r.frame)
            /\ \A j \in 1 .. Len(writes) :
                 writes[j].slot = r.slot /\ j > r.behind => k <= writes[j].behind[d]
        BY <2>1, <3>1 DEF ReadsOrdered
      <3> HIDE DEF r
      <3>4. ASSUME NEW j \in 1 .. Len(writes), writes'[j].slot = r.slot, j > r.behind
            PROVE  i <= writes'[j].behind[d]
        <4>1. k <= writes[j].behind[d] /\ writes[j].behind[d] \in Nat
          BY <1>4, <3>3, <3>4, Elements
        <4>2. QED
          BY <1>2, <1>4, <4>1 DEF Nearer
      <3>5. QED
        <4>1. IF r.behind = 0 THEN memory[r.slot] = r.frame
              ELSE writes'[r.behind].slot = r.slot /\ writes'[r.behind].frame = r.frame
          BY <1>4, <3>2, <3>3 DEF Lands
        <4>2. memory' = memory /\ Len(writes') = Len(writes)
          BY <1>1, <1>4
        <4> QED
          BY ONLY <3>1, <3>4, <4>1, <4>2
    <2>2. QED
      BY <2>1 DEF ReadsOrdered, Lands
  <1>12. NoCycle'
    <2>1. ASSUME NEW d \in Consumers, NEW j \in 1 .. Len(writes), NEW i \in 1 .. Len(reads'[d]),
                 i <= writes'[j].behind[d]
          PROVE  reads'[d][i].behind < j
      <3>1. CASE d # c
        BY <1>4, <1>9, <2>1, <3>1 DEF NoCycle
      <3>2. CASE d = c
        <4>1. i + 1 \in 1 .. Len(reads[d]) /\ reads'[d][i] = reads[d][i + 1]
          BY <1>9, <3>2
        <4>2. i + 1 <= writes[j].behind[d]
          BY <1>2, <1>4, <2>1, <3>2, Elements DEF Nearer
        <4>3. QED
          BY <4>1, <4>2 DEF NoCycle
      <3>3. QED
        BY <3>1, <3>2
    <2>2. QED
      BY <1>4, <2>1 DEF NoCycle
  <1>13. HostSyncBounds'
    <2>1. DOMAIN writes = 1 .. Len(writes) /\ DOMAIN writes' = 1 .. Len(writes)
      BY <1>4, LenProperties DEF StreamsTypes
    <2>2. QED
      BY <1>4, <2>1 DEF HostSyncBounds
  <1>14. WritesTold'
    BY <1>1, <1>4 DEF WritesTold, InHand
  <1>15. QED
    BY <1>5, <1>6, <1>8, <1>10, <1>11, <1>12, <1>13, <1>14

-----------------------------------------------------------------------------
(* What the host and the device do to the streams. *)
LEMMA StreamsStep ==
  ASSUME HostInv, SafeInv, LeasesStamped, GpuInv, [StreamsNext]_streamsVars
  PROVE  GpuInv'
  <1>1. CASE QuietProducerStep
    <2>1. UNCHANGED <<timestamp, consumerVars, gpuVars>> /\ producer # "own" /\ producer' # "own"
      BY <1>1 DEF QuietProducerStep, HostStep, Acquire, ScanEnd, Unpark, Fence, Settle,
                  AcquireThrows, PublishSeq, PublishLatest, PublishCount, AbandonSeq, Claim, slotVars
    <2>2. QED
      BY <2>1, QuietKept DEF Reading, consumerVars, gpuVars
  <1>2. CASE ScanFree
    <2>1. UNCHANGED <<timestamp, consumerVars, gpuVars>> /\ producer # "own" /\ producer' # "own"
      BY <1>2 DEF ScanFree, ScanSlot, Claim, slotVars
    <2>2. QED
      BY <2>1, QuietKept DEF Reading, consumerVars, gpuVars
  <1>3. ASSUME NEW c \in Consumers, StreamsConsumerStep(c)
        PROVE  GpuInv'
    <2>1. ASSUME ConsumerStep(c), UNCHANGED gpuVars, cpc[c] # "held"
          PROVE  GpuInv'
      <3>1. UNCHANGED <<timestamp, producer, pslot, acquires>>
        BY <2>1, ConsumerWrites DEF producerVars
      <3>2. \A d \in Consumers, s \in Slots : Reading(d, s) => Reading(d, s)'
        BY <2>1, ConsumerAlone DEF Reading, gpuVars
      <3>3. QED
        BY <2>1, <3>1, <3>2, QuietKept
    <2>2. CASE \E query \in Requests \cup {Latest} : Lease(c, query) /\ UNCHANGED gpuVars
      BY <2>1, <2>2 DEF ConsumerStep, Lease
    <2>3. CASE QuietLeaseStep(c)
      BY <2>1, <2>3 DEF QuietLeaseStep, ConsumerStep, LeaseStep, LoadLatest, LoadSeq, ViewSeq,
                        ViewStamp, ViewEnd, Hold, Check, Undo
    <2>4. QED
      BY <1>3, <2>2, <2>3, EnqueueReadKept, RecordReadDoneKept, LetGoKept DEF StreamsConsumerStep
  <1>4. CASE GpuStep
    BY <1>4, WriteStartsKept, WriteEndsKept, ReadEndsKept DEF GpuStep
  <1>5. CASE UNCHANGED streamsVars
    BY <1>5, QuietKept DEF streamsVars, vars, slotVars, producerVars, consumerVars, gpuVars, Reading
  <1>6. QED
    BY <1>1, <1>2, <1>3, <1>4, <1>5, TakeKept, PublishKept, AbandonKept
       DEF StreamsNext, StreamsProducerStep

(* While a lease lives its slot is not stamped again. *)
LEMMA LeasesStampedKept ==
  ASSUME HostInv, SafeInv, StreamsTypes, LeasesStamped, [StreamsNext]_streamsVars
  PROVE  LeasesStamped'
  <1> USE DEF HostInv, TypeOK
  <1>1. CASE Publish \/ Abandon
    <2>1. /\ producer = "own" /\ pslot \in Slots
          /\ \E stamp : timestamp' = [timestamp EXCEPT ![pslot] = stamp]
          /\ UNCHANGED <<cpc, cslot, cstamp, recorded>>
      BY <1>1 DEF Publish, PublishStamp, Abandon, AbandonStamp, SlotsChosen, Fenced, consumerVars
    <2>2. \A c \in Consumers : cpc[c] = "held" => cslot[c] # pslot /\ cslot[c] \in Slots
      BY <2>1 DEF SafeInv, Exclusive, Owning, SlotsChosen, Counted
    <2>3. QED
      BY <2>1, <2>2 DEF LeasesStamped, SlotTypes
  <1>2. CASE QuietProducerStep \/ ScanFree \/ Take
    <2>1. UNCHANGED <<timestamp, cpc, cslot, cstamp, recorded>>
      BY <1>2 DEF QuietProducerStep, HostStep, ScanFree, Take, Acquire, ScanEnd, Unpark, Fence,
                  Settle, AcquireThrows, PublishSeq, PublishLatest, PublishCount, AbandonSeq,
                  ScanSlot, Own, slotVars, consumerVars, gpuVars
    <2>2. QED
      BY <2>1 DEF LeasesStamped
  <1>3. ASSUME NEW c \in Consumers, StreamsConsumerStep(c)
        PROVE  LeasesStamped'
    <2>1. timestamp' = timestamp
      BY <1>3, ConsumerStepMaps, ConsumerWrites DEF vars, slotVars
    <2>2. ASSUME NEW d \in Consumers, d # c
          PROVE  /\ cpc'[d] = cpc[d] /\ cslot'[d] = cslot[d] /\ cstamp'[d] = cstamp[d]
                 /\ recorded'[d] = recorded[d]
      <3>1. recorded'[d] = recorded[d]
        BY <1>3, <2>2 DEF StreamsConsumerStep, QuietLeaseStep, EnqueueRead, RecordReadDone, LetGo,
                          gpuVars, StreamsTypes
      <3>2. QED
        BY <1>3, <2>2, <3>1, ConsumerStepMaps, ConsumerAlone DEF vars, consumerVars
    <2>3. /\ cpc'[c] = "held" => cstamp'[c] = timestamp[cslot'[c]]
          /\ recorded'[c] => cpc'[c] = "held"
      <3>1. CASE \E query \in Requests \cup {Latest} : Lease(c, query) /\ UNCHANGED gpuVars
        BY <3>1, StartLabels DEF Lease, Goto, ConsumerTypes, gpuVars, LeasesStamped
      <3>2. CASE Check(c) /\ UNCHANGED gpuVars
        BY <3>2 DEF Check, Goto, ConsumerTypes, gpuVars, LeasesStamped
      <3>3. CASE /\ LoadLatest(c) \/ LoadSeq(c) \/ ViewSeq(c) \/ ViewStamp(c) \/ ViewEnd(c)
                    \/ Hold(c) \/ Undo(c)
                 /\ UNCHANGED gpuVars
        <4>1. cpc[c] # "held" /\ cpc'[c] # "held" /\ recorded' = recorded
          BY <3>3 DEF LoadLatest, LoadSeq, ViewSeq, ViewStamp, ViewEnd, Hold, Undo, Retry, Goto,
                      Start, ConsumerTypes, gpuVars
        <4>2. QED
          BY <4>1 DEF LeasesStamped
      <3>4. CASE EnqueueRead(c) \/ RecordReadDone(c)
        BY <3>4 DEF EnqueueRead, RecordReadDone, vars, consumerVars, LeasesStamped
      <3>5. CASE LetGo(c)
        BY <3>5 DEF LetGo, Drop, Goto, ConsumerTypes, StreamsTypes, LeasesStamped
      <3>6. QED
        BY <1>3, <3>1, <3>2, <3>3, <3>4, <3>5 DEF StreamsConsumerStep, QuietLeaseStep, LeaseStep
    <2>4. QED
      BY <2>1, <2>2, <2>3 DEF LeasesStamped
  <1>4. CASE GpuStep \/ UNCHANGED streamsVars
    BY <1>4 DEF GpuStep, WriteStarts, WriteEnds, ReadEnds, streamsVars, vars, slotVars,
                consumerVars, gpuVars, LeasesStamped
  <1>5. QED
    BY <1>1, <1>2, <1>3, <1>4 DEF StreamsNext, StreamsProducerStep

\* All that is true of the ring and of the device behind it, until an acquire throws.
DeviceInv == SafeInv /\ LeasesStamped /\ GpuInv
AllInv == HostInv /\ (~threw => DeviceInv)

LEMMA AllInvInit == StreamsInit => AllInv
  BY GpuInvInit, HostInvInit, SafeInvInit DEF StreamsInit, DeviceInv, AllInv

LEMMA AllInvKept == AllInv /\ [StreamsNext]_streamsVars => AllInv'
  <1> SUFFICES ASSUME AllInv, [StreamsNext]_streamsVars
               PROVE  AllInv'
    OBVIOUS
  <1>1. [Next]_vars
    BY StreamsStepMaps
  <1>2. HostInv'
    BY <1>1, HostInvKept DEF AllInv
  <1>3. ASSUME ~threw'
        PROVE  DeviceInv'
    <2>1. DeviceInv /\ HostInv /\ ~AcquireThrows
      BY <1>1, <1>3, ThrewStays DEF AllInv
    <2>2. SafeInv'
      BY <1>1, <2>1, SafeInvStep DEF DeviceInv
    <2>3. LeasesStamped' /\ GpuInv'
      BY <2>1, LeasesStampedKept, StreamsStep DEF DeviceInv, GpuInv
    <2>4. QED
      BY <2>2, <2>3 DEF DeviceInv
  <1>4. QED
    BY <1>2, <1>3 DEF AllInv

(* With the device behind it, too, a valid read lease and a producer in possession *)
(* never meet on a slot, as long as no acquire has thrown.                          *)
THEOREM StreamsExclude == StreamsSpec => []LeaseExclusion
  <1>1. AllInv => LeaseExclusion
    BY DEF AllInv, DeviceInv, SafeInv, LeaseExclusion
  <1>2. QED
    BY <1>1, AllInvInit, AllInvKept, PTL DEF StreamsSpec

(* A read on the device finds the whole frame of its lease, although the lease is long *)
(* gone: for every depth, either way of reuse, any number of streams, and with writes  *)
(* of abandoned leases between the others.                                             *)
THEOREM ReadsStayIntact == StreamsSpec => []ReadsIntact
  <1>1. ASSUME AllInv
        PROVE  ReadsIntact
    <2> SUFFICES ASSUME ~threw PROVE ReadsIntact
      BY DEF ReadsIntact
    <2> USE DEF AllInv, DeviceInv
    <2>1. ASSUME NEW c \in Consumers, Readable(c), Head(reads[c]).frame # NoTimestamp
          PROVE  memory[Head(reads[c]).slot] = Head(reads[c]).frame
      <3>1. reads[c] \in Seq(ReadType) /\ reads[c] # <<>>
        BY <1>1, <2>1, Elements DEF GpuInv, Readable
      <3>2. Head(reads[c]) = reads[c][1] /\ 1 \in 1 .. Len(reads[c])
        BY <3>1, HeadTailProperties, EmptySeq
      <3>3. reads[c][1].behind = 0
        BY <2>1, <3>2 DEF Readable
      <3>4. QED
        BY <1>1, <2>1, <3>2, <3>3 DEF GpuInv, ReadsOrdered, Lands
    <2>2. QED
      BY <2>1 DEF ReadsIntact
  <1>2. QED
    BY <1>1, AllInvInit, AllInvKept, PTL DEF StreamsSpec

(* Until an acquire throws the streams are well typed, HostSync keeps one write a slot, *)
(* those of abandoned leases apart, and the streams never wait for each other in a      *)
(* circle.                                                                              *)
THEOREM StreamsNeverStuck == StreamsSpec => [](~threw => StreamsInv)
  <1>1. ASSUME AllInv, ~threw
        PROVE  StreamsInv
    <2> USE <1>1 DEF AllInv, DeviceInv, GpuInv
    <2>1. DOMAIN writes = 1 .. Len(writes) /\ \A c \in Consumers : DOMAIN reads[c] = 1 .. Len(reads[c])
      BY Elements, LenProperties DEF StreamsTypes
    <2>2. StreamsTypeOK
      <3>1. \A j \in 1 .. Len(writes) : writes[j] \in WriteType
        BY ElementOfSeq DEF StreamsTypes
      <3>2. ASSUME NEW c \in Consumers
            PROVE  \A i \in 1 .. Len(reads[c]) : reads[c][i] \in ReadType
        BY Elements, ElementOfSeq
      <3>3. QED
        BY <2>1, <3>1, <3>2 DEF StreamsTypeOK, StreamsTypes, WriteType, ReadType
    <2>3. StreamsProgress
      <3>1. ASSUME NEW c \in Consumers, reads[c] # <<>>, Len(writes) = 0 \/ writes[1].behind[c] # 0
            PROVE  Readable(c)
        <4>1. Head(reads[c]) = reads[c][1] /\ 1 \in 1 .. Len(reads[c])
          BY <3>1, Elements, HeadTailProperties, EmptySeq
        <4>2. reads[c][1].behind \in Nat /\ reads[c][1].behind <= Len(writes) /\ Len(writes) \in Nat
          BY <4>1, Elements DEF EventsInQueues
        <4>3. CASE Len(writes) = 0
          BY <3>1, <4>1, <4>2, <4>3 DEF Readable
        <4>4. CASE Len(writes) # 0
          <5>1. 1 \in 1 .. Len(writes) /\ writes[1].behind[c] \in Nat \ {0}
            BY <3>1, <4>2, <4>4, Elements
          <5>2. reads[c][1].behind < 1
            BY <4>1, <5>1 DEF NoCycle
          <5>3. QED
            BY <3>1, <4>1, <4>2, <5>2 DEF Readable
        <4>5. QED
          BY <4>3, <4>4
      <3>2. CASE writes = <<>>
        BY <3>1, <3>2, EmptySeq DEF StreamsProgress
      <3>3. CASE writes # <<>>
        <4>1. Head(writes) = writes[1] /\ 1 \in 1 .. Len(writes)
          BY <3>3, HeadTailProperties, EmptySeq DEF StreamsTypes
        <4>2. ASSUME NEW c \in Consumers, writes[1].behind[c] # 0
              PROVE  reads[c] # <<>>
          <5>1. writes[1].behind[c] \in Nat /\ writes[1].behind[c] <= Len(reads[c])
            BY <4>1, Elements DEF EventsInQueues
          <5>2. QED
            BY <4>2, <5>1, EmptySeq, Elements
        <4>3. QED
          BY <3>1, <3>3, <4>1, <4>2 DEF StreamsProgress
      <3>4. QED
        BY <3>2, <3>3
    <2>4. QED
      BY <2>2, <2>3 DEF StreamsInv
  <1>2. QED
    BY <1>1, AllInvInit, AllInvKept, PTL DEF StreamsSpec
=============================================================================
