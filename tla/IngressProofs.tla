----------------------------- MODULE IngressProofs -----------------------------
(* What goes through a HostIngressRing, proved: the ring with the upload thread      *)
(* behind it, then each of the two sources in front of it, the camera (Spinnaker-     *)
(* Source) over an External ring and a replay (Replay) over a Staged one.             *)
EXTENDS SpinnakerSource, Replay, SequenceTheorems, FiniteSetTheorems, TLAPS

-----------------------------------------------------------------------------
(* HostIngressRing: the Staged ring and the upload thread, for every number of slots: *)
(* a slot has one owner at a time, and a copy that is pending finds its frame.         *)

-----------------------------------------------------------------------------
(* Slots are handed out in a circle: any SlotCount acquisitions in a row are of *)
(* different slots.                                                             *)

LEMMA SlotOf == \A n \in Nat : n % SlotCount \in Slots
  BY SlotCountAssumption DEF Slots

LEMMA Parts ==
  ASSUME NEW n \in Nat
  PROVE  n \div SlotCount \in Int /\ n = SlotCount * (n \div SlotCount) + (n % SlotCount)
  BY SlotCountAssumption

(* A multiple of SlotCount is zero or is out of its reach. *)
LEMMA Multiples ==
  ASSUME NEW q \in Int
  PROVE  ~(0 < SlotCount * q /\ SlotCount * q < SlotCount)
  <1>1. CASE q >= 1
    BY <1>1, SlotCountAssumption, SMTT(30)
  <1>2. CASE q <= 0
    BY <1>2, SlotCountAssumption, SMTT(30)
  <1>3. QED
    BY <1>1, <1>2

LEMMA InARow ==
  ASSUME NEW a \in Nat, NEW b \in Nat, a < b, b - a < SlotCount
  PROVE  a % SlotCount # b % SlotCount
  <1> SUFFICES ASSUME a % SlotCount = b % SlotCount
               PROVE  FALSE
    OBVIOUS
  <1> DEFINE qa == a \div SlotCount
             qb == b \div SlotCount
  <1>1. /\ qa \in Int /\ qb \in Int
        /\ a = SlotCount * qa + (a % SlotCount) /\ b = SlotCount * qb + (b % SlotCount)
    BY Parts
  <1>2. a % SlotCount \in Int
    BY SlotOf DEF Slots
  <1> HIDE DEF qa, qb
  <1>3. b - a = SlotCount * (qb - qa)
    BY <1>1, <1>2, SlotCountAssumption, SMTT(30)
  <1>4. QED
    BY <1>1, <1>3, Multiples

-----------------------------------------------------------------------------
(* The upload thread's side of the ring, which is the same whoever fills it. *)

ReaderSide == UploadStep \/ CopyEnds \/ StopUpload \/ Stop

LEMMA Tails ==
  ASSUME NEW S, NEW q \in Seq(S), q # <<>>
  PROVE  /\ Head(q) = q[1] /\ Head(q) \in S /\ 1 \in DOMAIN q
         /\ Tail(q) \in Seq(S) /\ Len(Tail(q)) = Len(q) - 1
         /\ \A i \in DOMAIN Tail(q) : Tail(q)[i] = q[i + 1] /\ i + 1 \in DOMAIN q
                                      /\ i \in Nat \ {0}
  OBVIOUS

LEMMA Appends ==
  ASSUME NEW S, NEW q \in Seq(S), NEW e \in S
  PROVE  /\ Append(q, e) \in Seq(S) /\ Len(Append(q, e)) = Len(q) + 1
         /\ \A i \in DOMAIN Append(q, e) :
              \/ i \in DOMAIN q /\ Append(q, e)[i] = q[i]
              \/ i = Len(q) + 1 /\ Append(q, e)[i] = e
  OBVIOUS

LEMMA Replaced ==
  ASSUME NEW D, NEW R, NEW f \in [D -> R], NEW d, NEW r \in R
  PROVE  [f EXCEPT ![d] = r] \in [D -> R]
  OBVIOUS

(* The reader's steps keep everything well typed. *)
LEMMA ReaderTypes ==
  ASSUME TypeOK, ReaderSide
  PROVE  TypeOK'
  <1> USE DEF TypeOK
  <1>1. CASE Pop
    <2>1. Head(ready) \in Slots /\ Tail(ready) \in Seq(Slots)
      BY <1>1, Tails DEF Pop
    <2>2. staged' \in [slot : Slots \cup {NoSlot}, frame : Nat]
      BY <1>1, <2>1 DEF Pop, OldestReady
    <2>3. QED
      BY <1>1, <2>1, <2>2 DEF Pop, producerVars, gpuVars
  <1>2. CASE EnqueueCopy
    BY <1>2 DEF EnqueueCopy, ringVars, producerVars
  <1>3. CASE ProcessThrows
    BY <1>3 DEF ProcessThrows, ringVars, producerVars, gpuVars
  <1>4. CASE Record
    <2>1. Len(copies) \in Nat
      OBVIOUS
    <2>2. h2dDone' \in [Slots -> Nat]
      BY <1>4, <2>1, Replaced DEF Record, RecordedNow
    <2>3. QED
      BY <1>4, <2>2 DEF Record, ringVars, producerVars
  <1>5. CASE Strand
    <2>1. stranded' \subseteq Slots \cup {NoSlot} /\ unreleased' \in Nat
      BY <1>5 DEF Strand
    <2>2. QED
      BY <1>5, <2>1 DEF Strand, ringVars, producerVars
  <1>6. CASE Release
    <2>1. state' \in [Slots -> {"Idle", "Committed", "Releasing"}]
      BY <1>6 DEF Release
    <2>2. QED
      BY <1>6, <2>1 DEF Release, producerVars, gpuVars
  <1>7. CASE UploadExit
    BY <1>7 DEF UploadExit, ringVars, producerVars, gpuVars
  <1>8. CASE StopUpload
    BY <1>8 DEF StopUpload, ringVars, producerVars, gpuVars
  <1>9. CASE Stop
    BY <1>9 DEF Stop, uploadVars, producerVars, gpuVars
  <1>10. CASE CopyEnds
    <2>1. Tail(copies) \in Seq([slot : Slots \cup {NoSlot}, frame : Nat])
      BY <1>10, Tails DEF CopyEnds
    <2>2. \A n \in Nat : Nearer(n) \in Nat
      BY DEF Nearer
    <2>3. h2dDone' \in [Slots -> Nat]
      BY <1>10, <2>2 DEF CopyEnds
    <2>4. QED
      BY <1>10, <2>1, <2>3 DEF CopyEnds, ringVars, producerVars, uploadVars
  <1>11. QED
    BY <1>1, <1>2, <1>3, <1>4, <1>5, <1>6, <1>7, <1>8, <1>9, <1>10 DEF ReaderSide, UploadStep

(* The frame in the upload thread's hand stays the one it popped. *)
LEMMA ReaderStaged ==
  ASSUME TypeOK, StagedSound, QueueSound, ReaderSide
  PROVE  StagedSound'
  <1> USE DEF TypeOK, StagedSound
  <1>1. CASE Pop
    <2>1. Head(ready) = ready[1] /\ ready[1] \in Slots /\ 1 \in DOMAIN ready
      BY <1>1, Tails DEF Pop
    <2>2. QED
      BY <1>1, <2>1 DEF Pop, OldestReady, QueueSound
  <1>2. CASE EnqueueCopy
    BY <1>2 DEF EnqueueCopy, ringVars
  <1>3. CASE ProcessThrows
    BY <1>3 DEF ProcessThrows, ringVars
  <1>4. CASE Record
    BY <1>4 DEF Record, ringVars
  <1>5. CASE Strand
    BY <1>5 DEF Strand, ringVars
  <1>6. CASE Release
    BY <1>6 DEF Release
  <1>7. CASE UploadExit
    BY <1>7 DEF UploadExit, ringVars
  <1>8. CASE StopUpload
    BY <1>8 DEF StopUpload, ringVars
  <1>9. CASE Stop
    BY <1>9 DEF Stop, uploadVars
  <1>10. CASE CopyEnds
    BY <1>10 DEF CopyEnds, ringVars, uploadVars
  <1>11. QED
    BY <1>1, <1>2, <1>3, <1>4, <1>5, <1>6, <1>7, <1>8, <1>9, <1>10 DEF ReaderSide, UploadStep

(* The queue loses its head and nothing else happens to it. *)
LEMMA ReaderQueue ==
  ASSUME TypeOK, StagedSound, QueueSound, ReaderSide
  PROVE  QueueSound'
  <1> USE DEF TypeOK, QueueSound, InHand
  <1>1. CASE Pop
    <2>1. /\ Head(ready) = ready[1] /\ 1 \in DOMAIN ready /\ Tail(ready) \in Seq(Slots)
          /\ \A i \in DOMAIN Tail(ready) : Tail(ready)[i] = ready[i + 1] /\ i + 1 \in DOMAIN ready
                                          /\ i \in Nat \ {0}
      BY <1>1, Tails DEF Pop
    <2>2. /\ ready' = Tail(ready) /\ upc' = "staged" /\ staged'.slot = ready[1]
          /\ UNCHANGED <<state, stamp, content>>
      BY <1>1, <2>1 DEF Pop, OldestReady
    <2>3. \A i \in DOMAIN ready' : i \in Nat \ {0} /\ i + 1 # 1
      BY <2>1, <2>2
    <2>4. \A i \in DOMAIN ready' :
            /\ state'[ready'[i]] = "Committed" /\ stamp'[ready'[i]] = content'[ready'[i]]
            /\ ready'[i] # ready[1]
      <3> SUFFICES ASSUME NEW i \in DOMAIN ready'
                   PROVE  /\ state'[ready'[i]] = "Committed" /\ stamp'[ready'[i]] = content'[ready'[i]]
                          /\ ready'[i] # ready[1]
        OBVIOUS
      <3>1. ready'[i] = ready[i + 1] /\ i + 1 \in DOMAIN ready /\ i + 1 # 1
        BY <2>1, <2>2, <2>3
      <3>2. QED
        BY <2>1, <2>2, <3>1
    <2>5. \A i, j \in DOMAIN ready' : ready'[i] = ready'[j] => i = j
      <3> SUFFICES ASSUME NEW i \in DOMAIN ready', NEW j \in DOMAIN ready', ready'[i] = ready'[j]
                   PROVE  i = j
        OBVIOUS
      <3>1. i + 1 = j + 1 /\ i \in Int /\ j \in Int
        BY <2>1, <2>2, <2>3
      <3>2. QED
        BY <3>1
    <2>6. InHand' = {ready[1]}
      BY <2>2
    <2>7. QED
      BY <2>4, <2>5, <2>6
  <1>2. CASE EnqueueCopy
    BY <1>2 DEF EnqueueCopy, ringVars
  <1>3. CASE ProcessThrows
    BY <1>3 DEF ProcessThrows, ringVars
  <1>4. CASE Record
    BY <1>4 DEF Record, ringVars
  <1>5. CASE Strand
    BY <1>5 DEF Strand, ringVars
  <1>6. CASE Release
    <2>1. \A i \in DOMAIN ready : ready[i] \in Slots /\ ready[i] # staged.slot
      BY <1>6 DEF Release
    <2>2. QED
      BY <1>6, <2>1 DEF Release
  <1>7. CASE UploadExit
    BY <1>7 DEF UploadExit, ringVars
  <1>8. CASE StopUpload
    BY <1>8 DEF StopUpload, ringVars
  <1>9. CASE Stop
    BY <1>9 DEF Stop, uploadVars
  <1>10. CASE CopyEnds
    BY <1>10 DEF CopyEnds, ringVars, uploadVars
  <1>11. QED
    BY <1>1, <1>2, <1>3, <1>4, <1>5, <1>6, <1>7, <1>8, <1>9, <1>10 DEF ReaderSide, UploadStep

LEMMA OneCopyMore ==
  ASSUME TypeOK, EnqueueCopy
  PROVE  \A i \in DOMAIN copies' : \/ i \in DOMAIN copies /\ copies'[i] = copies[i]
                                   \/ copies'[i] = staged
  BY Appends DEF TypeOK, EnqueueCopy

(* A pending copy stays covered: an event recorded behind it waits for it, and both *)
(* get nearer together. *)
LEMMA ReaderCovers ==
  ASSUME TypeOK, StagedSound, QueueSound, ReaderSide, NEW s \in Slots, Covered(s)
  PROVE  Covered(s)'
  <1> USE DEF TypeOK, Covered
  <1>1. CASE Pop
    BY <1>1 DEF Pop, gpuVars
  <1>2. CASE EnqueueCopy
    <2>1. /\ copies' = Append(copies, staged) /\ upc' = "enqueued"
          /\ UNCHANGED <<state, content, staged, h2dDone>>
      BY <1>2 DEF EnqueueCopy, ringVars
    <2>2. \A i \in DOMAIN copies' :
            \/ i \in DOMAIN copies /\ copies'[i] = copies[i]
            \/ copies'[i] = staged
      BY <1>2, OneCopyMore
    <2>3. state[staged.slot] = "Committed" /\ content[staged.slot] = staged.frame
      BY <1>2 DEF EnqueueCopy, StagedSound
    <2>4. QED
      BY <2>1, <2>2, <2>3
  <1>3. CASE ProcessThrows
    BY <1>3 DEF ProcessThrows, gpuVars, ringVars
  <1>4. CASE Record
    <2>1. /\ h2dDone' = [h2dDone EXCEPT ![staged.slot] = Len(copies)]
          /\ UNCHANGED <<state, content, staged, copies>>
      BY <1>4 DEF Record, RecordedNow, ringVars
    <2>2. state[staged.slot] = "Committed"
      BY <1>4 DEF Record, StagedSound
    <2>3. \A i \in DOMAIN copies : i <= Len(copies)
      OBVIOUS
    <2>4. CASE staged.slot = s
      BY <2>1, <2>3, <2>4
    <2>5. CASE staged.slot # s
      BY <2>1, <2>5
    <2>6. QED
      BY <2>4, <2>5
  <1>5. CASE Strand
    BY <1>5 DEF Strand, ringVars
  <1>6. CASE Release
    BY <1>6 DEF Release, gpuVars
  <1>7. CASE UploadExit
    BY <1>7 DEF UploadExit, ringVars, gpuVars
  <1>8. CASE StopUpload
    BY <1>8 DEF StopUpload, ringVars, gpuVars
  <1>9. CASE Stop
    BY <1>9 DEF Stop, uploadVars, gpuVars
  <1>10. CASE CopyEnds
    <2>1. /\ copies' = Tail(copies) /\ h2dDone' = [x \in Slots |-> Nearer(h2dDone[x])]
          /\ UNCHANGED <<state, content, upc, staged>>
      BY <1>10 DEF CopyEnds, ringVars, uploadVars
    <2>2. \A i \in DOMAIN copies' :
            copies'[i] = copies[i + 1] /\ i + 1 \in DOMAIN copies /\ i \in Nat \ {0}
      BY <1>10, <2>1, Tails DEF CopyEnds
    <2>3. \A n \in Nat, i \in Nat \ {0} : i + 1 <= n => i <= Nearer(n)
      BY DEF Nearer
    <2>4. h2dDone'[s] = Nearer(h2dDone[s]) /\ h2dDone[s] \in Nat
      BY <2>1
    <2>5. QED
      BY <2>1, <2>2, <2>3, <2>4
  <1>11. QED
    BY <1>1, <1>2, <1>3, <1>4, <1>5, <1>6, <1>7, <1>8, <1>9, <1>10 DEF ReaderSide, UploadStep

LEMMA ReaderCopies ==
  ASSUME TypeOK, StagedSound, ReaderSide, \A i \in DOMAIN copies : copies[i].slot \in Slots
  PROVE  \A i \in DOMAIN copies' : copies'[i].slot \in Slots
  <1> USE DEF TypeOK
  <1>1. CASE EnqueueCopy
    <2>1. \A i \in DOMAIN copies' :
            \/ i \in DOMAIN copies /\ copies'[i] = copies[i]
            \/ copies'[i] = staged
      BY <1>1, OneCopyMore
    <2>2. staged.slot \in Slots
      BY <1>1 DEF EnqueueCopy, StagedSound
    <2>3. QED
      BY <2>1, <2>2
  <1>2. CASE CopyEnds
    <2>1. \A i \in DOMAIN copies' : copies'[i] = copies[i + 1] /\ i + 1 \in DOMAIN copies
      BY <1>2, Tails DEF CopyEnds
    <2>2. QED
      BY <2>1
  <1>3. CASE copies' = copies
    BY <1>3
  <1>4. QED
    BY <1>1, <1>2, <1>3 DEF ReaderSide, UploadStep, Pop, ProcessThrows, Record, Strand, Release,
       UploadExit, StopUpload, Stop, gpuVars

(* What the reader leaves alone, and what it never takes back. *)
LEMMA ReaderLeaves ==
  ASSUME TypeOK, ReaderSide
  PROVE  /\ UNCHANGED <<content, frames, stamp, acquired, committed, producerVars>>
         /\ stranded \subseteq stranded'
         /\ \A s \in Slots : state[s] = "Idle" => state'[s] = "Idle" \/ staged.slot = s
  <1>1. CASE Strand
    <2>1. /\ UNCHANGED <<content, frames, stamp, acquired, committed, producerVars, state>>
          /\ stranded' = stranded \cup {staged.slot}
      BY <1>1 DEF Strand, ringVars
    <2>2. stranded \subseteq stranded'
      BY <2>1 DEF TypeOK
    <2>3. QED
      BY <2>1, <2>2
  <1>2. CASE Release
    BY <1>2 DEF Release, TypeOK, gpuVars
  <1>3. CASE ReaderSide /\ ~Strand /\ ~Release
    <2>1. UNCHANGED <<content, frames, stamp, acquired, committed, producerVars, stranded, state>>
      BY <1>3 DEF ReaderSide, UploadStep, Pop, EnqueueCopy, ProcessThrows, Record, UploadExit, CopyEnds,
         StopUpload, Stop, ringVars, gpuVars
    <2>2. QED
      BY <2>1
  <1>4. QED
    BY <1>1, <1>2, <1>3

-----------------------------------------------------------------------------
(* What the producer of a Staged ring does, when it has one slot at most. *)

LEMMA StagedInits == Init => StagedInv
  <1> SUFFICES ASSUME Init
               PROVE  StagedInv
    OBVIOUS
  <1>1. ready \in Seq(Slots) /\ copies \in Seq([slot : Slots \cup {NoSlot}, frame : Nat])
    BY DEF Init
  <1>2. TypeOK
    BY <1>1 DEF Init, TypeOK
  <1>3. RingOrder
    BY SlotCountAssumption DEF Init, RingOrder, HandedOut, UploadHas
  <1>4. StagedSound /\ QueueSound /\ NoneForgotten
    BY DEF Init, StagedSound, QueueSound, NoneForgotten
  <1>5. DOMAIN copies = {}
    BY DEF Init
  <1>6. QED
    BY <1>2, <1>3, <1>4, <1>5 DEF StagedInv, Covered

LEMMA ProducerTypes ==
  ASSUME TypeOK, ProducerStep, ppc = "sync" => pslot \in Slots, committed <= acquired
  PROVE  TypeOK'
  <1> USE DEF TypeOK
  <1>1. CASE Acquire
    <2>1. pslot' \in Slots /\ acquired' \in Nat /\ ppc' = "sync"
      BY <1>1, SlotOf DEF Acquire
    <2>2. QED
      BY <1>1, <2>1 DEF Acquire, uploadVars, gpuVars
  <1>2. CASE AcquireStopped
    BY <1>2 DEF AcquireStopped, ringVars, uploadVars, gpuVars
  <1>3. CASE Fill
    <2>1. content' \in [Slots -> Nat]
      BY <1>3 DEF Fill
    <2>2. frames' \in Nat /\ owned' \in SUBSET Slots
      BY <1>3 DEF Fill
    <2>3. QED
      BY <1>3, <2>1, <2>2 DEF Fill, ringVars, uploadVars, gpuVars
  <1>4. ASSUME NEW s \in Slots, Commit(s)
        PROVE  TypeOK'
    <2>1. /\ stamp' \in [Slots -> Nat] /\ state' \in [Slots -> {"Idle", "Committed", "Releasing"}]
          /\ committed' \in Nat
      BY <1>4 DEF Commit, Enqueue
    <2>2. ready' \in Seq(Slots)
      BY <1>4, Appends DEF Commit, Enqueue
    <2>3. QED
      BY <1>4, <2>1, <2>2 DEF Commit, uploadVars, gpuVars
  <1>5. ASSUME NEW s \in Slots, Abandon(s)
        PROVE  TypeOK'
    <2> HIDE DEF TypeOK
    <2>1. acquired # committed /\ acquired' = acquired - 1 /\ owned' = owned \ {s}
      BY <1>5 DEF Abandon, MostRecent
    <2>2. acquired \in Nat /\ committed \in Nat /\ owned \in SUBSET Slots
      BY DEF TypeOK
    <2>3. acquired' \in Nat /\ owned' \in SUBSET Slots
      BY <2>1, <2>2
    <2>4. QED
      BY <1>5, <2>3 DEF Abandon, uploadVars, gpuVars, TypeOK
  <1>6. QED
    BY <1>1, <1>2, <1>3, <1>4, <1>5 DEF ProducerStep

(* The slot the producer has, or is about to have, is nobody else's: no queued slot, *)
(* nor the one in the upload thread's hand, is less than a circle behind it.         *)
LEMMA NobodyElses ==
  ASSUME TypeOK, RingOrder, HandedOut = 1
  PROVE  committed % SlotCount \in Slots \ (Queued \cup InHand)
  <1>1. committed % SlotCount \in Slots
    BY SlotOf DEF TypeOK
  <1>2. /\ committed \in Nat /\ released \in Nat /\ Len(ready) \in Nat /\ UploadHas \in {0, 1}
        /\ DOMAIN ready = 1 .. Len(ready)
    BY DEF UploadHas, TypeOK
  <1>3. committed < released + SlotCount /\ released + Len(ready) + UploadHas <= committed
    BY <1>2, SlotCountAssumption DEF RingOrder
  <1>4. ASSUME NEW k \in DOMAIN ready
        PROVE  ready[k] # committed % SlotCount
    <2> DEFINE n == committed - Len(ready) + k - 1
    <2>1. ready[k] = n % SlotCount
      BY DEF RingOrder
    <2>2. k \in Int /\ 1 <= k /\ k <= Len(ready)
      BY <1>2
    <2>3. n \in Nat /\ n < committed /\ committed - n < SlotCount
      BY <2>2, <1>2, <1>3, SlotCountAssumption
    <2> HIDE DEF n
    <2>4. QED
      BY <2>1, <2>3, <1>2, InARow
  <1>5. ASSUME UploadHas = 1
        PROVE  staged.slot # committed % SlotCount
    <2> DEFINE n == committed - Len(ready) - 1
    <2>1. staged.slot = n % SlotCount
      BY <1>5 DEF RingOrder
    <2>2. n \in Nat /\ n < committed /\ committed - n < SlotCount
      BY <1>5, <1>2, <1>3, SlotCountAssumption
    <2> HIDE DEF n
    <2>3. QED
      BY <2>1, <2>2, <1>2, InARow
  <1>6. QED
    BY <1>1, <1>4, <1>5 DEF Queued, InHand, UploadHas

(* So a slot that is filled has no copy pending. *)
LEMMA FilledAtRest ==
  ASSUME StagedInv, ppc = "sync", CopyDone(pslot), pslot \notin stranded
  PROVE  \A i \in DOMAIN copies : copies[i].slot # pslot
  <1>1. pslot \in Slots \ (Queued \cup InHand)
    BY NobodyElses DEF StagedInv, RingOrder, HandedOut
  <1>2. state[pslot] # "Committed"
    BY <1>1 DEF StagedInv, NoneForgotten
  <1>3. state[pslot] = "Idle" \/ state[pslot] = "Releasing"
    BY <1>1, <1>2 DEF StagedInv, TypeOK
  <1>4. Covered(pslot)
    BY <1>1 DEF StagedInv
  <1>5. DOMAIN copies \subseteq Nat \ {0}
    BY DEF StagedInv, TypeOK
  <1>6. QED
    BY <1>3, <1>4, <1>5 DEF Covered, CopyDone

LEMMA ReaderOrder ==
  ASSUME TypeOK, RingOrder, ReaderSide
  PROVE  RingOrder'
  <1>1. /\ UNCHANGED <<acquired, committed, ppc, pslot, owned>>
    BY ReaderLeaves DEF producerVars
  <1>2. HandedOut' = HandedOut
    BY <1>1 DEF HandedOut
  <1>3. /\ committed \in Nat /\ acquired \in Nat /\ released \in Nat /\ Len(ready) \in Nat
    BY DEF TypeOK
  <1>4. CASE Pop
    <2>1. /\ Head(ready) = ready[1] /\ 1 \in DOMAIN ready /\ Len(Tail(ready)) = Len(ready) - 1
          /\ \A k \in DOMAIN Tail(ready) : Tail(ready)[k] = ready[k + 1] /\ k + 1 \in DOMAIN ready
                                          /\ k \in Nat \ {0}
      BY <1>4, Tails DEF Pop, TypeOK
    <2>2. /\ ready' = Tail(ready) /\ staged'.slot = ready[1] /\ UploadHas = 0 /\ UploadHas' = 1
          /\ released' = released
      BY <1>4, <2>1 DEF Pop, OldestReady, UploadHas
    <2>3. Len(ready') = Len(ready) - 1
      BY <2>1, <2>2
    <2>4. ASSUME NEW k \in DOMAIN ready'
          PROVE  ready'[k] = (committed' - Len(ready') + k - 1) % SlotCount
      <3>1. ready'[k] = ready[k + 1] /\ k + 1 \in DOMAIN ready /\ k \in Nat
        BY <2>1, <2>2
      <3>2. ready[k + 1] = (committed - Len(ready) + (k + 1) - 1) % SlotCount
        BY <3>1 DEF RingOrder
      <3>3. committed - Len(ready) + (k + 1) - 1 = committed' - Len(ready') + k - 1
        BY <3>1, <2>3, <1>1, <1>3
      <3>4. QED
        BY <3>1, <3>2, <3>3
    <2>5. staged'.slot = (committed' - Len(ready') - 1) % SlotCount
      <3>1. ready[1] = (committed - Len(ready) + 1 - 1) % SlotCount
        BY <2>1 DEF RingOrder
      <3>2. committed - Len(ready) + 1 - 1 = committed' - Len(ready') - 1
        BY <2>3, <1>1, <1>3
      <3>3. QED
        BY <2>2, <3>1, <3>2
    <2>6. released' + Len(ready') + UploadHas' <= committed'
      BY <2>2, <2>3, <1>1, <1>3 DEF RingOrder
    <2>7. QED
      BY <1>1, <1>2, <2>2, <2>4, <2>5, <2>6 DEF RingOrder
  <1>5. CASE Release \/ Strand \/ UploadExit
    <2>1. /\ ready' = ready /\ staged' = staged /\ UploadHas' = 0
          /\ released' = released \/ (released' = released + 1 /\ UploadHas = 1)
      BY <1>5 DEF Release, Strand, UploadExit, UploadHas, ringVars
    <2>2. UploadHas \in {0, 1}
      BY DEF UploadHas
    <2>3. released' + Len(ready') + UploadHas' <= committed' /\ acquired' - released' <= SlotCount
      BY <2>1, <2>2, <1>1, <1>3, SlotCountAssumption DEF RingOrder
    <2>4. QED
      BY <1>1, <1>2, <2>1, <2>3 DEF RingOrder
  <1>6. CASE EnqueueCopy \/ ProcessThrows \/ Record \/ CopyEnds \/ StopUpload \/ Stop
    <2>1. UNCHANGED <<ready, released, staged>> /\ UploadHas' = UploadHas
      BY <1>6 DEF EnqueueCopy, ProcessThrows, Record, CopyEnds, StopUpload, Stop, UploadHas, ringVars,
         uploadVars
    <2>2. QED
      BY <1>1, <1>2, <2>1 DEF RingOrder
  <1>7. QED
    BY <1>4, <1>5, <1>6 DEF ReaderSide, UploadStep

LEMMA ReaderForgets ==
  ASSUME TypeOK, StagedSound, NoneForgotten, ReaderSide
  PROVE  NoneForgotten'
  <1> USE DEF NoneForgotten
  <1>1. CASE Pop
    <2>1. /\ Head(ready) = ready[1] /\ Len(Tail(ready)) = Len(ready) - 1
          /\ \A k \in 1 .. Len(ready) - 1 : Tail(ready)[k] = ready[k + 1]
          /\ Tail(ready) \in Seq(Slots) /\ DOMAIN ready = 1 .. Len(ready) /\ Len(ready) \in Nat
          /\ DOMAIN Tail(ready) = 1 .. Len(ready) - 1
      BY <1>1 DEF Pop, TypeOK
    <2>2. /\ ready' = Tail(ready) /\ InHand' = {ready[1]} /\ InHand = {} /\ UNCHANGED <<state, stranded, unreleased>>
      BY <1>1, <2>1 DEF Pop, OldestReady, InHand, gpuVars
    <2>3. \A i \in DOMAIN ready : i = 1 \/ (i - 1 \in DOMAIN ready' /\ ready'[i - 1] = ready[i])
      BY <2>1, <2>2
    <2>4. Queued \subseteq Queued' \cup InHand'
      BY <2>2, <2>3 DEF Queued
    <2>5. QED
      BY <2>2, <2>4
  <1>2. CASE Release
    <2>1. /\ state' = [state EXCEPT ![staged.slot] = "Releasing"] /\ InHand = {staged.slot}
          /\ UNCHANGED <<ready, stranded, unreleased>>
      BY <1>2 DEF Release, InHand, gpuVars
    <2>2. Queued' = Queued
      BY <2>1 DEF Queued
    <2>3. QED
      BY <2>1, <2>2 DEF TypeOK
  <1>3. CASE Strand
    <2>1. /\ stranded' = stranded \cup {staged.slot} /\ InHand = {staged.slot}
          /\ UNCHANGED <<ready, state>>
      BY <1>3 DEF Strand, InHand, ringVars
    <2>2. Queued' = Queued
      BY <2>1 DEF Queued
    <2>3. QED
      BY <2>1, <2>2 DEF TypeOK
  <1>4. CASE ReaderSide /\ ~Pop /\ ~Release /\ ~Strand
    <2>1. UNCHANGED <<ready, state, stranded, unreleased>> /\ InHand' = InHand
      BY <1>4 DEF ReaderSide, UploadStep, EnqueueCopy, ProcessThrows, Record, UploadExit, CopyEnds,
         StopUpload, Stop, ringVars, uploadVars, gpuVars, InHand
    <2>2. Queued' = Queued
      BY <2>1 DEF Queued
    <2>3. QED
      BY <2>1, <2>2
  <1>5. QED
    BY <1>1, <1>2, <1>3, <1>4

(* The reader's side keeps the ring as it is. *)
LEMMA ReaderKeeps ==
  ASSUME StagedInv, ReaderSide
  PROVE  StagedInv'
  <1>1. \A s \in Slots \ stranded' : Covered(s)'
    BY ReaderLeaves, ReaderCovers DEF StagedInv
  <1>2. QED
    BY <1>1, ReaderTypes, ReaderStaged, ReaderQueue, ReaderCopies, ReaderOrder, ReaderForgets
       DEF StagedInv

-----------------------------------------------------------------------------
(* The producer's steps, one lemma each. *)

LEMMA OneAtATime ==
  ASSUME MaxOutstanding <= 1, TypeOK, RingOrder, Cardinality(owned) < MaxOutstanding
  PROVE  owned = {}
  <1> SUFFICES ASSUME owned # {}
               PROVE  FALSE
    OBVIOUS
  <1>1. owned = {committed % SlotCount}
    BY DEF RingOrder
  <1>2. Cardinality(owned) = 1
    BY <1>1, FS_Singleton
  <1>3. QED
    BY <1>2, MaxOutstandingAssumption

(* The conjuncts that only speak of the slots' other owners. *)
LEMMA OthersUndisturbed ==
  ASSUME StagedInv,
         UNCHANGED <<state, ready, stamp, content, upc, staged, copies, h2dDone, stranded, unreleased>>
  PROVE  /\ StagedSound' /\ QueueSound' /\ NoneForgotten'
         /\ \A i \in DOMAIN copies' : copies'[i].slot \in Slots
         /\ \A s \in Slots \ stranded' : Covered(s)'
  BY DEF StagedInv, StagedSound, QueueSound, NoneForgotten, Covered, Queued, InHand

LEMMA Acquired ==
  ASSUME MaxOutstanding <= 1, StagedInv, Acquire
  PROVE  RingOrder'
  <1>1. owned = {} /\ ppc = "idle"
    BY OneAtATime DEF StagedInv, Acquire
  <1>2. acquired = committed /\ HandedOut' = 1
    BY <1>1 DEF StagedInv, TypeOK, RingOrder, HandedOut, Acquire
  <1>3. /\ acquired' = acquired + 1 /\ pslot' = acquired % SlotCount /\ owned' = {}
        /\ acquired - released < SlotCount
        /\ UNCHANGED <<committed, ready, released, upc, staged>>
    BY <1>1 DEF Acquire, uploadVars
  <1>4. UploadHas' = UploadHas
    BY <1>3 DEF UploadHas
  <1>5. acquired \in Nat /\ released \in Nat /\ committed \in Nat
    BY DEF StagedInv, TypeOK
  <1>6. acquired' - released' <= SlotCount /\ acquired' = committed' + HandedOut'
    BY <1>2, <1>3, <1>5, SlotCountAssumption
  <1>7. QED
    BY <1>2, <1>3, <1>4, <1>6 DEF StagedInv, RingOrder

LEMMA FilledOrder ==
  ASSUME StagedInv, Fill
  PROVE  RingOrder'
  <1>1. /\ ppc = "sync" /\ owned = {} /\ pslot = committed % SlotCount
        /\ owned' = {committed % SlotCount} /\ ppc' = "idle"
    BY DEF StagedInv, RingOrder, Fill
  <1>2. UNCHANGED <<acquired, committed, released, ready, upc, staged>>
    BY DEF Fill, ringVars, uploadVars
  <1>3. HandedOut' = HandedOut /\ UploadHas' = UploadHas
    BY <1>1, <1>2 DEF HandedOut, UploadHas
  <1>4. QED
    BY <1>1, <1>2, <1>3 DEF StagedInv, RingOrder

(* A new frame in a slot nobody else has, with no copy of it pending. *)
LEMMA FilledOthers ==
  ASSUME StagedInv, Fill
  PROVE  /\ StagedSound' /\ QueueSound' /\ NoneForgotten'
         /\ \A i \in DOMAIN copies' : copies'[i].slot \in Slots
         /\ \A s \in Slots \ stranded' : Covered(s)'
  <1>1. pslot \in Slots \ (Queued \cup InHand)
    BY NobodyElses DEF StagedInv, RingOrder, HandedOut, Fill
  <1>2. /\ content' = [content EXCEPT ![pslot] = frames + 1]
        /\ UNCHANGED <<state, ready, stamp, upc, staged, copies, h2dDone, stranded, unreleased>>
    BY DEF Fill, ringVars, uploadVars, gpuVars
  <1>3. \A s \in Slots : s # pslot => content'[s] = content[s]
    BY <1>2 DEF StagedInv, TypeOK
  <1>4. StagedSound'
    BY <1>1, <1>2, <1>3 DEF StagedInv, StagedSound, InHand
  <1>5. QueueSound'
    <2>1. \A i \in DOMAIN ready : ready[i] \in Slots /\ ready[i] # pslot
      BY <1>1 DEF StagedInv, TypeOK, Queued
    <2>2. QED
      BY <1>2, <1>3, <2>1 DEF StagedInv, QueueSound, InHand
  <1>6. NoneForgotten' /\ \A i \in DOMAIN copies' : copies'[i].slot \in Slots
    BY <1>2 DEF StagedInv, NoneForgotten, Queued, InHand
  <1>7. ASSUME NEW s \in Slots \ stranded'
        PROVE  Covered(s)'
    <2>1. Covered(s)
      BY <1>2, <1>7 DEF StagedInv
    <2>2. CASE s # pslot
      BY <1>2, <1>3, <2>1, <2>2 DEF Covered
    <2>3. CASE s = pslot
      <3>1. \A i \in DOMAIN copies : copies[i].slot # s
        BY <1>2, <1>7, <2>3, FilledAtRest DEF Fill
      <3>2. QED
        BY <1>2, <3>1 DEF Covered
    <2>4. QED
      BY <2>2, <2>3
  <1>8. QED
    BY <1>4, <1>5, <1>6, <1>7

(* Which slot a call of commit or abandon may name. *)
LEMMA Named ==
  ASSUME StagedInv, NEW s \in Slots, ppc = "idle", MostRecent(s)
  PROVE  s = committed % SlotCount /\ owned = {s} /\ HandedOut = 1
  <1>1. acquired # committed /\ s = (acquired - 1) % SlotCount
    BY DEF MostRecent
  <1>2. acquired = committed + HandedOut /\ HandedOut \in {0, 1}
    BY DEF StagedInv, RingOrder, HandedOut
  <1>3. acquired - 1 = committed /\ HandedOut = 1
    BY <1>1, <1>2 DEF StagedInv, TypeOK
  <1>4. s = committed % SlotCount
    BY <1>1, <1>3
  <1>5. QED
    <2>1. owned # {} /\ owned \subseteq {committed % SlotCount}
      BY <1>3 DEF HandedOut, StagedInv, RingOrder
    <2> DEFINE c == committed % SlotCount
    <2>2. owned # {} /\ owned \subseteq {c} /\ s = c
      BY <2>1, <1>4
    <2> HIDE DEF c
    <2>3. owned = {s}
      BY <2>2
    <2>4. QED
      BY <2>3, <1>3, <1>4

LEMMA CommittedOrder ==
  ASSUME StagedInv, NEW s \in Slots, Commit(s)
  PROVE  RingOrder'
  <1>1. s = committed % SlotCount /\ owned = {s} /\ HandedOut = 1
    BY Named DEF Commit
  <1>2. /\ ready' = Append(ready, s) /\ committed' = committed + 1 /\ owned' = {} /\ ppc = "idle"
        /\ UNCHANGED <<acquired, released, ppc, upc, staged>>
    BY <1>1 DEF Commit, Enqueue, uploadVars
  <1>3. HandedOut' = 0 /\ UploadHas' = UploadHas /\ UploadHas \in {0, 1}
    BY <1>2 DEF HandedOut, UploadHas
  <1>4. /\ acquired \in Nat /\ committed \in Nat /\ released \in Nat /\ Len(ready) \in Nat
        /\ ready \in Seq(Slots)
    BY DEF StagedInv, TypeOK
  <1>5. /\ Len(ready') = Len(ready) + 1
        /\ \A k \in DOMAIN ready' : \/ k \in DOMAIN ready /\ ready'[k] = ready[k]
                                    \/ k = Len(ready) + 1 /\ ready'[k] = s
    <2>1. ready' = Append(ready, s)
      BY <1>2
    <2>2. /\ Len(ready') = Len(ready) + 1 /\ DOMAIN ready' = 1 .. Len(ready) + 1
          /\ \A k \in 1 .. Len(ready) + 1 : ready'[k] = IF k <= Len(ready) THEN ready[k] ELSE s
      BY <1>4, <2>1
    <2>3. DOMAIN ready = 1 .. Len(ready)
      BY <1>4
    <2>4. ASSUME NEW k \in DOMAIN ready'
          PROVE  \/ k \in DOMAIN ready /\ ready'[k] = ready[k]
                 \/ k = Len(ready) + 1 /\ ready'[k] = s
      <3>1. k \in Int /\ 1 <= k /\ (k <= Len(ready) \/ k = Len(ready) + 1)
        BY <1>4, <2>2
      <3>2. QED
        BY <1>4, <2>2, <2>3, <3>1
    <2>5. QED
      BY <2>2, <2>4
  <1>6. acquired = committed + 1 /\ released + Len(ready) + UploadHas <= committed
        /\ acquired - released <= SlotCount
    BY <1>1 DEF StagedInv, RingOrder
  <1>7. /\ acquired' = committed' + HandedOut' /\ acquired' - released' <= SlotCount
        /\ released' + Len(ready') + UploadHas' <= committed'
    BY <1>2, <1>3, <1>4, <1>5, <1>6
  <1>8. ASSUME NEW k \in DOMAIN ready'
        PROVE  ready'[k] = (committed' - Len(ready') + k - 1) % SlotCount
    <2>1. CASE k \in DOMAIN ready /\ ready'[k] = ready[k]
      <3>1. ready[k] = (committed - Len(ready) + k - 1) % SlotCount
        BY <2>1 DEF StagedInv, RingOrder
      <3>2. k \in Int
        BY <1>4, <2>1
      <3>3. committed - Len(ready) + k - 1 = committed' - Len(ready') + k - 1
        BY <1>2, <1>4, <1>5, <3>2
      <3>4. QED
        BY <2>1, <3>1, <3>3
    <2>2. CASE k = Len(ready) + 1 /\ ready'[k] = s
      <3>1. committed' - Len(ready') + k - 1 = committed
        BY <1>2, <1>4, <1>5, <2>2
      <3>2. QED
        BY <1>1, <2>2, <3>1
    <2>3. QED
      BY <1>5, <2>1, <2>2
  <1>9. ASSUME UploadHas' = 1
        PROVE  staged'.slot = (committed' - Len(ready') - 1) % SlotCount
    <2>1. staged.slot = (committed - Len(ready) - 1) % SlotCount
      BY <1>3, <1>9 DEF StagedInv, RingOrder
    <2>2. committed - Len(ready) - 1 = committed' - Len(ready') - 1
      BY <1>2, <1>4, <1>5
    <2>3. QED
      BY <1>2, <2>1, <2>2
  <1>10. QED
    BY <1>2, <1>7, <1>8, <1>9 DEF RingOrder

LEMMA CommittedOthers ==
  ASSUME StagedInv, NEW s \in Slots, Commit(s)
  PROVE  /\ StagedSound' /\ QueueSound' /\ NoneForgotten'
         /\ \A i \in DOMAIN copies' : copies'[i].slot \in Slots
         /\ \A t \in Slots \ stranded' : Covered(t)'
  <1>1. s \in Slots \ (Queued \cup InHand)
    BY Named, NobodyElses DEF Commit, StagedInv
  <1>2. /\ stamp' = [stamp EXCEPT ![s] = content[s]] /\ state' = [state EXCEPT ![s] = "Committed"]
        /\ ready' = Append(ready, s)
        /\ UNCHANGED <<content, upc, staged, copies, h2dDone, stranded, unreleased>>
    BY DEF Commit, Enqueue, uploadVars, gpuVars
  <1>3. /\ state'[s] = "Committed" /\ stamp'[s] = content[s]
        /\ \A t \in Slots : t # s => state'[t] = state[t] /\ stamp'[t] = stamp[t]
    BY <1>2 DEF StagedInv, TypeOK
  <1>4. /\ Len(ready') = Len(ready) + 1 /\ DOMAIN ready' = 1 .. Len(ready) + 1 /\ Len(ready) \in Nat
        /\ DOMAIN ready = 1 .. Len(ready) /\ ready'[Len(ready) + 1] = s
        /\ \A k \in DOMAIN ready : ready'[k] = ready[k] /\ ready[k] \in Slots
    <2>1. ready \in Seq(Slots)
      BY DEF StagedInv, TypeOK
    <2>2. QED
      BY <1>2, <2>1
  <1>5. \A k \in DOMAIN ready' : k \in DOMAIN ready \/ k = Len(ready) + 1
    BY <1>4
  <1>6. StagedSound' /\ InHand' = InHand
    BY <1>1, <1>2, <1>3 DEF StagedInv, StagedSound, InHand
  <1>7. \A k \in DOMAIN ready : ready[k] # s
    BY <1>1 DEF Queued
  <1>8. QueueSound'
    <2>1. \A k \in DOMAIN ready' :
            /\ state'[ready'[k]] = "Committed" /\ stamp'[ready'[k]] = content'[ready'[k]]
            /\ ready'[k] \notin InHand'
      BY <1>1, <1>2, <1>3, <1>4, <1>5, <1>6, <1>7 DEF StagedInv, QueueSound
    <2>2. \A k, l \in DOMAIN ready' : ready'[k] = ready'[l] => k = l
      BY <1>4, <1>5, <1>7 DEF StagedInv, QueueSound
    <2>3. QED
      BY <2>1, <2>2 DEF QueueSound
  <1>9. Queued \cup {s} \subseteq Queued'
    BY <1>4 DEF Queued
  <1>10. NoneForgotten'
    BY <1>2, <1>3, <1>6, <1>9 DEF StagedInv, NoneForgotten
  <1>11. ASSUME NEW t \in Slots \ stranded'
         PROVE  Covered(t)'
    <2>1. Covered(t)
      BY <1>2, <1>11 DEF StagedInv
    <2>2. CASE t # s
      BY <1>2, <1>3, <2>1, <2>2 DEF Covered
    <2>3. CASE t = s
      <3>1. ~(upc = "recorded" /\ staged.slot = s)
        BY <1>1 DEF InHand
      <3>2. QED
        BY <1>2, <1>3, <2>1, <2>3, <3>1 DEF Covered
    <2>4. QED
      BY <2>2, <2>3
  <1>12. QED
    BY <1>2, <1>6, <1>8, <1>10, <1>11 DEF StagedInv

LEMMA AbandonedOrder ==
  ASSUME StagedInv, NEW s \in Slots, Abandon(s)
  PROVE  RingOrder'
  <1>1. s = committed % SlotCount /\ owned = {s} /\ HandedOut = 1
    BY Named DEF Abandon
  <1>2. /\ acquired' = acquired - 1 /\ owned' = {} /\ ppc = "idle"
        /\ UNCHANGED <<committed, released, ready, ppc, upc, staged>>
    BY <1>1 DEF Abandon, uploadVars
  <1>3. HandedOut' = 0 /\ UploadHas' = UploadHas
    BY <1>2 DEF HandedOut, UploadHas
  <1>4. acquired \in Nat /\ committed \in Nat /\ released \in Nat
    BY DEF StagedInv, TypeOK
  <1>5. acquired = committed + 1 /\ acquired - released <= SlotCount
    BY <1>1 DEF StagedInv, RingOrder
  <1>6. acquired' = committed' + HandedOut' /\ acquired' - released' <= SlotCount
    BY <1>2, <1>3, <1>4, <1>5, SlotCountAssumption
  <1>7. QED
    BY <1>2, <1>3, <1>6 DEF StagedInv, RingOrder

LEMMA ProducerKeeps ==
  ASSUME MaxOutstanding <= 1, StagedInv, ProducerStep
  PROVE  StagedInv'
  <1>1. TypeOK'
    <2>1. (ppc = "sync" => pslot \in Slots) /\ committed <= acquired
      BY SlotOf DEF StagedInv, TypeOK, RingOrder, HandedOut
    <2>2. QED
      BY <2>1, ProducerTypes DEF StagedInv
  <1>2. CASE Acquire
    <2>1. UNCHANGED <<state, ready, stamp, content, upc, staged, copies, h2dDone, stranded, unreleased>>
      BY <1>2 DEF Acquire, uploadVars, gpuVars
    <2>2. QED
      BY <1>1, <1>2, <2>1, Acquired, OthersUndisturbed DEF StagedInv
  <1>3. CASE AcquireStopped
    <2>1. /\ UNCHANGED <<state, ready, stamp, content, upc, staged, copies, h2dDone, stranded, unreleased>>
          /\ UNCHANGED <<acquired, committed, released, pslot, owned>>
          /\ ppc = "idle" /\ ppc' = "exited"
      BY <1>3 DEF AcquireStopped, ringVars, uploadVars, gpuVars
    <2>2. HandedOut' = HandedOut /\ UploadHas' = UploadHas
      BY <2>1 DEF HandedOut, UploadHas
    <2>3. RingOrder'
      BY <2>1, <2>2 DEF StagedInv, RingOrder
    <2>4. QED
      BY <1>1, <2>1, <2>3, OthersUndisturbed DEF StagedInv
  <1>4. CASE Fill
    BY <1>1, <1>4, FilledOrder, FilledOthers DEF StagedInv
  <1>5. ASSUME NEW s \in Slots, Commit(s)
        PROVE  StagedInv'
    BY <1>1, <1>5, CommittedOrder, CommittedOthers DEF StagedInv
  <1>6. ASSUME NEW s \in Slots, Abandon(s)
        PROVE  StagedInv'
    <2>1. UNCHANGED <<state, ready, stamp, content, upc, staged, copies, h2dDone, stranded, unreleased>>
      BY <1>6 DEF Abandon, uploadVars, gpuVars
    <2>2. QED
      BY <1>1, <1>6, <2>1, AbandonedOrder, OthersUndisturbed DEF StagedInv
  <1>7. QED
    BY <1>2, <1>3, <1>4, <1>5, <1>6 DEF ProducerStep

LEMMA StagedSteps ==
  ASSUME MaxOutstanding <= 1, StagedInv, [Next]_vars
  PROVE  StagedInv'
  <1>1. CASE ProducerStep
    BY <1>1, ProducerKeeps
  <1>2. CASE ReaderSide
    BY <1>2, ReaderKeeps
  <1>3. CASE UNCHANGED vars
    <2>1. /\ UNCHANGED <<state, ready, stamp, content, upc, staged, copies, h2dDone, stranded, unreleased>>
          /\ UNCHANGED <<acquired, committed, released, running, frames, ppc, pslot, owned, last, stopAsked>>
      BY <1>3 DEF vars, ringVars, producerVars, uploadVars, gpuVars
    <2>2. TypeOK'
      BY <2>1 DEF StagedInv, TypeOK
    <2>3. HandedOut' = HandedOut /\ UploadHas' = UploadHas
      BY <2>1 DEF HandedOut, UploadHas
    <2>4. RingOrder'
      BY <2>1, <2>3 DEF StagedInv, RingOrder
    <2>5. QED
      BY <2>1, <2>2, <2>4, OthersUndisturbed DEF StagedInv
  <1>4. QED
    BY <1>1, <1>2, <1>3 DEF Next, ReaderSide

LEMMA StagedIntact == StagedInv => UploadIntact
  BY DEF StagedInv, Covered, UploadIntact

(* The invariant of the Staged ring, for every number of slots, whatever fails: the *)
(* producer has one slot at most, the counters and the remainders say which, and    *)
(* every queued, staged or pending frame is still in its slot. *)
THEOREM StagedRingKeeps ==
  ASSUME MaxOutstanding <= 1
  PROVE  Spec => []StagedInv
  <1>1. Init => StagedInv
    BY StagedInits
  <1>2. StagedInv /\ [Next]_vars => StagedInv'
    BY StagedSteps
  <1>3. QED
    BY <1>1, <1>2, PTL DEF Spec

(* The promise the ring exists for: a copy that is pending on the device finds in *)
(* its pinned slot the frame it was enqueued for. *)
THEOREM StagedUploadsIntact ==
  ASSUME MaxOutstanding <= 1
  PROVE  Spec => []UploadIntact
  BY StagedRingKeeps, StagedIntact, PTL

-----------------------------------------------------------------------------
(* What an External ring keeps, as long as nobody writes into a slot that is not at *)
(* rest: one lemma for each thing a frame source does to it.                        *)

ExternalSound == TypeOK /\ CopiesCovered /\ StagedSound /\ QueueSound

LEMMA ExternalInits == Init => ExternalSound /\ \A s \in Slots : state[s] = "Idle"
  <1> SUFFICES ASSUME Init
               PROVE  ExternalSound /\ \A s \in Slots : state[s] = "Idle"
    OBVIOUS
  <1>1. StagedInv /\ DOMAIN copies = {}
    BY StagedInits DEF Init
  <1>2. QED
    BY <1>1 DEF StagedInv, ExternalSound, CopiesCovered, Covered, Init

LEMMA ExternalIntact == ExternalSound => UploadIntact
  BY DEF ExternalSound, CopiesCovered, Covered, UploadIntact

LEMMA ReaderExternal ==
  ASSUME ExternalSound, ReaderSide
  PROVE  /\ ExternalSound'
         /\ \A s \in Slots : state[s] = "Idle" => state'[s] = "Idle"
  <1>1. \A s \in Slots : Covered(s)'
    BY ReaderCovers DEF ExternalSound, CopiesCovered
  <1>2. ExternalSound'
    BY <1>1, ReaderTypes, ReaderStaged, ReaderQueue, ReaderCopies DEF ExternalSound, CopiesCovered
  <1>3. CASE Release
    <2>1. state[staged.slot] = "Committed" /\ state' = [state EXCEPT ![staged.slot] = "Releasing"]
      BY <1>3 DEF Release, ExternalSound, StagedSound
    <2>2. QED
      BY <1>2, <2>1 DEF ExternalSound, TypeOK
  <1>4. CASE state' = state
    BY <1>2, <1>4
  <1>5. QED
    BY <1>3, <1>4 DEF ReaderSide, UploadStep, Pop, EnqueueCopy, ProcessThrows, Record, Strand,
       UploadExit, CopyEnds, StopUpload, Stop, ringVars

(* A slot at rest is neither queued nor in hand, and no copy of it is pending. *)
LEMMA AtRest ==
  ASSUME ExternalSound, NEW s \in Slots, state[s] = "Idle"
  PROVE  /\ \A i \in DOMAIN ready : ready[i] # s
         /\ s \notin InHand
         /\ \A i \in DOMAIN copies : copies[i].slot # s
  BY DEF ExternalSound, CopiesCovered, Covered, StagedSound, QueueSound, InHand

(* A frame is written into a slot at rest. *)
LEMMA ExternalWritten ==
  ASSUME ExternalSound, NEW s \in Slots, state[s] = "Idle",
         frames' = frames + 1, content' = [content EXCEPT ![s] = frames + 1],
         UNCHANGED <<ringVars, producerVars, uploadVars, gpuVars>>
  PROVE  ExternalSound'
  <1>1. /\ UNCHANGED <<state, ready, stamp, acquired, committed, released, running, upc, staged>>
        /\ UNCHANGED <<stopAsked, copies, h2dDone, stranded, unreleased, ppc, pslot, owned, last>>
    BY DEF ringVars, producerVars, uploadVars, gpuVars
  <1>2. content' \in [Slots -> Nat] /\ \A t \in Slots : t # s => content'[t] = content[t]
    BY DEF ExternalSound, TypeOK
  <1>3. TypeOK'
    BY <1>1, <1>2 DEF ExternalSound, TypeOK
  <1>4. CopiesCovered'
    <2>1. \A t \in Slots : t # s => Covered(t)'
      BY <1>1, <1>2 DEF ExternalSound, CopiesCovered, Covered
    <2>2. Covered(s)'
      BY <1>1, AtRest DEF Covered
    <2>3. \A i \in DOMAIN copies' : copies'[i].slot \in Slots
      BY <1>1 DEF ExternalSound, CopiesCovered
    <2>4. QED
      BY <2>1, <2>2, <2>3 DEF CopiesCovered
  <1>5. StagedSound'
    BY <1>1, <1>2, AtRest DEF ExternalSound, StagedSound, InHand
  <1>6. QueueSound'
    <2>1. \A i \in DOMAIN ready : ready[i] \in Slots /\ ready[i] # s
      BY AtRest, SMTT(30) DEF ExternalSound, TypeOK
    <2>2. QED
      BY <1>1, <1>2, <2>1 DEF ExternalSound, QueueSound, InHand
  <1>7. QED
    BY <1>3, <1>4, <1>5, <1>6 DEF ExternalSound

(* commit_external takes a slot at rest. *)
LEMMA ExternalCommitted ==
  ASSUME ExternalSound, NEW s \in Slots, CommitExternal(s),
         UNCHANGED <<content, frames, producerVars, uploadVars, gpuVars>>
  PROVE  ExternalSound' /\ \A t \in Slots : state'[t] = "Idle" <=> t # s /\ state[t] = "Idle"
  <1>1. /\ stamp' = [stamp EXCEPT ![s] = content[s]] /\ state' = [state EXCEPT ![s] = "Committed"]
        /\ ready' = Append(ready, s) /\ committed' = committed + 1 /\ state[s] = "Idle"
        /\ UNCHANGED <<acquired, released, running, content, frames, upc, staged, stopAsked, copies>>
        /\ UNCHANGED <<h2dDone, stranded, unreleased, ppc, pslot, owned, last>>
    BY DEF CommitExternal, Enqueue, producerVars, uploadVars, gpuVars
  <1>2. /\ state'[s] = "Committed" /\ stamp'[s] = content[s]
        /\ \A t \in Slots : t # s => state'[t] = state[t] /\ stamp'[t] = stamp[t]
    BY <1>1 DEF ExternalSound, TypeOK
  <1>3. /\ \A i \in DOMAIN ready : ready[i] # s
        /\ s \notin InHand
        /\ \A i \in DOMAIN copies : copies[i].slot # s
    BY <1>1, AtRest
  <1>4. TypeOK'
    <2>1. /\ stamp' \in [Slots -> Nat] /\ state' \in [Slots -> {"Idle", "Committed", "Releasing"}]
          /\ committed' \in Nat
      BY <1>1 DEF ExternalSound, TypeOK
    <2>2. ready' \in Seq(Slots)
      BY <1>1, Appends DEF ExternalSound, TypeOK
    <2>3. QED
      BY <1>1, <2>1, <2>2 DEF ExternalSound, TypeOK
  <1>5. CopiesCovered'
    <2>1. \A t \in Slots : t # s => Covered(t)'
      BY <1>1, <1>2 DEF ExternalSound, CopiesCovered, Covered
    <2>2. Covered(s)'
      BY <1>1, <1>3 DEF Covered
    <2>3. \A i \in DOMAIN copies' : copies'[i].slot \in Slots
      BY <1>1 DEF ExternalSound, CopiesCovered
    <2>4. QED
      BY <2>1, <2>2, <2>3 DEF CopiesCovered
  <1>6. StagedSound' /\ InHand' = InHand
    BY <1>1, <1>2, <1>3 DEF ExternalSound, StagedSound, InHand
  <1>7. /\ DOMAIN ready' = 1 .. Len(ready) + 1 /\ Len(ready) \in Nat
        /\ DOMAIN ready = 1 .. Len(ready) /\ ready'[Len(ready) + 1] = s
        /\ \A k \in DOMAIN ready : ready'[k] = ready[k] /\ ready[k] \in Slots
    <2>1. ready \in Seq(Slots)
      BY DEF ExternalSound, TypeOK
    <2>2. QED
      BY <1>1, <2>1
  <1>8. \A k \in DOMAIN ready' : k \in DOMAIN ready \/ k = Len(ready) + 1
    BY <1>7
  <1>9. QueueSound'
    <2>1. \A k \in DOMAIN ready' :
            /\ state'[ready'[k]] = "Committed" /\ stamp'[ready'[k]] = content'[ready'[k]]
            /\ ready'[k] \notin InHand'
      BY <1>1, <1>2, <1>3, <1>6, <1>7, <1>8 DEF ExternalSound, QueueSound
    <2>2. \A k, l \in DOMAIN ready' : ready'[k] = ready'[l] => k = l
      BY <1>3, <1>7, <1>8 DEF ExternalSound, QueueSound
    <2>3. QED
      BY <2>1, <2>2 DEF QueueSound
  <1>10. QED
    BY <1>2, <1>4, <1>5, <1>6, <1>9 DEF ExternalSound

LEMMA CopiesNumbered == TypeOK => DOMAIN copies \subseteq Nat \ {0}
  <1> SUFFICES ASSUME copies \in Seq([slot : Slots \cup {NoSlot}, frame : Nat])
               PROVE  DOMAIN copies \subseteq Nat \ {0}
    BY DEF TypeOK
  <1>1. DOMAIN copies = 1 .. Len(copies) /\ Len(copies) \in Nat
    OBVIOUS
  <1>2. QED
    BY <1>1

(* Slots the ring says are consumed are put to rest. *)
LEMMA ExternalReclaimed ==
  ASSUME ExternalSound, NEW S \in SUBSET Slots, \A s \in S : Consumed(s),
         state' = [s \in Slots |-> IF s \in S THEN "Idle" ELSE state[s]],
         UNCHANGED <<ready, stamp, acquired, committed, released, running, content, frames>>,
         UNCHANGED <<producerVars, uploadVars, gpuVars>>
  PROVE  ExternalSound'
  <1>1. /\ UNCHANGED <<ready, stamp, acquired, committed, released, running, content, frames>>
        /\ UNCHANGED <<upc, staged, stopAsked, copies, h2dDone, stranded, unreleased, ppc, pslot, owned, last>>
    BY DEF producerVars, uploadVars, gpuVars
  <1>2. TypeOK'
    <2>1. state' \in [Slots -> {"Idle", "Committed", "Releasing"}]
      BY DEF ExternalSound, TypeOK
    <2>2. QED
      BY <1>1, <2>1 DEF ExternalSound, TypeOK
  <1>3. \A s \in S : state[s] # "Committed"
    BY DEF Consumed
  <1>4. \A s \in Slots : state[s] = "Committed" => state'[s] = "Committed"
    BY <1>3
  <1>5. StagedSound'
    BY <1>1, <1>4 DEF ExternalSound, StagedSound
  <1>6. QueueSound'
    <2>1. \A i \in DOMAIN ready : ready[i] \in Slots
      BY DEF ExternalSound, TypeOK
    <2>2. QED
      BY <1>1, <1>4, <2>1 DEF ExternalSound, QueueSound, InHand
  <1>7. ASSUME NEW s \in Slots
        PROVE  Covered(s)'
    <2>1. Covered(s)
      BY DEF ExternalSound, CopiesCovered
    <2>4. DOMAIN copies \subseteq Nat \ {0}
      BY CopiesNumbered DEF ExternalSound
    <2>2. CASE s \in S
      <3>1. \A i \in DOMAIN copies : copies[i].slot # s
        BY <2>1, <2>2, <2>4 DEF Covered, Consumed, CopyDone
      <3>2. QED
        BY <1>1, <3>1 DEF Covered
    <2>3. CASE s \notin S
      BY <1>1, <2>1, <2>3 DEF Covered
    <2>5. QED
      BY <2>2, <2>3
  <1>8. QED
    BY <1>1, <1>2, <1>5, <1>6, <1>7 DEF ExternalSound, CopiesCovered

-----------------------------------------------------------------------------
(* The order of the frames, and what the counters add up to.                *)

\* The frames of queue q, stamped st, come after frame f; each after those before it, and
\* none later than b.
InTurn(q, st, f, b) ==
  /\ \A i \in DOMAIN q :
       /\ \A j \in 1 .. i - 1 : st[q[j]] < st[q[i]]
       /\ f < st[q[i]] /\ st[q[i]] <= b
  /\ f <= b

LEMMA TurnIsOrder ==
  ASSUME NEW b, InTurn(ready, stamp, staged.frame, b)
  PROVE  QueueInOrder
  BY DEF InTurn, QueueInOrder

LEMMA ReaderTurn ==
  ASSUME TypeOK, NEW b \in Int, InTurn(ready, stamp, staged.frame, b), ReaderSide
  PROVE  InTurn(ready', stamp', staged'.frame, b)
  <1>1. CASE Pop
    <2> DEFINE rest == Tail(ready)
    <2>0. ready \in Seq(Slots) /\ ready # <<>>
      BY <1>1 DEF TypeOK, Pop
    <2>1. /\ Head(ready) = ready[1] /\ 1 \in DOMAIN ready
          /\ \A i \in DOMAIN rest : rest[i] = ready[i + 1] /\ i + 1 \in DOMAIN ready /\ i \in Nat \ {0}
          /\ DOMAIN rest = 1 .. Len(rest) /\ Len(rest) \in Nat
      BY <2>0, Tails
    <2>2. ready' = rest /\ stamp' = stamp /\ staged'.frame = stamp[ready[1]]
      BY <1>1, <2>1 DEF Pop, OldestReady
    <2> HIDE DEF rest
    <2>3. \A s \in Slots : stamp[s] \in Nat
      BY DEF TypeOK
    <2>4. ready[1] \in Slots /\ stamp[ready[1]] <= b
      BY <2>0, <2>1 DEF InTurn
    <2>5. ASSUME NEW i \in DOMAIN rest
          PROVE  /\ \A j \in 1 .. i - 1 : stamp[rest[j]] < stamp[rest[i]]
                 /\ stamp[ready[1]] < stamp[rest[i]] /\ stamp[rest[i]] <= b
      <3>1. i \in Nat \ {0} /\ rest[i] = ready[i + 1] /\ i + 1 \in DOMAIN ready
        BY <2>1
      <3>2. \A j \in 1 .. (i + 1) - 1 : stamp[ready[j]] < stamp[ready[i + 1]]
        BY <3>1 DEF InTurn
      <3>3. stamp[ready[1]] < stamp[rest[i]] /\ stamp[rest[i]] <= b
        <4>1. 1 \in 1 .. (i + 1) - 1
          BY <3>1
        <4>2. QED
          BY <3>1, <3>2, <4>1 DEF InTurn
      <3>4. ASSUME NEW j \in 1 .. i - 1
            PROVE  stamp[rest[j]] < stamp[rest[i]]
        <4>1. j \in DOMAIN rest /\ j + 1 \in 1 .. (i + 1) - 1
          BY <2>1, <3>1
        <4>2. rest[j] = ready[j + 1]
          BY <2>1, <4>1
        <4>3. QED
          BY <3>1, <3>2, <4>1, <4>2
      <3>5. QED
        BY <3>3, <3>4
    <2>6. QED
      BY <2>2, <2>4, <2>5 DEF InTurn
  <1>2. CASE ReaderSide /\ ~Pop
    BY <1>2 DEF ReaderSide, UploadStep, EnqueueCopy, ProcessThrows, Record, Strand, Release, UploadExit,
                StopUpload, Stop, CopyEnds, ringVars, uploadVars
  <1>3. QED
    BY <1>1, <1>2

(* A frame newer than all the others comes last. *)
LEMMA EnqueueTurn ==
  ASSUME TypeOK, NEW b \in Int, InTurn(ready, stamp, staged.frame, b), NEW s \in Slots, Enqueue(s),
         staged' = staged, b < content[s], \A i \in DOMAIN ready : ready[i] # s,
         NEW c, c = content[s]
  PROVE  InTurn(ready', stamp', staged'.frame, c)
  <1>1. /\ ready \in Seq(Slots) /\ ready' = Append(ready, s) /\ c \in Nat
        /\ DOMAIN ready = 1 .. Len(ready) /\ Len(ready) \in Nat
    BY DEF TypeOK, Enqueue
  <1>2. /\ \A i \in DOMAIN ready' : \/ i \in DOMAIN ready /\ ready'[i] = ready[i]
                                    \/ i = Len(ready) + 1 /\ ready'[i] = s
        /\ \A i \in DOMAIN ready : ready'[i] = ready[i]
    BY <1>1, Appends
  <1>3. \A i \in DOMAIN ready : ready[i] \in Slots /\ stamp[ready[i]] \in Nat
    BY <1>1 DEF TypeOK
  <1>4. stamp'[s] = c /\ \A i \in DOMAIN ready : stamp'[ready[i]] = stamp[ready[i]]
    BY <1>3 DEF Enqueue, TypeOK
  <1>5. staged.frame <= b /\ staged.frame \in Int
    BY DEF InTurn, TypeOK
  <1>6. ASSUME NEW i \in DOMAIN ready'
        PROVE  /\ \A j \in 1 .. i - 1 : stamp'[ready'[j]] < stamp'[ready'[i]]
               /\ staged.frame < stamp'[ready'[i]] /\ stamp'[ready'[i]] <= c
    <2>1. CASE i \in DOMAIN ready /\ ready'[i] = ready[i]
      <3>1. i \in Int /\ \A j \in 1 .. i - 1 : j \in DOMAIN ready
        BY <1>1, <2>1
      <3>2. /\ \A j \in 1 .. i - 1 : stamp[ready[j]] < stamp[ready[i]]
            /\ staged.frame < stamp[ready[i]] /\ stamp[ready[i]] <= b
        BY <2>1 DEF InTurn
      <3>3. QED
        BY <1>1, <1>2, <1>3, <1>4, <2>1, <3>1, <3>2, SMTT(30)
    <2>2. CASE i = Len(ready) + 1 /\ ready'[i] = s
      <3>1. \A j \in 1 .. i - 1 : j \in DOMAIN ready
        BY <1>1, <2>2
      <3>2. \A j \in DOMAIN ready : stamp[ready[j]] <= b
        BY DEF InTurn
      <3>3. QED
        BY <1>1, <1>2, <1>3, <1>4, <1>5, <2>2, <3>1, <3>2
    <2>3. QED
      BY <1>2, <2>1, <2>2
  <1>7. QED
    BY <1>1, <1>5, <1>6 DEF InTurn

(* A later bound is a bound. *)
LEMMA TurnWeakens ==
  ASSUME TypeOK, NEW b \in Int, NEW c \in Int, b <= c, InTurn(ready, stamp, staged.frame, b)
  PROVE  InTurn(ready, stamp, staged.frame, c)
  <1>1. \A i \in DOMAIN ready : stamp[ready[i]] \in Int
    BY DEF TypeOK
  <1>2. staged.frame \in Int
    BY DEF TypeOK
  <1>3. QED
    BY <1>1, <1>2 DEF InTurn

LEMMA HandCounted ==
  Cardinality(InHand) = IF upc \in {"staged", "enqueued", "recorded"} THEN 1 ELSE 0
  <1>1. Cardinality({staged.slot}) = 1 /\ Cardinality({}) = 0
    BY FS_Singleton, FS_EmptySet
  <1>2. QED
    BY <1>1 DEF InHand

(* What the counters say is not back is with somebody, or stranded. *)
LEMMA ReaderAccounts ==
  ASSUME TypeOK, CommitsAccounted, ReaderSide
  PROVE  CommitsAccounted'
  <1>1. /\ committed \in Nat /\ released \in Nat /\ unreleased \in Nat /\ Len(ready) \in Nat
        /\ Cardinality(InHand) = IF upc \in {"staged", "enqueued", "recorded"} THEN 1 ELSE 0
    BY HandCounted DEF TypeOK
  <1>2. Cardinality(InHand') = IF upc' \in {"staged", "enqueued", "recorded"} THEN 1 ELSE 0
    <2>1. Cardinality({staged'.slot}) = 1 /\ Cardinality({}) = 0
      BY FS_Singleton, FS_EmptySet
    <2>2. QED
      BY <2>1 DEF InHand
  <1>3. committed' = committed
    BY ReaderLeaves
  <1> USE DEF CommitsAccounted
  <1>4. CASE Pop
    <2>1. Len(ready') = Len(ready) - 1
      BY <1>4, Tails DEF Pop, TypeOK
    <2>2. UNCHANGED <<released, unreleased>> /\ upc = "pop" /\ upc' = "staged"
      BY <1>4 DEF Pop, gpuVars
    <2>3. QED
      BY <1>1, <1>2, <1>3, <2>1, <2>2
  <1>5. CASE Strand
    <2>1. /\ UNCHANGED <<released, ready>> /\ unreleased' = unreleased + 1
          /\ upc = "enqueued" /\ upc' = "pop"
      BY <1>5 DEF Strand, ringVars
    <2>2. QED
      BY <1>1, <1>2, <1>3, <2>1
  <1>6. CASE Release
    <2>1. /\ UNCHANGED <<unreleased, ready>> /\ released' = released + 1
          /\ upc = "recorded" /\ upc' = "pop"
      BY <1>6 DEF Release, gpuVars
    <2>2. QED
      BY <1>1, <1>2, <1>3, <2>1
  <1>7. CASE ReaderSide /\ ~Pop /\ ~Strand /\ ~Release
    <2>1. /\ UNCHANGED <<unreleased, ready, released>>
          /\ \/ upc' = upc
             \/ upc = "pop" /\ upc' = "exited"
             \/ upc = "staged" /\ upc' = "enqueued"
             \/ upc = "enqueued" /\ upc' = "recorded"
      BY <1>7 DEF ReaderSide, UploadStep, EnqueueCopy, ProcessThrows, Record, UploadExit, StopUpload,
                  Stop, CopyEnds, ringVars, uploadVars, gpuVars
    <2>2. QED
      BY <1>1, <1>2, <1>3, <2>1
  <1>8. QED
    BY <1>4, <1>5, <1>6, <1>7

LEMMA EnqueueAccounts ==
  ASSUME TypeOK, CommitsAccounted, NEW s \in Slots, Enqueue(s),
         UNCHANGED <<released, unreleased, upc, staged>>
  PROVE  CommitsAccounted'
  <1>1. /\ committed \in Nat /\ released \in Nat /\ unreleased \in Nat /\ Len(ready) \in Nat
        /\ Cardinality(InHand) \in Nat
    BY HandCounted DEF TypeOK
  <1>2. InHand' = InHand
    BY DEF InHand
  <1>3. Len(ready') = Len(ready) + 1 /\ committed' = committed + 1
    BY Appends DEF Enqueue, TypeOK
  <1>4. QED
    BY <1>1, <1>2, <1>3 DEF CommitsAccounted

(* A queue without a slot twice has as many slots as entries. *)
LEMMA QueueCounted ==
  ASSUME TypeOK, QueueSound
  PROVE  Cardinality(Queued) = Len(ready)
  <1> DEFINE n == Len(ready)
             f == [i \in 1 .. n |-> ready[i]]
  <1>1. n \in Nat /\ DOMAIN ready = 1 .. n
    BY DEF TypeOK
  <1>2. Queued = {ready[i] : i \in 1 .. n}
    BY <1>1 DEF Queued
  <1>3. \A i, j \in 1 .. n : ready[i] = ready[j] => i = j
    BY <1>1 DEF QueueSound
  <1> HIDE DEF n
  <1>4. f \in Surjection(1 .. n, Queued)
    BY <1>2 DEF Surjection
  <1>5. f \in Injection(1 .. n, Queued)
    BY <1>2, <1>3 DEF Injection, IsInjective
  <1>6. IsFiniteSet(1 .. n) /\ Cardinality(1 .. n) = n
    <2>1. 1 \in Int /\ n \in Int /\ n >= 0
      BY <1>1
    <2>2. IsFiniteSet(1 .. n) /\ Cardinality(1 .. n) = IF 1 > n THEN 0 ELSE n - 1 + 1
      BY <2>1, FS_Interval
    <2>3. QED
      BY <2>1, <2>2
  <1> HIDE DEF f
  <1>7. QED
    BY <1>4, <1>5, <1>6, FS_Surjection DEF n

LEMMA OwnersApart ==
  ASSUME TypeOK, StagedSound, QueueSound, owned \cap (Queued \cup InHand) = {}
  PROVE  OneOwner
  <1>1. Queued \cap InHand = {} /\ \A s \in Queued : content[s] = stamp[s]
    BY DEF QueueSound, Queued
  <1>2. QED
    BY <1>1, QueueCounted DEF OneOwner

(* The same of a Staged ring: the frame its producer has in hand is the newest. *)
Newest == IF owned # {} THEN frames - 1 ELSE frames
StagedTurn ==
  /\ InTurn(ready, stamp, staged.frame, Newest)
  /\ owned # {} => content[committed % SlotCount] = frames

StagedIInv == StagedInv /\ StagedTurn /\ CommitsAccounted

LEMMA StagedTurnInits == Init => StagedTurn /\ CommitsAccounted
  <1> SUFFICES ASSUME Init
               PROVE  StagedTurn /\ CommitsAccounted
    OBVIOUS
  <1>1. /\ ready = <<>> /\ staged.frame = 0 /\ frames = 0 /\ owned = {} /\ upc = "pop"
        /\ committed = 0 /\ released = 0 /\ unreleased = 0
    BY DEF Init
  <1>2. QED
    BY <1>1, HandCounted DEF StagedTurn, InTurn, Newest, CommitsAccounted

LEMMA StagedReader ==
  ASSUME StagedIInv, ReaderSide
  PROVE  StagedTurn' /\ CommitsAccounted'
  <1>1. UNCHANGED <<content, frames, committed, owned>>
    BY ReaderLeaves DEF StagedIInv, StagedInv, producerVars
  <1>2. Newest' = Newest /\ Newest \in Int
    BY <1>1 DEF Newest, StagedIInv, StagedInv, TypeOK
  <1>3. InTurn(ready', stamp', staged'.frame, Newest)
    BY <1>2, ReaderTurn DEF StagedIInv, StagedInv, StagedTurn
  <1>4. StagedTurn'
    BY <1>1, <1>2, <1>3 DEF StagedTurn, StagedIInv
  <1>5. QED
    BY <1>4, ReaderAccounts DEF StagedIInv, StagedInv

LEMMA StagedProducer ==
  ASSUME MaxOutstanding <= 1, StagedIInv, ProducerStep
  PROVE  StagedTurn' /\ CommitsAccounted'
  <1>0. /\ TypeOK /\ StagedInv /\ RingOrder /\ CommitsAccounted /\ frames \in Nat
        /\ InTurn(ready, stamp, staged.frame, Newest)
        /\ owned # {} => content[committed % SlotCount] = frames
    BY DEF StagedIInv, StagedInv, StagedTurn, TypeOK
  <1>1. CASE Acquire \/ AcquireStopped
    <2>1. /\ UNCHANGED <<ready, stamp, staged, upc, frames, owned, content, committed, released>>
          /\ UNCHANGED unreleased
      BY <1>1 DEF Acquire, AcquireStopped, ringVars, uploadVars, gpuVars
    <2>2. Newest' = Newest /\ InHand' = InHand
      BY <2>1 DEF Newest, InHand
    <2>3. QED
      BY <1>0, <2>1, <2>2 DEF StagedTurn, CommitsAccounted
  <1>2. CASE Fill
    <2>1. /\ UNCHANGED <<ready, stamp, staged, upc, committed, released, unreleased>>
          /\ frames' = frames + 1 /\ owned' # {} /\ owned = {} /\ pslot = committed % SlotCount
          /\ content' = [content EXCEPT ![pslot] = frames + 1]
      BY <1>0, <1>2 DEF Fill, ringVars, uploadVars, gpuVars, RingOrder
    <2>2. Newest = frames /\ Newest' = frames /\ InHand' = InHand
      BY <1>0, <2>1 DEF Newest, InHand
    <2>3. content'[committed % SlotCount] = frames'
      <3>1. committed % SlotCount \in Slots
        BY <1>0, SlotOf DEF TypeOK
      <3>2. QED
        BY <1>0, <2>1, <3>1 DEF TypeOK
    <2>4. QED
      BY <1>0, <2>1, <2>2, <2>3 DEF StagedTurn, CommitsAccounted
  <1>3. ASSUME NEW s \in Slots, Commit(s)
        PROVE  StagedTurn' /\ CommitsAccounted'
    <2>1. s = committed % SlotCount /\ owned = {s} /\ HandedOut = 1
      BY <1>0, <1>3, Named DEF Commit
    <2>2. Enqueue(s) /\ UNCHANGED <<released, unreleased, upc, staged, frames>> /\ owned' = {}
      BY <1>3, <2>1 DEF Commit, uploadVars, gpuVars
    <2>3. content[s] = frames /\ Newest = frames - 1 /\ Newest' = frames
      BY <1>0, <2>1, <2>2 DEF Newest
    <2>4. \A i \in DOMAIN ready : ready[i] # s
      BY <1>0, <2>1, NobodyElses DEF Queued
    <2>5. InTurn(ready', stamp', staged'.frame, frames)
      <3>1. frames - 1 \in Int /\ frames - 1 < content[s]
        BY <1>0, <2>3
      <3>2. QED
        BY <1>0, <2>2, <2>3, <2>4, <3>1, EnqueueTurn
    <2>6. CommitsAccounted'
      BY <1>0, <2>2, EnqueueAccounts
    <2>7. QED
      BY <2>2, <2>3, <2>5, <2>6 DEF StagedTurn
  <1>4. ASSUME NEW s \in Slots, Abandon(s)
        PROVE  StagedTurn' /\ CommitsAccounted'
    <2>1. owned = {s}
      BY <1>0, <1>4, Named DEF Abandon
    <2>2. /\ UNCHANGED <<ready, stamp, staged, upc, committed, released, unreleased, frames>>
          /\ owned' = {}
      BY <1>4, <2>1 DEF Abandon, uploadVars, gpuVars
    <2>3. Newest = frames - 1 /\ Newest' = frames /\ InHand' = InHand
      BY <2>1, <2>2 DEF Newest, InHand
    <2>4. InTurn(ready, stamp, staged.frame, frames)
      <3>1. frames - 1 \in Int /\ frames \in Int /\ frames - 1 <= frames
        BY <1>0
      <3>2. QED
        BY <1>0, <2>3, <3>1, TurnWeakens
    <2>5. QED
      BY <1>0, <2>2, <2>3, <2>4 DEF StagedTurn, CommitsAccounted
  <1>5. QED
    BY <1>1, <1>2, <1>3, <1>4 DEF ProducerStep

LEMMA StagedIngress == StagedIInv => IngressInv
  <1> SUFFICES ASSUME StagedIInv
               PROVE  IngressInv
    OBVIOUS
  <1>1. owned \cap (Queued \cup InHand) = {}
    <2>1. owned # {} => owned = {committed % SlotCount} /\ HandedOut = 1
      BY DEF StagedIInv, StagedInv, RingOrder, HandedOut
    <2>2. HandedOut = 1 => committed % SlotCount \notin Queued \cup InHand
      BY NobodyElses DEF StagedIInv, StagedInv
    <2>3. QED
      BY <2>1, <2>2
  <1>2. QED
    BY <1>1, OwnersApart, TurnIsOrder DEF StagedIInv, StagedInv, StagedTurn, IngressInv

LEMMA StagedIInits == Init => StagedIInv
  BY StagedInits, StagedTurnInits DEF StagedIInv

LEMMA StagedISteps ==
  ASSUME MaxOutstanding <= 1, StagedIInv, [Next]_vars
  PROVE  StagedIInv'
  <1>1. StagedInv'
    BY StagedSteps DEF StagedIInv
  <1>2. CASE ProducerStep
    BY <1>1, <1>2, StagedProducer DEF StagedIInv
  <1>3. CASE ReaderSide
    BY <1>1, <1>3, StagedReader DEF StagedIInv
  <1>4. CASE UNCHANGED vars
    <2>1. /\ UNCHANGED <<ready, stamp, staged, upc, frames, owned, content, committed, released>>
          /\ UNCHANGED unreleased
      BY <1>4 DEF vars, ringVars, producerVars, uploadVars, gpuVars
    <2>2. Newest' = Newest /\ InHand' = InHand
      BY <2>1 DEF Newest, InHand
    <2>3. QED
      BY <1>1, <2>1, <2>2 DEF StagedIInv, StagedTurn, CommitsAccounted
  <1>5. QED
    BY <1>2, <1>3, <1>4 DEF Next, ReaderSide

(* A Staged ring brings its frames to the upload thread in the order of commit, each *)
(* once; a slot has one owner; and the counters miss no frame.                       *)
THEOREM StagedFramesInOrder ==
  ASSUME MaxOutstanding <= 1
  PROVE  Spec => []IngressInv
  <1>1. Init => StagedIInv
    BY StagedIInits
  <1>2. StagedIInv /\ [Next]_vars => StagedIInv'
    BY StagedISteps
  <1>3. QED
    BY <1>1, <1>2, StagedIngress, PTL DEF Spec

-----------------------------------------------------------------------------
(* SpinnakerSource: the camera over an External ring, for every number of slots and  *)
(* every reconnect limit: what is in flight is never the camera's, and an end is told. *)

(* How a source that was not told to stop comes to an end: it has said why, or has *)
(* the reason it will give. *)
EndsSound ==
  /\ ~going => halted \/ failed
  /\ spc \in {"end", "drain"} /\ ~broken => ~going

SourceIInv ==
  /\ SourceInv /\ EndsSound
  /\ spc = "commit" => fetched \in Slots

SoundParts == HeldCovers /\ CopiesCovered /\ StagedSound /\ QueueSound /\ SourceSound

LEMMA SourceInits == SourceInit => SourceIInv
  <1> SUFFICES ASSUME SourceInit
               PROVE  SourceIInv
    OBVIOUS
  <1>1. ExternalSound /\ \A s \in Slots : state[s] = "Idle"
    BY ExternalInits DEF SourceInit
  <1>2. SourceTypes
    <2>1. 0 \in 0 .. SlotCount /\ 0 \in Nat
      BY SlotCountAssumption
    <2>2. limit \in ReconnectLimits \cup {Forever}
      BY DEF SourceInit
    <2>3. QED
      BY <2>1, <2>2 DEF SourceInit, SourceTypes
  <1>3. SoundParts
    BY <1>1 DEF SourceInit, SoundParts, ExternalSound, HeldCovers, SourceSound
  <1>4. EndIsReported /\ OffLimits /\ EndsSound /\ spc # "commit"
    BY DEF SourceInit, EndIsReported, OffLimits, CameraSpares, CommitFits, EndsSound
  <1>5. QED
    BY <1>1, <1>2, <1>3, <1>4 DEF SourceIInv, SourceInv, SourceTypeOK, SoundParts, ExternalSound

(* Nothing in flight is the camera's: that follows from the parts. *)
LEMMA PartsSuffice ==
  ASSUME SourceTypeOK, SoundParts
  PROVE  CameraSpares /\ CommitFits
  <1>1. ASSUME NEW s \in Slots, InFlight(s)
        PROVE  s \in held
    <2>1. state[s] # "Idle"
      BY <1>1 DEF InFlight, SoundParts, CopiesCovered, Covered
    <2>2. QED
      BY <2>1 DEF SoundParts, HeldCovers
  <1>2. QED
    BY <1>1 DEF CameraSpares, CommitFits, SoundParts, SourceSound

-----------------------------------------------------------------------------
(* The steps of the source's thread that touch no slot of the ring. *)
Aside ==
  \/ GrabLoop \/ Grab \/ GrabNothing \/ GrabFails \/ CommitThrows
  \/ EndAcquisition \/ DrainAgain \/ Closed
  \/ Open \/ OpenFails \/ OpenStopped \/ Halt

LEMMA AsideLeaves ==
  ASSUME Aside
  PROVE  /\ UNCHANGED <<vars, limit>>
         /\ UNCHANGED <<state, ready, stamp, acquired, committed, released, running, content, frames>>
         /\ UNCHANGED <<ppc, pslot, owned, last, upc, staged, stopAsked, copies, h2dDone, stranded, unreleased>>
  BY DEF Aside, GrabLoop, Grab, GrabNothing, GrabFails, CommitThrows, EndAcquisition, DrainAgain,
     Closed, Open, OpenFails, OpenStopped, Halt, otherVars, vars, ringVars, producerVars, uploadVars,
     gpuVars

LEMMA AsideTypes ==
  ASSUME SourceTypeOK, Aside
  PROVE  SourceTypeOK'
  <1>1. TypeOK'
    BY AsideLeaves DEF SourceTypeOK, TypeOK
  <1> USE DEF SourceTypeOK, SourceTypes
  <1>2. 0 \in 0 .. SlotCount
    BY SlotCountAssumption
  <1>3. limit' = limit
    BY AsideLeaves
  <1>4. CASE GrabLoop \/ Grab \/ GrabNothing \/ CommitThrows
    BY <1>1, <1>2, <1>4 DEF GrabLoop, Grab, GrabNothing, CommitThrows, otherVars, cameraVars
  <1>5. CASE EndAcquisition \/ DrainAgain \/ Open \/ OpenStopped \/ Halt
    <2>1. CASE EndAcquisition \/ DrainAgain
      BY <1>1, <1>2, <2>1 DEF EndAcquisition, DrainAgain, otherVars, cameraVars
    <2>2. CASE Open
      BY <1>1, <1>3, <2>2 DEF Open, otherVars, cameraVars
    <2>3. CASE OpenStopped \/ Halt
      BY <1>1, <1>3, <2>3 DEF OpenStopped, Halt, otherVars, cameraVars
    <2>4. QED
      BY <1>5, <2>1, <2>2, <2>3
  <1>6. CASE GrabFails
    BY <1>1, <1>6 DEF GrabFails, Fails, otherVars, cameraVars
  <1>7. CASE OpenFails
    <2>1. attempt' = attempt \/ attempt' = attempt + 1
      BY <1>7 DEF OpenFails
    <2>2. (going' = going \/ going' = FALSE) /\ (failed' = failed \/ failed' = TRUE)
      BY <1>7 DEF OpenFails, Fail
    <2>3. (spc' = spc \/ spc' = "done") /\ failures' = failures + 1
      BY <1>7 DEF OpenFails, Fail, Fails
    <2>4. UNCHANGED <<limit, halted, timedOut, streaming, image, held, fetched, next, broken>>
      BY <1>7 DEF OpenFails, otherVars, cameraVars
    <2>5. attempt' \in Nat /\ failures' \in Nat
      BY <2>1, <2>3
    <2>6. SourceTypes
      BY DEF SourceTypeOK
    <2>7. going' \in BOOLEAN /\ failed' \in BOOLEAN
      BY <2>2, <2>6 DEF SourceTypes
    <2>8. spc' \in {"open", "loop", "reclaim", "commit", "end", "drain", "done"}
      BY <2>3, <2>6 DEF SourceTypes
    <2>9. SourceTypes'
      BY ONLY <2>4, <2>5, <2>6, <2>7, <2>8 DEF SourceTypes
    <2>10. QED
      BY <1>1, <2>9 DEF SourceTypeOK
  <1>8. CASE Closed
    BY <1>1, <1>8 DEF Closed, Fail, cameraVars
  <1>9. QED
    BY <1>4, <1>5, <1>6, <1>7, <1>8 DEF Aside

LEMMA AsideEnds ==
  ASSUME SourceTypeOK, EndsSound, EndIsReported, spc = "commit" => fetched \in Slots, Aside
  PROVE  EndsSound' /\ EndIsReported' /\ (spc' = "commit" => fetched' \in Slots)
  <1> USE DEF EndsSound, EndIsReported, SourceTypeOK, SourceTypes
  <1>1. CASE GrabLoop \/ Grab \/ GrabNothing \/ CommitThrows
    BY <1>1 DEF GrabLoop, Grab, GrabNothing, CommitThrows, otherVars
  <1>2. CASE EndAcquisition \/ DrainAgain \/ Open \/ OpenStopped \/ Halt
    BY <1>2 DEF EndAcquisition, DrainAgain, Open, OpenStopped, Halt, otherVars
  <1>3. CASE GrabFails
    BY <1>3 DEF GrabFails, otherVars
  <1>4. CASE OpenFails
    BY <1>4 DEF OpenFails, Fail, otherVars
  <1>5. CASE Closed
    BY <1>5 DEF Closed, Fail
  <1>6. QED
    BY <1>1, <1>2, <1>3, <1>4, <1>5 DEF Aside

LEMMA AsideSound ==
  ASSUME SourceTypeOK, ~timedOut', timedOut \/ SoundParts, Aside
  PROVE  SoundParts'
  <1>1. SoundParts
    BY DEF Aside, GrabLoop, Grab, GrabNothing, GrabFails, CommitThrows, EndAcquisition, DrainAgain,
       Closed, Open, OpenFails, OpenStopped, Halt, otherVars
  <1>2. CopiesCovered' /\ StagedSound' /\ QueueSound' /\ state' = state
    BY <1>1, AsideLeaves DEF SoundParts, CopiesCovered, Covered, StagedSound, QueueSound, InHand
  <1>3. NoSlot \notin held
    BY DEF SourceTypeOK, SourceTypes, Slots, NoSlot
  <1> USE DEF SoundParts, HeldCovers, SourceSound, SourceTypeOK, SourceTypes
  <1>4. CASE Grab
    <2>1. image \in Slots /\ state[image] = "Idle"
      BY <1>1, <1>4 DEF Grab
    <2>2. NoSlot \notin held'
      BY <1>3, <1>4, <2>1 DEF Grab, Slots, NoSlot
    <2>3. QED
      BY <1>1, <1>2, <1>4, <2>1, <2>2 DEF Grab
  <1>5. CASE GrabLoop \/ GrabNothing \/ GrabFails \/ CommitThrows
    BY <1>1, <1>2, <1>3, <1>5 DEF GrabLoop, GrabNothing, GrabFails, CommitThrows, cameraVars
  <1>6. CASE EndAcquisition \/ DrainAgain \/ Open \/ OpenStopped \/ Halt
    BY <1>1, <1>2, <1>3, <1>6 DEF EndAcquisition, DrainAgain, Open, OpenStopped, Halt, cameraVars
  <1>7. CASE OpenFails
    BY <1>1, <1>2, <1>7 DEF OpenFails, Fail, cameraVars
  <1>8. CASE Closed
    <2>1. held = {} /\ held' = {}
      BY <1>8 DEF Closed, DrainOver
    <2>2. QED
      BY <1>1, <1>2, <1>8, <2>1 DEF Closed, Fail, cameraVars
  <1>9. QED
    BY <1>4, <1>5, <1>6, <1>7, <1>8 DEF Aside

-----------------------------------------------------------------------------
(* The steps that touch the ring. *)

LEMMA SoundOnes ==
  ASSUME SourceInv, ~timedOut
  PROVE  SoundParts /\ ExternalSound
  BY DEF SourceInv, SourceTypeOK, SoundParts, ExternalSound

(* The camera writes: a slot without a handle is at rest. *)
LEMMA CameraWrites ==
  ASSUME SourceIInv, NEW s \in Slots, CameraFill(s)
  PROVE  SourceTypeOK' /\ EndsSound' /\ EndIsReported' /\ (timedOut' \/ SoundParts')
  <1>1. /\ frames' = frames + 1 /\ content' = [content EXCEPT ![s] = frames + 1] /\ image' = s
        /\ s \notin held /\ streaming
        /\ UNCHANGED <<streaming, sourceVars>>
        /\ UNCHANGED <<ringVars, producerVars, uploadVars, gpuVars>>
    BY DEF CameraFill
  <1>2. /\ UNCHANGED <<spc, held, fetched, next, broken, attempt, failed, going, limit, halted>>
        /\ UNCHANGED <<timedOut, failures, streaming, state>>
    BY <1>1 DEF sourceVars, ringVars
  <1>3. TypeOK'
    <2>1. content' \in [Slots -> Nat] /\ frames' \in Nat
      BY <1>1 DEF SourceIInv, SourceInv, SourceTypeOK, TypeOK
    <2>2. QED
      BY <1>1, <2>1 DEF SourceIInv, SourceInv, SourceTypeOK, TypeOK, ringVars, producerVars, uploadVars,
         gpuVars
  <1>4. SourceTypes'
    BY <1>1, <1>2 DEF SourceIInv, SourceInv, SourceTypeOK, SourceTypes
  <1>5. EndsSound' /\ EndIsReported'
    BY <1>2 DEF SourceIInv, SourceInv, EndsSound, EndIsReported
  <1>6. ASSUME ~timedOut'
        PROVE  SoundParts'
    <2>1. SoundParts /\ ExternalSound
      BY <1>2, <1>6, SoundOnes DEF SourceIInv
    <2>2. state[s] = "Idle"
      BY <1>1, <2>1 DEF SoundParts, HeldCovers
    <2>3. ExternalSound'
      BY <1>1, <2>1, <2>2, ExternalWritten
    <2>4. HeldCovers' /\ SourceSound'
      BY <1>1, <1>2, <2>1 DEF SoundParts, HeldCovers, SourceSound
    <2>5. QED
      BY <2>3, <2>4 DEF ExternalSound, SoundParts
  <1>7. QED
    BY <1>3, <1>4, <1>5, <1>6 DEF SourceTypeOK

(* One slot of reclaim(): it goes back to the camera when the ring says so. *)
LEMMA Reclaims ==
  ASSUME SourceIInv, Reclaim
  PROVE  SourceTypeOK' /\ EndsSound' /\ EndIsReported' /\ (timedOut' \/ SoundParts')
  <1> DEFINE S == IF next \in held /\ Consumed(next) THEN {next} ELSE {}
  <1>1. /\ next' = next + 1 /\ next < SlotCount /\ spc \in {"reclaim", "drain"}
        /\ UNCHANGED <<ready, stamp, acquired, committed, released, running, content, frames>>
        /\ UNCHANGED <<producerVars, uploadVars, gpuVars>>
        /\ UNCHANGED <<spc, fetched, broken, attempt, failed, going, limit, halted, timedOut, failures>>
        /\ UNCHANGED <<streaming, image>>
    BY DEF Reclaim, cameraVars
  <1>2. TypeOK /\ SourceTypes
    BY DEF SourceIInv, SourceInv, SourceTypeOK
  <1>3. S \in SUBSET Slots /\ \A s \in S : Consumed(s) /\ s \in held
    BY <1>2 DEF SourceTypes
  <1>4. held' = held \ S /\ state' = [s \in Slots |-> IF s \in S THEN "Idle" ELSE state[s]]
    <2>1. state \in [Slots -> {"Idle", "Committed", "Releasing"}]
      BY <1>2 DEF TypeOK
    <2>2. CASE next \in held /\ Consumed(next)
      BY <2>1, <2>2 DEF Reclaim
    <2>3. CASE ~(next \in held /\ Consumed(next))
      BY <2>1, <2>3 DEF Reclaim
    <2>4. QED
      BY <2>2, <2>3
  <1> HIDE DEF S
  <1>5. state' \in [Slots -> {"Idle", "Committed", "Releasing"}]
    BY <1>2, <1>4 DEF TypeOK
  <1>6. TypeOK'
    BY <1>1, <1>2, <1>5 DEF TypeOK, producerVars, uploadVars, gpuVars
  <1>7. SourceTypes'
    <2>1. next' \in 0 .. SlotCount
      BY <1>1, <1>2, SlotCountAssumption DEF SourceTypes
    <2>2. held' \in SUBSET Slots
      BY <1>2, <1>4 DEF SourceTypes
    <2>3. QED
      BY <1>1, <1>2, <2>1, <2>2 DEF SourceTypes
  <1>8. EndsSound' /\ EndIsReported'
    BY <1>1 DEF SourceIInv, SourceInv, EndsSound, EndIsReported
  <1>9. ASSUME ~timedOut'
        PROVE  SoundParts'
    <2>1. SoundParts /\ ExternalSound
      BY <1>1, <1>9, SoundOnes DEF SourceIInv
    <2>2. ExternalSound'
      BY <1>1, <1>3, <1>4, <2>1, ExternalReclaimed
    <2>3. HeldCovers' /\ SourceSound'
      BY <1>1, <1>3, <1>4, <2>1 DEF SoundParts, HeldCovers, SourceSound
    <2>4. QED
      BY <2>2, <2>3 DEF ExternalSound, SoundParts
  <1>10. QED
    BY <1>6, <1>7, <1>8, <1>9 DEF SourceTypeOK

(* The commit: the slot was the camera's, its handle is held, and it was at rest. *)
LEMMA Commits ==
  ASSUME SourceIInv, CommitFrame
  PROVE  SourceTypeOK' /\ EndsSound' /\ EndIsReported' /\ (timedOut' \/ SoundParts')
  <1>1. /\ spc = "commit" /\ spc' = "loop" /\ CommitExternal(fetched)
        /\ UNCHANGED <<content, frames, producerVars, uploadVars, gpuVars>>
        /\ UNCHANGED <<held, fetched, next, broken, attempt, failed, going, limit, halted, timedOut>>
        /\ UNCHANGED <<failures, streaming, image>>
    BY DEF CommitFrame, cameraVars
  <1>2. fetched \in Slots /\ TypeOK /\ SourceTypes
    BY <1>1 DEF SourceIInv, SourceInv, SourceTypeOK
  <1>3. TypeOK'
    <2>1. /\ stamp' \in [Slots -> Nat] /\ state' \in [Slots -> {"Idle", "Committed", "Releasing"}]
          /\ committed' \in Nat
      BY <1>1, <1>2 DEF CommitExternal, Enqueue, TypeOK
    <2>2. ready' \in Seq(Slots)
      BY <1>1, <1>2, Appends DEF CommitExternal, Enqueue, TypeOK
    <2>3. QED
      BY <1>1, <1>2, <2>1, <2>2 DEF CommitExternal, TypeOK, producerVars, uploadVars, gpuVars
  <1>4. SourceTypes'
    BY <1>1, <1>2 DEF SourceTypes
  <1>5. EndsSound' /\ EndIsReported'
    BY <1>1 DEF SourceIInv, SourceInv, EndsSound, EndIsReported
  <1>6. ASSUME ~timedOut'
        PROVE  SoundParts'
    <2>1. SoundParts /\ ExternalSound
      BY <1>1, <1>6, SoundOnes DEF SourceIInv
    <2>2. ExternalSound' /\ \A t \in Slots : state'[t] = "Idle" <=> t # fetched /\ state[t] = "Idle"
      BY <1>1, <1>2, <2>1, ExternalCommitted
    <2>3. HeldCovers' /\ SourceSound'
      BY <1>1, <2>1, <2>2 DEF SoundParts, HeldCovers, SourceSound
    <2>4. QED
      BY <2>2, <2>3 DEF ExternalSound, SoundParts
  <1>7. QED
    BY <1>3, <1>4, <1>5, <1>6 DEF SourceTypeOK

(* The reader's side, and the owner's. *)
LEMMA Reads ==
  ASSUME SourceIInv, ReaderSide, UNCHANGED <<cameraVars, sourceVars>>
  PROVE  SourceTypeOK' /\ EndsSound' /\ EndIsReported' /\ (timedOut' \/ SoundParts')
  <1>1. /\ UNCHANGED <<streaming, image, spc, held, fetched, next, broken, attempt, failed, going>>
        /\ UNCHANGED <<limit, halted, timedOut, failures>>
    BY DEF cameraVars, sourceVars
  <1>2. TypeOK'
    BY ReaderTypes DEF SourceIInv, SourceInv, SourceTypeOK
  <1>3. SourceTypes' /\ EndsSound' /\ EndIsReported'
    BY <1>1 DEF SourceIInv, SourceInv, SourceTypeOK, SourceTypes, EndsSound, EndIsReported
  <1>4. ASSUME ~timedOut'
        PROVE  SoundParts'
    <2>1. SoundParts /\ ExternalSound
      BY <1>1, <1>4, SoundOnes DEF SourceIInv
    <2>2. ExternalSound' /\ \A s \in Slots : state[s] = "Idle" => state'[s] = "Idle"
      BY <2>1, ReaderExternal
    <2>3. held \in SUBSET Slots
      BY DEF SourceIInv, SourceInv, SourceTypeOK, SourceTypes
    <2>4. HeldCovers' /\ SourceSound'
      BY <1>1, <2>1, <2>2, <2>3 DEF SoundParts, HeldCovers, SourceSound
    <2>5. QED
      BY <2>2, <2>4 DEF ExternalSound, SoundParts
  <1>5. QED
    BY <1>2, <1>3, <1>4 DEF SourceTypeOK

LEMMA SourceSteps ==
  ASSUME SourceIInv, [SourceNext]_sysVars
  PROVE  SourceIInv'
  <1>1. SourceTypeOK' /\ EndsSound' /\ EndIsReported' /\ (timedOut' \/ SoundParts')
    <2>1. CASE Aside
      BY <2>1, AsideTypes, AsideEnds, AsideSound DEF SourceIInv, SourceInv, SoundParts
    <2>2. CASE Reclaim
      BY <2>2, Reclaims
    <2>3. CASE CommitFrame
      BY <2>3, Commits
    <2>4. ASSUME NEW s \in Slots, CameraFill(s)
          PROVE  SourceTypeOK' /\ EndsSound' /\ EndIsReported' /\ (timedOut' \/ SoundParts')
      BY <2>4, CameraWrites
    <2>5. CASE ReaderSide /\ UNCHANGED <<cameraVars, sourceVars>>
      BY <2>5, Reads
    <2>6. CASE UNCHANGED sysVars
      <3>1. /\ UNCHANGED <<state, ready, stamp, acquired, committed, released, running, content>>
            /\ UNCHANGED <<frames, ppc, pslot, owned, last, upc, staged, stopAsked, copies, h2dDone>>
            /\ UNCHANGED <<stranded, unreleased, streaming, image, spc, held, fetched, next, broken, attempt>>
            /\ UNCHANGED <<failed, going, limit, halted, timedOut, failures>>
        BY <2>6 DEF sysVars, vars, ringVars, producerVars, uploadVars, gpuVars, cameraVars, sourceVars
      <3>2. SourceTypeOK'
        <4>1. TypeOK'
          BY <3>1 DEF SourceIInv, SourceInv, SourceTypeOK, TypeOK
        <4>2. SourceTypes'
          BY <3>1 DEF SourceIInv, SourceInv, SourceTypeOK, SourceTypes
        <4>3. QED
          BY <4>1, <4>2 DEF SourceTypeOK
      <3>3. EndsSound' /\ EndIsReported'
        BY <3>1 DEF SourceIInv, SourceInv, EndsSound, EndIsReported
      <3>4. timedOut' \/ SoundParts'
        BY <3>1 DEF SourceIInv, SourceInv, SoundParts, HeldCovers, CopiesCovered, Covered, StagedSound,
           QueueSound, InHand, SourceSound
      <3>5. QED
        BY <3>2, <3>3, <3>4
    <2>7. QED
      BY <2>1, <2>2, <2>3, <2>4, <2>5, <2>6
         DEF SourceNext, SourceStep, ReaderStep, ReaderSide, Aside
  <1>2. spc' = "commit" => fetched' \in Slots
    <2>1. CASE Aside
      BY <2>1, AsideEnds DEF SourceIInv, SourceInv
    <2>2. CASE ~Aside
      BY <2>2 DEF SourceNext, SourceStep, ReaderStep, Aside, Reclaim, CommitFrame, CameraFill, sysVars,
         sourceVars, SourceIInv
    <2>3. QED
      BY <2>1, <2>2
  <1>3. OffLimits'
    <2>1. CASE timedOut'
      BY <2>1 DEF OffLimits
    <2>2. CASE SoundParts'
      <3>1. SourceTypeOK' /\ SoundParts' => CameraSpares' /\ CommitFits'
        BY PartsSuffice, PTL
      <3>2. QED
        BY <1>1, <2>2, <3>1 DEF OffLimits
    <2>3. QED
      BY <1>1, <2>1, <2>2
  <1>4. QED
    BY <1>1, <1>2, <1>3 DEF SourceIInv, SourceInv, SoundParts

(* For every number of slots and every reconnect limit, however camera calls fail: a *)
(* queued or pending slot is never one the camera may write to unless a drain gave   *)
(* up on it, commit_external never finds one in flight, and a source that ended was  *)
(* told to or has said so. *)
THEOREM SourceKeepsOff == SourceSpec => []SourceInv
  <1>1. SourceInit => SourceIInv
    BY SourceInits
  <1>2. SourceIInv /\ [SourceNext]_sysVars => SourceIInv'
    BY SourceSteps
  <1>3. SourceIInv => SourceInv
    BY DEF SourceIInv
  <1>4. QED
    BY <1>1, <1>2, <1>3, PTL DEF SourceSpec

(* So no upload is torn as long as every drain ran to its end. *)
THEOREM SourceUploadsIntact == SourceSpec => [](timedOut \/ UploadIntact)
  <1>1. SourceInv => timedOut \/ UploadIntact
    BY SoundOnes, ExternalIntact
  <1>2. QED
    BY <1>1, SourceKeepsOff, PTL

-----------------------------------------------------------------------------
(* Replay: for every recording, configuration and number of slots, whatever throws  *)
(* and wherever it is stopped, no copy pending on the device is written over, the    *)
(* frames come out in order, and the counters tell what happened.                    *)

(* The inductive invariant. *)

\* The frame just written into the first stream's slot is not committed yet.
NewFrame == rpc = "commit" /\ Message.topic = First
Upto == IF NewFrame THEN frames - 1 ELSE frames

\* What the ring of the first stream and held_ of its source say of each other.
RingSide ==
  /\ ExternalSound /\ CommitsAccounted /\ owned = {}
  /\ \A s \in Slots : state[s] # "Idle" => s \in rheld[First]
  /\ InTurn(ready, stamp, staged.frame, Upto)
  /\ NewFrame => content[rslot] = frames

\* The thread is at a message of one of the streams, and has a slot nobody else has.
AtMessage ==
  /\ rpc \in {"slot", "write", "commit"} => pos \in DOMAIN script /\ Message.topic \in ToSet(streams)
  /\ rpc \in {"write", "commit"} => rslot \in Slots \ rheld[Message.topic]

\* The streams are bound in their order, and the thread runs from the last one on until
\* it is told to stop.
BoundInOrder ==
  /\ IsFiniteSet(bound) /\ Cardinality(bound) \in 0 .. Len(streams)
  /\ bound = {streams[i] : i \in 1 .. Cardinality(bound)}

ThreadSide ==
  /\ ReplayTypeOK /\ AtMessage /\ BoundInOrder /\ AllBound /\ EndAnnounced
  /\ clock \in 1 .. MaxClock
  /\ rpc # "unbound" => rgoing \/ rhalted

\* A frame that is read and neither delivered nor dropped yet.
Pending == IF rpc \in {"slot", "write", "commit"} THEN 1 ELSE 0
PendingOf(t) == IF rpc \in {"slot", "write", "commit"} /\ Message.topic = t THEN 1 ELSE 0

CountSide ==
  /\ reads \in Nat
  /\ delivered \in [ToSet(streams) -> Nat] /\ dropped \in [ToSet(streams) -> Nat]
  /\ delivered[First] = committed
  /\ \A t \in ToSet(streams) : delivered[t] + dropped[t] + PendingOf(t) <= reads
  /\ IsFiniteSet(Counted) /\ Cardinality(Counted) + Pending <= reads

PlayerIInv == ScriptSound /\ RingSide /\ ThreadSide /\ CountSide

ReplayIInv ==
  /\ kind = "staged" => rpc = "unbound" /\ StagedIInv
  /\ kind # "staged" => PlayerIInv

-----------------------------------------------------------------------------
(* What never changes. *)

LEMMA FirstIsStream ==
  ASSUME ScriptSound
  PROVE  /\ Len(streams) \in Nat \ {0} /\ DOMAIN streams = 1 .. Len(streams)
         /\ 1 \in DOMAIN streams /\ First \in ToSet(streams)
         /\ Len(script) \in Nat /\ DOMAIN script = 1 .. Len(script)
  <1>1. streams \in Seq(ToSet(streams)) /\ streams # <<>> /\ script \in Seq(ToSet(script))
    BY DEF ScriptSound
  <1>2. Len(streams) \in Nat \ {0} /\ DOMAIN streams = 1 .. Len(streams)
    BY <1>1
  <1>3. Len(script) \in Nat /\ DOMAIN script = 1 .. Len(script)
    BY <1>1
  <1>4. 1 \in DOMAIN streams
    BY <1>2
  <1>5. QED
    BY <1>2, <1>3, <1>4 DEF First, ToSet

LEMMA GivenStays ==
  ASSUME [ReplayNext]_replaySysVars
  PROVE  UNCHANGED <<kind, script, streams, config, epoch>>
  BY DEF ReplayNext, ReplayStep, BeginPass, PassOver, Leave, Due, TakeSlot, GiveUp, Write, CommitImage,
         PlaybackFails, Finish, StartStream, HaltReplay, Tick, StagedStep, PipelineStep, ReclaimSlots, replaySysVars,
         replayVars, besideVars, givenVars

LEMMA ScriptStays ==
  ASSUME ScriptSound, UNCHANGED <<kind, script, streams, config>>
  PROVE  ScriptSound'
  BY DEF ScriptSound

-----------------------------------------------------------------------------
(* The ring and its source. *)

\* A step that leaves the ring and its slots alone.
LEMMA RingAlone ==
  ASSUME ScriptSound, RingSide, UNCHANGED <<vars, streams>>, rheld'[First] = rheld[First],
         NewFrame' => NewFrame /\ rslot' = rslot
  PROVE  RingSide'
  <1>1. /\ UNCHANGED <<state, ready, stamp, acquired, committed, released, running, content, frames>>
        /\ UNCHANGED <<upc, staged, stopAsked, copies, h2dDone, stranded, unreleased, ppc, pslot, owned, last>>
        /\ First' = First
    BY DEF vars, ringVars, producerVars, uploadVars, gpuVars, First
  <1>2. ExternalSound' /\ CommitsAccounted'
    BY <1>1 DEF RingSide, ExternalSound, TypeOK, CopiesCovered, Covered, StagedSound, QueueSound, InHand,
                CommitsAccounted
  <1>3. Upto \in Int /\ Upto' \in Int /\ Upto <= Upto'
    BY <1>1 DEF Upto, RingSide, ExternalSound, TypeOK
  <1>4. InTurn(ready, stamp, staged.frame, Upto')
    BY <1>3, TurnWeakens DEF RingSide, ExternalSound
  <1>5. QED
    BY <1>1, <1>2, <1>4 DEF RingSide

\* The upload thread and the device, as with any other source.
LEMMA RingRead ==
  ASSUME ScriptSound, RingSide, ReaderSide, UNCHANGED replayVars
  PROVE  RingSide'
  <1>1. /\ UNCHANGED <<content, frames, owned>>
    BY ReaderLeaves DEF RingSide, ExternalSound, producerVars
  <1>2. UNCHANGED <<rpc, script, pos, streams, rslot, rheld>>
    BY DEF replayVars, givenVars, playerVars
  <1>3. First' = First /\ (NewFrame' <=> NewFrame) /\ Upto' = Upto /\ Upto \in Int
    BY <1>1, <1>2 DEF First, NewFrame, Message, Upto, RingSide, ExternalSound, TypeOK
  <1>4. InTurn(ready', stamp', staged'.frame, Upto)
    BY <1>3, ReaderTurn DEF RingSide, ExternalSound
  <1>5. ExternalSound' /\ CommitsAccounted'
    BY ReaderExternal, ReaderAccounts DEF RingSide, ExternalSound
  <1>6. \A s \in Slots : state'[s] # "Idle" => state[s] # "Idle"
    BY ReaderExternal DEF RingSide
  <1>7. QED
    BY <1>1, <1>2, <1>3, <1>4, <1>5, <1>6 DEF RingSide

LEMMA RingTaken ==
  ASSUME ScriptSound, RingSide, ThreadSide, TakeSlot
  PROVE  RingSide'
  <1> DEFINE t == Message.topic
  <1>1. PICK S \in Returned(t) : ReclaimSlots(t, S)
    BY DEF TakeSlot
  <1>2. /\ UNCHANGED <<ready, stamp, acquired, committed, released, running, content, frames>>
        /\ UNCHANGED <<producerVars, uploadVars, gpuVars>> /\ UNCHANGED streams
        /\ rheld' = [rheld EXCEPT ![t] = @ \ S]
        /\ state' = IF t = First THEN [s \in Slots |-> IF s \in S THEN "Idle" ELSE state[s]] ELSE state
    BY <1>1 DEF ReclaimSlots, givenVars
  <1>3. ~NewFrame /\ ~NewFrame' /\ First' = First
    BY <1>2 DEF TakeSlot, NewFrame, First
  <1>4. t \in ToSet(streams) /\ First \in ToSet(streams) /\ rheld \in [ToSet(streams) -> SUBSET Slots]
    BY FirstIsStream DEF TakeSlot, ThreadSide, AtMessage, ReplayTypeOK
  <1>5. CASE t # First
    <2>1. rheld'[First] = rheld[First]
      BY <1>2, <1>4, <1>5
    <2>2. UNCHANGED vars
      BY <1>2, <1>5 DEF vars, ringVars
    <2>3. QED
      BY <1>2, <1>3, <2>1, <2>2, RingAlone
  <1>6. CASE t = First
    <2>1. S \in SUBSET Slots /\ \A s \in S : Consumed(s)
      BY <1>1, <1>4, <1>6 DEF Returned
    <2> HIDE DEF t
    <2>2. ExternalSound'
      BY <1>2, <1>6, <2>1, ExternalReclaimed DEF RingSide
    <2>3. rheld'[First] = rheld[First] \ S
      BY <1>2, <1>4, <1>6
    <2>4. \A s \in Slots : state'[s] # "Idle" => s \in rheld'[First]
      BY <1>2, <1>6, <2>1, <2>3 DEF RingSide
    <2>5. UNCHANGED <<owned, upc, staged, unreleased>>
      BY <1>2 DEF producerVars, uploadVars, gpuVars
    <2>6. CommitsAccounted'
      BY <1>2, <2>5 DEF RingSide, CommitsAccounted, InHand
    <2>7. Upto' = Upto
      BY <1>2, <1>3 DEF Upto
    <2>8. QED
      BY <1>2, <1>3, <2>2, <2>4, <2>5, <2>6, <2>7 DEF RingSide
  <1>7. QED
    BY <1>5, <1>6

LEMMA RingWritten ==
  ASSUME ScriptSound, RingSide, ThreadSide, Write
  PROVE  RingSide'
  <1>1. /\ UNCHANGED <<script, streams, pos, rslot, rheld>> /\ rpc = "write" /\ rpc' = "commit"
        /\ UNCHANGED <<ringVars, producerVars, uploadVars, gpuVars>>
    BY DEF Write, givenVars
  <1>2. First' = First /\ Message' = Message /\ ~NewFrame /\ Upto = frames
        /\ (NewFrame' <=> Message.topic = First)
    BY <1>1 DEF First, Message, NewFrame, Upto
  <1>3. CASE Message.topic # First
    <2>1. UNCHANGED vars
      BY <1>1, <1>3 DEF Write, vars
    <2>2. QED
      BY <1>1, <1>2, <1>3, <2>1, RingAlone
  <1>4. CASE Message.topic = First
    <2>1. frames' = frames + 1 /\ content' = [content EXCEPT ![rslot] = frames + 1]
      BY <1>4 DEF Write
    <2>2. rslot \in Slots /\ state[rslot] = "Idle"
      BY <1>1, <1>4 DEF ThreadSide, AtMessage, RingSide
    <2>3. ExternalSound'
      BY <1>1, <2>1, <2>2, ExternalWritten DEF RingSide
    <2>4. content \in [Slots -> Nat] /\ frames \in Nat
      BY DEF RingSide, ExternalSound, TypeOK
    <2>5. Upto' = frames /\ content'[rslot'] = frames'
      BY <1>1, <1>2, <1>4, <2>1, <2>2, <2>4 DEF Upto
    <2>6. UNCHANGED <<state, ready, stamp, committed, released, owned, upc, staged, unreleased>>
      BY <1>1 DEF ringVars, producerVars, uploadVars, gpuVars
    <2>7. CommitsAccounted'
      BY <2>6 DEF RingSide, CommitsAccounted, InHand
    <2>8. QED
      BY <1>1, <1>2, <2>3, <2>5, <2>6, <2>7 DEF RingSide
  <1>5. QED
    BY <1>3, <1>4

LEMMA RingGiven ==
  ASSUME ScriptSound, RingSide, ThreadSide, CommitImage
  PROVE  RingSide'
  <1> DEFINE t == Message.topic
  <1>1. /\ UNCHANGED <<streams, rslot>> /\ rpc = "commit" /\ rpc' = "message"
        /\ rheld' = [rheld EXCEPT ![t] = @ \cup {rslot}]
        /\ CommitSlot(t)
    BY DEF CommitImage, givenVars
  <1>2. First' = First /\ ~NewFrame' /\ (NewFrame <=> t = First)
    BY <1>1 DEF First, NewFrame
  <1>3. t \in ToSet(streams) /\ First \in ToSet(streams) /\ rheld \in [ToSet(streams) -> SUBSET Slots]
        /\ rslot \in Slots
    BY <1>1, FirstIsStream DEF ThreadSide, AtMessage, ReplayTypeOK
  <1> HIDE DEF t
  <1>4. CASE t # First
    <2>1. UNCHANGED vars /\ rheld'[First] = rheld[First]
      BY <1>1, <1>3, <1>4 DEF CommitSlot
    <2>2. QED
      BY <1>1, <1>2, <2>1, RingAlone
  <1>5. CASE t = First
    <2>1. CommitExternal(rslot) /\ UNCHANGED <<content, frames, producerVars, uploadVars, gpuVars>>
      BY <1>1, <1>5 DEF CommitSlot
    <2>2. ExternalSound' /\ \A s \in Slots : state'[s] = "Idle" <=> s # rslot /\ state[s] = "Idle"
      BY <1>3, <2>1, ExternalCommitted DEF RingSide
    <2>3. rheld'[First] = rheld[First] \cup {rslot}
      BY <1>1, <1>3, <1>5
    <2>4. \A s \in Slots : state'[s] # "Idle" => s \in rheld'[First]
      BY <2>2, <2>3 DEF RingSide
    <2>5. content[rslot] = frames /\ Upto = frames - 1 /\ Upto' = frames /\ frames \in Nat
      BY <1>2, <1>5, <2>1 DEF Upto, RingSide, ExternalSound, TypeOK
    <2>6. Enqueue(rslot) /\ state[rslot] = "Idle" /\ released' = released
      BY <2>1 DEF CommitExternal
    <2>7. UNCHANGED <<owned, upc, staged, unreleased>>
      BY <2>1 DEF producerVars, uploadVars, gpuVars
    <2>8. CommitsAccounted'
      BY <1>3, <2>6, <2>7, EnqueueAccounts DEF RingSide, ExternalSound
    <2>9. InTurn(ready', stamp', staged'.frame, frames)
      <3>1. \A i \in DOMAIN ready : ready[i] # rslot
        BY <1>3, <2>6, AtRest DEF RingSide
      <3>2. frames - 1 \in Int /\ frames - 1 < content[rslot] /\ frames = content[rslot]
        BY <2>5
      <3>3. TypeOK /\ InTurn(ready, stamp, staged.frame, frames - 1) /\ staged' = staged
        BY <2>5, <2>7 DEF RingSide, ExternalSound
      <3>4. QED
        BY <1>3, <2>6, <3>1, <3>2, <3>3, EnqueueTurn
    <2>10. QED
      BY <1>2, <2>2, <2>4, <2>5, <2>7, <2>8, <2>9 DEF RingSide
  <1>6. QED
    BY <1>4, <1>5

-----------------------------------------------------------------------------
(* The thread that plays. *)

\* Its own steps, but for those that take, give or need a slot: where it may go.
LEMMA ThreadAlone ==
  ASSUME ScriptSound, ThreadSide,
         UNCHANGED <<kind, script, streams, bound, rheld, rgoing, rhalted, rslot>>,
         clock' = clock, base' \in 0 .. MaxClock, pos' \in 1 .. Len(script) + 1,
         rpc # "unbound", rpc # "exited",
         rpc' \in {"pass", "message", "slot", "finish", "exited"}, finished' \in {"no", "end", "failed"},
         rpc' = "slot" => pos' \in DOMAIN script /\ script[pos'].topic \in ToSet(streams),
         rpc' = "exited" => rhalted \/ finished' # "no",
         finished' # finished => rpc' = "exited"
  PROVE  ThreadSide'
  <1>1. finished = "no"
    BY DEF ThreadSide, EndAnnounced
  <1>2. AtMessage'
    BY DEF AtMessage, Message
  <1>3. BoundInOrder' /\ AllBound'
    BY DEF ThreadSide, BoundInOrder, AllBound
  <1>4. EndAnnounced'
    BY <1>1 DEF EndAnnounced
  <1>5. ReplayTypeOK'
    BY DEF ThreadSide, ReplayTypeOK
  <1>6. QED
    BY <1>2, <1>3, <1>4, <1>5 DEF ThreadSide

LEMMA ThreadWalks ==
  ASSUME ScriptSound, ThreadSide,
         BeginPass \/ PassOver \/ Leave \/ Due \/ GiveUp \/ PlaybackFails \/ Finish
  PROVE  ThreadSide'
  <1>0. /\ Len(script) \in Nat /\ DOMAIN script = 1 .. Len(script)
        /\ base \in 0 .. MaxClock /\ pos \in 1 .. Len(script) + 1 /\ clock \in 1 .. MaxClock
        /\ finished \in {"no", "end", "failed"} /\ (rgoing \/ rhalted \/ rpc = "unbound")
        /\ (rpc \in {"slot", "write", "commit"} =>
              pos \in DOMAIN script /\ Message.topic \in ToSet(streams))
    BY FirstIsStream DEF ThreadSide, ReplayTypeOK, AtMessage
  <1>1. CASE BeginPass
    <2>1. /\ UNCHANGED <<kind, script, streams, bound, rheld, rgoing, rhalted, rslot, clock, finished>>
          /\ rpc = "pass" /\ rpc' = "message" /\ base' = clock /\ pos' = 1
      BY <1>1 DEF BeginPass, PassBase, besideVars, givenVars
    <2>2. base' \in 0 .. MaxClock /\ pos' \in 1 .. Len(script) + 1
      BY <1>0, <2>1, BoundsAssumption
    <2>3. QED
      BY <1>0, <2>1, <2>2, ThreadAlone
  <1>2. CASE PassOver
    <2>1. /\ UNCHANGED <<kind, script, streams, bound, rheld, rgoing, rhalted, rslot, clock, finished, base, pos>>
          /\ rpc = "message" /\ rpc' \in {"pass", "finish"}
      BY <1>2 DEF PassOver, besideVars, givenVars
    <2>2. QED
      BY <1>0, <2>1, ThreadAlone
  <1>3. CASE Leave
    <2>1. /\ UNCHANGED <<kind, script, streams, bound, rheld, rgoing, rhalted, rslot, clock, finished, base, pos>>
          /\ rpc = "message" /\ rpc' = "exited" /\ ~rgoing
      BY <1>3 DEF Leave, Leaves, besideVars, givenVars
    <2>2. QED
      BY <1>0, <2>1, ThreadAlone
  <1>4. CASE Due
    <2>1. /\ UNCHANGED <<kind, script, streams, bound, rheld, rgoing, rhalted, rslot, clock, finished, base>>
          /\ rpc = "message" /\ pos <= Len(script)
          /\ \/ Message.topic \in ToSet(streams) /\ rpc' = "slot" /\ pos' = pos
             \/ rpc' = rpc /\ pos' = pos + 1
      BY <1>4 DEF Due, besideVars, givenVars
    <2>2. pos \in DOMAIN script /\ pos' \in 1 .. Len(script) + 1
      BY <1>0, <2>1
    <2>3. QED
      BY <1>0, <2>1, <2>2, ThreadAlone DEF Message
  <1>5. CASE GiveUp
    <2>1. /\ UNCHANGED <<kind, script, streams, bound, rheld, rgoing, rhalted, rslot, clock, finished, base>>
          /\ rpc = "slot"
          /\ \/ ~rgoing /\ rpc' = "exited" /\ pos' = pos
             \/ rpc' = "message" /\ pos' = pos + 1
      BY <1>5 DEF GiveUp, besideVars, givenVars
    <2>2. pos' \in 1 .. Len(script) + 1
      BY <1>0, <2>1
    <2>3. QED
      BY <1>0, <2>1, <2>2, ThreadAlone
  <1>6. CASE PlaybackFails
    <2>1. /\ UNCHANGED <<kind, script, streams, bound, rheld, rgoing, rhalted, rslot, clock, base, pos>>
          /\ rpc \in {"write", "commit"} /\ rpc' = "exited" /\ finished' = "failed"
      BY <1>6 DEF PlaybackFails, besideVars, givenVars
    <2>2. QED
      BY <1>0, <2>1, ThreadAlone
  <1>7. CASE Finish
    <2>1. /\ UNCHANGED <<kind, script, streams, bound, rheld, rgoing, rhalted, rslot, clock, base, pos>>
          /\ rpc = "finish" /\ rpc' = "exited" /\ finished' = "end"
      BY <1>7 DEF Finish, besideVars, givenVars
    <2>2. QED
      BY <1>0, <2>1, ThreadAlone
  <1>8. QED
    BY <1>1, <1>2, <1>3, <1>4, <1>5, <1>6, <1>7

\* The slot it takes is one it did not hold, or holds no longer.
LEMMA ThreadPlays ==
  ASSUME ScriptSound, ThreadSide, TakeSlot \/ Write \/ CommitImage
  PROVE  ThreadSide'
  <1> DEFINE t == Message.topic
  <1>1. /\ UNCHANGED <<kind, script, streams, bound, rgoing, rhalted, clock, finished, base>>
        /\ rpc \in {"slot", "write", "commit"}
    BY DEF TakeSlot, ReclaimSlots, Write, CommitImage, givenVars
  <1>2. /\ pos \in DOMAIN script /\ t \in ToSet(streams) /\ rheld \in [ToSet(streams) -> SUBSET Slots]
        /\ Len(script) \in Nat /\ DOMAIN script = 1 .. Len(script)
        /\ finished = "no" /\ (rgoing \/ rhalted) /\ rslot \in Slots \cup {NoSlot}
    BY <1>1, FirstIsStream DEF ThreadSide, AtMessage, ReplayTypeOK, EndAnnounced
  <1>3. BoundInOrder' /\ AllBound'
    BY <1>1 DEF ThreadSide, BoundInOrder, AllBound
  <1>4. CASE TakeSlot
    <2>1. PICK S \in Returned(t) : /\ rslot' \in Slots \ (rheld[t] \ S)
                                   /\ rheld' = [rheld EXCEPT ![t] = @ \ S]
      BY <1>4 DEF TakeSlot, ReclaimSlots
    <2>2. rpc' = "write" /\ pos' = pos
      BY <1>4 DEF TakeSlot
    <2>3. Message' = Message
      BY <1>1, <2>2 DEF Message
    <2> HIDE DEF t
    <2>4. rheld' \in [ToSet(streams) -> SUBSET Slots] /\ rheld'[t] = rheld[t] \ S
      BY <1>2, <2>1
    <2>5. AtMessage' /\ ReplayTypeOK'
      BY <1>1, <1>2, <2>1, <2>2, <2>3, <2>4 DEF AtMessage, ReplayTypeOK, ThreadSide, t
    <2>6. QED
      BY <1>1, <1>2, <1>3, <2>2, <2>5 DEF ThreadSide, EndAnnounced
  <1>5. CASE Write
    <2>1. rpc = "write" /\ rpc' = "commit" /\ UNCHANGED <<pos, rslot, rheld>>
      BY <1>5 DEF Write
    <2>2. AtMessage' /\ ReplayTypeOK'
      BY <1>1, <2>1 DEF AtMessage, ReplayTypeOK, ThreadSide, Message
    <2>3. QED
      BY <1>1, <1>2, <1>3, <2>1, <2>2 DEF ThreadSide, EndAnnounced
  <1>6. CASE CommitImage
    <2>1. rpc = "commit" /\ rpc' = "message" /\ pos' = pos + 1 /\ rslot' = rslot
          /\ rheld' = [rheld EXCEPT ![t] = @ \cup {rslot}] /\ rslot \in Slots
      BY <1>6 DEF CommitImage, ThreadSide, AtMessage
    <2> HIDE DEF t
    <2>2. rheld' \in [ToSet(streams) -> SUBSET Slots] /\ pos' \in 1 .. Len(script) + 1
      BY <1>2, <2>1
    <2>3. AtMessage' /\ ReplayTypeOK'
      BY <1>1, <1>2, <2>1, <2>2 DEF AtMessage, ReplayTypeOK, ThreadSide
    <2>4. QED
      BY <1>1, <1>2, <1>3, <2>1, <2>3 DEF ThreadSide, EndAnnounced
  <1>7. QED
    BY <1>4, <1>5, <1>6

\* A stream more is bound: the last one sets the thread going.
LEMMA ThreadBinds ==
  ASSUME ScriptSound, ThreadSide, StartStream
  PROVE  ThreadSide'
  <1> DEFINE n == Cardinality(bound)
             fresh == streams[n + 1]
  <1>1. /\ n \in Nat /\ n < Len(streams) /\ IsFiniteSet(bound) /\ bound = {streams[i] : i \in 1 .. n}
        /\ Len(streams) \in Nat /\ DOMAIN streams = 1 .. Len(streams)
        /\ streams \in Seq(ToSet(streams))
    BY FirstIsStream DEF ThreadSide, BoundInOrder, StartStream, ScriptSound
  <1>2. /\ bound' = bound \cup {fresh}
        /\ UNCHANGED <<kind, script, streams, clock, base, pos, rslot, finished, rheld, rhalted>>
        /\ \/ n + 1 = Len(streams) /\ rpc = "unbound" /\ rgoing' = TRUE /\ rpc' = "pass"
           \/ ~(n + 1 = Len(streams) /\ rpc = "unbound") /\ rgoing' = rgoing /\ rpc' = rpc
    BY DEF StartStream, LastBind, givenVars
  <1>3. \A i, j \in DOMAIN streams : streams[i] = streams[j] => i = j
    BY DEF ScriptSound, IsInjective
  <1> HIDE DEF n, fresh
  <1>4. fresh \notin bound /\ fresh \in ToSet(streams)
    <2>1. n + 1 \in DOMAIN streams /\ \A i \in 1 .. n : i \in DOMAIN streams /\ i # n + 1
      BY <1>1
    <2>2. fresh = streams[n + 1]
      BY DEF fresh
    <2>3. QED
      BY <1>1, <1>3, <2>1, <2>2 DEF ToSet
  <1>5. IsFiniteSet(bound') /\ Cardinality(bound') = n + 1
    BY <1>1, <1>2, <1>4, FS_AddElement DEF n
  <1>6. bound' = {streams[i] : i \in 1 .. n + 1}
    <2>1. 1 .. n + 1 = (1 .. n) \cup {n + 1}
      BY <1>1
    <2>2. QED
      BY <1>1, <1>2, <2>1 DEF fresh
  <1>7. BoundInOrder'
    <2>1. n + 1 \in 0 .. Len(streams)
      BY <1>1
    <2>2. {streams[i] : i \in 1 .. n + 1} = {streams'[i] : i \in 1 .. Cardinality(bound')}
      BY <1>2, <1>5
    <2>3. QED
      BY <1>2, <1>5, <1>6, <2>1, <2>2 DEF BoundInOrder
  <1>8. AllBound'
    <2>1. CASE rpc = "unbound" /\ n + 1 = Len(streams)
      <3>1. bound' = ToSet(streams)
        BY <1>1, <1>6, <2>1 DEF ToSet
      <3>2. QED
        BY <1>2, <3>1 DEF AllBound
    <2>2. CASE rpc # "unbound"
      BY <1>2, <1>4, <2>2 DEF AllBound, ThreadSide
    <2>3. CASE rpc = "unbound" /\ rpc' = "unbound"
      BY <2>3 DEF AllBound
    <2>4. QED
      BY <1>2, <2>1, <2>2, <2>3
  <1>9. ReplayTypeOK' /\ AtMessage'
    BY <1>2, <1>4 DEF ThreadSide, ReplayTypeOK, AtMessage, Message
  <1>10. EndAnnounced' /\ (rpc' # "unbound" => rgoing' \/ rhalted')
    BY <1>2 DEF ThreadSide, EndAnnounced
  <1>11. QED
    BY <1>2, <1>7, <1>8, <1>9, <1>10 DEF ThreadSide

LEMMA ThreadTold ==
  ASSUME ScriptSound, ThreadSide, HaltReplay \/ Tick \/ UNCHANGED replayVars
  PROVE  ThreadSide'
  <1>1. UNCHANGED <<kind, script, streams, bound, rpc, base, pos, rheld, rslot, finished>>
    BY DEF HaltReplay, Tick, replayVars, givenVars, playerVars
  <1>2. clock' \in 1 .. MaxClock
    <2>1. CASE Tick
      BY <2>1, BoundsAssumption DEF Tick, ThreadSide
    <2>2. CASE clock' = clock
      BY <2>2 DEF ThreadSide
    <2>3. QED
      BY <2>1, <2>2 DEF HaltReplay, replayVars
  <1>3. /\ rgoing' \in BOOLEAN /\ rhalted' \in BOOLEAN /\ (rhalted => rhalted')
        /\ rpc' # "unbound" => rgoing' \/ rhalted'
    <2>1. CASE HaltReplay
      <3>1. rhalted' = TRUE /\ rgoing' = FALSE
        BY <2>1 DEF HaltReplay
      <3>2. QED
        BY <3>1
    <2>2. CASE UNCHANGED <<rpc, rgoing, rhalted>>
      BY <2>2 DEF ThreadSide, ReplayTypeOK
    <2>3. QED
      BY <2>1, <2>2 DEF Tick, replayVars, playerVars
  <1>4. AtMessage' /\ BoundInOrder' /\ AllBound' /\ EndAnnounced'
    BY <1>1, <1>3 DEF ThreadSide, AtMessage, Message, BoundInOrder, AllBound, EndAnnounced
  <1>5. ReplayTypeOK'
    BY <1>1, <1>3 DEF ThreadSide, ReplayTypeOK
  <1>6. QED
    BY <1>2, <1>3, <1>4, <1>5 DEF ThreadSide

-----------------------------------------------------------------------------
(* The counters. *)

\* n frames of each stream at most, counted one by one up to d of the stream.
OneByOne(T, d, n) == {x \in T \X (1 .. n + 1) : x[2] <= d[x[1]]}

LEMMA CountedStays ==
  ASSUME NEW T, NEW d \in [T -> Nat], NEW n \in Nat, NEW m \in Nat, n <= m,
         \A t \in T : d[t] <= n
  PROVE  OneByOne(T, d, m) = OneByOne(T, d, n)
  <1>1. \A t \in T, k \in 1 .. m + 1 : k <= d[t] => k \in 1 .. n + 1
    <2> SUFFICES ASSUME NEW t \in T, NEW k \in 1 .. m + 1, k <= d[t]
                 PROVE  k \in 1 .. n + 1
      OBVIOUS
    <2>1. d[t] \in Nat /\ d[t] <= n
      OBVIOUS
    <2>2. QED
      BY <2>1
  <1>2. 1 .. n + 1 \subseteq 1 .. m + 1
    OBVIOUS
  <1>3. QED
    BY <1>1, <1>2 DEF OneByOne

\* One frame more of a stream is one counted frame more.
LEMMA CountedGrows ==
  ASSUME NEW T, NEW d \in [T -> Nat], NEW n \in Nat, NEW t \in T, d[t] + 1 <= n,
         IsFiniteSet(OneByOne(T, d, n)), NEW e, e = [d EXCEPT ![t] = @ + 1]
  PROVE  /\ IsFiniteSet(OneByOne(T, e, n))
         /\ Cardinality(OneByOne(T, e, n)) = Cardinality(OneByOne(T, d, n)) + 1
  <1> DEFINE new == <<t, d[t] + 1>>
  <1>1. d[t] \in Nat /\ e \in [T -> Nat] /\ e[t] = d[t] + 1 /\ \A u \in T : u # t => e[u] = d[u]
    OBVIOUS
  <1>2. new \in T \X (1 .. n + 1)
    BY <1>1
  <1>3. \A u \in T, k \in 1 .. n + 1 : k <= e[u] <=> k <= d[u] \/ <<u, k>> = new
    BY <1>1
  <1>4. OneByOne(T, e, n) = OneByOne(T, d, n) \cup {new}
    <2>1. \A x \in T \X (1 .. n + 1) : x = <<x[1], x[2]>> /\ x[1] \in T /\ x[2] \in 1 .. n + 1
      OBVIOUS
    <2> HIDE DEF new
    <2>2. \A x \in T \X (1 .. n + 1) : x[2] <= e[x[1]] <=> x[2] <= d[x[1]] \/ x = new
      BY <1>3, <2>1
    <2>3. QED
      BY <1>2, <2>2 DEF OneByOne
  <1>5. new \notin OneByOne(T, d, n)
    BY <1>1 DEF OneByOne
  <1> HIDE DEF new
  <1>6. /\ IsFiniteSet(OneByOne(T, d, n) \cup {new})
        /\ Cardinality(OneByOne(T, d, n) \cup {new}) = Cardinality(OneByOne(T, d, n)) + 1
    BY <1>5, FS_AddElement, Zenon
  <1>7. QED
    BY <1>4, <1>6

\* No frame counted yet.
LEMMA CountedInits ==
  ASSUME NEW T
  PROVE  OneByOne(T, [t \in T |-> 0], 0) = {}
  BY DEF OneByOne

\* How many frames of each stream the counters know of.
Known == [t \in ToSet(streams) |-> delivered[t] + dropped[t]]

LEMMA KnownCounted == Counted = OneByOne(ToSet(streams), Known, reads)
  <1>1. \A x \in ToSet(streams) \X (1 .. reads + 1) : x[1] \in ToSet(streams)
    OBVIOUS
  <1>2. QED
    BY <1>1 DEF Counted, OneByOne, Known

LEMMA KnownBounded ==
  ASSUME CountSide
  PROVE  /\ Known \in [ToSet(streams) -> Nat]
         /\ \A t \in ToSet(streams) : Known[t] + PendingOf(t) <= reads
  BY DEF CountSide, Known

\* A step that touches no counter, and leaves the frame at hand or has the same.
LEMMA CountAlone ==
  ASSUME CountSide, UNCHANGED <<streams, reads, delivered, dropped, committed>>,
         \/ rpc' \notin {"slot", "write", "commit"}
         \/ rpc \in {"slot", "write", "commit"} /\ UNCHANGED <<script, pos>>
  PROVE  CountSide'
  <1>1. Counted' = Counted /\ First' = First
    BY DEF Counted, First
  <1>2. Pending \in {0, 1} /\ Pending' \in {0, 1} /\ Pending' <= Pending
    BY DEF Pending
  <1>3. \A t \in ToSet(streams) : PendingOf(t)' \in {0, 1} /\ PendingOf(t) \in {0, 1}
                                  /\ PendingOf(t)' <= PendingOf(t)
    BY DEF PendingOf, Message
  <1>4. Cardinality(Counted) \in Nat /\ reads \in Nat
    BY FS_CardinalityType DEF CountSide
  <1>5. \A t \in ToSet(streams) : delivered[t] \in Nat /\ dropped[t] \in Nat
    BY DEF CountSide
  <1>6. \A t \in ToSet(streams) : delivered[t] + dropped[t] + PendingOf(t)' <= reads
    BY <1>3, <1>4, <1>5 DEF CountSide
  <1>7. Cardinality(Counted) + Pending' <= reads
    BY <1>2, <1>4 DEF CountSide
  <1>8. QED
    BY <1>1, <1>6, <1>7 DEF CountSide

\* A frame is read, and waits for a slot.
LEMMA CountRead ==
  ASSUME CountSide, UNCHANGED <<streams, delivered, dropped, committed>>, reads' = reads + 1,
         rpc \notin {"slot", "write", "commit"}
  PROVE  CountSide'
  <1>1. Known' = Known /\ First' = First /\ reads \in Nat /\ reads' \in Nat
    BY DEF Known, First, CountSide
  <1>2. \A t \in ToSet(streams) : PendingOf(t)' \in {0, 1} /\ PendingOf(t) = 0
    BY DEF PendingOf
  <1>3. Known \in [ToSet(streams) -> Nat] /\ \A t \in ToSet(streams) : Known[t] <= reads
    BY <1>1, <1>2, KnownBounded
  <1>4. Counted = OneByOne(ToSet(streams), Known, reads)
    BY KnownCounted
  <1>5. Counted' = OneByOne(ToSet(streams), Known, reads')
    <2>1. \A x \in ToSet(streams) \X (1 .. reads' + 1) : x[1] \in ToSet(streams)
      OBVIOUS
    <2>2. QED
      BY <2>1 DEF Counted, OneByOne, Known
  <1>6. Counted' = Counted
    BY <1>1, <1>3, <1>4, <1>5, CountedStays
  <1>7. Pending = 0 /\ Pending' \in {0, 1}
    BY DEF Pending
  <1>8. Cardinality(Counted) \in Nat
    BY FS_CardinalityType DEF CountSide
  <1>9. \A t \in ToSet(streams) : delivered[t] \in Nat /\ dropped[t] \in Nat
    BY DEF CountSide
  <1>10. \A t \in ToSet(streams) : delivered[t] + dropped[t] + PendingOf(t)' <= reads'
    BY <1>1, <1>2, <1>9 DEF CountSide
  <1>11. Cardinality(Counted) + Pending' <= reads'
    BY <1>1, <1>7, <1>8 DEF CountSide
  <1>12. QED
    BY <1>1, <1>6, <1>10, <1>11 DEF CountSide

\* A frame that was read is delivered or dropped.
LEMMA CountMore ==
  ASSUME CountSide, NEW t \in ToSet(streams), streams' = streams,
         reads' \in Nat, reads <= reads', Known[t] + 1 <= reads', Cardinality(Counted) + 1 <= reads',
         delivered' \in [ToSet(streams) -> Nat], dropped' \in [ToSet(streams) -> Nat],
         Known' = [Known EXCEPT ![t] = @ + 1],
         delivered'[First] = committed', rpc' = "message"
  PROVE  CountSide'
  <1>1. First' = First /\ reads \in Nat
    BY DEF First, CountSide
  <1>2. Known \in [ToSet(streams) -> Nat] /\ \A u \in ToSet(streams) : Known[u] <= reads
    <2>1. \A u \in ToSet(streams) : PendingOf(u) \in {0, 1}
      BY DEF PendingOf
    <2>2. /\ Known \in [ToSet(streams) -> Nat]
          /\ \A u \in ToSet(streams) : Known[u] + PendingOf(u) <= reads
      BY KnownBounded
    <2>3. QED
      BY <1>1, <2>1, <2>2
  <1>3. /\ Counted = OneByOne(ToSet(streams), Known, reads)
        /\ Counted' = OneByOne(ToSet(streams), Known', reads')
    <2>1. Counted = OneByOne(ToSet(streams), Known, reads)
      BY KnownCounted
    <2>2. \A x \in ToSet(streams) \X (1 .. reads' + 1) : x[1] \in ToSet(streams)
      OBVIOUS
    <2>3. \A u \in ToSet(streams) : Known'[u] = delivered'[u] + dropped'[u]
      BY DEF Known
    <2> HIDE DEF Known
    <2>4. Counted' = OneByOne(ToSet(streams), Known', reads')
      BY <2>2, <2>3 DEF Counted, OneByOne
    <2>5. QED
      BY <2>1, <2>4
  <1>4. OneByOne(ToSet(streams), Known, reads') = Counted
    BY <1>1, <1>2, <1>3, CountedStays
  <1>5. IsFiniteSet(Counted') /\ Cardinality(Counted') = Cardinality(Counted) + 1
    <2> DEFINE T == ToSet(streams)
               d == Known
               e == Known'
               n == reads'
    <2>1. /\ d \in [T -> Nat] /\ n \in Nat /\ t \in T /\ d[t] + 1 <= n
          /\ IsFiniteSet(OneByOne(T, d, n)) /\ e = [d EXCEPT ![t] = @ + 1]
      BY <1>2, <1>4 DEF CountSide
    <2>2. OneByOne(T, d, n) = Counted /\ OneByOne(T, e, n) = Counted'
      BY <1>3, <1>4
    <2> HIDE DEF T, d, e, n
    <2>3. /\ IsFiniteSet(OneByOne(T, e, n))
          /\ Cardinality(OneByOne(T, e, n)) = Cardinality(OneByOne(T, d, n)) + 1
      BY ONLY <2>1, CountedGrows
    <2>4. QED
      BY <2>2, <2>3
  <1>6. Pending' = 0 /\ \A u \in ToSet(streams) : PendingOf(u)' = 0
    BY DEF Pending, PendingOf
  <1>7. \A u \in ToSet(streams) : delivered'[u] + dropped'[u] <= reads'
    <2>1. \A u \in ToSet(streams) : delivered'[u] + dropped'[u] = Known'[u]
      BY DEF Known
    <2>2. \A u \in ToSet(streams) : Known'[u] = IF u = t THEN Known[t] + 1 ELSE Known[u]
      BY <1>2
    <2>3. QED
      BY <1>1, <1>2, <2>1, <2>2
  <1>8. Cardinality(Counted') \in Nat
    BY <1>5, FS_CardinalityType
  <1>9. /\ \A u \in ToSet(streams') : delivered'[u] + dropped'[u] + PendingOf(u)' <= reads'
        /\ Cardinality(Counted') + Pending' <= reads'
    <2>1. \A u \in ToSet(streams) : delivered'[u] \in Nat /\ dropped'[u] \in Nat
      OBVIOUS
    <2>2. QED
      BY <1>5, <1>6, <1>7, <1>8, <2>1
  <1>10. QED
    BY <1>1, <1>5, <1>9 DEF CountSide

LEMMA CountFacts ==
  ASSUME ScriptSound, CountSide
  PROVE  /\ Cardinality(Counted) \in Nat /\ reads \in Nat
         /\ First \in ToSet(streams)
         /\ \A t \in ToSet(streams) : delivered[t] \in Nat /\ dropped[t] \in Nat
                                      /\ Known[t] = delivered[t] + dropped[t]
         /\ Known \in [ToSet(streams) -> Nat]
  BY FirstIsStream, FS_CardinalityType, KnownBounded DEF CountSide, Known

\* A dropped frame is known, whatever it was waiting for.
LEMMA CountDropped ==
  ASSUME ScriptSound, CountSide, NEW t \in ToSet(streams), UNCHANGED <<streams, delivered, committed>>,
         dropped' = [dropped EXCEPT ![t] = @ + 1], rpc' = "message",
         \/ rpc \notin {"slot", "write", "commit"} /\ reads' = reads + 1
         \/ rpc \in {"slot", "write", "commit"} /\ Message.topic = t /\ reads' = reads
  PROVE  CountSide'
  <1>1. dropped' \in [ToSet(streams) -> Nat] /\ delivered' \in [ToSet(streams) -> Nat]
        /\ delivered'[First] = committed'
    BY CountFacts DEF CountSide
  <1>2. Known' = [Known EXCEPT ![t] = @ + 1]
    <2>1. \A u \in ToSet(streams) : dropped'[u] = IF u = t THEN dropped[t] + 1 ELSE dropped[u]
      BY DEF CountSide
    <2>2. \A u \in ToSet(streams) :
            delivered'[u] + dropped'[u] = IF u = t THEN delivered[t] + dropped[t] + 1
                                                   ELSE delivered[u] + dropped[u]
      BY <2>1, CountFacts
    <2>3. QED
      BY <2>2 DEF Known
  <1>3. PendingOf(t) + reads' = reads + 1 /\ Pending + reads' = reads + 1 /\ reads' \in Nat
        /\ PendingOf(t) \in {0, 1} /\ Pending \in {0, 1} /\ reads <= reads'
    BY CountFacts DEF PendingOf, Pending
  <1>4. Known[t] + 1 <= reads'
    <2>1. Known[t] \in Nat /\ Known[t] + PendingOf(t) <= reads /\ reads \in Nat
      BY KnownBounded, CountFacts
    <2>2. QED
      BY <1>3, <2>1
  <1>5. Cardinality(Counted) + 1 <= reads'
    <2>1. Cardinality(Counted) \in Nat /\ reads \in Nat /\ Cardinality(Counted) + Pending <= reads
      BY CountFacts DEF CountSide
    <2>2. (Pending = 0 /\ reads' = reads + 1) \/ (Pending = 1 /\ reads' = reads)
      BY DEF Pending
    <2>3. QED
      BY <2>1, <2>2
  <1>6. QED
    BY <1>1, <1>2, <1>3, <1>4, <1>5, CountMore

LEMMA CountWalks ==
  ASSUME ScriptSound, ThreadSide, CountSide,
         BeginPass \/ PassOver \/ Leave \/ Due \/ GiveUp \/ PlaybackFails \/ Finish
  PROVE  CountSide'
  <1>0. UNCHANGED <<script, streams, committed>>
    BY DEF BeginPass, PassOver, Leave, Due, GiveUp, PlaybackFails, Finish, besideVars, givenVars, vars,
           ringVars
  <1>1. CASE BeginPass \/ PassOver \/ Leave \/ PlaybackFails \/ Finish
    <2>1. UNCHANGED <<reads, delivered, dropped>> /\ rpc' \in {"pass", "message", "finish", "exited"}
      BY <1>1 DEF BeginPass, PassOver, Leave, PlaybackFails, Finish, countVars
    <2>2. QED
      BY <1>0, <2>1, CountAlone
  <1>2. CASE Due
    <2>1. rpc = "message" /\ reads' = reads + 1 /\ delivered' = delivered
      BY <1>2 DEF Due
    <2>2. CASE dropped' = dropped
      BY <1>0, <2>1, <2>2, CountRead
    <2>3. CASE /\ Message.topic \in ToSet(streams) /\ rpc' = rpc
               /\ dropped' = [dropped EXCEPT ![Message.topic] = @ + 1]
      BY <1>0, <2>1, <2>3, CountDropped
    <2>4. QED
      BY <1>2, <2>2, <2>3 DEF Due
  <1>3. CASE GiveUp
    <2>1. rpc = "slot" /\ UNCHANGED <<reads, delivered>> /\ Message.topic \in ToSet(streams)
      BY <1>3 DEF GiveUp, ThreadSide, AtMessage
    <2>2. CASE dropped' = dropped /\ rpc' = "exited"
      BY <1>0, <2>1, <2>2, CountAlone
    <2>3. CASE rpc' = "message" /\ dropped' = [dropped EXCEPT ![Message.topic] = @ + 1]
      BY <1>0, <2>1, <2>3, CountDropped
    <2>4. QED
      BY <1>3, <2>2, <2>3 DEF GiveUp
  <1>4. QED
    BY <1>1, <1>2, <1>3

\* A delivered frame of the first stream is one the ring got.
LEMMA CountPlays ==
  ASSUME ScriptSound, RingSide, ThreadSide, CountSide, TakeSlot \/ Write \/ CommitImage
  PROVE  CountSide'
  <1>1. CASE TakeSlot
    <2>1. UNCHANGED <<script, streams, pos, committed, reads, delivered, dropped>> /\ rpc = "slot"
      BY <1>1 DEF TakeSlot, ReclaimSlots, givenVars, countVars
    <2>2. QED
      BY <2>1, CountAlone
  <1>2. CASE Write
    <2>1. UNCHANGED <<script, streams, pos, committed, reads, delivered, dropped>> /\ rpc = "write"
      BY <1>2 DEF Write, ringVars, givenVars, countVars
    <2>2. QED
      BY <2>1, CountAlone
  <1>3. CASE CommitImage
    <2> DEFINE t == Message.topic
    <2>1. /\ rpc = "commit" /\ rpc' = "message" /\ CommitSlot(t)
          /\ delivered' = [delivered EXCEPT ![t] = @ + 1] /\ UNCHANGED <<streams, reads, dropped>>
      BY <1>3 DEF CommitImage, givenVars
    <2>2. t \in ToSet(streams) /\ PendingOf(t) = 1 /\ Pending = 1
      BY <2>1 DEF ThreadSide, AtMessage, PendingOf, Pending
    <2>3. committed' = IF t = First THEN committed + 1 ELSE committed
      BY <2>1 DEF CommitSlot, CommitExternal, Enqueue, vars, ringVars
    <2> HIDE DEF t
    <2>4. delivered \in [ToSet(streams) -> Nat] /\ dropped \in [ToSet(streams) -> Nat]
          /\ delivered[First] = committed /\ Cardinality(Counted) + Pending <= reads
      BY DEF CountSide
    <2>5. /\ delivered' \in [ToSet(streams) -> Nat] /\ dropped' \in [ToSet(streams) -> Nat]
          /\ \A u \in ToSet(streams) : delivered'[u] = IF u = t THEN delivered[t] + 1 ELSE delivered[u]
      BY <2>1, <2>2, <2>4
    <2>6. delivered'[First] = committed'
      BY <2>3, <2>4, <2>5, CountFacts
    <2>7. Known' = [Known EXCEPT ![t] = @ + 1]
      <3>1. \A u \in ToSet(streams) :
              delivered'[u] + dropped'[u] = IF u = t THEN delivered[t] + dropped[t] + 1
                                                     ELSE delivered[u] + dropped[u]
        BY <2>1, <2>2, <2>5, CountFacts
      <3>2. QED
        BY <2>1, <3>1 DEF Known
    <2>8. Known[t] + 1 <= reads
      <3>1. Known[t] \in Nat /\ Known[t] + PendingOf(t) <= reads /\ reads \in Nat
        BY <2>2, KnownBounded, CountFacts
      <3>2. QED
        BY <2>2, <3>1
    <2>9. reads \in Nat /\ Cardinality(Counted) + 1 <= reads
      BY <2>2, <2>4, CountFacts
    <2>10. reads' \in Nat /\ reads <= reads' /\ Known[t] + 1 <= reads' /\ streams' = streams
           /\ Cardinality(Counted) + 1 <= reads'
      BY <2>1, <2>8, <2>9
    <2>11. QED
      BY <2>1, <2>2, <2>5, <2>6, <2>7, <2>10, CountMore
  <1>4. QED
    BY <1>1, <1>2, <1>3

-----------------------------------------------------------------------------
(* Together. *)

LEMMA PlayerInits ==
  ASSUME ReplayInit, kind # "staged", ScriptSound
  PROVE  PlayerIInv
  <1>0. /\ Init /\ clock = 1 /\ bound = {} /\ rpc = "unbound" /\ base = 0 /\ pos = 1 /\ rslot = NoSlot
        /\ finished = "no" /\ rheld = [t \in ToSet(streams) |-> {}] /\ rgoing = FALSE /\ rhalted = FALSE
        /\ reads = 0 /\ delivered = [t \in ToSet(streams) |-> 0]
        /\ dropped = [t \in ToSet(streams) |-> 0]
    BY DEF ReplayInit
  <1>1. /\ Len(streams) \in Nat \ {0} /\ First \in ToSet(streams) /\ Len(script) \in Nat
    BY FirstIsStream
  <1>2. RingSide
    <2>1. ExternalSound /\ \A s \in Slots : state[s] = "Idle"
      BY <1>0, ExternalInits
    <2>2. CommitsAccounted
      BY <1>0, StagedTurnInits
    <2>3. owned = {} /\ ready = <<>> /\ staged.frame = 0 /\ frames = 0
      BY <1>0 DEF Init
    <2>4. ~NewFrame /\ Upto = 0
      BY <1>0, <2>3 DEF NewFrame, Upto
    <2>5. InTurn(ready, stamp, staged.frame, Upto)
      BY <2>3, <2>4 DEF InTurn
    <2>6. QED
      BY <2>1, <2>2, <2>3, <2>4, <2>5 DEF RingSide
  <1>3. ThreadSide
    <2>1. BoundInOrder
      <3>1. IsFiniteSet(bound) /\ Cardinality(bound) = 0
        BY <1>0, FS_EmptySet
      <3>2. QED
        BY <1>0, <1>1, <3>1 DEF BoundInOrder
    <2>2. ReplayTypeOK
      <3>1. base \in 0 .. MaxClock /\ pos \in 1 .. Len(script) + 1
        BY <1>0, <1>1, BoundsAssumption
      <3>2. QED
        BY <1>0, <3>1 DEF ReplayTypeOK
    <2>3. clock \in 1 .. MaxClock
      BY <1>0, BoundsAssumption
    <2>4. QED
      BY <1>0, <2>1, <2>2, <2>3 DEF ThreadSide, AtMessage, AllBound, EndAnnounced
  <1>4. CountSide
    <2>1. Known = [t \in ToSet(streams) |-> 0]
      BY <1>0 DEF Known
    <2>2. Counted = {}
      BY <1>0, <2>1, KnownCounted, CountedInits
    <2>3. IsFiniteSet(Counted) /\ Cardinality(Counted) = 0
      BY <2>2, FS_EmptySet
    <2>4. Pending = 0 /\ \A t \in ToSet(streams) : PendingOf(t) = 0
      BY <1>0 DEF Pending, PendingOf
    <2>5. committed = 0
      BY <1>0 DEF Init
    <2>6. QED
      BY <1>0, <1>1, <2>3, <2>4, <2>5 DEF CountSide
  <1>5. QED
    BY <1>2, <1>3, <1>4 DEF PlayerIInv

LEMMA ReplayInits ==
  ASSUME ReplayInit, kind # "staged" => ScriptSound
  PROVE  ReplayIInv
  <1>1. rpc = "unbound" /\ StagedIInv
    BY StagedIInits DEF ReplayInit
  <1>2. QED
    BY <1>1, PlayerInits DEF ReplayIInv

\* Without a replay there are the steps of the Staged ring.
LEMMA StagedAlone ==
  ASSUME MaxOutstanding <= 1, kind = "staged", rpc = "unbound", StagedIInv, [ReplayNext]_replaySysVars
  PROVE  rpc' = "unbound" /\ StagedIInv'
  <1>1. ~ReplayStep /\ ~StartStream /\ ~HaltReplay /\ ~Tick
    BY DEF ReplayStep, BeginPass, PassOver, Leave, Due, TakeSlot, GiveUp, Write, CommitImage,
           PlaybackFails, Finish, StartStream, HaltReplay, Tick
  <1>2. rpc' = rpc
    BY <1>1 DEF ReplayNext, StagedStep, PipelineStep, replaySysVars, replayVars, playerVars
  <1>3. [Next]_vars
    BY <1>1 DEF ReplayNext, StagedStep, PipelineStep, Next, replaySysVars
  <1>4. QED
    BY <1>2, <1>3, StagedISteps

LEMMA PlayerSteps ==
  ASSUME kind # "staged", PlayerIInv, [ReplayNext]_replaySysVars
  PROVE  PlayerIInv'
  <1>0. /\ ScriptSound /\ RingSide /\ ThreadSide /\ CountSide
        /\ ScriptSound' /\ UNCHANGED <<kind, script, streams, config>>
    BY GivenStays, ScriptStays DEF PlayerIInv
  <1>1. CASE BeginPass \/ PassOver \/ Leave \/ Due \/ GiveUp \/ PlaybackFails \/ Finish
    <2>1. UNCHANGED <<vars, rheld, rslot>> /\ rpc' # "commit"
      BY <1>1 DEF BeginPass, PassOver, Leave, Due, GiveUp, PlaybackFails, Finish, besideVars
    <2>2. ~NewFrame'
      BY <2>1 DEF NewFrame
    <2>3. RingSide'
      BY <1>0, <2>1, <2>2, RingAlone
    <2>4. QED
      BY <1>0, <1>1, <2>3, ThreadWalks, CountWalks DEF PlayerIInv
  <1>2. CASE TakeSlot \/ Write \/ CommitImage
    BY <1>0, <1>2, RingTaken, RingWritten, RingGiven, ThreadPlays, CountPlays DEF PlayerIInv
  <1>3. CASE StartStream
    <2>1. /\ UNCHANGED <<vars, rheld, rslot, pos, script, reads, delivered, dropped>>
          /\ rpc' = rpc \/ rpc' = "pass"
      BY <1>3 DEF StartStream, givenVars, countVars
    <2>2. committed' = committed
      BY <2>1 DEF vars, ringVars
    <2>3. NewFrame' => NewFrame
      BY <1>0, <2>1 DEF NewFrame, Message, First
    <2>4. RingSide'
      BY <1>0, <2>1, <2>3, RingAlone
    <2>5. CountSide'
      BY <1>0, <2>1, <2>2, CountAlone
    <2>6. QED
      BY <1>0, <1>3, <2>4, <2>5, ThreadBinds DEF PlayerIInv
  <1>4. CASE HaltReplay \/ Tick \/ UNCHANGED replaySysVars
    <2>1. UNCHANGED <<vars, rheld, rslot, rpc, pos, reads, delivered, dropped>>
      BY <1>4 DEF HaltReplay, Tick, replaySysVars, replayVars, playerVars, countVars
    <2>2. committed' = committed
      BY <2>1 DEF vars, ringVars
    <2>3. NewFrame' => NewFrame
      BY <1>0, <2>1 DEF NewFrame, Message, First
    <2>4. RingSide'
      BY <1>0, <2>1, <2>3, RingAlone
    <2>5. CountSide'
      BY <1>0, <2>1, <2>2, CountAlone
    <2>6. HaltReplay \/ Tick \/ UNCHANGED replayVars
      BY <1>4 DEF replaySysVars
    <2>7. QED
      BY <1>0, <2>4, <2>5, <2>6, ThreadTold DEF PlayerIInv
  <1>5. CASE ReaderSide /\ UNCHANGED replayVars
    <2>1. RingSide'
      BY <1>0, <1>5, RingRead
    <2>2. UNCHANGED <<rpc, pos, reads, delivered, dropped>> /\ committed' = committed
      BY <1>0, <1>5, ReaderLeaves DEF replayVars, playerVars, countVars, RingSide, ExternalSound
    <2>3. CountSide'
      BY <1>0, <2>2, CountAlone
    <2>4. QED
      BY <1>0, <1>5, <2>1, <2>3, ThreadTold DEF PlayerIInv
  <1>6. QED
    BY <1>1, <1>2, <1>3, <1>4, <1>5 DEF ReplayNext, ReplayStep, StagedStep, PipelineStep, ReaderSide

LEMMA ReplaySteps ==
  ASSUME MaxOutstanding <= 1, ReplayIInv, [ReplayNext]_replaySysVars
  PROVE  ReplayIInv'
  BY GivenStays, StagedAlone, PlayerSteps DEF ReplayIInv

LEMMA ReplayKept == ReplayIInv => ReplayInv
  <1> SUFFICES ASSUME ReplayIInv
               PROVE  ReplayInv
    OBVIOUS
  <1>1. CASE kind = "staged"
    BY <1>1, StagedIngress DEF ReplayIInv, ReplayInv, StagedIInv
  <1>2. CASE kind # "staged"
    <2>1. ScriptSound /\ RingSide /\ ThreadSide /\ CountSide
      BY <1>2 DEF ReplayIInv, PlayerIInv
    <2>2. IngressInv
      BY <2>1, OwnersApart, TurnIsOrder DEF RingSide, ExternalSound, IngressInv
    <2>3. ReplayCovers
      BY <2>1 DEF RingSide, ExternalSound, CopiesCovered, Covered, ReplayCovers
    <2>4. CountersTrue
      <3>1. Cardinality(Counted) \in Nat /\ reads \in Nat /\ Pending \in {0, 1}
            /\ Cardinality(Counted) + Pending <= reads /\ delivered[First] = committed
        BY <2>1, CountFacts DEF CountSide, Pending
      <3>2. QED
        BY <3>1 DEF CountersTrue
    <2>5. QED
      BY <1>2, <2>1, <2>2, <2>3, <2>4 DEF ThreadSide, ReplayInv
  <1>3. QED
    BY <1>1, <1>2

LEMMA ReplayCopies == ReplayIInv => UploadIntact
  BY StagedIntact, ExternalIntact DEF ReplayIInv, StagedIInv, PlayerIInv, RingSide

(* What a replay keeps, for every recording and configuration the constructor takes *)
(* and every number of slots, whichever source plays and whenever it is stopped: a  *)
(* slot the pipeline has, or a copy still reads, is held and never written; frames  *)
(* come out in order; what was read is delivered, dropped or nobody's; no frame is  *)
(* read before the last stream is bound; an end is told.  ScriptSound, which the    *)
(* filters of the constructor give, is taken of the initial state.                  *)
THEOREM ReplayKeeps ==
  ASSUME MaxOutstanding <= 1
  PROVE  ReplaySpec /\ (kind # "staged" => ScriptSound) => []ReplayInv
  <1>1. ReplayInit /\ (kind # "staged" => ScriptSound) => ReplayIInv
    BY ReplayInits
  <1>2. ReplayIInv /\ [ReplayNext]_replaySysVars => ReplayIInv'
    BY ReplaySteps
  <1>3. QED
    BY <1>1, <1>2, ReplayKept, PTL DEF ReplaySpec

(* Whichever source fills the ring, a copy pending on the device finds the frame it *)
(* was enqueued for: the torn upload that h2d_done_ and held_ stand against.        *)
THEOREM ReplayUploadsIntact ==
  ASSUME MaxOutstanding <= 1
  PROVE  ReplaySpec /\ (kind # "staged" => ScriptSound) => []UploadIntact
  <1>1. ReplayInit /\ (kind # "staged" => ScriptSound) => ReplayIInv
    BY ReplayInits
  <1>2. ReplayIInv /\ [ReplayNext]_replaySysVars => ReplayIInv'
    BY ReplaySteps
  <1>3. QED
    BY <1>1, <1>2, ReplayCopies, PTL DEF ReplaySpec

-----------------------------------------------------------------------------
(* The stamps the frames go out with. *)

\* What a file's times are, and what StampsAscend needs of them: where the stamps agree
\* with the log times, the messages of a stream are in their order.
TimesSound ==
  /\ epoch.log \in Nat /\ epoch.stamp \in Nat
  /\ \A i \in DOMAIN script : script[i].log \in Nat /\ script[i].stamp \in Nat
  /\ config.rebase /\ Ascending =>
       /\ epoch.log = epoch.stamp
       /\ \A i, j \in DOMAIN script :
            i <= j /\ script[i].topic = script[j].topic => script[i].log <= script[j].log

\* When message j of this pass is due.
DueAt(j) == base + Since(script[j].log, epoch.log)

\* With the stamps rebased: none is ahead of the clock, nor of what its stream has still
\* to send in this pass.
NoneAhead ==
  /\ base <= clock /\ \A t \in ToSet(streams) : sent[t].stamp <= clock
  /\ rpc \in {"slot", "write", "commit"} => DueAt(pos) <= clock
  /\ rpc \in {"message", "slot", "write", "commit"} =>
       \A j \in DOMAIN script : j >= pos /\ script[j].topic \in ToSet(streams) =>
         sent[script[j].topic].stamp <= DueAt(j)

\* A stamp that went out is the file's, or the file's moved to its pass.
OutFor(pass, own) == IF config.rebase THEN pass + Since(own, epoch.stamp) ELSE own

SentSide ==
  /\ sent \in [ToSet(streams) -> [pass : Nat, stamp : Nat, own : Nat]]
  /\ \A t \in ToSet(streams) : sent[t].pass > 0 => sent[t].stamp = OutFor(sent[t].pass, sent[t].own)
  /\ config.rebase /\ Ascending => NoneAhead

TimeIInv ==
  /\ kind = "staged" => rpc = "unbound" /\ DOMAIN sent = {}
  /\ kind # "staged" => PlayerIInv /\ TimesSound /\ SentSide

LEMMA SinceMonotone ==
  ASSUME NEW a \in Nat, NEW b \in Nat, NEW e \in Nat
  PROVE  Since(a, e) \in Nat /\ (a <= b => Since(a, e) <= Since(b, e))
  BY DEF Since

LEMMA DueAtTyped ==
  ASSUME PlayerIInv, TimesSound
  PROVE  base \in Nat /\ clock \in Nat /\ \A j \in DOMAIN script : DueAt(j) \in Nat /\ base <= DueAt(j)
  <1>1. base \in Nat /\ clock \in Nat
    BY BoundsAssumption DEF PlayerIInv, ThreadSide, ReplayTypeOK
  <1>2. \A j \in DOMAIN script : Since(script[j].log, epoch.log) \in Nat
    BY SinceMonotone DEF TimesSound
  <1>3. QED
    BY <1>1, <1>2 DEF DueAt

LEMMA TimesStay ==
  ASSUME TimesSound, UNCHANGED <<script, config, epoch>>
  PROVE  TimesSound'
  BY DEF TimesSound, Ascending

\* A step that sends nothing: what is still to come is what was, or begins now.
LEMMA SentAlone ==
  ASSUME PlayerIInv, PlayerIInv', TimesSound, SentSide, UNCHANGED <<script, streams, config, epoch, sent>>,
         \/ base' = base /\ pos' >= pos
         \/ base' = clock /\ rpc' = "message",
         clock <= clock',
         rpc' = "message" => rpc \in {"message", "slot"} \/ base' = clock,
         rpc' \in {"slot", "write", "commit"} =>
           /\ pos' = pos /\ base' = base
           /\ rpc \in {"slot", "write", "commit"} \/ (rpc = "message" /\ DueAt(pos) <= clock)
  PROVE  SentSide'
  <1>1. \A p, o : OutFor(p, o)' = OutFor(p, o)
    BY DEF OutFor
  <1>2. ASSUME config.rebase, Ascending, NoneAhead
        PROVE  NoneAhead'
    <2>0. /\ base \in Nat /\ clock \in Nat /\ base' \in Nat /\ clock' \in Nat
          /\ \A j \in DOMAIN script : DueAt(j) \in Nat
          /\ \A t \in ToSet(streams) : sent[t].stamp \in Nat
          /\ pos \in Nat /\ pos' \in Nat /\ DOMAIN script \subseteq Nat
      <3>1. base' \in Nat /\ clock' \in Nat /\ pos' \in Nat
        BY BoundsAssumption DEF PlayerIInv, ThreadSide, ReplayTypeOK
      <3>2. pos \in Nat /\ DOMAIN script \subseteq Nat
        BY FirstIsStream DEF PlayerIInv, ThreadSide, ReplayTypeOK
      <3>3. QED
        BY <3>1, <3>2, DueAtTyped DEF SentSide
    <2>1. base' <= clock' /\ \A t \in ToSet(streams') : sent'[t].stamp <= clock'
      BY <1>2, <2>0 DEF NoneAhead
    <2>2. ASSUME rpc' \in {"slot", "write", "commit"}
          PROVE  DueAt(pos)' <= clock'
      <3>1. DueAt(pos)' = DueAt(pos) /\ pos \in DOMAIN script
        <4>1. pos' \in DOMAIN script'
          BY <2>2 DEF PlayerIInv, ThreadSide, AtMessage
        <4>2. QED
          BY <2>2, <4>1 DEF DueAt
      <3>2. DueAt(pos) <= clock
        BY <1>2, <2>2 DEF NoneAhead
      <3>3. QED
        BY <2>0, <3>1, <3>2
    <2>3. ASSUME rpc' \in {"message", "slot", "write", "commit"},
                 NEW j \in DOMAIN script, j >= pos', script[j].topic \in ToSet(streams)
          PROVE  sent[script[j].topic].stamp <= DueAt(j)'
      <3>1. CASE base' = base
        <4>1. DueAt(j)' = DueAt(j)
          BY <3>1 DEF DueAt
        <4>2. CASE rpc \in {"message", "slot", "write", "commit"} /\ j >= pos
          BY <1>2, <2>3, <4>1, <4>2 DEF NoneAhead
        <4>3. CASE base' = clock
          BY <1>2, <2>0, <2>3, <3>1, <4>1, <4>3, DueAtTyped DEF NoneAhead
        <4>4. QED
          BY <2>0, <2>3, <4>2, <4>3
      <3>2. CASE base' = clock
        <4>1. DueAt(j)' = clock + Since(script[j].log, epoch.log) /\ Since(script[j].log, epoch.log) \in Nat
          BY <2>3, <3>2, SinceMonotone DEF DueAt, TimesSound
        <4>2. sent[script[j].topic].stamp <= clock
          BY <1>2, <2>3 DEF NoneAhead
        <4>3. QED
          BY <2>0, <2>3, <4>1, <4>2
      <3>3. QED
        BY <3>1, <3>2
    <2>4. QED
      BY <2>1, <2>2, <2>3 DEF NoneAhead
  <1>3. QED
    BY <1>1, <1>2 DEF SentSide, Ascending

\* A frame goes out: not before what its stream sent last.
LEMMA SentMore ==
  ASSUME PlayerIInv, PlayerIInv', TimesSound, SentSide, CommitImage
  PROVE  SentSide' /\ StampsAscend
  <1> DEFINE t == Message.topic
             out == [pass |-> base, stamp |-> OutStamp, own |-> Message.stamp]
  <1>0. /\ rpc = "commit" /\ rpc' = "message" /\ pos' = pos + 1
        /\ UNCHANGED <<script, streams, config, epoch, base, clock>>
        /\ sent' = [sent EXCEPT ![t] = out]
    BY DEF CommitImage, givenVars
  <1>1. /\ pos \in DOMAIN script /\ t \in ToSet(streams) /\ t = script[pos].topic
        /\ pos \in Nat /\ DOMAIN script \subseteq Nat
    BY <1>0, FirstIsStream DEF PlayerIInv, ThreadSide, AtMessage, Message
  <1>2. /\ base \in Nat /\ clock \in Nat /\ \A j \in DOMAIN script : DueAt(j) \in Nat /\ base <= DueAt(j)
        /\ Message.stamp \in Nat /\ Since(Message.stamp, epoch.stamp) \in Nat
    BY <1>1, DueAtTyped, SinceMonotone DEF TimesSound, Message
  <1>3. OutStamp = OutFor(base, Message.stamp) /\ OutStamp \in Nat
    BY <1>2 DEF OutStamp, OutFor
  <1>4. out \in [pass : Nat, stamp : Nat, own : Nat]
        /\ out.pass = base /\ out.stamp = OutStamp /\ out.own = Message.stamp
    BY <1>2, <1>3
  <1> HIDE DEF t, out
  <1>5. /\ sent' \in [ToSet(streams) -> [pass : Nat, stamp : Nat, own : Nat]]
        /\ sent'[t] = out /\ \A u \in ToSet(streams) : u # t => sent'[u] = sent[u]
        /\ DOMAIN sent = ToSet(streams) /\ \A u \in ToSet(streams) : sent[u].stamp \in Nat
    BY <1>0, <1>1, <1>4 DEF SentSide
  <1>6. \A u \in ToSet(streams) : sent'[u].pass > 0 => sent'[u].stamp = OutFor(sent'[u].pass, sent'[u].own)
    <2>1. ASSUME NEW u \in ToSet(streams), sent'[u].pass > 0
          PROVE  sent'[u].stamp = OutFor(sent'[u].pass, sent'[u].own)
      <3>1. CASE u = t
        BY <1>3, <1>4, <1>5, <3>1
      <3>2. CASE u # t
        BY <1>5, <2>1, <3>2 DEF SentSide
      <3>3. QED
        BY <3>1, <3>2
    <2>2. QED
      BY <2>1
  <1>7. \A p, o : OutFor(p, o)' = OutFor(p, o)
    BY <1>0 DEF OutFor
  <1>8. ASSUME config.rebase, Ascending
        PROVE  NoneAhead' /\ sent[t].stamp <= out.stamp
    <2>0. NoneAhead
      BY <1>8 DEF SentSide
    <2>1. out.stamp = DueAt(pos)
      <3>1. Message.stamp = script[pos].log /\ epoch.log = epoch.stamp
        BY <1>1, <1>8 DEF Ascending, TimesSound, Message
      <3>2. QED
        BY <1>3, <1>4, <1>8, <3>1 DEF OutFor, DueAt
    <2>2. \A j \in DOMAIN script : DueAt(j)' = DueAt(j)
      BY <1>0 DEF DueAt
    <2>3. sent[t].stamp <= DueAt(pos) /\ DueAt(pos) <= clock /\ base <= clock
      BY <1>0, <1>1, <2>0 DEF NoneAhead
    <2>4. \A u \in ToSet(streams) : sent'[u].stamp <= clock
      <3>1. ASSUME NEW u \in ToSet(streams)
            PROVE  sent'[u].stamp <= clock
        <4>1. CASE u = t
          BY <1>5, <2>1, <2>3, <4>1
        <4>2. CASE u # t
          BY <1>5, <2>0, <4>2 DEF NoneAhead
        <4>3. QED
          BY <4>1, <4>2
      <3>2. QED
        BY <3>1
    <2>5. ASSUME NEW j \in DOMAIN script, j >= pos + 1, script[j].topic \in ToSet(streams)
          PROVE  sent'[script[j].topic].stamp <= DueAt(j)
      <3>1. CASE script[j].topic = t
        <4>1. pos <= j /\ script[pos].topic = script[j].topic
          BY <1>1, <2>5, <3>1
        <4>2. script[pos].log <= script[j].log /\ script[pos].log \in Nat /\ script[j].log \in Nat
              /\ epoch.log \in Nat
          BY <1>1, <1>8, <2>5, <4>1 DEF TimesSound
        <4>3. /\ Since(script[pos].log, epoch.log) <= Since(script[j].log, epoch.log)
              /\ Since(script[pos].log, epoch.log) \in Nat /\ Since(script[j].log, epoch.log) \in Nat
          BY <4>2, SinceMonotone
        <4>4. DueAt(pos) <= DueAt(j)
          BY <1>2, <4>3 DEF DueAt
        <4>5. QED
          BY <1>5, <2>1, <3>1, <4>4
      <3>2. CASE script[j].topic # t
        <4>1. j >= pos
          BY <1>1, <2>5
        <4>2. QED
          BY <1>0, <1>5, <2>0, <2>5, <3>2, <4>1 DEF NoneAhead
      <3>3. QED
        BY <3>1, <3>2
    <2>6. NoneAhead'
      BY <1>0, <2>2, <2>3, <2>4, <2>5 DEF NoneAhead
    <2>7. QED
      BY <2>1, <2>3, <2>6
  <1>9. StampsAscend
    <2>1. SUFFICES ASSUME config.rebase, Ascending, NEW u \in ToSet(streams)
                   PROVE  sent'[u].stamp >= sent[u].stamp
      BY <1>5 DEF StampsAscend
    <2>2. sent[t].stamp <= out.stamp /\ out.stamp \in Nat /\ sent[t].stamp \in Nat /\ sent[u].stamp \in Nat
      BY <1>1, <1>3, <1>4, <1>5, <1>8, <2>1
    <2>3. QED
      BY <1>5, <2>2
  <1>10. QED
    BY <1>0, <1>5, <1>6, <1>7, <1>8, <1>9 DEF SentSide, Ascending

\* Two frames of one pass are as far apart as they were recorded.
LEMMA SentKept ==
  ASSUME TimesSound, SentSide
  PROVE  IntervalsKept
  <1> SUFFICES ASSUME NEW t \in DOMAIN sent, NEW u \in DOMAIN sent, sent[t].pass = sent[u].pass,
                      sent[t].pass > 0, sent[t].own >= epoch.stamp, sent[u].own >= epoch.stamp
               PROVE  sent[t].stamp - sent[u].stamp = sent[t].own - sent[u].own
    BY DEF IntervalsKept
  <1>1. /\ t \in ToSet(streams) /\ u \in ToSet(streams)
        /\ sent[t].pass \in Nat /\ sent[t].own \in Nat /\ sent[u].own \in Nat /\ epoch.stamp \in Nat
    BY DEF SentSide, TimesSound
  <1>2. /\ sent[t].stamp = OutFor(sent[t].pass, sent[t].own)
        /\ sent[u].stamp = OutFor(sent[t].pass, sent[u].own)
    BY <1>1 DEF SentSide
  <1>3. QED
    BY <1>1, <1>2 DEF OutFor, Since

LEMMA TimeInits ==
  ASSUME ReplayInit, kind # "staged" => ScriptSound /\ TimesSound
  PROVE  TimeIInv
  <1>0. /\ rpc = "unbound" /\ clock = 1 /\ base = 0
        /\ sent = [t \in ToSet(streams) |-> [pass |-> 0, stamp |-> 0, own |-> 0]]
    BY DEF ReplayInit
  <1>1. CASE kind = "staged"
    <2>1. streams = <<>>
      BY <1>1 DEF ReplayInit, OpenMcap, OpenRaw
    <2>2. DOMAIN sent = {}
      BY <1>0, <2>1 DEF ToSet
    <2>3. QED
      BY <1>0, <1>1, <2>2 DEF TimeIInv
  <1>2. CASE kind # "staged"
    <2>1. PlayerIInv
      BY <1>2, PlayerInits
    <2>2. SentSide
      <3>1. /\ sent \in [ToSet(streams) -> [pass : Nat, stamp : Nat, own : Nat]]
            /\ \A t \in ToSet(streams) : sent[t].pass = 0 /\ sent[t].stamp = 0
        BY <1>0
      <3>2. NoneAhead
        BY <1>0, <3>1 DEF NoneAhead
      <3>3. QED
        BY <3>1, <3>2 DEF SentSide
    <2>3. QED
      BY <1>2, <2>1, <2>2 DEF TimeIInv
  <1>3. QED
    BY <1>1, <1>2

LEMMA StagedIdle ==
  ASSUME kind = "staged", rpc = "unbound", [ReplayNext]_replaySysVars
  PROVE  UNCHANGED <<rpc, sent>>
  <1>1. ~ReplayStep /\ ~StartStream /\ ~HaltReplay /\ ~Tick
    BY DEF ReplayStep, BeginPass, PassOver, Leave, Due, TakeSlot, GiveUp, Write, CommitImage,
           PlaybackFails, Finish, StartStream, HaltReplay, Tick
  <1>2. QED
    BY <1>1 DEF ReplayNext, StagedStep, PipelineStep, replaySysVars, replayVars, playerVars, countVars

LEMMA SentSteps ==
  ASSUME kind # "staged", PlayerIInv, PlayerIInv', TimesSound, SentSide, [ReplayNext]_replaySysVars
  PROVE  SentSide' /\ (sent' = sent \/ StampsAscend)
  <1>0. /\ UNCHANGED <<kind, script, streams, config, epoch>>
        /\ clock \in Nat /\ pos \in Nat /\ pos' \in Nat /\ DOMAIN script = 1 .. Len(script)
    <2>1. UNCHANGED <<kind, script, streams, config, epoch>>
      BY GivenStays
    <2>2. clock \in Nat /\ pos \in Nat /\ pos' \in Nat /\ DOMAIN script = 1 .. Len(script)
      BY FirstIsStream DEF PlayerIInv, ThreadSide, ReplayTypeOK
    <2>3. QED
      BY <2>1, <2>2
  <1>1. CASE CommitImage
    BY <1>1, SentMore
  <1>2. CASE BeginPass
    <2>1. sent' = sent /\ base' = clock /\ clock' = clock /\ rpc' = "message"
      BY <1>2 DEF BeginPass, PassBase, besideVars, countVars
    <2>2. QED
      BY <1>0, <2>1, SentAlone
  <1>3. CASE Due
    <2>1. /\ UNCHANGED <<sent, base, clock>> /\ rpc = "message" /\ pos <= Len(script)
          /\ clock >= base + Since(Message.log, epoch.log)
          /\ \/ rpc' = "slot" /\ pos' = pos
             \/ rpc' = rpc /\ pos' = pos + 1
      BY <1>3 DEF Due, besideVars
    <2>2. base + Since(Message.log, epoch.log) = DueAt(pos) /\ pos \in DOMAIN script
      <3>1. pos \in DOMAIN script
        BY <1>0, <2>1 DEF PlayerIInv, ThreadSide, ReplayTypeOK
      <3>2. QED
        BY <3>1 DEF Message, DueAt
    <2>3. DueAt(pos) \in Nat /\ DueAt(pos) <= clock
      BY <1>0, <2>1, <2>2, DueAtTyped
    <2>4. QED
      BY <1>0, <2>1, <2>3, SentAlone
  <1>4. CASE PassOver \/ Leave \/ PlaybackFails \/ Finish
    <2>1. /\ UNCHANGED <<sent, base, clock, pos>> /\ rpc' \in {"pass", "finish", "exited"}
      BY <1>4 DEF PassOver, Leave, PlaybackFails, Finish, besideVars, countVars
    <2>2. QED
      BY <1>0, <2>1, SentAlone
  <1>5. CASE GiveUp
    <2>1. /\ UNCHANGED <<sent, base, clock>> /\ rpc = "slot"
          /\ \/ rpc' = "exited" /\ pos' = pos
             \/ rpc' = "message" /\ pos' = pos + 1
      BY <1>5 DEF GiveUp, besideVars
    <2>2. QED
      BY <1>0, <2>1, SentAlone
  <1>6. CASE TakeSlot \/ Write
    <2>1. /\ UNCHANGED <<sent, base, clock, pos>> /\ rpc \in {"slot", "write"} /\ rpc' \in {"write", "commit"}
      BY <1>6 DEF TakeSlot, ReclaimSlots, Write, countVars
    <2>2. QED
      BY <1>0, <2>1, SentAlone
  <1>7. CASE StartStream
    <2>1. UNCHANGED <<sent, base, clock, pos>> /\ (rpc' = rpc \/ rpc' = "pass")
      BY <1>7 DEF StartStream, countVars
    <2>2. QED
      BY <1>0, <2>1, SentAlone
  <1>8. CASE HaltReplay \/ Tick
    <2>1. UNCHANGED <<sent, base, pos, rpc>> /\ (clock' = clock \/ clock' = clock + 1)
      BY <1>8 DEF HaltReplay, Tick, playerVars, countVars
    <2>2. QED
      BY <1>0, <2>1, SentAlone
  <1>9. CASE UNCHANGED replayVars
    <2>1. UNCHANGED <<sent, base, pos, rpc, clock>>
      BY <1>9 DEF replayVars, playerVars, countVars
    <2>2. QED
      BY <1>0, <2>1, SentAlone
  <1>10. QED
    BY <1>1, <1>2, <1>3, <1>4, <1>5, <1>6, <1>7, <1>8, <1>9 DEF ReplayNext, ReplayStep, StagedStep,
       PipelineStep, replaySysVars

LEMMA TimeSteps ==
  ASSUME TimeIInv, [ReplayNext]_replaySysVars
  PROVE  TimeIInv' /\ [StampsAscend]_sent
  <1>1. CASE kind = "staged"
    BY <1>1, GivenStays, StagedIdle DEF TimeIInv
  <1>2. CASE kind # "staged"
    <2>1. PlayerIInv /\ PlayerIInv' /\ TimesSound /\ SentSide
      BY <1>2, PlayerSteps DEF TimeIInv
    <2>2. TimesSound' /\ kind' = kind
      BY <2>1, GivenStays, TimesStay
    <2>3. QED
      BY <1>2, <2>1, <2>2, SentSteps DEF TimeIInv
  <1>3. QED
    BY <1>1, <1>2

LEMMA TimeKept == TimeIInv => IntervalsKept
  BY SentKept DEF TimeIInv, IntervalsKept

(* "Preserving every interval and every cross-topic relationship exactly": the stamps *)
(* two frames of one pass go out with are as far apart as they were recorded, and     *)
(* where the file's stamps agree with its log times the stamps of a stream never go   *)
(* back, from one pass to the next either; whatever the frames waited for.            *)
THEOREM ReplayKeepsTime ==
  ReplaySpec /\ (kind # "staged" => ScriptSound /\ TimesSound) => StampsKept
  <1>1. ReplayInit /\ (kind # "staged" => ScriptSound /\ TimesSound) => TimeIInv
    BY TimeInits
  <1>2. TimeIInv /\ [ReplayNext]_replaySysVars => TimeIInv' /\ [StampsAscend]_sent
    BY TimeSteps
  <1>3. TimeIInv => IntervalsKept
    BY TimeKept
  <1>4. TimeIInv' /\ TimeIInv /\ [ReplayNext]_replaySysVars => [IntervalsKept' /\ StampsAscend]_sent
    BY <1>2, <1>3, PTL
  <1>5. QED
    BY <1>1, <1>2, <1>4, PTL DEF ReplaySpec, StampsKept
=============================================================================
