--------------------------- MODULE DeviceRingBuffer ---------------------------
(***************************************************************************)
(* The host side of pipeline/src/device_ring_buffer.cpp and ring_lease.cpp: *)
(* one producer thread that acquires a slot, fills it and publishes or      *)
(* abandons it, and any number of consumer threads that lease a slot, use   *)
(* it and drop the hold.  There is no lock.  A slot has a sequence number   *)
(* (odd while the producer owns it) and a reader count, and the two sides   *)
(* each write their own word and then read the other's.  Every action below *)
(* is one such access to shared memory, so TLC sees every interleaving.     *)
(*                                                                         *)
(* What the GPU does with a slot is in DeviceRingStreams, which adds the    *)
(* streams and events to these actions.  Counters that nothing reads back   *)
(* (write_stalls_, write_drops_) are left out.  The accesses are taken to   *)
(* be sequentially consistent.                                              *)
(***************************************************************************)
EXTENDS Integers, FiniteSets

CONSTANTS
  SlotCount,    \* slot_count(): the depth of the ring
  Consumers,    \* the consumer threads
  Policies,     \* the write policies a ring may be constructed with
  Modes,        \* the acquire calls the producer makes: "blocking", "try"
  MayAbandon,   \* whether a write lease may be destroyed unpublished
  CudaMayFail,  \* whether a CUDA call inside acquire_write_impl may fail
  Requests,     \* the queries passed to lease_by_timestamp
  MaxAttempts,  \* max_attempts of both lease calls
  MaxAcquires   \* bound: how many times the producer asks for a slot

ASSUME SlotCountAssumption == SlotCount \in Nat /\ SlotCount >= 2
ASSUME ConsumersAssumption == IsFiniteSet(Consumers)
ASSUME PoliciesAssumption == Policies \subseteq {"RoundRobin", "ScanForFree"}
ASSUME ModesAssumption == Modes \subseteq {"blocking", "try"}
ASSUME SwitchesAssumption == MayAbandon \in BOOLEAN /\ CudaMayFail \in BOOLEAN
ASSUME RequestsAssumption ==
  Requests \subseteq [at : Nat, tol : Nat, closest : BOOLEAN]
ASSUME BoundsAssumption == MaxAttempts \in Nat /\ MaxAcquires \in Nat

Slots == 0 .. SlotCount - 1
NoSlot == -1
NoTimestamp == -1           \* kNoTimestamp, which no query can ask for
\* The query of lease_latest, which no request of lease_by_timestamp equals.
Latest == [at |-> NoTimestamp, tol |-> 0, closest |-> FALSE]

VARIABLES
  policy,     \* write_policy_, which keeps its initial value
  seq,        \* seq_[s]: odd while the producer owns s
  readers,    \* readers_[s]: how many holds are on s
  timestamp,  \* timestamp_ns_[s]
  latest,     \* latest_
  nextWrite,  \* next_write_slot_
  published,  \* published_, and wait_seq_ as far as publications move it
  acquires,   \* how many times a slot was asked for; also dates the frames
  producer,   \* the producer's program counter
  mode,       \* `blocking` of the current acquire
  pslot,      \* the slot it has chosen
  scan,       \* locals of claim_free_slot
  threw,      \* history: an acquire has thrown after its bump
  cpc,        \* the consumers' program counters
  cquery,     \* what each is asking for: Latest, or a request
  ctries,     \* the attempts its call has used up
  cslot,      \* the slot it has chosen
  cseq,       \* the seq it expects there
  cview,      \* locals of the scan in lease_by_timestamp
  cstamp,     \* timestamp_ns() of its lease, kept after the drop
  cfloor      \* history: the frames announced when its call began

producerVars == <<policy, producer, mode, pslot, scan, nextWrite, acquires, threw>>
slotVars == <<seq, readers, timestamp>>
consumerVars == <<cpc, cquery, ctries, cslot, cseq, cview, cstamp, cfloor>>
vars == <<slotVars, latest, published, producerVars, consumerVars>>

Odd(n) == n % 2 = 1
Wrap(n) == IF n < SlotCount THEN n ELSE n - SlotCount  \* % slot_count()
Distance(a, b) == IF a > b THEN a - b ELSE b - a
NoScan == [i |-> 0, newest |-> NoSlot, busy |-> NoSlot, reading |-> NoSlot, seen |-> 0]
NoView == [i |-> 0, seq |-> 0, best |-> NoSlot, bestSeq |-> 0, bestDiff |-> 0]

Init ==
  /\ policy \in Policies
  /\ seq = [s \in Slots |-> 0]
  /\ readers = [s \in Slots |-> 0]
  /\ timestamp = [s \in Slots |-> 0]
  /\ latest = NoSlot
  /\ nextWrite = 0
  /\ published = 0
  /\ acquires = 0
  /\ producer = "idle"
  /\ mode = "blocking"
  /\ pslot = NoSlot
  /\ scan = NoScan
  /\ threw = FALSE
  /\ cpc = [c \in Consumers |-> "idle"]
  /\ cquery = [c \in Consumers |-> Latest]
  /\ ctries = [c \in Consumers |-> 0]
  /\ cslot = [c \in Consumers |-> NoSlot]
  /\ cseq = [c \in Consumers |-> 0]
  /\ cview = [c \in Consumers |-> NoView]
  /\ cstamp = [c \in Consumers |-> 0]
  /\ cfloor = [c \in Consumers |-> 0]

-----------------------------------------------------------------------------
(* The producer. *)

Claim(s) ==
  /\ pslot' = s
  /\ nextWrite' = Wrap(s + 1)
  /\ producer' = "fence"
  /\ scan' = NoScan

\* Seeded fault: the scan does not look at latest_.
RescanForgets == NoScan

Rescan == [NoScan EXCEPT !.newest = latest]

\* acquire_write and try_acquire_write: round robin takes the next slot whoever
\* holds it, the other policy scans for one, and only that one may be tried.
Acquire(m) ==
  /\ producer = "idle"
  /\ acquires < MaxAcquires
  /\ m = "try" => policy = "ScanForFree"
  /\ acquires' = acquires + 1
  /\ mode' = m
  /\ \/ /\ policy = "RoundRobin"
        /\ Claim(nextWrite)
     \/ /\ policy = "ScanForFree"
        /\ producer' = "scan"
        /\ scan' = Rescan
        /\ UNCHANGED <<pslot, nextWrite>>
  /\ UNCHANGED <<slotVars, latest, published, threw, policy, consumerVars>>

\* One iteration of the scan in claim_free_slot.  `retired` is reads_retired():
\* what the GPU has finished is decided elsewhere.
ScanSlot(retired) ==
  LET s == Wrap(nextWrite + scan.i) IN
  /\ producer = "scan"
  /\ scan.i < SlotCount
  /\ \/ /\ s # scan.newest /\ readers[s] = 0 /\ retired
        /\ Claim(s)
     \/ /\ s = scan.newest
        /\ scan' = [scan EXCEPT !.i = @ + 1]
        /\ UNCHANGED <<pslot, nextWrite, producer>>
     \/ /\ s # scan.newest /\ readers[s] # 0
        /\ scan' = [scan EXCEPT !.i = @ + 1, !.busy = IF @ = NoSlot THEN s ELSE @]
        /\ UNCHANGED <<pslot, nextWrite, producer>>
     \/ /\ s # scan.newest /\ readers[s] = 0 /\ ~retired
        /\ scan' = [scan EXCEPT !.i = @ + 1, !.reading = IF @ = NoSlot THEN s ELSE @]
        /\ UNCHANGED <<pslot, nextWrite, producer>>
  /\ UNCHANGED <<slotVars, latest, published, acquires, mode, threw, policy,
                 consumerVars>>

\* The scan found no idle slot.  A try gives up; a blocking acquire takes a slot
\* the GPU is still reading, or parks on the first leased one.  With two slots or
\* more one of the two was seen, so the throw between them is never reached.
ScanEnd ==
  /\ producer = "scan"
  /\ scan.i = SlotCount
  /\ \/ /\ mode = "try"
        /\ producer' = "idle"
        /\ scan' = NoScan
        /\ UNCHANGED <<pslot, nextWrite>>
     \/ /\ mode = "blocking" /\ scan.reading # NoSlot
        /\ Claim(scan.reading)
     \/ /\ mode = "blocking" /\ scan.reading = NoSlot
        /\ producer' = "parked"
        /\ scan' = [scan EXCEPT !.seen = readers[scan.busy]]
        /\ UNCHANGED <<pslot, nextWrite>>
  /\ UNCHANGED <<slotVars, latest, published, acquires, mode, threw, policy,
                 consumerVars>>

\* readers_[busy].wait(seen) returns once the count is no longer the one it saw.
Unpark ==
  /\ producer = "parked"
  /\ readers[scan.busy] # scan.seen
  /\ producer' = "scan"
  /\ scan' = Rescan
  /\ UNCHANGED <<slotVars, latest, published, acquires, mode, pslot, nextWrite, threw,
                 policy, consumerVars>>

\* Seeded fault: the slot is waited for without fencing it off first.
FenceMissing ==
  /\ producer = "fence"
  /\ producer' = "settle"
  /\ UNCHANGED <<slotVars, latest, published, mode, pslot, scan, nextWrite, acquires,
                 threw, policy, consumerVars>>

\* The seq bump that fences consumers off the slot.
Fence ==
  /\ producer = "fence"
  /\ seq' = [seq EXCEPT ![pslot] = @ + 1]
  /\ producer' = "settle"
  /\ UNCHANGED <<readers, timestamp, latest, published, mode, pslot, scan, nextWrite,
                 acquires, threw, policy, consumerVars>>

\* Seeded fault: the readers are not looked at again after the bump.
SettleBlind ==
  /\ producer = "settle"
  /\ producer' = "order"
  /\ UNCHANGED <<slotVars, latest, published, mode, pslot, scan, nextWrite, acquires,
                 threw, policy, consumerVars>>

\* wait_unleased, and the single look a try takes instead.
Settle ==
  /\ producer = "settle"
  /\ \/ /\ readers[pslot] = 0
        /\ producer' = "order"
        /\ UNCHANGED seq
     \/ /\ mode = "try" /\ readers[pslot] # 0
        /\ producer' = "idle"
        /\ seq' = [seq EXCEPT ![pslot] = @ + 1]
  /\ UNCHANGED <<readers, timestamp, latest, published, mode, pslot, scan, nextWrite,
                 acquires, threw, policy, consumerVars>>

\* order_behind_readers and the reuse wait succeed: the lease is handed out.
Own ==
  /\ producer = "order"
  /\ producer' = "own"
  /\ UNCHANGED <<slotVars, latest, published, mode, pslot, scan, nextWrite, acquires,
                 threw, policy, consumerVars>>

\* One of their CUDA calls throws instead, after the bump and before any lease
\* exists to undo it.  UploadStage::run catches it and goes on.
AcquireThrows ==
  /\ CudaMayFail
  /\ producer = "order"
  /\ producer' = "idle"
  /\ threw' = TRUE
  /\ UNCHANGED <<slotVars, latest, published, mode, pslot, scan, nextWrite, acquires,
                 policy, consumerVars>>

\* publish_slot: the timestamp, the seq, latest_, and the counters, in that order.
PublishStamp ==
  /\ producer = "own"
  /\ timestamp' = [timestamp EXCEPT ![pslot] = acquires]
  /\ producer' = "stamped"
  /\ UNCHANGED <<seq, readers, latest, published, mode, pslot, scan, nextWrite,
                 acquires, threw, policy, consumerVars>>

PublishSeq ==
  /\ producer = "stamped"
  /\ seq' = [seq EXCEPT ![pslot] = @ + 1]
  /\ producer' = "even"
  /\ UNCHANGED <<readers, timestamp, latest, published, mode, pslot, scan, nextWrite,
                 acquires, threw, policy, consumerVars>>

\* Seeded fault: latest_ is stored from next_write_slot_, which has moved on.
PublishLatestNext ==
  /\ producer = "even"
  /\ latest' = nextWrite
  /\ producer' = "announce"
  /\ UNCHANGED <<slotVars, published, mode, pslot, scan, nextWrite, acquires, threw,
                 policy, consumerVars>>

PublishLatest ==
  /\ producer = "even"
  /\ latest' = pslot
  /\ producer' = "announce"
  /\ UNCHANGED <<slotVars, published, mode, pslot, scan, nextWrite, acquires, threw,
                 policy, consumerVars>>

PublishCount ==
  /\ producer = "announce"
  /\ published' = published + 1
  /\ producer' = "idle"
  /\ UNCHANGED <<slotVars, latest, mode, pslot, scan, nextWrite, acquires, threw,
                 policy, consumerVars>>

\* abandon_slot, from ~WriteLease: an exception between acquire and publish, or a
\* publish whose event record failed.
AbandonStamp ==
  /\ MayAbandon
  /\ producer = "own"
  /\ timestamp' = [timestamp EXCEPT ![pslot] = NoTimestamp]
  /\ producer' = "abandon"
  /\ UNCHANGED <<seq, readers, latest, published, mode, pslot, scan, nextWrite,
                 acquires, threw, policy, consumerVars>>

AbandonSeq ==
  /\ producer = "abandon"
  /\ seq' = [seq EXCEPT ![pslot] = @ + 1]
  /\ producer' = "idle"
  /\ UNCHANGED <<readers, timestamp, latest, published, mode, pslot, scan, nextWrite,
                 acquires, threw, policy, consumerVars>>

-----------------------------------------------------------------------------
(* The consumers. *)

Goto(c, label) == cpc' = [cpc EXCEPT ![c] = label]

Start(query) == IF query = Latest THEN "latest" ELSE "scan"

\* lease_latest and lease_by_timestamp are called.
Lease(c, query) ==
  /\ cpc[c] = "idle"
  /\ Goto(c, Start(query))
  /\ cquery' = [cquery EXCEPT ![c] = query]
  /\ ctries' = [ctries EXCEPT ![c] = 0]
  /\ cfloor' = [cfloor EXCEPT ![c] = published]
  /\ UNCHANGED <<slotVars, latest, published, producerVars, cslot, cseq, cview, cstamp>>

\* `continue` in either loop: again, unless the attempts are used up.
Retry(c) ==
  /\ ctries' = [ctries EXCEPT ![c] = @ + 1]
  /\ Goto(c, IF ctries[c] + 1 < MaxAttempts THEN Start(cquery[c]) ELSE "idle")

LoadLatest(c) ==
  /\ cpc[c] = "latest"
  /\ cslot' = [cslot EXCEPT ![c] = latest]
  /\ Goto(c, IF latest = NoSlot THEN "idle" ELSE "seq")
  /\ UNCHANGED <<slotVars, latest, published, producerVars, cquery, ctries, cseq, cview, cstamp, cfloor>>

LoadSeq(c) ==
  /\ cpc[c] = "seq"
  /\ \/ /\ Odd(seq[cslot[c]])
        /\ Retry(c)
        /\ UNCHANGED cseq
     \/ /\ ~Odd(seq[cslot[c]])
        /\ cseq' = [cseq EXCEPT ![c] = seq[cslot[c]]]
        /\ Goto(c, "hold")
        /\ UNCHANGED ctries
  /\ UNCHANGED <<slotVars, latest, published, producerVars, cquery, cslot, cview, cstamp, cfloor>>

\* One slot of the scan in lease_by_timestamp: its seq, then its stamp.
ViewSeq(c) ==
  LET v == cview[c] IN
  /\ cpc[c] = "scan"
  /\ v.i < SlotCount
  /\ \/ /\ seq[v.i] = 0 \/ Odd(seq[v.i])
        /\ cview' = [cview EXCEPT ![c].i = @ + 1]
        /\ UNCHANGED cpc
     \/ /\ seq[v.i] # 0 /\ ~Odd(seq[v.i])
        /\ cview' = [cview EXCEPT ![c].seq = seq[v.i]]
        /\ Goto(c, "stamp")
  /\ UNCHANGED <<slotVars, latest, published, producerVars, cquery, ctries, cslot, cseq, cstamp, cfloor>>

ViewStamp(c) ==
  LET v == cview[c]
      q == cquery[c]
      diff == Distance(q.at, timestamp[v.i])
      skip == timestamp[v.i] = NoTimestamp \/ diff > q.tol
      better == v.best = NoSlot \/ diff < v.bestDiff
  IN
  /\ cpc[c] = "stamp"
  /\ cview' = [cview EXCEPT ![c] =
       [i |-> IF ~skip /\ ~q.closest THEN SlotCount ELSE v.i + 1,
        seq |-> 0,
        best |-> IF ~skip /\ better THEN v.i ELSE v.best,
        bestSeq |-> IF ~skip /\ better THEN v.seq ELSE v.bestSeq,
        bestDiff |-> IF ~skip /\ better THEN diff ELSE v.bestDiff]]
  /\ Goto(c, "scan")
  /\ UNCHANGED <<slotVars, latest, published, producerVars, cquery, ctries, cslot, cseq, cstamp, cfloor>>

ViewEnd(c) ==
  LET v == cview[c] IN
  /\ cpc[c] = "scan"
  /\ v.i = SlotCount
  /\ cslot' = [cslot EXCEPT ![c] = v.best]
  /\ cseq' = [cseq EXCEPT ![c] = v.bestSeq]
  /\ Goto(c, IF v.best = NoSlot THEN "idle" ELSE "hold")
  /\ cview' = [cview EXCEPT ![c] = NoView]
  /\ UNCHANGED <<slotVars, latest, published, producerVars, cquery, ctries, cstamp, cfloor>>

\* The hold is taken first and the seq looked at again after it.
Hold(c) ==
  /\ cpc[c] = "hold"
  /\ readers' = [readers EXCEPT ![cslot[c]] = @ + 1]
  /\ Goto(c, "check")
  /\ UNCHANGED <<seq, timestamp, latest, published, producerVars, cquery, ctries, cslot, cseq,
                 cview, cstamp, cfloor>>

\* Seeded fault: the seq is not looked at again once the hold is taken.
CheckNothing(c) ==
  /\ cpc[c] = "check"
  /\ Goto(c, "held")
  /\ cstamp' = [cstamp EXCEPT ![c] = timestamp[cslot[c]]]
  /\ UNCHANGED <<slotVars, latest, published, producerVars, cquery, ctries, cslot, cseq, cview, cfloor>>

Check(c) ==
  /\ cpc[c] = "check"
  /\ \/ /\ seq[cslot[c]] = cseq[c]
        /\ Goto(c, "held")
        /\ cstamp' = [cstamp EXCEPT ![c] = timestamp[cslot[c]]]
     \/ /\ seq[cslot[c]] # cseq[c]
        /\ Goto(c, "undo")
        /\ UNCHANGED cstamp
  /\ UNCHANGED <<slotVars, latest, published, producerVars, cquery, ctries, cslot, cseq, cview, cfloor>>

\* Seeded fault: the hold stays behind.
UndoForgets(c) ==
  /\ cpc[c] = "undo"
  /\ Retry(c)
  /\ UNCHANGED <<slotVars, latest, published, producerVars, cquery, cslot, cseq, cview, cstamp, cfloor>>

Undo(c) ==
  /\ cpc[c] = "undo"
  /\ readers' = [readers EXCEPT ![cslot[c]] = @ - 1]
  /\ Retry(c)
  /\ UNCHANGED <<seq, timestamp, latest, published, producerVars, cquery, cslot, cseq, cview,
                 cstamp, cfloor>>

\* drop_slot_hold, from drop_hold(), ~ReadLease or a move assignment.
Drop(c) ==
  /\ cpc[c] = "held"
  /\ readers' = [readers EXCEPT ![cslot[c]] = @ - 1]
  /\ Goto(c, "idle")
  /\ UNCHANGED <<seq, timestamp, latest, published, producerVars, cquery, ctries, cslot, cseq,
                 cview, cstamp, cfloor>>

-----------------------------------------------------------------------------
\* The producer's steps the GPU has no part in, whatever is behind the ring.
HostStep ==
  \/ \E m \in Modes : Acquire(m)
  \/ ScanEnd \/ Unpark
  \/ Fence \/ Settle \/ AcquireThrows
  \/ PublishSeq \/ PublishLatest \/ PublishCount
  \/ AbandonSeq

ProducerStep ==
  \/ HostStep \/ Own \/ PublishStamp \/ AbandonStamp
  \/ \E retired \in BOOLEAN : ScanSlot(retired)

\* The rest of a lease call, once it has begun.
LeaseStep(c) ==
  \/ LoadLatest(c) \/ LoadSeq(c)
  \/ ViewSeq(c) \/ ViewStamp(c) \/ ViewEnd(c)
  \/ Hold(c) \/ Check(c) \/ Undo(c)

ConsumerStep(c) ==
  \/ \E query \in Requests \cup {Latest} : Lease(c, query)
  \/ LeaseStep(c)
  \/ Drop(c)

Next == ProducerStep \/ \E c \in Consumers : ConsumerStep(c)

Spec == Init /\ [][Next]_vars

-----------------------------------------------------------------------------
(* Properties. *)

Fenced == {"settle", "order", "own", "stamped", "abandon"}
Owning == {"order", "own", "stamped", "abandon"}
Counted == {"check", "held", "undo"}

SlotTypes ==
  /\ seq \in [Slots -> Nat]
  /\ readers \in [Slots -> Nat]
  /\ timestamp \in [Slots -> Nat \cup {NoTimestamp}]

ScanType == [i : 0 .. SlotCount, newest : Slots \cup {NoSlot}, busy : Slots \cup {NoSlot},
             reading : Slots \cup {NoSlot}, seen : Nat]

ProducerTypes ==
  /\ latest \in Slots \cup {NoSlot}
  /\ nextWrite \in Slots
  /\ published \in Nat
  /\ acquires \in Nat
  /\ producer \in Fenced \cup {"idle", "scan", "parked", "fence", "even", "announce"}
  /\ mode \in {"blocking", "try"}
  /\ pslot \in Slots \cup {NoSlot}
  /\ scan \in ScanType
  /\ threw \in BOOLEAN
  /\ policy \in Policies

ViewType == [i : 0 .. SlotCount, seq : Nat, best : Slots \cup {NoSlot}, bestSeq : Nat,
             bestDiff : Nat]

ConsumerTypes ==
  /\ cpc \in [Consumers -> Counted \cup {"idle", "latest", "seq", "scan", "stamp", "hold"}]
  /\ cquery \in [Consumers -> Requests \cup {Latest}]
  /\ ctries \in [Consumers -> Nat]
  /\ cslot \in [Consumers -> Slots \cup {NoSlot}]
  /\ cseq \in [Consumers -> Nat]
  /\ cview \in [Consumers -> ViewType]
  /\ cstamp \in [Consumers -> Nat \cup {NoTimestamp}]
  /\ cfloor \in [Consumers -> Nat]

TypeOK == SlotTypes /\ ProducerTypes /\ ConsumerTypes

\* "While it lives, the producer cannot recycle the slot" (ring_lease.hpp): a
\* valid read lease and a writer in possession never meet on a slot, whatever
\* order the seq and the reader count are touched in.  An acquire that throws after
\* its bump leaves the slot's parity inverted, and all bets are off from there.
Exclusive ==
  \A c \in Consumers :
    ~ (cpc[c] = "held" /\ producer \in Owning /\ cslot[c] = pslot)
LeaseExclusion == ~threw => Exclusive

\* "The slot's seq is odd for the lease's lifetime, so no consumer can select it"
\* (ring_lease.hpp): what the producer is writing is odd, and nothing else is.
OddIsFenced ==
  \A s \in Slots : Odd(seq[s]) <=> (producer \in Fenced /\ pslot = s)

\* readers_ counts the holds that exist, no more (the producer would wait for a
\* hold nobody has) and no fewer (it would overwrite a lease).
HoldsOn(s) == {c \in Consumers : cpc[c] \in Counted /\ cslot[c] = s}
HoldsCounted == \A s \in Slots : readers[s] = Cardinality(HoldsOn(s))

\* lease_by_timestamp hands out a frame inside the tolerance it was asked for,
\* although it matched the stamp before it held the slot.  This, too, rests on the
\* parity an acquire that throws destroys.
Honoured ==
  \A c \in Consumers :
    (cpc[c] = "held" /\ cquery[c] # Latest) =>
      /\ cstamp[c] # NoTimestamp
      /\ Distance(cquery[c].at, cstamp[c]) <= cquery[c].tol
RequestHonoured == ~threw => Honoured

\* A scanning producer never takes the newest frame away: a consumer can lease it
\* at any moment, whatever the producer is doing.
NewestSpared ==
  (policy = "ScanForFree" /\ latest # NoSlot) => ~ (producer \in Fenced /\ pslot = latest)

\* A consumer woken by wait_for_publish finds the frame that woke it, or a newer
\* one: lease_latest hands out nothing older than the last frame announced before
\* the call.  (The n-th frame announced has a stamp of n or more.)  A slot that was
\* abandoned while latest_ named it, or had just named it, is handed out as well:
\* its stamp says so.
NeverStale ==
  \A c \in Consumers :
    (cpc[c] = "held" /\ cquery[c] = Latest /\ cstamp[c] # NoTimestamp) =>
      cstamp[c] >= cfloor[c]

\* What the properties above rest on, in parts that every step preserves.

\* Whoever is about to touch a slot has chosen one.
SlotsChosen ==
  /\ producer \in Fenced \cup {"fence", "even", "announce"} => pslot \in Slots
  /\ \A c \in Consumers : cpc[c] \in Counted \cup {"seq", "hold"} => cslot[c] \in Slots
  /\ \A c \in Consumers : cpc[c] = "stamp" => cview[c].i \in Slots /\ cquery[c] # Latest
  /\ \A c \in Consumers : cpc[c] = "scan" => cquery[c] # Latest
  /\ \A c \in Consumers : cpc[c] \in {"latest", "seq"} => cquery[c] = Latest

\* A scan that found nothing idle found a slot to take or to park on: the throw in
\* claim_free_slot is dead code.  It leaves the newest frame alone.
ScanSound ==
  /\ (producer = "scan" /\ scan.busy = NoSlot /\ scan.reading = NoSlot) =>
       \A j \in 0 .. scan.i - 1 : Wrap(nextWrite + j) = scan.newest
  /\ producer = "scan" => scan.newest = latest
  /\ scan.reading # NoSlot => scan.reading # scan.newest
  /\ (policy = "ScanForFree" /\ producer \in Fenced \cup {"fence", "even"}) => pslot # latest

\* Matches(c, s): the stamp of slot s answers c's query.
Matches(c, s) ==
  timestamp[s] # NoTimestamp /\ Distance(cquery[c].at, timestamp[s]) <= cquery[c].tol

\* A seq a consumer goes by is even and not ahead of the slot's: while the slot
\* still has it, nothing has been written there since, so the stamp matches too.
SeqsSound ==
  \A c \in Consumers :
    /\ cpc[c] \in {"hold", "check"} =>
         /\ ~Odd(cseq[c]) /\ cseq[c] <= seq[cslot[c]]
         /\ (cquery[c] # Latest /\ cseq[c] = seq[cslot[c]]) => Matches(c, cslot[c])
    /\ cpc[c] = "stamp" => ~Odd(cview[c].seq) /\ cview[c].seq <= seq[cview[c].i]
    /\ cpc[c] \notin {"scan", "stamp"} => cview[c].best = NoSlot
    /\ (cpc[c] \in {"scan", "stamp"} /\ cview[c].best # NoSlot) =>
         /\ ~Odd(cview[c].bestSeq) /\ cview[c].bestSeq <= seq[cview[c].best]
         /\ cview[c].bestSeq = seq[cview[c].best] => Matches(c, cview[c].best)

IInv ==
  /\ TypeOK /\ SlotsChosen /\ ScanSound /\ HoldsCounted
  /\ ~threw => OddIsFenced /\ SeqsSound /\ Exclusive /\ Honoured
=============================================================================
