----------------------------- MODULE StereoPairer -----------------------------
(***************************************************************************)
(* stereo/src/stereo_pairer.cpp: each reader thread pushes a copy of its    *)
(* frames, the tool's main thread pops pairs and single frames.  push()     *)
(* runs under its stream's mutex, try_pop() under both: each is one step.   *)
(*                                                                         *)
(* A copy lies in a block of memory that moves with its entry through the   *)
(* queue, the held slot and the free list.  An entry is a frame and its     *)
(* block; blocks are numbered as they are allocated.                        *)
(***************************************************************************)
EXTENDS LiveStereo, FramePairing

CONSTANTS
  Tolerance,    \* tolerance_ns
  QueueFrames   \* queue_frames

ASSUME PairerAssumption == Tolerance \in Nat /\ QueueFrames \in Nat \ {0} /\ Len(Shots) = 2

NoEntry == [frame |-> 0, block |-> 0]
Left == 1
Right == 2

VARIABLES
  queue,     \* queue_[s]: entries
  recycled,  \* recycled_[s]: blocks
  blocks,    \* what lies in each block of a stream that was ever allocated
  held,      \* held_[s]
  results,   \* history: what try_pop() returned; paired_ and unpaired_ count it
  pushed,    \* history: the frames pushed
  overrun,   \* the frames dropped from a full queue; overrun_ counts them
  expired    \* history: the frames whose hold ran out

pairerVars == <<queue, recycled, blocks, held, results, pushed, overrun, expired>>

PairerInit ==
  /\ queue = [s \in Streams |-> <<>>] /\ recycled = [s \in Streams |-> <<>>]
  /\ blocks = [s \in Streams |-> <<>>] /\ held = [s \in Streams |-> NoEntry]
  /\ results = <<>> /\ pushed = [s \in Streams |-> <<>>]
  /\ overrun = [s \in Streams |-> {}] /\ expired = [s \in Streams |-> {}]

-----------------------------------------------------------------------------
(* push(). *)

Full(s) == Len(queue[s]) >= QueueFrames

\* The oldest is dropped from a full queue, and counted.
Dropped(s) == IF Full(s) THEN {Head(queue[s]).frame} ELSE {}

Push(s, frame) ==
  LET rest == IF Full(s) THEN Tail(queue[s]) ELSE queue[s]
      spare == IF Full(s) THEN Append(recycled[s], Head(queue[s]).block) ELSE recycled[s]
      block == IF spare = <<>> THEN Len(blocks[s]) + 1 ELSE spare[Len(spare)]
  IN
  /\ overrun' = [overrun EXCEPT ![s] = @ \cup Dropped(s)]
  /\ recycled' = [recycled EXCEPT ![s] =
       IF spare = <<>> THEN <<>> ELSE SubSeq(spare, 1, Len(spare) - 1)]
  /\ blocks' = [blocks EXCEPT ![s] =
       IF spare = <<>> THEN Append(@, frame) ELSE [@ EXCEPT ![block] = frame]]
  /\ queue' = [queue EXCEPT ![s] = Append(rest, [frame |-> frame, block |-> block])]
  /\ pushed' = [pushed EXCEPT ![s] = Append(@, frame)]
  /\ UNCHANGED <<held, results, expired>>

-----------------------------------------------------------------------------
(* try_pop(). *)

StampOf(s, frame) == Shots[s][frame]
Oldest(s) == Head(queue[s])
OldestStamp(s) == StampOf(s, Oldest(s).frame)
Queued(s) == queue[s] # <<>>
BothQueued == Queued(Left) /\ Queued(Right)

\* The block the caller was looking at goes back to the free list.
LetGo(s) == IF held[s] = NoEntry THEN recycled[s] ELSE Append(recycled[s], held[s].block)

\* The heads of these streams leave the queue into the held slots and make a result.
Hold(S) ==
  /\ queue' = [s \in Streams |-> IF s \in S THEN Tail(queue[s]) ELSE queue[s]]
  /\ recycled' = [s \in Streams |-> IF s \in S THEN LetGo(s) ELSE recycled[s]]
  /\ held' = [s \in Streams |-> IF s \in S THEN Oldest(s) ELSE held[s]]
  /\ results' = Append(results, [s \in Streams |-> IF s \in S THEN Oldest(s).frame ELSE 0])
  /\ UNCHANGED <<blocks, pushed, overrun>>

HeadsMatch == BothQueued /\ Distance(OldestStamp(Left), OldestStamp(Right)) <= Tolerance

PopPair == HeadsMatch /\ Hold(Streams) /\ UNCHANGED expired

\* Seeded fault: the newer head is given up.
StaleIsNewer == IF OldestStamp(Left) < OldestStamp(Right) THEN Right ELSE Left

\* The older head can never pair.
Stale == IF OldestStamp(Left) < OldestStamp(Right) THEN Left ELSE Right

PopStale == BothQueued /\ ~HeadsMatch /\ Hold({Stale}) /\ UNCHANGED expired

\* One side has nothing queued, and the hold of the other side's head has run out.
PopExpired ==
  /\ ~BothQueued
  /\ \E s \in Streams :
       /\ Queued(s)
       /\ Hold({s})
       /\ expired' = [expired EXCEPT ![s] = @ \cup {Oldest(s).frame}]

-----------------------------------------------------------------------------
Out(s) == SelectSeq([i \in DOMAIN results |-> results[i][s]], LAMBDA f : f # 0)
Complete(r) == r[Left] # 0 /\ r[Right] # 0
Pairs == {results[i] : i \in {i \in DOMAIN results : Complete(results[i])}}

\* "Every frame pushed comes out exactly once", in order, unless a full queue dropped it.
AccountedFor ==
  \A s \in Streams :
    Out(s) \o [i \in DOMAIN queue[s] |-> queue[s][i].frame]
      = SelectSeq(pushed[s], LAMBDA f : f \notin overrun[s])

\* A frame lies where its entry says, in a block of its own, until the next try_pop() of
\* the one who looks at it; and the blocks are no more than the bound on the queue pays for.
BlocksApart ==
  \A s \in Streams :
    LET entries == queue[s] \o (IF held[s] = NoEntry THEN <<>> ELSE <<held[s]>>) IN
    /\ \A i \in DOMAIN entries : blocks[s][entries[i].block] = entries[i].frame
    /\ \A i, j \in DOMAIN entries : entries[i].block = entries[j].block => i = j
    /\ \A i \in DOMAIN entries, j \in DOMAIN recycled[s] : recycled[s][j] # entries[i].block
    /\ Len(blocks[s]) <= QueueFrames + 1

PairerInv == AccountedFor /\ BlocksApart

\* Half a frame period, strictly over the tolerance: a frame has one partner at most.
Spaced == \A s \in Streams : \A i \in 1 .. Len(Shots[s]) - 1 :
            Shots[s][i + 1] - Shots[s][i] > 2 * Tolerance

\* The live pairs are pairs the offline merge makes of the same frames ("the two agree on
\* which frames belong together"), and they fall short of it only where a partner was
\* dropped from a full queue or had its hold run out: a frame is never given up as the
\* older one while its partner may still come out.
PairsTrue ==
  LET offline == PairUp(Shots[Left], Shots[Right], Tolerance) IN
  Spaced =>
    /\ \A r \in Pairs : <<r[Left], r[Right]>> \in offline
    /\ \A p \in offline :
         (\E i \in DOMAIN results : results[i][Left] = p[1] /\ results[i][Right] = 0)
           /\ (\E j \in DOMAIN pushed[Right] : pushed[Right][j] = p[2])
           => \/ p[1] \in expired[Left]
              \/ p[2] \in overrun[Right] \cup expired[Right]
    /\ \A p \in offline :
         (\E i \in DOMAIN results : results[i][Right] = p[2] /\ results[i][Left] = 0)
           /\ (\E j \in DOMAIN pushed[Left] : pushed[Left][j] = p[1])
           => \/ p[2] \in expired[Right]
              \/ p[1] \in overrun[Left] \cup expired[Left]
=============================================================================
