---------------------------- MODULE McapRecorder ----------------------------
(***************************************************************************)
(* recording/src/mcap_recorder.cpp: encoded messages of several topics on   *)
(* their way to one file.  A pushing thread takes a spare buffer, encodes   *)
(* into it outside the lock and queues it; the writer thread takes messages *)
(* in arrival order, writes each and gives its buffer back.  A topic whose  *)
(* budget is full drops; nothing waits for the disk.                        *)
(*                                                                         *)
(* An action is one region under mutex_, or one call into the mcap library. *)
(* The waits of the writer end by a notify or by kIdlePoll, so a wait is an *)
(* action that is not enabled.  Byte counts, peaks, the schema table and *)
(* the moments at which the library's chunks are closed are left out; a      *)
(* message is its topic and a number.                                        *)
(***************************************************************************)
EXTENDS Integers, FiniteSets, Sequences

CONSTANTS
  Topics,       \* what add_topic() may declare
  Pushers,      \* the threads that push
  Feeds,        \* Feeds[p]: the topic p pushes to
  QueueDepth,   \* queue_depth of each Topic, 0 to derive it
  Wanted,       \* ceil(rate_hz * buffer_seconds) of each
  MessageBytes, \* max_message_bytes of each
  Memory,       \* Config::topic_memory_mb, in bytes
  MaxPushes     \* bound: how many messages each thread pushes

ASSUME PushersAssumption ==
  IsFiniteSet(Pushers) /\ Feeds \in [Pushers -> Topics] /\ MaxPushes \in Nat
ASSUME BudgetAssumption ==
  /\ QueueDepth \in [Topics -> Nat]
  /\ Wanted \in [Topics -> Nat]
  /\ MessageBytes \in [Topics -> Nat \ {0}]    \* add_topic() throws on 0
  /\ Memory \in Nat

\* "One pushing thread per topic -- not enforced, but the pool is sized for it."
OnePusherPerTopic == \A p, q \in Pushers : Feeds[p] = Feeds[q] => p = q

Larger(a, b) == IF a > b THEN a ELSE b
Smaller(a, b) == IF a < b THEN a ELSE b

\* The depth add_topic() gives a topic: what it asks for, or a floor of 4 under
\* what buffer_seconds needs, cut to the memory budget but never to nothing.
Depth(t) ==
  IF QueueDepth[t] > 0 THEN QueueDepth[t]
  ELSE Larger(1, Smaller(Larger(Wanted[t], 4), Memory \div MessageBytes[t]))

VARIABLES
  declared,   \* topics_
  started,    \* started_
  running,    \* running_
  closed,     \* closed_
  queue,      \* queue_
  queued,     \* TopicState::queued
  spare,      \* how many buffers TopicState::spare has
  pushing,    \* pushing[p]: p is between take_spare() and enqueue()
  item,       \* item[p]: the message p pushes, or pushed last
  pushes,     \* how many messages p has begun to push
  drops,      \* TopicState::drops
  written,    \* TopicState::written
  writer,     \* the writer thread's program counter
  hand,       \* the message it has taken, as a sequence of at most one
  file,       \* the messages the library wrote
  sealed,     \* the file is closed
  accepted,   \* history: the messages push() returned true for
  failed      \* history: which of them, by number, the library refused to write

lifeVars == <<declared, started, running, closed>>
queueVars == <<queue, queued, spare>>
pusherVars == <<pushing, item, pushes>>
fileVars == <<writer, hand, file, sealed, written, failed>>
recorderVars == <<lifeVars, queueVars, pusherVars, fileVars, drops, accepted>>

Message == [topic : Topics, frame : Nat]
NoMessage == [topic |-> CHOOSE t \in Topics : TRUE, frame |-> 0]

RecorderInit ==
  /\ declared = {} /\ started = FALSE /\ running = FALSE /\ closed = FALSE
  /\ queue = <<>> /\ queued = [t \in Topics |-> 0] /\ spare = [t \in Topics |-> 0]
  /\ pushing = [p \in Pushers |-> FALSE]
  /\ item = [p \in Pushers |-> NoMessage]
  /\ pushes = [p \in Pushers |-> 0]
  /\ drops = [t \in Topics |-> 0] /\ written = [t \in Topics |-> 0]
  /\ writer = "none" /\ hand = <<>> /\ file = <<>> /\ sealed = FALSE
  /\ accepted = <<>> /\ failed = {}

-----------------------------------------------------------------------------
AddTopic(t) ==
  /\ ~started /\ ~closed /\ t \notin declared
  /\ declared' = declared \cup {t}
  /\ UNCHANGED <<started, running, closed, queueVars, pusherVars, fileVars, drops, accepted>>

\* One buffer more than the depth: see SparesSuffice.  Nobody starts a recorder
\* that was closed.
StartRecorder ==
  /\ ~started /\ ~closed /\ declared # {}
  /\ started' = TRUE /\ running' = TRUE
  /\ spare' = [t \in Topics |-> IF t \in declared THEN Depth(t) + 1 ELSE 0]
  /\ writer' = "waiting"
  /\ UNCHANGED <<declared, closed, queue, queued, pusherVars, hand, file, sealed, written,
                 failed, drops, accepted>>

-----------------------------------------------------------------------------
(* push(): take_spare(), the encoding, enqueue().                           *)

BeginPush(p) ==
  /\ ~pushing[p] /\ pushes[p] < MaxPushes /\ Feeds[p] \in declared
  /\ pushes' = [pushes EXCEPT ![p] = @ + 1]
  /\ item' = [item EXCEPT ![p] = [topic |-> Feeds[p], frame |-> pushes[p] + 1]]

\* The one drop condition there is meant to be.
OverBudget(t) == ~running \/ queued[t] >= Depth(t)

\* The second disjunct is "unreachable with one pushing thread per topic".
Refuse(p) ==
  /\ BeginPush(p)
  /\ OverBudget(Feeds[p]) \/ spare[Feeds[p]] = 0
  /\ drops' = [drops EXCEPT ![Feeds[p]] = @ + 1]
  /\ UNCHANGED <<lifeVars, queueVars, pushing, fileVars, accepted>>

TakeSpare(p) ==
  /\ BeginPush(p)
  /\ ~OverBudget(Feeds[p]) /\ spare[Feeds[p]] > 0
  /\ spare' = [spare EXCEPT ![Feeds[p]] = @ - 1]
  /\ pushing' = [pushing EXCEPT ![p] = TRUE]
  /\ UNCHANGED <<lifeVars, queue, queued, fileVars, drops, accepted>>

Enqueue(p) ==
  /\ pushing[p] /\ running
  /\ queue' = Append(queue, item[p])
  /\ queued' = [queued EXCEPT ![Feeds[p]] = @ + 1]
  /\ accepted' = Append(accepted, item[p])
  /\ pushing' = [pushing EXCEPT ![p] = FALSE]
  /\ UNCHANGED <<lifeVars, spare, item, pushes, fileVars, drops>>

\* Seeded fault: a push that comes too late keeps its buffer.
EnqueueKeepsBuffer(p) ==
  /\ pushing[p] /\ ~running
  /\ drops' = [drops EXCEPT ![Feeds[p]] = @ + 1]
  /\ pushing' = [pushing EXCEPT ![p] = FALSE]
  /\ UNCHANGED <<lifeVars, queueVars, item, pushes, fileVars, accepted>>

\* close() came while p was encoding: the buffer still goes back.
EnqueueTooLate(p) ==
  /\ pushing[p] /\ ~running
  /\ spare' = [spare EXCEPT ![Feeds[p]] = @ + 1]
  /\ drops' = [drops EXCEPT ![Feeds[p]] = @ + 1]
  /\ pushing' = [pushing EXCEPT ![p] = FALSE]
  /\ UNCHANGED <<lifeVars, queue, queued, item, pushes, fileVars, accepted>>

PushStep(p) == Refuse(p) \/ TakeSpare(p) \/ Enqueue(p) \/ EnqueueTooLate(p)

-----------------------------------------------------------------------------
(* run(), the writer thread.                                                *)

TakeMessage ==
  /\ writer = "waiting" /\ queue # <<>>
  /\ hand' = <<Head(queue)>> /\ queue' = Tail(queue)
  /\ queued' = [queued EXCEPT ![Head(queue).topic] = @ - 1]
  /\ writer' = "writing"
  /\ UNCHANGED <<lifeVars, spare, pusherVars, file, sealed, written, failed, drops,
                 accepted>>

WriteMessage ==
  /\ writer = "writing"
  /\ file' = file \o hand
  /\ written' = [written EXCEPT ![hand[1].topic] = @ + 1]
  /\ writer' = "recycling"
  /\ UNCHANGED <<lifeVars, queueVars, pusherVars, hand, sealed, failed, drops, accepted>>

\* How many of the accepted messages the writer is done with: the next is in its hand
\* when it writes, and the others are queued.
Writing == IF writer = "writing" THEN 1 ELSE 0
Settled == Len(accepted) - Len(queue) - Writing

\* "Latch and keep draining".
WriteFails ==
  /\ writer = "writing"
  /\ drops' = [drops EXCEPT ![hand[1].topic] = @ + 1]
  /\ failed' = failed \cup {Settled + 1}
  /\ writer' = "recycling"
  /\ UNCHANGED <<lifeVars, queueVars, pusherVars, hand, file, sealed, written, accepted>>

\* recycle(), and the flush if it is time for one.
Recycle ==
  /\ writer = "recycling"
  /\ spare' = [spare EXCEPT ![hand[1].topic] = @ + 1]
  /\ hand' = <<>>
  /\ writer' = "waiting"
  /\ UNCHANGED <<lifeVars, queue, queued, pusherVars, file, sealed, written, failed, drops, accepted>>

\* Seeded fault: the writer leaves as soon as it sees the recorder stopped.
LeaveAtOnce ==
  /\ writer = "waiting" /\ ~running
  /\ writer' = "exited"
  /\ UNCHANGED <<lifeVars, queueVars, pusherVars, hand, file, sealed, written, failed, drops,
                 accepted>>

LeaveDrained ==
  /\ writer = "waiting" /\ queue = <<>> /\ ~running
  /\ writer' = "exited"
  /\ UNCHANGED <<lifeVars, queueVars, pusherVars, hand, file, sealed, written, failed, drops,
                 accepted>>

WriterStep ==
  TakeMessage \/ WriteMessage \/ WriteFails \/ Recycle \/ LeaveDrained

-----------------------------------------------------------------------------
(* close()                                                                  *)

CloseBegins ==
  /\ ~closed
  /\ closed' = TRUE /\ running' = FALSE
  /\ UNCHANGED <<declared, started, queueVars, pusherVars, fileVars, drops, accepted>>

\* The join, and the file's footer.
CloseEnds ==
  /\ closed /\ ~sealed /\ writer \in {"none", "exited"}
  /\ sealed' = TRUE
  /\ UNCHANGED <<lifeVars, queueVars, pusherVars, writer, hand, file, written, failed, drops,
                 accepted>>

RecorderNext ==
  \/ \E t \in Topics : AddTopic(t)
  \/ StartRecorder \/ CloseBegins \/ CloseEnds \/ WriterStep
  \/ \E p \in Pushers : PushStep(p)

RecorderSpec == RecorderInit /\ [][RecorderNext]_recorderVars

-----------------------------------------------------------------------------
RecorderTypeOK ==
  /\ declared \subseteq Topics
  /\ started \in BOOLEAN /\ running \in BOOLEAN /\ closed \in BOOLEAN /\ sealed \in BOOLEAN
  /\ queue \in Seq(Message)
  /\ queued \in [Topics -> Int] /\ spare \in [Topics -> Nat]
  /\ pushing \in [Pushers -> BOOLEAN] /\ pushes \in [Pushers -> Nat]
  /\ item \in [Pushers -> Message]
  /\ drops \in [Topics -> Nat] /\ written \in [Topics -> Nat]
  /\ writer \in {"none", "waiting", "writing", "recycling", "exited"}
  /\ hand \in Seq(Message)
  /\ Len(hand) = IF writer \in {"writing", "recycling"} THEN 1 ELSE 0
  /\ \A p \in Pushers : item[p].frame > 0 => item[p].topic = Feeds[p]

\* The buffers of a topic that are not in spare.
Encoding(t) == Cardinality({p \in Pushers : Feeds[p] = t /\ pushing[p]})
InHand(t) == IF Len(hand) = 1 /\ hand[1].topic = t THEN 1 ELSE 0

\* Before start() there is nothing to push into.
IdleUntilStarted ==
  ~started => /\ ~running /\ writer = "none" /\ queue = <<>>
              /\ queued = [t \in Topics |-> 0]
              /\ \A p \in Pushers : ~pushing[p]

\* No buffer is lost and none appears, whatever fails and however close() lands.
BuffersAccounted ==
  started => \A t \in declared : spare[t] + queued[t] + Encoding(t) + InHand(t) = Depth(t) + 1

\* A thread whose topic has room in its budget finds a buffer: take_spare() has
\* "one drop condition and not two".
SparesSuffice ==
  \A p \in Pushers :
    ~pushing[p] /\ Feeds[p] \in declared /\ ~OverBudget(Feeds[p]) => spare[Feeds[p]] > 0

RecorderInv == RecorderTypeOK /\ IdleUntilStarted /\ BuffersAccounted

\* Where the file has the i-th accepted message, if the library took it.
PlaceOf(i) == i - Cardinality({j \in failed : j < i})

\* Every accepted message is in exactly one place, in the order of acceptance:
\* the file, unless the library refused it, the writer's hand or the queue; and a closed
\* file holds them all: "a close() that threw away queued messages would lose the tail
\* of every recording".
RecordedOnce ==
  /\ \A i \in 1 .. Settled : i \notin failed =>
       PlaceOf(i) \in DOMAIN file /\ file[PlaceOf(i)] = accepted[i]
  /\ Len(file) = Settled - Cardinality(failed)
  /\ writer = "writing" => hand[1] = accepted[Settled + 1]
  /\ \A i \in DOMAIN queue : queue[i] = accepted[Settled + Writing + i]
  /\ sealed => Settled = Len(accepted)

\* The pushes that were begun on a topic.
BegunOn(t) == {x \in Pushers \X (1 .. MaxPushes) : Feeds[x[1]] = t /\ x[2] <= pushes[x[1]]}

\* What drops() and written() report adds up to what was pushed.
PushesCounted ==
  \A t \in Topics :
    drops[t] + written[t] + queued[t] + Encoding(t)
      + (IF writer = "writing" THEN InHand(t) ELSE 0)
    = Cardinality(BegunOn(t))

\* What push() promised and what the counters say are both true, at any moment and
\* wherever close() lands.
MessagesAccounted == RecordedOnce /\ PushesCounted

=============================================================================
