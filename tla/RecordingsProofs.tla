---------------------------- MODULE RecordingsProofs ----------------------------
(* What the two recorders guarantee for any topics, budgets, cameras, buffers,   *)
(* threads and failures, proved: of McapRecorder, of RawRecording, and of a run   *)
(* with either.                                                                  *)
EXTENDS Recordings, FiniteSetTheorems, SequenceTheorems, TLAPS

-----------------------------------------------------------------------------
(* McapRecorder. *)

(* A topic always has room for one message, and a depth that was derived keeps *)
(* its buffers within the memory budget unless one message alone exceeds it. *)
THEOREM DepthFitsBudget ==
  ASSUME NEW t \in Topics
  PROVE  /\ Depth(t) \in Nat /\ Depth(t) >= 1
         /\ QueueDepth[t] = 0 =>
              Depth(t) = 1 \/ Depth(t) <= Memory \div MessageBytes[t]
  <1> DEFINE budget == Memory \div MessageBytes[t]
  <1>1. QueueDepth[t] \in Nat /\ Wanted[t] \in Nat /\ budget \in Nat
    BY BudgetAssumption
  <1> HIDE DEF budget
  <1>2. Depth(t) = IF QueueDepth[t] > 0 THEN QueueDepth[t]
                   ELSE Larger(1, Smaller(Larger(Wanted[t], 4), budget))
    BY DEF Depth, budget
  <1>3. QED
    BY <1>1, <1>2 DEF Larger, Smaller, budget

-----------------------------------------------------------------------------
(* Counting the threads that encode. *)

EncodingOn(t) == {p \in Pushers : Feeds[p] = t /\ pushing[p]}

LEMMA EncodingFinite ==
  \A t : IsFiniteSet(EncodingOn(t)) /\ Encoding(t) \in Nat /\ Encoding(t) = Cardinality(EncodingOn(t))
  <1> SUFFICES ASSUME NEW t
               PROVE  /\ IsFiniteSet(EncodingOn(t)) /\ Encoding(t) \in Nat
                      /\ Encoding(t) = Cardinality(EncodingOn(t))
    OBVIOUS
  <1>1. EncodingOn(t) \subseteq Pushers
    BY DEF EncodingOn
  <1>2. IsFiniteSet(EncodingOn(t))
    BY <1>1, PushersAssumption, FS_Subset
  <1>3. Encoding(t) = Cardinality(EncodingOn(t))
    BY DEF Encoding, EncodingOn
  <1>4. QED
    BY <1>2, <1>3, FS_CardinalityType

(* A thread that begins to encode is one more on its topic, and on no other. *)
LEMMA EncodingBegins ==
  ASSUME RecorderTypeOK, NEW p \in Pushers, ~pushing[p],
         pushing' = [pushing EXCEPT ![p] = TRUE], NEW t \in Topics
  PROVE  Encoding(t)' = Encoding(t) + (IF t = Feeds[p] THEN 1 ELSE 0)
  <1>1. EncodingOn(t)' = IF t = Feeds[p] THEN EncodingOn(t) \cup {p} ELSE EncodingOn(t)
    BY DEF EncodingOn, RecorderTypeOK
  <1>2. p \notin EncodingOn(t)
    BY DEF EncodingOn
  <1>3. Encoding(t)' = Cardinality(EncodingOn(t)')
    BY DEF Encoding, EncodingOn
  <1>4. /\ IsFiniteSet(EncodingOn(t)) /\ Encoding(t) \in Nat
        /\ Encoding(t) = Cardinality(EncodingOn(t))
    BY EncodingFinite
  <1>5. Cardinality(EncodingOn(t) \cup {p}) = Cardinality(EncodingOn(t)) + 1
    BY <1>2, <1>4, FS_AddElement
  <1>6. QED
    BY <1>1, <1>3, <1>4, <1>5

(* A thread that is done with encoding is one less. *)
LEMMA EncodingEnds ==
  ASSUME RecorderTypeOK, NEW p \in Pushers, pushing[p],
         pushing' = [pushing EXCEPT ![p] = FALSE], NEW t \in Topics
  PROVE  Encoding(t)' = Encoding(t) - (IF t = Feeds[p] THEN 1 ELSE 0)
  <1>1. EncodingOn(t)' = IF t = Feeds[p] THEN EncodingOn(t) \ {p} ELSE EncodingOn(t)
    BY DEF EncodingOn, RecorderTypeOK
  <1>2. t = Feeds[p] => p \in EncodingOn(t)
    BY DEF EncodingOn
  <1>3. Encoding(t)' = Cardinality(EncodingOn(t)')
    BY DEF Encoding, EncodingOn
  <1>4. /\ IsFiniteSet(EncodingOn(t)) /\ Encoding(t) \in Nat
        /\ Encoding(t) = Cardinality(EncodingOn(t))
    BY EncodingFinite
  <1>5. t = Feeds[p] => Cardinality(EncodingOn(t) \ {p}) = Cardinality(EncodingOn(t)) - 1
    BY <1>2, <1>4, FS_RemoveElement
  <1>6. QED
    BY <1>1, <1>3, <1>4, <1>5

-----------------------------------------------------------------------------
(* What a message is. *)
LEMMA MessageParts ==
  /\ \A m \in Message : m.topic \in Topics /\ m.frame \in Nat
  /\ \A t \in Topics, n \in Nat : [topic |-> t, frame |-> n] \in Message
  BY DEF Message

(* While the writer is at work it has one message. *)
LEMMA HandHoldsOne ==
  RecorderTypeOK /\ writer \in {"writing", "recycling"} => Len(hand) = 1 /\ hand[1] \in Message
  <1> SUFFICES ASSUME RecorderTypeOK, writer \in {"writing", "recycling"}
               PROVE  Len(hand) = 1 /\ hand[1] \in Message
    OBVIOUS
  <1>1. hand \in Seq(Message) /\ Len(hand) = 1
    BY DEF RecorderTypeOK
  <1>2. QED
    BY <1>1

LEMMA RecorderInvInit == RecorderInit => RecorderInv
  <1> SUFFICES ASSUME RecorderInit
               PROVE  RecorderInv
    OBVIOUS
  <1>1. \A p \in Pushers : Feeds[p] \in Topics
    BY PushersAssumption
  <1>2. NoMessage.frame = 0 /\ (Pushers # {} => NoMessage \in Message)
    BY <1>1, MessageParts DEF NoMessage
  <1>3. RecorderTypeOK
    <2>1. /\ item \in [Pushers -> Message]
          /\ \A p \in Pushers : item[p].frame > 0 => item[p].topic = Feeds[p]
      BY <1>2 DEF RecorderInit
    <2>2. queue \in Seq(Message) /\ hand \in Seq(Message) /\ Len(hand) = 0
      BY DEF RecorderInit
    <2>3. /\ queued \in [Topics -> Int] /\ spare \in [Topics -> Nat]
          /\ drops \in [Topics -> Nat] /\ written \in [Topics -> Nat]
          /\ pushing \in [Pushers -> BOOLEAN] /\ pushes \in [Pushers -> Nat]
      BY DEF RecorderInit
    <2>4. /\ declared \subseteq Topics /\ writer = "none"
          /\ started \in BOOLEAN /\ running \in BOOLEAN /\ closed \in BOOLEAN /\ sealed \in BOOLEAN
      BY DEF RecorderInit
    <2>5. QED
      BY <2>1, <2>2, <2>3, <2>4 DEF RecorderTypeOK
  <1>4. IdleUntilStarted /\ BuffersAccounted
    BY DEF RecorderInit, IdleUntilStarted, BuffersAccounted
  <1>5. QED
    BY <1>3, <1>4 DEF RecorderInv

LEMMA RecorderTypesKept == RecorderInv /\ [RecorderNext]_recorderVars => RecorderTypeOK'
  <1> SUFFICES ASSUME RecorderInv, [RecorderNext]_recorderVars
               PROVE  RecorderTypeOK'
    OBVIOUS
  <1> USE PushersAssumption
      DEF RecorderInv, RecorderTypeOK, lifeVars, queueVars, pusherVars, fileVars
  <1>1. ASSUME NEW t \in Topics, AddTopic(t)
        PROVE  RecorderTypeOK'
    BY <1>1 DEF AddTopic
  <1>2. CASE StartRecorder
    BY <1>2, DepthFitsBudget DEF StartRecorder, IdleUntilStarted
  <1>3. CASE CloseBegins
    BY <1>3 DEF CloseBegins
  <1>4. CASE CloseEnds
    BY <1>4 DEF CloseEnds
  <1>5. CASE TakeMessage
    <2>1. Head(queue) \in Message /\ Tail(queue) \in Seq(Message)
      BY <1>5 DEF TakeMessage
    <2>2. queued' \in [Topics -> Int]
      BY <1>5, <2>1, MessageParts DEF TakeMessage
    <2>3. hand' \in Seq(Message) /\ Len(hand') = 1
      BY <1>5, <2>1 DEF TakeMessage
    <2>4. QED
      BY <1>5, <2>1, <2>2, <2>3 DEF TakeMessage
  <1>6. CASE WriteMessage
    <2>1. hand[1] \in Message
      BY <1>6, HandHoldsOne DEF WriteMessage
    <2>2. QED
      BY <1>6, <2>1, MessageParts DEF WriteMessage
  <1>7. CASE WriteFails
    <2>1. hand[1] \in Message
      BY <1>7, HandHoldsOne DEF WriteFails
    <2>2. QED
      BY <1>7, <2>1, MessageParts DEF WriteFails
  <1>8. CASE Recycle
    <2>1. hand[1] \in Message
      BY <1>8, HandHoldsOne DEF Recycle
    <2>2. QED
      BY <1>8, <2>1, MessageParts DEF Recycle
  <1>9. CASE LeaveDrained
    BY <1>9 DEF LeaveDrained
  <1>10. ASSUME NEW p \in Pushers, BeginPush(p)
         PROVE  /\ pushes' \in [Pushers -> Nat]
                /\ item' \in [Pushers -> Message]
                /\ \A q \in Pushers : item'[q].frame > 0 => item'[q].topic = Feeds[q]
    <2>1. [topic |-> Feeds[p], frame |-> pushes[p] + 1] \in Message
      BY MessageParts
    <2>2. QED
      BY <1>10, <2>1 DEF BeginPush
  <1>11. ASSUME NEW p \in Pushers, Refuse(p)
         PROVE  RecorderTypeOK'
    <2>1. BeginPush(p)
      BY <1>11 DEF Refuse
    <2>2. QED
      BY <1>10, <1>11, <2>1 DEF Refuse
  <1>12. ASSUME NEW p \in Pushers, TakeSpare(p)
         PROVE  RecorderTypeOK'
    <2>1. BeginPush(p)
      BY <1>12 DEF TakeSpare
    <2>2. QED
      BY <1>10, <1>12, <2>1 DEF TakeSpare
  <1>13. ASSUME NEW p \in Pushers, Enqueue(p)
         PROVE  RecorderTypeOK'
    BY <1>13 DEF Enqueue
  <1>14. ASSUME NEW p \in Pushers, EnqueueTooLate(p)
         PROVE  RecorderTypeOK'
    BY <1>14 DEF EnqueueTooLate
  <1>15. CASE UNCHANGED recorderVars
    BY <1>15 DEF recorderVars
  <1>16. QED
    BY <1>1, <1>2, <1>3, <1>4, <1>5, <1>6, <1>7, <1>8, <1>9, <1>11, <1>12, <1>13, <1>14, <1>15
       DEF RecorderNext, WriterStep, PushStep

LEMMA IdleKept == RecorderInv /\ [RecorderNext]_recorderVars => IdleUntilStarted'
  <1> SUFFICES ASSUME RecorderInv, [RecorderNext]_recorderVars
               PROVE  IdleUntilStarted'
    OBVIOUS
  <1> USE DEF RecorderInv, IdleUntilStarted, lifeVars, queueVars, pusherVars, fileVars
  <1>1. CASE started'
    BY <1>1
  <1>2. CASE ~started'
    <2>1. CASE \E p \in Pushers : PushStep(p)
      BY <2>1, <1>2 DEF PushStep, Refuse, TakeSpare, Enqueue, EnqueueTooLate, OverBudget
    <2>2. CASE WriterStep
      BY <2>2, <1>2
         DEF WriterStep, TakeMessage, WriteMessage, WriteFails, Recycle, LeaveDrained
    <2>3. CASE CloseBegins \/ CloseEnds \/ StartRecorder \/ \E t \in Topics : AddTopic(t)
      BY <2>3, <1>2 DEF CloseBegins, CloseEnds, StartRecorder, AddTopic
    <2>4. CASE UNCHANGED recorderVars
      BY <2>4, <1>2 DEF recorderVars
    <2>5. QED
      BY <2>1, <2>2, <2>3, <2>4 DEF RecorderNext
  <1>3. QED
    BY <1>1, <1>2

(* Every buffer is in spare, queued, being encoded into or being written from. *)
LEMMA BuffersKept == RecorderInv /\ [RecorderNext]_recorderVars => BuffersAccounted'
  <1> SUFFICES ASSUME RecorderInv, [RecorderNext]_recorderVars, started', NEW t \in declared'
               PROVE  spare'[t] + queued'[t] + Encoding(t)' + InHand(t)' = (Depth(t) + 1)'
    BY DEF BuffersAccounted
  <1>t. RecorderTypeOK /\ RecorderTypeOK'
    BY RecorderTypesKept DEF RecorderInv
  <1>a. t \in Topics /\ Depth(t)' = Depth(t) /\ Depth(t) \in Nat
    BY <1>t, DepthFitsBudget DEF Depth, RecorderTypeOK
  <1>b. spare[t] \in Nat /\ queued[t] \in Int /\ Encoding(t) \in Nat /\ InHand(t) \in Nat
    BY <1>t, <1>a, EncodingFinite DEF RecorderTypeOK, InHand
  <1>c. started /\ t \in declared =>
          spare[t] + queued[t] + Encoding(t) + InHand(t) = Depth(t) + 1
    BY DEF RecorderInv, BuffersAccounted
  <1>d. pushing' = pushing => Encoding(t)' = Encoding(t)
    BY DEF Encoding
  <1>e. hand' = hand => InHand(t)' = InHand(t)
    BY DEF InHand
  <1> USE DEF lifeVars, queueVars, pusherVars, fileVars
  <1>1. ASSUME NEW u \in Topics, AddTopic(u)
        PROVE  FALSE
    BY <1>1 DEF AddTopic
  <1>2. CASE StartRecorder
    <2>1. \A p \in Pushers : ~pushing[p]
      BY <1>2 DEF RecorderInv, IdleUntilStarted, StartRecorder
    <2>2. EncodingOn(t) = {}
      BY <2>1 DEF EncodingOn
    <2>3. Encoding(t) = 0
      BY <2>2, EncodingFinite, FS_EmptySet
    <2>4. queued[t] = 0 /\ InHand(t) = 0
      BY <1>2, <1>t, <1>a
         DEF StartRecorder, RecorderInv, IdleUntilStarted, InHand, RecorderTypeOK
    <2>5. QED
      BY <1>2, <1>a, <1>d, <1>e, <2>3, <2>4 DEF StartRecorder, RecorderTypeOK
  <1>3. CASE CloseBegins \/ CloseEnds \/ LeaveDrained \/ UNCHANGED recorderVars
    BY <1>3, <1>a, <1>c, <1>d, <1>e DEF CloseBegins, CloseEnds, LeaveDrained, recorderVars
  <1>4. CASE TakeMessage
    <2>1. InHand(t) = 0 /\ InHand(t)' = (IF Head(queue).topic = t THEN 1 ELSE 0)
      BY <1>4, <1>t DEF TakeMessage, InHand, RecorderTypeOK
    <2>2. queued'[t] = queued[t] - (IF Head(queue).topic = t THEN 1 ELSE 0)
      BY <1>4, <1>t, <1>a, <1>b DEF TakeMessage, RecorderTypeOK
    <2>3. QED
      BY <1>4, <1>a, <1>b, <1>c, <1>d, <2>1, <2>2 DEF TakeMessage
  <1>5. CASE WriteMessage \/ WriteFails
    BY <1>5, <1>a, <1>c, <1>d, <1>e DEF WriteMessage, WriteFails
  <1>6. CASE Recycle
    <2>1. Len(hand) = 1 /\ hand[1] \in Message
      BY <1>6, <1>t, HandHoldsOne DEF Recycle
    <2>2. InHand(t) = (IF hand[1].topic = t THEN 1 ELSE 0) /\ InHand(t)' = 0
      BY <1>6, <2>1 DEF Recycle, InHand
    <2>3. spare'[t] = spare[t] + (IF hand[1].topic = t THEN 1 ELSE 0)
      BY <1>6, <1>t, <1>a, <1>b DEF Recycle, RecorderTypeOK
    <2>4. QED
      BY <1>6, <1>a, <1>b, <1>c, <1>d, <2>2, <2>3 DEF Recycle
  <1>7. ASSUME NEW p \in Pushers, PushStep(p)
        PROVE  spare'[t] + queued'[t] + Encoding(t)' + InHand(t)' = (Depth(t) + 1)'
    <2>1. CASE Refuse(p)
      BY <2>1, <1>a, <1>c, <1>d, <1>e DEF Refuse, BeginPush
    <2>2. CASE TakeSpare(p)
      <3>1. Encoding(t)' = Encoding(t) + (IF t = Feeds[p] THEN 1 ELSE 0)
        BY <2>2, <1>t, <1>a, EncodingBegins DEF TakeSpare, BeginPush
      <3>2. spare'[t] = spare[t] - (IF t = Feeds[p] THEN 1 ELSE 0)
        BY <2>2, <1>t, <1>a, <1>b DEF TakeSpare, RecorderTypeOK
      <3>3. QED
        BY <2>2, <1>a, <1>b, <1>c, <1>e, <3>1, <3>2 DEF TakeSpare, BeginPush
    <2>3. CASE Enqueue(p)
      <3>1. Encoding(t)' = Encoding(t) - (IF t = Feeds[p] THEN 1 ELSE 0)
        BY <2>3, <1>t, <1>a, EncodingEnds DEF Enqueue
      <3>2. queued'[t] = queued[t] + (IF t = Feeds[p] THEN 1 ELSE 0)
        BY <2>3, <1>t, <1>a, <1>b, SMTT(30) DEF Enqueue, RecorderTypeOK
      <3>3. QED
        BY <2>3, <1>a, <1>b, <1>c, <1>e, <3>1, <3>2 DEF Enqueue
    <2>4. CASE EnqueueTooLate(p)
      <3>1. Encoding(t)' = Encoding(t) - (IF t = Feeds[p] THEN 1 ELSE 0)
        BY <2>4, <1>t, <1>a, EncodingEnds DEF EnqueueTooLate
      <3>2. spare'[t] = spare[t] + (IF t = Feeds[p] THEN 1 ELSE 0)
        BY <2>4, <1>t, <1>a, <1>b, SMTT(30) DEF EnqueueTooLate, RecorderTypeOK
      <3>3. QED
        BY <2>4, <1>a, <1>b, <1>c, <1>e, <3>1, <3>2 DEF EnqueueTooLate
    <2>5. QED
      BY <1>7, <2>1, <2>2, <2>3, <2>4 DEF PushStep
  <1>8. QED
    BY <1>1, <1>2, <1>3, <1>4, <1>5, <1>6, <1>7 DEF RecorderNext, WriterStep

(* No buffer of the recorder is ever lost or made up, for any topics and threads: *)
(* whatever the library does to a message and wherever close() lands, the pool is *)
(* as deep as add_topic() made it. *)
THEOREM BuffersNeverLost == RecorderSpec => []RecorderInv
  <1>1. RecorderInv /\ [RecorderNext]_recorderVars => RecorderInv'
    BY RecorderTypesKept, IdleKept, BuffersKept DEF RecorderInv
  <1>2. QED
    BY RecorderInvInit, <1>1, PTL DEF RecorderSpec

(* "Unreachable with one pushing thread per topic, which is the contract": under *)
(* that contract take_spare() refuses a message only for its budget. *)
THEOREM NeverShortOfBuffers ==
  ASSUME OnePusherPerTopic
  PROVE  RecorderSpec => []SparesSuffice
  <1>1. RecorderInv => SparesSuffice
    <2> SUFFICES ASSUME RecorderInv, NEW p \in Pushers, ~pushing[p], Feeds[p] \in declared,
                        ~OverBudget(Feeds[p])
                 PROVE  spare[Feeds[p]] > 0
      BY DEF SparesSuffice
    <2> DEFINE t == Feeds[p]
    <2>1. t \in Topics /\ t \in declared /\ started
      BY PushersAssumption DEF RecorderInv, IdleUntilStarted, OverBudget
    <2>2. spare[t] \in Nat /\ queued[t] \in Int /\ Depth(t) \in Nat
      BY <2>1, DepthFitsBudget DEF RecorderInv, RecorderTypeOK
    <2>3. queued[t] < Depth(t)
      BY <2>2 DEF OverBudget
    <2>4. EncodingOn(t) = {}
      BY DEF EncodingOn, OnePusherPerTopic
    <2>5. Encoding(t) = 0
      BY <2>4, EncodingFinite, FS_EmptySet
    <2>6. InHand(t) \in {0, 1}
      BY DEF InHand
    <2>7. spare[t] + queued[t] + Encoding(t) + InHand(t) = Depth(t) + 1
      BY <2>1 DEF RecorderInv, BuffersAccounted
    <2> HIDE DEF t
    <2>8. spare[t] > 0
      BY <2>2, <2>3, <2>5, <2>6, <2>7
    <2>9. QED
      BY <2>8 DEF t
  <1>2. QED
    BY <1>1, BuffersNeverLost, PTL

-----------------------------------------------------------------------------
(* Where the messages are. *)

(* The place of number i among the numbers that are not in F. *)
PlaceIn(F, i) == i - Cardinality({j \in F : j < i})

(* Leaving out some of the first n numbers leaves as many places as there are others. *)
LEMMA Places ==
  ASSUME NEW n \in Nat, NEW F \in SUBSET (1 .. n)
  PROVE  /\ IsFiniteSet(F) /\ Cardinality(F) \in Nat /\ Cardinality(F) <= n
         /\ \A i \in (1 .. n) \ F : PlaceIn(F, i) \in 1 .. n - Cardinality(F)
         /\ PlaceIn(F, n + 1) = (n + 1) - Cardinality(F)
  <1>1. IsFiniteSet(F) /\ Cardinality(F) \in Nat /\ Cardinality(F) <= n
    <2>1. IsFiniteSet(1 .. n) /\ Cardinality(1 .. n) = IF 1 > n THEN 0 ELSE n - 1 + 1
      BY FS_Interval
    <2>2. IsFiniteSet(F) /\ Cardinality(F) <= Cardinality(1 .. n)
      BY <2>1, FS_Subset
    <2>3. Cardinality(F) \in Nat
      BY <2>2, FS_CardinalityType
    <2>4. QED
      BY <2>1, <2>2, <2>3
  <1>0. \A j \in F : j \in Int /\ 1 <= j /\ j <= n
    OBVIOUS
  <1>2. PlaceIn(F, n + 1) = (n + 1) - Cardinality(F)
    <2> DEFINE below == {j \in F : j < n + 1}
    <2>1. below = F
      <3>1. \A j \in F : j < n + 1
        BY <1>0
      <3>2. QED
        BY <3>1
    <2>2. PlaceIn(F, n + 1) = (n + 1) - Cardinality(below)
      BY DEF PlaceIn
    <2> HIDE DEF below
    <2>3. QED
      BY <2>1, <2>2
  <1>3. ASSUME NEW i \in (1 .. n) \ F
        PROVE  PlaceIn(F, i) \in 1 .. n - Cardinality(F)
    <2> DEFINE before == {j \in F : j < i}
               after == {j \in F : i < j}
    <2>1. i \in Nat /\ 1 <= i /\ i <= n
      OBVIOUS
    <2>2. IsFiniteSet(1 .. i - 1) /\ Cardinality(1 .. i - 1) = IF 1 > i - 1 THEN 0 ELSE i - 1 - 1 + 1
      BY FS_Interval
    <2>3. IsFiniteSet(i + 1 .. n) /\ Cardinality(i + 1 .. n) = IF i + 1 > n THEN 0 ELSE n - (i + 1) + 1
      BY FS_Interval
    <2>4. IsFiniteSet(before) /\ Cardinality(before) <= Cardinality(1 .. i - 1)
      <3>0. \A j \in F : j < i => j \in 1 .. i - 1
        BY <1>0, <2>1
      <3>1. before \in SUBSET (1 .. i - 1)
        BY <3>0
      <3>2. QED
        BY <2>2, <3>1, FS_Subset
    <2>5. IsFiniteSet(after) /\ Cardinality(after) <= Cardinality(i + 1 .. n)
      <3>0. \A j \in F : i < j => j \in i + 1 .. n
        BY <1>0, <2>1
      <3>1. after \in SUBSET (i + 1 .. n)
        BY <3>0
      <3>2. QED
        BY <2>3, <3>1, FS_Subset
    <2>6. Cardinality(before) \in Nat /\ Cardinality(after) \in Nat
      BY <2>4, <2>5, FS_CardinalityType
    <2>7. F = before \cup after /\ before \cap after = {}
      <3>1. \A j \in F : j \in Int /\ j # i /\ (j < i \/ i < j)
        BY <1>0, <2>1
      <3>2. \A j \in before, k \in after : j # k
        BY <1>0, <2>1
      <3>3. F \subseteq before \cup after /\ before \cup after \subseteq F
        BY <3>1
      <3>4. QED
        BY <3>2, <3>3
    <2>8. Cardinality(before \cap after) = 0
      BY <2>7, FS_EmptySet
    <2>9. Cardinality(F) = Cardinality(before) + Cardinality(after) - Cardinality(before \cap after)
      BY <2>4, <2>5, <2>7, FS_Union
    <2>10. PlaceIn(F, i) = i - Cardinality(before)
      BY DEF PlaceIn
    <2> HIDE DEF before, after
    <2>11. Cardinality(F) = Cardinality(before) + Cardinality(after)
      BY <2>6, <2>8, <2>9
    <2>12. Cardinality(before) <= i - 1 /\ Cardinality(after) <= n - i
      BY <2>1, <2>2, <2>3, <2>4, <2>5, <2>6
    <2>13. QED
      BY <1>1, <2>1, <2>6, <2>10, <2>11, <2>12
  <1>4. QED
    BY <1>1, <1>2, <1>3

(* Leaving out the next number moves none of the earlier ones. *)
LEMMA OneMoreOut ==
  ASSUME NEW n \in Nat, NEW F \in SUBSET (1 .. n)
  PROVE  /\ F \cup {n + 1} \in SUBSET (1 .. n + 1)
         /\ Cardinality(F \cup {n + 1}) = Cardinality(F) + 1
         /\ \A i \in 1 .. n : PlaceIn(F \cup {n + 1}, i) = PlaceIn(F, i)
  <1>1. IsFiniteSet(F) /\ n + 1 \notin F
    BY Places
  <1>2. Cardinality(F \cup {n + 1}) = Cardinality(F) + 1
    BY <1>1, FS_AddElement
  <1>3. ASSUME NEW i \in 1 .. n
        PROVE  PlaceIn(F \cup {n + 1}, i) = PlaceIn(F, i)
    <2>1. {j \in F \cup {n + 1} : j < i} = {j \in F : j < i}
      OBVIOUS
    <2>2. QED
      BY <2>1 DEF PlaceIn
  <1>4. F \cup {n + 1} \in SUBSET (1 .. n + 1)
    OBVIOUS
  <1>5. QED
    BY <1>2, <1>3, <1>4

(* How far the recorder's life and its writer have come, and what the histories are. *)
LifeInOrder ==
  /\ running => started /\ ~closed
  /\ started => writer # "none"
  /\ writer \in {"none", "exited"} => queue = <<>>
  /\ writer = "exited" => ~running
  /\ sealed => ~running /\ closed /\ writer \in {"none", "exited"}

HistoriesTyped ==
  /\ accepted \in Seq(Message) /\ file \in Seq(Message)
  /\ Settled \in Nat /\ failed \subseteq 1 .. Settled
  /\ \A p \in Pushers : pushes[p] <= MaxPushes

RecorderIInv == RecorderInv /\ LifeInOrder /\ HistoriesTyped /\ MessagesAccounted

LEMMA AccountsInit == RecorderInit => RecorderIInv
  <1> SUFFICES ASSUME RecorderInit
               PROVE  RecorderIInv
    OBVIOUS
  <1>1. RecorderInv
    BY RecorderInvInit
  <1>2. LifeInOrder
    BY DEF RecorderInit, LifeInOrder
  <1>3. accepted = <<>> /\ queue = <<>> /\ file = <<>> /\ failed = {} /\ writer = "none" /\ ~sealed
    BY DEF RecorderInit
  <1>4. Settled = 0 /\ Writing = 0
    BY <1>3 DEF Settled, Writing
  <1>5. HistoriesTyped
    <2>1. \A p \in Pushers : pushes[p] = 0
      BY DEF RecorderInit
    <2>2. QED
      BY <1>3, <1>4, <2>1, PushersAssumption DEF HistoriesTyped
  <1>6. RecordedOnce
    BY <1>3, <1>4, FS_EmptySet DEF RecordedOnce
  <1>7. ASSUME NEW t \in Topics
        PROVE  Cardinality(BegunOn(t)) = 0 /\ Encoding(t) = 0
    <2>1. BegunOn(t) = {}
      BY DEF BegunOn, RecorderInit
    <2>2. EncodingOn(t) = {}
      BY DEF EncodingOn, RecorderInit
    <2>3. QED
      BY <2>1, <2>2, FS_EmptySet, EncodingFinite
  <1>8. PushesCounted
    BY <1>3, <1>7 DEF RecorderInit, PushesCounted
  <1>9. QED
    BY <1>1, <1>2, <1>5, <1>6, <1>8 DEF RecorderIInv, MessagesAccounted

LEMMA LifeKept ==
  ASSUME RecorderIInv, [RecorderNext]_recorderVars
  PROVE  LifeInOrder'
  <1> USE DEF LifeInOrder, lifeVars, queueVars, pusherVars, fileVars
  <1>0. LifeInOrder /\ IdleUntilStarted
    BY DEF RecorderIInv, RecorderInv
  <1>1. ASSUME NEW t \in Topics, AddTopic(t)
        PROVE  LifeInOrder'
    BY <1>0, <1>1 DEF AddTopic
  <1>2. CASE StartRecorder
    BY <1>0, <1>2 DEF StartRecorder
  <1>3. CASE CloseBegins \/ CloseEnds
    BY <1>0, <1>3 DEF CloseBegins, CloseEnds
  <1>4. CASE TakeMessage
    BY <1>0, <1>4 DEF TakeMessage
  <1>5. CASE WriteMessage \/ WriteFails \/ Recycle \/ LeaveDrained
    BY <1>0, <1>5 DEF WriteMessage, WriteFails, Recycle, LeaveDrained
  <1>6. ASSUME NEW p \in Pushers, Enqueue(p)
        PROVE  LifeInOrder'
    <2>1. running /\ started /\ writer \notin {"none", "exited"} /\ ~sealed
      BY <1>0, <1>6 DEF Enqueue
    <2>2. QED
      BY <1>0, <1>6, <2>1 DEF Enqueue
  <1>7. ASSUME NEW p \in Pushers, Refuse(p) \/ TakeSpare(p) \/ EnqueueTooLate(p)
        PROVE  LifeInOrder'
    BY <1>0, <1>7 DEF Refuse, TakeSpare, EnqueueTooLate
  <1>8. CASE UNCHANGED recorderVars
    BY <1>0, <1>8 DEF recorderVars
  <1>9. QED
    BY <1>1, <1>2, <1>3, <1>4, <1>5, <1>6, <1>7, <1>8 DEF RecorderNext, WriterStep, PushStep

LEMMA PlaceOfIs == \A i : PlaceOf(i) = PlaceIn(failed, i)
  BY DEF PlaceOf, PlaceIn

(* The counts, as numbers. *)
LEMMA Lengths ==
  ASSUME RecorderIInv
  PROVE  /\ queue \in Seq(Message) /\ Len(queue) \in Nat /\ DOMAIN queue = 1 .. Len(queue)
         /\ accepted \in Seq(Message) /\ Len(accepted) \in Nat /\ DOMAIN accepted = 1 .. Len(accepted)
         /\ file \in Seq(Message) /\ Len(file) \in Nat /\ DOMAIN file = 1 .. Len(file)
         /\ Writing \in {0, 1} /\ Settled \in Nat
         /\ Len(accepted) = Settled + Writing + Len(queue)
         /\ failed \in SUBSET (1 .. Settled) /\ Cardinality(failed) \in Nat
  <1>1. queue \in Seq(Message) /\ accepted \in Seq(Message) /\ file \in Seq(Message)
    BY DEF RecorderIInv, RecorderInv, RecorderTypeOK, HistoriesTyped
  <1>2. Writing \in {0, 1} /\ Settled \in Nat /\ failed \in SUBSET (1 .. Settled)
    BY DEF RecorderIInv, HistoriesTyped, Writing
  <1>3. Cardinality(failed) \in Nat
    BY <1>2, Places
  <1>4. /\ Len(queue) \in Nat /\ DOMAIN queue = 1 .. Len(queue)
        /\ Len(accepted) \in Nat /\ DOMAIN accepted = 1 .. Len(accepted)
        /\ Len(file) \in Nat /\ DOMAIN file = 1 .. Len(file)
    BY <1>1
  <1>5. Len(accepted) = Settled + Writing + Len(queue)
    BY <1>2, <1>4 DEF Settled
  <1>6. QED
    BY <1>1, <1>2, <1>3, <1>4, <1>5

(* Steps that move no message. *)
LEMMA MessagesStay ==
  ASSUME RecorderIInv, LifeInOrder', UNCHANGED <<queue, accepted, file, failed>>, Writing' = Writing,
         writer' = "writing" => writer = "writing" /\ hand' = hand,
         \A p \in Pushers : pushes'[p] <= MaxPushes
  PROVE  HistoriesTyped' /\ RecordedOnce'
  <1>1. Settled' = Settled
    BY DEF Settled
  <1>2. HistoriesTyped'
    BY <1>1 DEF RecorderIInv, HistoriesTyped
  <1>3. sealed' => Settled' = Len(accepted')
    <2>1. sealed' => Len(queue) = 0 /\ Writing = 0
      BY DEF LifeInOrder, Writing
    <2>2. QED
      BY <1>1, <2>1, Lengths
  <1>4. RecordedOnce'
    BY <1>1, <1>3 DEF RecorderIInv, MessagesAccounted, RecordedOnce, PlaceOf
  <1>5. QED
    BY <1>2, <1>4

(* A message is accepted at the end of the queue. *)
LEMMA MessageQueued ==
  ASSUME RecorderIInv, LifeInOrder', NEW p \in Pushers, Enqueue(p)
  PROVE  HistoriesTyped' /\ RecordedOnce'
  <1>1. /\ queue' = Append(queue, item[p]) /\ accepted' = Append(accepted, item[p])
        /\ UNCHANGED <<file, failed, writer, hand, pushes, sealed>>
        /\ item[p] \in Message /\ running'
    BY DEF Enqueue, pusherVars, fileVars, lifeVars, RecorderIInv, RecorderInv, RecorderTypeOK
  <1>2. /\ accepted' \in Seq(Message) /\ Len(accepted') = Len(accepted) + 1
        /\ DOMAIN queue' = 1 .. Len(queue) + 1 /\ Len(queue') = Len(queue) + 1
        /\ \A i \in 1 .. Len(accepted) : accepted'[i] = accepted[i]
        /\ \A i \in 1 .. Len(queue) : queue'[i] = queue[i]
        /\ queue'[Len(queue) + 1] = accepted'[Len(accepted) + 1]
    BY <1>1, Lengths
  <1>3. Settled' = Settled /\ Writing' = Writing
    BY <1>1, <1>2, Lengths DEF Settled, Writing
  <1>4. HistoriesTyped'
    BY <1>1, <1>2, <1>3, Lengths DEF RecorderIInv, HistoriesTyped
  <1>5. ASSUME NEW i \in DOMAIN queue'
        PROVE  queue'[i] = accepted'[Settled' + Writing' + i]
    <2>1. i \in Int /\ 1 <= i /\ (i <= Len(queue) \/ i = Len(queue) + 1)
      BY <1>2, Lengths
    <2>2. CASE i <= Len(queue)
      <3>1. Settled + Writing + i \in 1 .. Len(accepted)
        BY <2>1, <2>2, Lengths
      <3>2. queue[i] = accepted[Settled + Writing + i]
        BY <2>1, <2>2, Lengths DEF RecorderIInv, MessagesAccounted, RecordedOnce
      <3>3. QED
        BY <1>2, <1>3, <2>1, <2>2, <3>1, <3>2, Lengths
    <2>3. CASE i = Len(queue) + 1
      <3>0. /\ Len(accepted) = Settled + Writing + Len(queue)
            /\ Settled \in Int /\ Writing \in Int /\ Len(queue) \in Int
        BY Lengths
      <3>1. Settled + Writing + i = Len(accepted) + 1
        BY <2>3, <3>0
      <3>2. QED
        BY <1>2, <1>3, <2>3, <3>1
    <2>4. QED
      BY <2>1, <2>2, <2>3
  <1>6. \A i \in 1 .. Settled' : i \notin failed' =>
          PlaceOf(i)' \in DOMAIN file' /\ file'[PlaceOf(i)'] = accepted'[i]
    <2>1. \A i \in 1 .. Settled : i \in 1 .. Len(accepted)
      BY Lengths
    <2>2. QED
      BY <1>1, <1>2, <1>3, <2>1 DEF RecorderIInv, MessagesAccounted, RecordedOnce, PlaceOf
  <1>7. writer' = "writing" => hand'[1] = accepted'[Settled' + 1]
    <2>1. writer = "writing" => Settled + 1 \in 1 .. Len(accepted)
      BY Lengths DEF Writing
    <2>2. QED
      BY <1>1, <1>2, <1>3, <2>1 DEF RecorderIInv, MessagesAccounted, RecordedOnce
  <1>8. ~sealed'
    BY <1>1 DEF LifeInOrder
  <1>9. Len(file') = Settled' - Cardinality(failed')
    BY <1>1, <1>3 DEF RecorderIInv, MessagesAccounted, RecordedOnce
  <1>10. QED
    BY <1>4, <1>5, <1>6, <1>7, <1>8, <1>9 DEF RecordedOnce

(* The writer takes the oldest message of the queue. *)
LEMMA MessageTaken ==
  ASSUME RecorderIInv, LifeInOrder', TakeMessage
  PROVE  HistoriesTyped' /\ RecordedOnce'
  <1>1. /\ queue # <<>> /\ queue' = Tail(queue) /\ hand' = <<Head(queue)>>
        /\ writer = "waiting" /\ writer' = "writing"
        /\ UNCHANGED <<file, failed, pushes, sealed, accepted>>
    BY DEF TakeMessage, pusherVars
  <1>2. /\ Len(queue') = Len(queue) - 1 /\ DOMAIN queue' = 1 .. Len(queue) - 1 /\ Len(queue) >= 1
        /\ \A i \in 1 .. Len(queue) - 1 : queue'[i] = queue[i + 1]
        /\ hand'[1] = queue[1]
    BY <1>1, Lengths
  <1>3. Writing = 0 /\ Writing' = 1
    BY <1>1 DEF Writing
  <1>4. Settled' = Settled
    BY <1>1, <1>2, <1>3, Lengths DEF Settled
  <1>5. HistoriesTyped'
    BY <1>1, <1>4 DEF RecorderIInv, HistoriesTyped
  <1>6. \A i \in 1 .. Len(queue) : queue[i] = accepted[Settled + i]
    BY <1>3, Lengths DEF RecorderIInv, MessagesAccounted, RecordedOnce
  <1>7. hand'[1] = accepted'[Settled' + 1]
    <2>1. 1 \in 1 .. Len(queue)
      BY <1>2, Lengths
    <2>2. QED
      BY <1>1, <1>2, <1>4, <1>6, <2>1
  <1>8. ASSUME NEW i \in DOMAIN queue'
        PROVE  queue'[i] = accepted'[Settled' + Writing' + i]
    <2>1. i \in Int /\ i + 1 \in 1 .. Len(queue) /\ i \in 1 .. Len(queue) - 1
      BY <1>2, Lengths
    <2>2. Settled' + Writing' + i = Settled + (i + 1)
      BY <1>3, <1>4, <2>1, Lengths
    <2>3. QED
      BY <1>1, <1>2, <1>6, <2>1, <2>2
  <1>9. ~sealed'
    BY <1>1 DEF LifeInOrder
  <1>10. QED
    BY <1>1, <1>4, <1>5, <1>7, <1>8, <1>9 DEF RecordedOnce, RecorderIInv, MessagesAccounted, PlaceOf

(* One element joined at the end. *)
LEMMA JoinedByOne ==
  ASSUME NEW S, NEW s \in Seq(S), NEW h \in Seq(S), Len(h) = 1
  PROVE  /\ s \o h \in Seq(S) /\ Len(s \o h) = Len(s) + 1
         /\ \A i \in 1 .. Len(s) : (s \o h)[i] = s[i]
         /\ (s \o h)[Len(s) + 1] = h[1]
  <1>1. /\ s \o h \in Seq(S) /\ Len(s \o h) = Len(s) + Len(h)
        /\ \A i \in 1 .. Len(s) + Len(h) : (s \o h)[i] = IF i <= Len(s) THEN s[i] ELSE h[i - Len(s)]
    BY ConcatProperties
  <1>2. Len(s) \in Nat
    OBVIOUS
  <1> DEFINE whole == s \o h
             n == Len(s)
  <1> HIDE DEF whole, n
  <1>3. /\ Len(whole) = n + 1 /\ n \in Nat
        /\ \A i \in 1 .. n + 1 : whole[i] = IF i <= n THEN s[i] ELSE h[i - n]
    BY <1>1, <1>2 DEF whole, n
  <1>4. whole[n + 1] = h[1] /\ \A i \in 1 .. n : whole[i] = s[i]
    BY <1>3
  <1>5. QED
    BY <1>1, <1>3, <1>4 DEF whole, n

(* The library takes the message, or refuses it. *)
LEMMA MessageDone ==
  ASSUME RecorderIInv, LifeInOrder', WriteMessage \/ WriteFails
  PROVE  HistoriesTyped' /\ RecordedOnce'
  <1>1. /\ writer = "writing" /\ writer' = "recycling"
        /\ UNCHANGED <<queue, accepted, pushes, sealed>>
    BY DEF WriteMessage, WriteFails, pusherVars, queueVars
  <1>2. Writing = 1 /\ Writing' = 0
    BY <1>1 DEF Writing
  <1>3. Settled' = Settled + 1
    BY <1>1, <1>2, Lengths DEF Settled
  <1>4. hand \in Seq(Message) /\ Len(hand) = 1 /\ hand[1] \in Message /\ hand[1] = accepted[Settled + 1]
    BY <1>1, HandHoldsOne DEF RecorderIInv, RecorderInv, RecorderTypeOK, MessagesAccounted, RecordedOnce
  <1>5. \A i \in DOMAIN queue' : queue'[i] = accepted'[Settled' + Writing' + i]
    <2>1. \A i \in DOMAIN queue : i \in Int /\ queue[i] = accepted[Settled + Writing + i]
      BY Lengths DEF RecorderIInv, MessagesAccounted, RecordedOnce
    <2>2. Settled' + Writing' = Settled + Writing
      BY <1>2, <1>3, Lengths
    <2>3. QED
      BY <1>1, <2>1, <2>2
  <1>6. ~sealed' /\ writer' # "writing"
    BY <1>1 DEF LifeInOrder
  <1>7. /\ Len(file) = Settled - Cardinality(failed)
        /\ \A i \in 1 .. Settled : i \notin failed =>
             PlaceIn(failed, i) \in DOMAIN file /\ file[PlaceIn(failed, i)] = accepted[i]
    BY PlaceOfIs DEF RecorderIInv, MessagesAccounted, RecordedOnce
  <1>8. \A i \in 1 .. Settled + 1 : i \in 1 .. Settled \/ i = Settled + 1
    BY Lengths
  <1>p. \A i : PlaceOf(i)' = PlaceIn(failed', i)
    BY DEF PlaceOf, PlaceIn
  <1>9. CASE WriteMessage
    <2>1. file' = file \o hand /\ failed' = failed
      BY <1>9 DEF WriteMessage
    <2>2. /\ file' \in Seq(Message) /\ Len(file') = Len(file) + 1 /\ DOMAIN file' = 1 .. Len(file) + 1
          /\ \A i \in DOMAIN file : i \in DOMAIN file' /\ file'[i] = file[i]
          /\ file'[Len(file) + 1] = hand[1]
      <3>1. file \in Seq(Message) /\ DOMAIN file = 1 .. Len(file) /\ Len(file) \in Nat
        BY Lengths
      <3>2. /\ file \o hand \in Seq(Message) /\ Len(file \o hand) = Len(file) + 1
            /\ \A i \in 1 .. Len(file) : (file \o hand)[i] = file[i]
            /\ (file \o hand)[Len(file) + 1] = hand[1]
        BY <1>4, <3>1, JoinedByOne
      <3>3. DOMAIN (file \o hand) = 1 .. Len(file) + 1
        BY <3>2
      <3>4. QED
        BY <2>1, <3>1, <3>2, <3>3
    <2>3. HistoriesTyped'
      <3>1. failed' \subseteq 1 .. Settled'
        BY <1>3, <2>1, Lengths
      <3>2. QED
        BY <1>1, <1>3, <2>2, <3>1, Lengths DEF RecorderIInv, HistoriesTyped
    <2>4. Len(file') = Settled' - Cardinality(failed')
      BY <1>3, <1>7, <2>1, <2>2, Lengths
    <2>5. PlaceIn(failed, Settled + 1) = (Settled + 1) - Cardinality(failed)
      BY Places, Lengths
    <2>6. PlaceIn(failed, Settled + 1) = Len(file) + 1 /\ Len(file) + 1 \in DOMAIN file'
      BY <1>7, <2>2, <2>5, Lengths
    <2>7. \A i \in 1 .. Settled' : i \notin failed' =>
            PlaceOf(i)' \in DOMAIN file' /\ file'[PlaceOf(i)'] = accepted'[i]
      BY <1>1, <1>3, <1>4, <1>7, <1>8, <1>p, <2>1, <2>2, <2>6
    <2>8. QED
      BY <1>5, <1>6, <2>3, <2>4, <2>7 DEF RecordedOnce
  <1>10. CASE WriteFails
    <2>1. file' = file /\ failed' = failed \cup {Settled + 1}
      BY <1>10 DEF WriteFails
    <2>2. /\ failed' \in SUBSET (1 .. Settled + 1)
          /\ Cardinality(failed') = Cardinality(failed) + 1
          /\ \A i \in 1 .. Settled : PlaceIn(failed', i) = PlaceIn(failed, i)
      BY <2>1, OneMoreOut, Lengths
    <2>3. HistoriesTyped'
      BY <1>1, <1>3, <2>1, <2>2, Lengths DEF RecorderIInv, HistoriesTyped
    <2>4. Len(file') = Settled' - Cardinality(failed')
      BY <1>3, <1>7, <2>1, <2>2, Lengths
    <2>5. \A i \in 1 .. Settled' : i \notin failed' =>
            PlaceOf(i)' \in DOMAIN file' /\ file'[PlaceOf(i)'] = accepted'[i]
      BY <1>1, <1>3, <1>7, <1>8, <1>p, <2>1, <2>2
    <2>6. QED
      BY <1>5, <1>6, <2>3, <2>4, <2>5 DEF RecordedOnce
  <1>11. QED
    BY <1>9, <1>10
-----------------------------------------------------------------------------
(* What the counters add up to.                                             *)

LEMMA BegunFinite ==
  \A t : IsFiniteSet(BegunOn(t)) /\ Cardinality(BegunOn(t)) \in Nat
  <1>1. IsFiniteSet(1 .. MaxPushes)
    BY FS_Interval, PushersAssumption
  <1>2. IsFiniteSet(Pushers \X (1 .. MaxPushes))
    BY <1>1, FS_Product, PushersAssumption
  <1>3. \A t : BegunOn(t) \subseteq Pushers \X (1 .. MaxPushes)
    BY DEF BegunOn
  <1>4. QED
    BY <1>2, <1>3, FS_Subset, FS_CardinalityType

(* A push that begins is one more on its topic, and on no other. *)
LEMMA BegunGrows ==
  ASSUME RecorderIInv, NEW p \in Pushers, BeginPush(p), NEW t \in Topics
  PROVE  /\ Cardinality(BegunOn(t)') = Cardinality(BegunOn(t)) + (IF t = Feeds[p] THEN 1 ELSE 0)
         /\ \A q \in Pushers : pushes'[q] <= MaxPushes
  <1> DEFINE new == <<p, pushes[p] + 1>>
  <1>1. pushes \in [Pushers -> Nat] /\ MaxPushes \in Nat
    BY PushersAssumption DEF RecorderIInv, RecorderInv, RecorderTypeOK
  <1>2. /\ pushes' = [pushes EXCEPT ![p] = @ + 1] /\ pushes[p] < MaxPushes
    BY DEF BeginPush
  <1>3. \A q \in Pushers : pushes'[q] = IF q = p THEN pushes[p] + 1 ELSE pushes[q]
    BY <1>1, <1>2
  <1>4. \A q \in Pushers : pushes'[q] <= MaxPushes
    BY <1>1, <1>2, <1>3 DEF RecorderIInv, HistoriesTyped
  <1>5. new \in Pushers \X (1 .. MaxPushes)
    BY <1>1, <1>2
  <1>6. new \notin BegunOn(t)
    BY <1>1 DEF BegunOn
  <1>7. ASSUME NEW q \in Pushers, NEW n \in 1 .. MaxPushes
        PROVE  n <= pushes'[q] <=> n <= pushes[q] \/ (q = p /\ n = pushes[p] + 1)
    BY <1>1, <1>3
  <1>8. BegunOn(t)' = IF t = Feeds[p] THEN BegunOn(t) \cup {new} ELSE BegunOn(t)
    <2>1. ASSUME NEW x \in Pushers \X (1 .. MaxPushes)
          PROVE  x \in BegunOn(t)' <=> x \in BegunOn(t) \/ (t = Feeds[p] /\ x = new)
      <3>1. x[1] \in Pushers /\ x[2] \in 1 .. MaxPushes /\ x = <<x[1], x[2]>>
        OBVIOUS
      <3>2. x = new <=> x[1] = p /\ x[2] = pushes[p] + 1
        BY <3>1
      <3>3. x[2] <= pushes'[x[1]] <=> x[2] <= pushes[x[1]] \/ (x[1] = p /\ x[2] = pushes[p] + 1)
        BY <1>7, <3>1
      <3> HIDE DEF new
      <3>4. QED
        BY <3>2, <3>3 DEF BegunOn
    <2>2. BegunOn(t) \subseteq Pushers \X (1 .. MaxPushes) /\ BegunOn(t)' \subseteq Pushers \X (1 .. MaxPushes)
      BY DEF BegunOn
    <2> HIDE DEF new
    <2>3. QED
      BY <1>5, <2>1, <2>2
  <1> HIDE DEF new
  <1>9. IsFiniteSet(BegunOn(t)) /\ Cardinality(BegunOn(t)) \in Nat
    BY BegunFinite
  <1>10. Cardinality(BegunOn(t) \cup {new}) = Cardinality(BegunOn(t)) + 1
    BY <1>6, <1>9, FS_AddElement
  <1>11. QED
    BY <1>4, <1>8, <1>9, <1>10

(* How many messages of a topic the writer still has to write. *)
ToWrite(t) == IF writer = "writing" THEN InHand(t) ELSE 0

LEMMA CountsKept ==
  ASSUME RecorderIInv, [RecorderNext]_recorderVars
  PROVE  PushesCounted' /\ \A p \in Pushers : pushes'[p] <= MaxPushes
  <1>p. \A p \in Pushers : pushes[p] <= MaxPushes
    BY DEF RecorderIInv, HistoriesTyped
  <1>q. (\E p \in Pushers : BeginPush(p)) \/ pushes' = pushes
    BY DEF RecorderNext, WriterStep, PushStep, AddTopic, StartRecorder, CloseBegins, CloseEnds,
           TakeMessage, WriteMessage, WriteFails, Recycle, LeaveDrained, Refuse, TakeSpare,
           Enqueue, EnqueueTooLate, recorderVars, pusherVars
  <1>r. \A p \in Pushers : pushes'[p] <= MaxPushes
    <2>1. ASSUME NEW p \in Pushers, BeginPush(p)
          PROVE  \A q \in Pushers : pushes'[q] <= MaxPushes
      BY <2>1, BegunGrows, PushersAssumption
    <2>2. QED
      BY <1>p, <1>q, <2>1
  <1>s. SUFFICES ASSUME NEW t \in Topics
                 PROVE  drops'[t] + written'[t] + queued'[t] + Encoding(t)' + ToWrite(t)'
                          = Cardinality(BegunOn(t)')
    BY <1>r DEF PushesCounted, ToWrite
  <1>t. RecorderTypeOK /\ RecorderTypeOK'
    BY RecorderTypesKept DEF RecorderIInv, RecorderInv
  <1>a. /\ drops[t] \in Int /\ written[t] \in Int /\ queued[t] \in Int /\ Encoding(t) \in Int
        /\ ToWrite(t) \in Int /\ Cardinality(BegunOn(t)) \in Int
    BY <1>t, EncodingFinite, BegunFinite DEF RecorderTypeOK, ToWrite, InHand
  <1>b. drops[t] + written[t] + queued[t] + Encoding(t) + ToWrite(t) = Cardinality(BegunOn(t))
    BY DEF RecorderIInv, MessagesAccounted, PushesCounted, ToWrite
  <1>c. pushes' = pushes => BegunOn(t)' = BegunOn(t)
    BY DEF BegunOn
  <1>d. pushing' = pushing => Encoding(t)' = Encoding(t)
    BY DEF Encoding
  <1>e. hand' = hand /\ writer' = writer => ToWrite(t)' = ToWrite(t)
    BY DEF ToWrite, InHand
  <1>f. writer # "writing" => ToWrite(t) = 0
    BY DEF ToWrite
  <1>g. writer' # "writing" => ToWrite(t)' = 0
    BY DEF ToWrite
  <1> USE DEF lifeVars, queueVars, pusherVars, fileVars
  <1>1. ASSUME NEW u \in Topics, AddTopic(u)
        PROVE  drops'[t] + written'[t] + queued'[t] + Encoding(t)' + ToWrite(t)'
                 = Cardinality(BegunOn(t)')
    <2>1. UNCHANGED <<drops, written, queued, pushing, pushes, hand, writer>>
      BY <1>1 DEF AddTopic
    <2>2. QED
      BY <1>b, <1>c, <1>d, <1>e, <2>1
  <1>2. CASE StartRecorder \/ CloseBegins \/ CloseEnds \/ Recycle \/ LeaveDrained
    <2>1. /\ UNCHANGED <<drops, written, queued, pushing, pushes>>
          /\ UNCHANGED <<hand, writer>> \/ (writer # "writing" /\ writer' # "writing")
      BY <1>2 DEF StartRecorder, CloseBegins, CloseEnds, Recycle, LeaveDrained, RecorderIInv,
                  RecorderInv, IdleUntilStarted
    <2>2. QED
      BY <1>b, <1>c, <1>d, <1>e, <1>f, <1>g, <2>1
  <1>3. CASE TakeMessage
    <2>1. ToWrite(t) = 0 /\ ToWrite(t)' = (IF Head(queue).topic = t THEN 1 ELSE 0)
      BY <1>3 DEF TakeMessage, ToWrite, InHand
    <2>2. queued'[t] = queued[t] - (IF Head(queue).topic = t THEN 1 ELSE 0)
      BY <1>3, <1>t, <1>a DEF TakeMessage, RecorderTypeOK
    <2>3. UNCHANGED <<drops, written, pushing, pushes>>
      BY <1>3 DEF TakeMessage
    <2>4. QED
      BY <1>a, <1>b, <1>c, <1>d, <2>1, <2>2, <2>3
  <1>4. CASE WriteMessage \/ WriteFails
    <2>1. Len(hand) = 1 /\ writer = "writing" /\ writer' = "recycling"
      BY <1>4, <1>t, HandHoldsOne DEF WriteMessage, WriteFails
    <2>2. ToWrite(t) = (IF hand[1].topic = t THEN 1 ELSE 0) /\ ToWrite(t)' = 0
      BY <2>1 DEF ToWrite, InHand
    <2>3. UNCHANGED <<queued, pushing, pushes>>
      BY <1>4 DEF WriteMessage, WriteFails
    <2>4. \/ /\ drops' = drops
             /\ written'[t] = written[t] + (IF hand[1].topic = t THEN 1 ELSE 0)
          \/ /\ written' = written
             /\ drops'[t] = drops[t] + (IF hand[1].topic = t THEN 1 ELSE 0)
      BY <1>4, <1>t, <1>a, SMTT(30) DEF WriteMessage, WriteFails, RecorderTypeOK
    <2>5. QED
      BY <1>a, <1>b, <1>c, <1>d, <2>2, <2>3, <2>4
  <1>5. ASSUME NEW p \in Pushers, PushStep(p)
        PROVE  drops'[t] + written'[t] + queued'[t] + Encoding(t)' + ToWrite(t)'
                 = Cardinality(BegunOn(t)')
    <2> DEFINE one == IF t = Feeds[p] THEN 1 ELSE 0
    <2>0. one \in Int /\ UNCHANGED <<hand, writer, written>>
      BY <1>5 DEF PushStep, Refuse, TakeSpare, Enqueue, EnqueueTooLate
    <2>1. CASE Refuse(p)
      <3>1. Cardinality(BegunOn(t)') = Cardinality(BegunOn(t)) + one
        BY <2>1, BegunGrows DEF Refuse
      <3>2. drops'[t] = drops[t] + one /\ UNCHANGED <<queued, pushing>>
        BY <2>1, <1>t, <1>a DEF Refuse, RecorderTypeOK
      <3> HIDE DEF one
      <3>3. QED
        BY <1>a, <1>b, <1>d, <1>e, <2>0, <3>1, <3>2
    <2>2. CASE TakeSpare(p)
      <3>1. Cardinality(BegunOn(t)') = Cardinality(BegunOn(t)) + one
        BY <2>2, BegunGrows DEF TakeSpare
      <3>2. Encoding(t)' = Encoding(t) + one
        BY <2>2, <1>t, EncodingBegins DEF TakeSpare, BeginPush
      <3>3. UNCHANGED <<drops, queued>>
        BY <2>2 DEF TakeSpare
      <3> HIDE DEF one
      <3>4. QED
        BY <1>a, <1>b, <1>e, <2>0, <3>1, <3>2, <3>3
    <2>3. CASE Enqueue(p)
      <3>1. Encoding(t)' = Encoding(t) - one
        BY <2>3, <1>t, EncodingEnds DEF Enqueue
      <3>2. queued'[t] = queued[t] + one /\ UNCHANGED <<drops, pushes>>
        BY <2>3, <1>t, <1>a, SMTT(30) DEF Enqueue, RecorderTypeOK
      <3> HIDE DEF one
      <3>3. QED
        BY <1>a, <1>b, <1>c, <1>e, <2>0, <3>1, <3>2
    <2>4. CASE EnqueueTooLate(p)
      <3>1. Encoding(t)' = Encoding(t) - one
        BY <2>4, <1>t, EncodingEnds DEF EnqueueTooLate
      <3>2. drops'[t] = drops[t] + one /\ UNCHANGED <<queued, pushes>>
        BY <2>4, <1>t, <1>a, SMTT(30) DEF EnqueueTooLate, RecorderTypeOK
      <3> HIDE DEF one
      <3>3. QED
        BY <1>a, <1>b, <1>c, <1>e, <2>0, <3>1, <3>2
    <2>5. QED
      BY <1>5, <2>1, <2>2, <2>3, <2>4 DEF PushStep
  <1>6. CASE UNCHANGED recorderVars
    <2>1. UNCHANGED <<drops, written, queued, pushing, pushes, hand, writer>>
      BY <1>6 DEF recorderVars
    <2>2. QED
      BY <1>b, <1>c, <1>d, <1>e, <2>1
  <1>7. QED
    BY <1>1, <1>2, <1>3, <1>4, <1>5, <1>6 DEF RecorderNext, WriterStep

LEMMA MessagesKept ==
  ASSUME RecorderIInv, [RecorderNext]_recorderVars
  PROVE  HistoriesTyped' /\ RecordedOnce'
  <1>l. LifeInOrder'
    BY LifeKept
  <1>c. \A p \in Pushers : pushes'[p] <= MaxPushes
    BY CountsKept
  <1>s. UNCHANGED <<queue, accepted, file, failed>> /\ Writing' = Writing
          /\ (writer' = "writing" => writer = "writing" /\ hand' = hand)
        => HistoriesTyped' /\ RecordedOnce'
    BY <1>l, <1>c, MessagesStay
  <1>i. started \/ writer = "none"
    BY DEF RecorderIInv, RecorderInv, IdleUntilStarted
  <1> USE DEF lifeVars, queueVars, pusherVars, fileVars, Writing
  <1>1. ASSUME NEW t \in Topics, AddTopic(t)
        PROVE  HistoriesTyped' /\ RecordedOnce'
    BY <1>s, <1>1 DEF AddTopic
  <1>2. CASE StartRecorder \/ CloseBegins \/ CloseEnds
    BY <1>s, <1>i, <1>2 DEF StartRecorder, CloseBegins, CloseEnds
  <1>3. CASE TakeMessage
    BY <1>l, <1>3, MessageTaken
  <1>4. CASE WriteMessage \/ WriteFails
    BY <1>l, <1>4, MessageDone
  <1>5. CASE Recycle \/ LeaveDrained
    BY <1>s, <1>5 DEF Recycle, LeaveDrained
  <1>6. ASSUME NEW p \in Pushers, PushStep(p)
        PROVE  HistoriesTyped' /\ RecordedOnce'
    <2>1. CASE Enqueue(p)
      BY <1>l, <2>1, MessageQueued
    <2>2. CASE Refuse(p) \/ TakeSpare(p) \/ EnqueueTooLate(p)
      BY <1>s, <2>2 DEF Refuse, TakeSpare, EnqueueTooLate
    <2>3. QED
      BY <1>6, <2>1, <2>2 DEF PushStep
  <1>7. CASE UNCHANGED recorderVars
    BY <1>s, <1>7 DEF recorderVars
  <1>8. QED
    BY <1>1, <1>2, <1>3, <1>4, <1>5, <1>6, <1>7 DEF RecorderNext, WriterStep

LEMMA RecorderSteps == RecorderIInv /\ [RecorderNext]_recorderVars => RecorderIInv'
  <1> SUFFICES ASSUME RecorderIInv, [RecorderNext]_recorderVars
               PROVE  RecorderIInv'
    OBVIOUS
  <1>1. RecorderInv'
    BY RecorderTypesKept, IdleKept, BuffersKept DEF RecorderIInv, RecorderInv
  <1>2. QED
    BY <1>1, LifeKept, MessagesKept, CountsKept DEF RecorderIInv, MessagesAccounted

(* What push() promised is kept for any topics, threads and budgets: a message it *)
(* accepted is in the queue, in the writer's hand or in the file, once and in the *)
(* order of acceptance, unless the library refused it; a closed file has them all; *)
(* and drops() and written() add up to what was pushed. *)
THEOREM MessagesNeverLost == RecorderSpec => []MessagesAccounted
  <1>1. RecorderIInv /\ [RecorderNext]_recorderVars => RecorderIInv'
    BY RecorderSteps
  <1>2. RecorderIInv => MessagesAccounted
    BY DEF RecorderIInv
  <1>3. QED
    BY AccountsInit, <1>1, <1>2, PTL DEF RecorderSpec

-----------------------------------------------------------------------------
(* RawRecording. *)

Rings ==
  [head : 0 .. Staging - 1, count : 0 .. Staging, published : 0 .. Staging,
   running : BOOLEAN, error : BOOLEAN]
Pushes == [pc : {"idle", "copy", "copying", "publish"}, slot : Int, frame : Nat]
Writers == [pc : {"wait", "data", "index", "exited"}, slot : Int]
Records == [frame : Nat, stamp : Int, offset : Int]

(* Types, as far as the steps need them. *)
RawShapes ==
  /\ ring \in [Streams -> Rings]
  /\ staging \in [Streams -> [0 .. Staging - 1 -> Nat]]
  /\ push \in [Streams -> Pushes]
  /\ \A s \in Streams : push[s].frame <= Len(Cameras[s])
  /\ rawWriter \in [Streams -> Writers]
  /\ DOMAIN data = Streams /\ DOMAIN first = Streams
  /\ index \in [Streams -> Seq(Records)]
  /\ offset \in [Streams -> Nat] /\ rawWritten \in [Streams -> Nat] /\ rawDrops \in [Streams -> Nat]
  /\ lost \in [Streams -> SUBSET Nat] /\ \A s \in Streams : IsFiniteSet(lost[s])
  /\ rawAccepted \in [Streams -> [all : Seq(Nat), before : Int]]
  /\ closing \in Open .. Closed

(* How many of the accepted frames the writer is through with. *)
Through(s) == Len(rawAccepted[s].all) - ring[s].published

(* The frames push() took are those of the camera in their order. *)
AcceptedInOrder(s) ==
  LET pushed == rawAccepted[s].all IN
  /\ \A i \in DOMAIN pushed :
       /\ pushed[i] \in 1 .. push[s].frame
       /\ push[s].pc # "idle" => pushed[i] < push[s].frame
  /\ \A i, j \in DOMAIN pushed : i < j => pushed[i] < pushed[j]
  /\ push[s].pc # "idle" => push[s].frame > 0

(* The published buffers are a piece of the ring, from its head on, and hold the *)
(* frames the writer is not through with; the reserved one is behind them. *)
StagingSound(s) ==
  /\ ring[s].count = ring[s].published + (IF push[s].pc = "idle" THEN 0 ELSE 1)
  /\ ring[s].published <= Len(rawAccepted[s].all)
  /\ push[s].pc # "idle" => push[s].slot = (ring[s].head + ring[s].published) % Staging
  /\ push[s].pc = "publish" => staging[s][push[s].slot] = push[s].frame
  /\ \A k \in 0 .. ring[s].published - 1 :
       staging[s][(ring[s].head + k) % Staging] = rawAccepted[s].all[Through(s) + 1 + k]
  /\ rawWriter[s].pc \in {"data", "index"} =>
       rawWriter[s].slot = ring[s].head /\ ring[s].published > 0

(* What the writer is through with is in the index or lost, and what is in the *)
(* index has its payload at an offset that is not written again. *)
FilesSound(s) ==
  LET pushed == rawAccepted[s].all
      settled == {pushed[i] : i \in 1 .. Through(s)} IN
  /\ lost[s] \subseteq settled
  /\ \A i \in DOMAIN index[s] : index[s][i] # Part =>
       /\ index[s][i].frame \in settled \ lost[s]
       /\ index[s][i].offset \in 0 .. offset[s] - 1
       /\ index[s][i].offset \in DOMAIN data[s]
       /\ data[s][index[s][i].offset] = index[s][i].frame
  /\ \A i, j \in DOMAIN index[s] : i < j /\ index[s][i] # Part /\ index[s][j] # Part =>
       index[s][i].frame < index[s][j].frame
  /\ \A k \in 1 .. Through(s) : pushed[k] \notin lost[s] =>
       \E i \in DOMAIN index[s] : index[s][i].frame = pushed[k]
  /\ rawWriter[s].pc = "index" => offset[s] \in DOMAIN data[s] /\ data[s][offset[s]] = Staged(s)

(* How far a stream is shut: close() reaches it when it was called, and joins its *)
(* thread, which leaves when it is through with all that was accepted before. *)
ShutSound(s) ==
  /\ ~ring[s].running => closing # Open
  /\ closing # Open => rawAccepted[s].before \in 0 .. Len(rawAccepted[s].all)
  /\ rawWriter[s].pc = "exited" => ~ring[s].running /\ rawAccepted[s].before <= Through(s)
  /\ closing > s => rawWriter[s].pc = "exited"

FramesCounted(s) ==
  push[s].frame = rawWritten[s] + rawDrops[s] + Cardinality(lost[s]) + ring[s].count

StreamSound(s) ==
  AcceptedInOrder(s) /\ StagingSound(s) /\ FilesSound(s) /\ ShutSound(s) /\ FramesCounted(s)

RawIInv == RawShapes /\ \A s \in Streams : StreamSound(s)

LEMMA RawInits == RawInit => RawIInv
  <1> SUFFICES ASSUME RawInit PROVE RawIInv
    OBVIOUS
  <1> USE StagingAssumption, CamerasAssumption DEF RawInit
  <1>1. RawShapes
    <2>1. IsFiniteSet({}) /\ \A s \in Streams : Len(Cameras[s]) \in Nat
      BY FS_EmptySet DEF Streams
    <2>2. Open \in Open .. Closed
      BY DEF Open, Closed
    <2>3. 0 \in 0 .. Staging - 1 /\ 0 \in 0 .. Staging /\ None \in Int
      BY DEF None
    <2>4. ring \in [Streams -> Rings]
      BY <2>3 DEF Rings
    <2>5. staging \in [Streams -> [0 .. Staging - 1 -> Nat]]
      OBVIOUS
    <2>6. push \in [Streams -> Pushes]
      BY <2>3 DEF Pushes
    <2>7. rawWriter \in [Streams -> Writers]
      BY <2>3 DEF Writers
    <2>8. index \in [Streams -> Seq(Records)]
      OBVIOUS
    <2>9. rawAccepted \in [Streams -> [all : Seq(Nat), before : Int]]
      BY <2>3
    <2>10. lost \in [Streams -> SUBSET Nat] /\ \A s \in Streams : IsFiniteSet(lost[s])
      BY <2>1
    <2>11. offset \in [Streams -> Nat] /\ rawWritten \in [Streams -> Nat] /\ rawDrops \in [Streams -> Nat]
      OBVIOUS
    <2>12. \A s \in Streams : push[s].frame <= Len(Cameras[s])
      BY <2>1
    <2> QED
      BY <2>2, <2>4, <2>5, <2>6, <2>7, <2>8, <2>9, <2>10, <2>11, <2>12 DEF RawShapes
  <1>2. ASSUME NEW s \in Streams
        PROVE  StreamSound(s)
    <2>1. Cardinality({}) = 0
      BY FS_EmptySet
    <2>2. s \in Nat \ {0}
      BY DEF Streams
    <2>3. /\ rawAccepted[s].all = <<>> /\ ring[s].published = 0 /\ ring[s].count = 0 /\ Through(s) = 0
          /\ push[s].pc = "idle" /\ push[s].frame = 0 /\ index[s] = <<>> /\ lost[s] = {}
          /\ rawWriter[s].pc = "wait" /\ ring[s].running /\ rawWritten[s] = 0 /\ rawDrops[s] = 0
      BY DEF Through
    <2>4. AcceptedInOrder(s)
      BY <2>3 DEF AcceptedInOrder
    <2>5. StagingSound(s)
      BY <2>3 DEF StagingSound
    <2>6. FilesSound(s)
      BY <2>3 DEF FilesSound
    <2>7. ShutSound(s)
      BY <2>2, <2>3 DEF ShutSound, Open
    <2> QED
      BY <2>1, <2>3, <2>4, <2>5, <2>6, <2>7 DEF StreamSound, FramesCounted
  <1> QED
    BY <1>1, <1>2 DEF RawIInv

-----------------------------------------------------------------------------
(* BufferPlaces in the ring of staging buffers, once round at most.               *)

LEMMA PlaceOnce ==
  ASSUME NEW n \in Nat, n < 2 * Staging
  PROVE  n % Staging = IF n < Staging THEN n ELSE n - Staging
  <1>1. CASE n < Staging
    BY <1>1, StagingAssumption
  <1>2. CASE n >= Staging
    <2> DEFINE q == n \div Staging
               r == n % Staging
    <2>1. q \in Int /\ r \in 0 .. Staging - 1 /\ n = Staging * q + r
      BY StagingAssumption
    <2> HIDE DEF q, r
    <2>2. Staging * q > 0 /\ Staging * q < 2 * Staging
      BY <1>2, <2>1, StagingAssumption
    <2>3. q >= 1
      <3>1. CASE q <= 0
        <4>1. Staging * q <= 0
          BY <2>1, <3>1, StagingAssumption, SMTT(30)
        <4> QED
          BY <4>1, <2>1, <2>2, StagingAssumption
      <3> QED
        BY <3>1, <2>1
    <2>4. q <= 1
      <3>1. CASE q >= 2
        <4>1. Staging * q >= 2 * Staging
          BY <2>1, <3>1, StagingAssumption, SMTT(30)
        <4> QED
          BY <4>1, <2>1, <2>2, StagingAssumption
      <3> QED
        BY <3>1, <2>1
    <2>5. r = n - Staging
      <3>1. q = 1
        BY <2>1, <2>3, <2>4
      <3> QED
        BY <2>1, <3>1, StagingAssumption
    <2> QED
      BY <2>5, <1>2, StagingAssumption DEF r
  <1> QED
    BY <1>1, <1>2, StagingAssumption

LEMMA BufferPlaces ==
  ASSUME NEW h \in 0 .. Staging - 1, NEW k \in 0 .. Staging - 1
  PROVE  /\ (h + k) % Staging \in 0 .. Staging - 1
         /\ (h + 0) % Staging = h
         /\ (h + 1) % Staging \in 0 .. Staging - 1
         /\ (((h + 1) % Staging) + k) % Staging = (h + (k + 1)) % Staging
         /\ \A j \in 0 .. Staging - 1 : j # k => (h + j) % Staging # (h + k) % Staging
  <1> USE StagingAssumption
  <1>1. \A n \in Nat : n < 2 * Staging => n % Staging = IF n < Staging THEN n ELSE n - Staging
    BY PlaceOnce
  <1> DEFINE next == (h + 1) % Staging
  <1>2. next = IF h + 1 < Staging THEN h + 1 ELSE 0
    <2>1. h + 1 \in Nat /\ h + 1 < 2 * Staging
      OBVIOUS
    <2> QED
      BY <1>1, <2>1
  <1>3. \A j \in 0 .. Staging : (h + j) % Staging = IF h + j < Staging THEN h + j ELSE h + j - Staging
    <2> SUFFICES ASSUME NEW j \in 0 .. Staging
                 PROVE  (h + j) % Staging = IF h + j < Staging THEN h + j ELSE h + j - Staging
      OBVIOUS
    <2> DEFINE n == h + j
    <2>1. n \in Nat /\ n < 2 * Staging
      OBVIOUS
    <2>2. n % Staging = IF n < Staging THEN n ELSE n - Staging
      <3> HIDE DEF n
      <3> QED
        BY ONLY <1>1, <2>1
    <2> QED
      BY <2>2
  <1>4. (next + k) % Staging = IF next + k < Staging THEN next + k ELSE next + k - Staging
    <2> DEFINE n == next + k
    <2>1. n \in Nat /\ n < 2 * Staging
      BY <1>2
    <2>2. n % Staging = IF n < Staging THEN n ELSE n - Staging
      <3> HIDE DEF n
      <3> QED
        BY ONLY <1>1, <2>1
    <2> QED
      BY <2>2
  <1>5. next \in 0 .. Staging - 1
    BY <1>2
  <1>6. (next + k) % Staging = (h + (k + 1)) % Staging
    <2>1. (h + (k + 1)) % Staging = IF h + (k + 1) < Staging THEN h + (k + 1) ELSE h + (k + 1) - Staging
      BY <1>3
    <2> HIDE DEF next
    <2> QED
      BY <1>2, <1>4, <2>1
  <1>7. (h + k) % Staging \in 0 .. Staging - 1 /\ (h + 0) % Staging = h
    BY <1>3
  <1>8. \A j \in 0 .. Staging - 1 : j # k => (h + j) % Staging # (h + k) % Staging
    BY <1>3
  <1> QED
    BY <1>5, <1>6, <1>7, <1>8

-----------------------------------------------------------------------------
(* A step of one stream's thread leaves the other streams alone.            *)

LEMMA Untouched ==
  ASSUME NEW s \in Streams, StreamSound(s), closing' = closing,
         ring'[s] = ring[s], staging'[s] = staging[s], push'[s] = push[s], rawWriter'[s] = rawWriter[s],
         data'[s] = data[s], index'[s] = index[s], offset'[s] = offset[s],
         rawWritten'[s] = rawWritten[s], rawDrops'[s] = rawDrops[s], lost'[s] = lost[s],
         rawAccepted'[s] = rawAccepted[s]
  PROVE  StreamSound(s)'
  <1>1. Through(s)' = Through(s) /\ Staged(s)' = Staged(s)
    BY DEF Through, Staged
  <1>2. AcceptedInOrder(s)'
    BY DEF StreamSound, AcceptedInOrder
  <1>3. StagingSound(s)'
    BY <1>1 DEF StreamSound, StagingSound
  <1>4. FilesSound(s)'
    BY <1>1 DEF StreamSound, FilesSound
  <1>5. ShutSound(s)'
    BY <1>1 DEF StreamSound, ShutSound
  <1>6. FramesCounted(s)'
    BY DEF StreamSound, FramesCounted
  <1> QED
    BY <1>2, <1>3, <1>4, <1>5, <1>6 DEF StreamSound

(* What each stream has, its types. *)
LEMMA RingShape ==
  ASSUME RawShapes, NEW s \in Streams
  PROVE  /\ ring[s].head \in 0 .. Staging - 1
         /\ ring[s].count \in Nat /\ ring[s].count <= Staging
         /\ ring[s].published \in Nat /\ ring[s].published <= Staging
         /\ Staging \in Nat \ {0}
  BY StagingAssumption DEF RawShapes, Rings

LEMMA PushShape ==
  ASSUME RawShapes, NEW s \in Streams
  PROVE  push[s].frame \in Nat /\ push[s].frame <= Len(Cameras[s]) /\ Len(Cameras[s]) \in Nat
  <1>1. Cameras[s] \in Seq(Int)
    BY CamerasAssumption DEF Streams
  <1>2. Len(Cameras[s]) \in Nat
    BY <1>1
  <1>3. push[s].frame \in Nat
    BY DEF RawShapes, Pushes
  <1>4. push[s].frame <= Len(Cameras[s])
    BY DEF RawShapes
  <1> QED
    BY <1>2, <1>3, <1>4

LEMMA Numbers ==
  ASSUME NEW S, NEW q \in Seq(S)
  PROVE  Len(q) \in Nat /\ DOMAIN q = 1 .. Len(q) /\ \A i \in DOMAIN q : q[i] \in S
  OBVIOUS

LEMMA AcceptedShape ==
  ASSUME RawShapes, NEW s \in Streams
  PROVE  /\ rawAccepted[s].all \in Seq(Nat) /\ Len(rawAccepted[s].all) \in Nat
         /\ DOMAIN rawAccepted[s].all = 1 .. Len(rawAccepted[s].all)
         /\ \A i \in DOMAIN rawAccepted[s].all : rawAccepted[s].all[i] \in Nat
         /\ rawAccepted[s].before \in Int /\ Through(s) \in Int
  <1>1. rawAccepted[s].all \in Seq(Nat) /\ rawAccepted[s].before \in Int
    BY DEF RawShapes
  <1>2. /\ Len(rawAccepted[s].all) \in Nat /\ DOMAIN rawAccepted[s].all = 1 .. Len(rawAccepted[s].all)
        /\ \A i \in DOMAIN rawAccepted[s].all : rawAccepted[s].all[i] \in Nat
    BY <1>1, Numbers
  <1>3. ring[s].published \in Nat
    BY RingShape
  <1>4. Through(s) \in Int
    BY <1>2, <1>3 DEF Through
  <1> QED
    BY <1>1, <1>2, <1>4

LEMMA CountShape ==
  ASSUME RawShapes, NEW s \in Streams
  PROVE  /\ offset[s] \in Nat /\ rawWritten[s] \in Nat /\ rawDrops[s] \in Nat
         /\ lost[s] \in SUBSET Nat /\ IsFiniteSet(lost[s]) /\ Cardinality(lost[s]) \in Nat
  BY FS_CardinalityType DEF RawShapes

LEMMA IndexShape ==
  ASSUME RawShapes, NEW s \in Streams
  PROVE  /\ index[s] \in Seq(Records) /\ Len(index[s]) \in Nat
         /\ DOMAIN index[s] = 1 .. Len(index[s])
         /\ \A i \in DOMAIN index[s] : index[s][i].frame \in Nat /\ index[s][i].offset \in Int
  <1>1. index[s] \in Seq(Records)
    BY DEF RawShapes
  <1>2. /\ Len(index[s]) \in Nat /\ DOMAIN index[s] = 1 .. Len(index[s])
        /\ \A i \in DOMAIN index[s] : index[s][i] \in Records
    BY <1>1, Numbers
  <1> QED
    BY <1>1, <1>2 DEF Records

LEMMA Updates ==
  ASSUME NEW S, NEW f \in [Streams -> S], NEW s \in Streams, NEW v \in S
  PROVE  /\ [f EXCEPT ![s] = v] \in [Streams -> S] /\ [f EXCEPT ![s] = v][s] = v
         /\ \A u \in Streams : u # s => [f EXCEPT ![s] = v][u] = f[u]
  OBVIOUS

LEMMA PushChanges ==
  ASSUME NEW p \in Pushes, NEW f \in Nat, NEW pc \in {"idle", "copy", "copying", "publish"}
  PROVE  /\ [p EXCEPT !.frame = f] \in Pushes /\ [p EXCEPT !.frame = f].pc = p.pc
         /\ [p EXCEPT !.frame = f].slot = p.slot /\ [p EXCEPT !.frame = f].frame = f
         /\ [p EXCEPT !.pc = pc] \in Pushes /\ [p EXCEPT !.pc = pc].pc = pc
         /\ [p EXCEPT !.pc = pc].slot = p.slot /\ [p EXCEPT !.pc = pc].frame = p.frame
  BY DEF Pushes

LEMMA CloseShape ==
  RawShapes => closing \in Nat /\ Len(Cameras) \in Nat /\ \A s \in Streams : s \in 1 .. Len(Cameras)
  <1>1. Len(Cameras) \in Nat /\ Streams = 1 .. Len(Cameras)
    BY CamerasAssumption DEF Streams
  <1> QED
    BY <1>1 DEF RawShapes, Open, Closed

(* A frame that is dropped, or a buffer that is reserved for one. *)
LEMMA DropSteps ==
  ASSUME RawIInv, NEW s \in Streams, Drop(s)
  PROVE  RawIInv'
  <1>1. RawShapes /\ StreamSound(s) /\ \A u \in Streams : StreamSound(u)
    BY DEF RawIInv
  <1> DEFINE f == push[s].frame
             pushed == rawAccepted[s].all
  <1>2. /\ push' = [push EXCEPT ![s].frame = f + 1] /\ rawDrops' = [rawDrops EXCEPT ![s] = rawDrops[s] + 1]
        /\ push[s].pc = "idle" /\ f < Len(Cameras[s])
        /\ UNCHANGED <<ring, staging, rawWriter, data, index, offset, rawWritten, first, lost, rawAccepted,
                       closing>>
    BY DEF Drop, NextFrame, rawFileVars, closeVars
  <1>3. f \in Nat /\ f + 1 <= Len(Cameras[s])
    <2>1. f \in Nat /\ Len(Cameras[s]) \in Nat
      BY <1>1, PushShape
    <2> QED
      BY <1>2, <2>1
  <1>4. /\ push'[s].pc = "idle" /\ push'[s].frame = f + 1 /\ push'[s].slot = push[s].slot
        /\ rawDrops'[s] = rawDrops[s] + 1
        /\ \A u \in Streams : u # s => push'[u] = push[u] /\ rawDrops'[u] = rawDrops[u]
    BY <1>1, <1>2, <1>3, PushChanges DEF RawShapes
  <1>5. RawShapes'
    <2>2. push' \in [Streams -> Pushes]
      <3> DEFINE v == [push[s] EXCEPT !.frame = f + 1]
      <3>1. push' = [push EXCEPT ![s] = v] /\ push \in [Streams -> Pushes]
        BY <1>1, <1>2 DEF RawShapes
      <3>2. v \in Pushes
        <4>1. push[s] \in Pushes /\ f + 1 \in Nat
          BY <1>3, <3>1
        <4> QED
          BY <4>1 DEF Pushes
      <3> HIDE DEF v
      <3> QED
        BY <3>1, <3>2, Updates
    <2>3. \A u \in Streams : push'[u].frame <= Len(Cameras[u])
      BY <1>1, <1>3, <1>4 DEF RawShapes
    <2>4. rawDrops' \in [Streams -> Nat]
      BY <1>1, <1>2 DEF RawShapes
    <2> QED
      BY <1>1, <1>2, <2>2, <2>3, <2>4 DEF RawShapes
  <1>6. ASSUME NEW u \in Streams, u # s
        PROVE  StreamSound(u)'
    BY <1>1, <1>2, <1>4, <1>6, Untouched
  <1>7. StreamSound(s)'
    <2>1. Through(s)' = Through(s) /\ Staged(s)' = Staged(s)
      BY <1>2 DEF Through, Staged
    <2>2. AcceptedInOrder(s)'
      <3>1. \A i \in DOMAIN pushed : pushed[i] \in Nat
        BY <1>1, AcceptedShape
      <3> QED
        BY <1>1, <1>2, <1>3, <1>4, <3>1 DEF StreamSound, AcceptedInOrder
    <2>3. StagingSound(s)'
      BY <1>1, <1>2, <1>4, <2>1 DEF StreamSound, StagingSound
    <2>4. FilesSound(s)'
      BY <1>1, <1>2, <2>1 DEF StreamSound, FilesSound
    <2>5. ShutSound(s)'
      BY <1>1, <1>2, <2>1 DEF StreamSound, ShutSound
    <2>6. FramesCounted(s)'
      <3>1. rawDrops[s] \in Nat /\ rawWritten[s] \in Nat /\ Cardinality(lost[s]) \in Nat
            /\ ring[s].count \in Int
        BY <1>1, CountShape, RingShape
      <3> QED
        BY <1>1, <1>2, <1>3, <1>4, <3>1 DEF StreamSound, FramesCounted
    <2> QED
      BY <2>2, <2>3, <2>4, <2>5, <2>6 DEF StreamSound
  <1> QED
    BY <1>5, <1>6, <1>7 DEF RawIInv

LEMMA ReserveSteps ==
  ASSUME RawIInv, NEW s \in Streams, Reserve(s)
  PROVE  RawIInv'
  <1>1. RawShapes /\ StreamSound(s) /\ \A u \in Streams : StreamSound(u)
    BY DEF RawIInv
  <1> DEFINE f == push[s].frame
             p == ring[s].published
             pushed == rawAccepted[s].all
             slot == (ring[s].head + ring[s].count) % Staging
             to == [pc |-> "copy", frame |-> f + 1, slot |-> slot]
             r == [ring[s] EXCEPT !.count = ring[s].count + 1]
  <1>2. /\ push' = [push EXCEPT ![s] = to] /\ ring' = [ring EXCEPT ![s] = r]
        /\ push[s].pc = "idle" /\ f < Len(Cameras[s]) /\ ring[s].count < Staging
        /\ UNCHANGED <<staging, rawWriter, data, index, offset, rawWritten, first, rawDrops, lost, rawAccepted,
                       closing>>
    BY <1>1 DEF Reserve, NextFrame, Takes, HasRoom, rawFileVars, closeVars, RawShapes
  <1>3. /\ f \in Nat /\ f + 1 <= Len(Cameras[s]) /\ ring[s].head \in 0 .. Staging - 1
        /\ ring[s].count = p /\ p \in 0 .. Staging - 1 /\ Staging \in Nat
    <2>1. f \in Nat /\ Len(Cameras[s]) \in Nat /\ ring[s].head \in 0 .. Staging - 1 /\ p \in Nat /\ Staging \in Nat
          /\ ring[s].count \in Nat
      BY <1>1, PushShape, RingShape
    <2>2. ring[s].count = p + 0
      BY <1>1, <1>2 DEF StreamSound, StagingSound
    <2> QED
      BY <1>2, <2>1, <2>2
  <1>4. slot \in 0 .. Staging - 1
    BY <1>3, BufferPlaces
  <1> HIDE DEF slot
  <1>5. to \in Pushes /\ r \in Rings
    <2>1. ring[s] \in Rings /\ push \in [Streams -> Pushes] /\ ring \in [Streams -> Rings]
      BY <1>1 DEF RawShapes
    <2>2. ring[s].count + 1 \in 0 .. Staging
      BY <1>3
    <2>3. slot \in Int /\ f + 1 \in Nat
      BY <1>3, <1>4
    <2>4. to \in Pushes
      BY <2>3 DEF Pushes
    <2>5. r \in Rings
      BY <2>1, <2>2 DEF Rings
    <2> QED
      BY <2>4, <2>5
  <1>6. /\ push' \in [Streams -> Pushes] /\ ring' \in [Streams -> Rings]
        /\ push'[s] = to /\ ring'[s] = r
        /\ \A u \in Streams : u # s => push'[u] = push[u] /\ ring'[u] = ring[u]
    <2> HIDE DEF to, r
    <2>1. push \in [Streams -> Pushes] /\ ring \in [Streams -> Rings]
      BY <1>1 DEF RawShapes
    <2> QED
      BY <1>2, <1>5, <2>1, Updates
  <1>7. /\ push'[s].pc = "copy" /\ push'[s].slot = slot /\ push'[s].frame = f + 1
        /\ ring'[s].count = p + 1 /\ ring'[s].head = ring[s].head /\ ring'[s].published = p
        /\ ring'[s].running = ring[s].running
    BY <1>1, <1>3, <1>6 DEF RawShapes, Rings
  <1>8. RawShapes'
    <2>1. \A u \in Streams : push'[u].frame <= Len(Cameras[u])
      BY <1>1, <1>3, <1>6, <1>7 DEF RawShapes
    <2> QED
      BY <1>1, <1>2, <1>6, <2>1 DEF RawShapes
  <1>9. ASSUME NEW u \in Streams, u # s
        PROVE  StreamSound(u)'
    BY <1>1, <1>2, <1>6, <1>9, Untouched
  <1>10. StreamSound(s)'
    <2>1. Through(s)' = Through(s) /\ Staged(s)' = Staged(s)
      BY <1>2, <1>7 DEF Through, Staged
    <2>2. AcceptedInOrder(s)'
      <3>1. \A i \in DOMAIN pushed : pushed[i] \in Nat
        BY <1>1, AcceptedShape
      <3> QED
        BY <1>1, <1>2, <1>3, <1>7, <3>1 DEF StreamSound, AcceptedInOrder
    <2>3. StagingSound(s)'
      <3>1. slot = (ring[s].head + p) % Staging
        BY <1>3 DEF slot
      <3> QED
        BY <1>1, <1>2, <1>3, <1>7, <2>1, <3>1 DEF StreamSound, StagingSound
    <2>4. FilesSound(s)'
      BY <1>1, <1>2, <2>1 DEF StreamSound, FilesSound
    <2>5. ShutSound(s)'
      BY <1>1, <1>2, <1>7, <2>1 DEF StreamSound, ShutSound
    <2>6. FramesCounted(s)'
      <3>1. rawDrops[s] \in Nat /\ rawWritten[s] \in Nat /\ Cardinality(lost[s]) \in Nat
        BY <1>1, CountShape
      <3>2. f = rawWritten[s] + rawDrops[s] + Cardinality(lost[s]) + p
        BY <1>1, <1>3 DEF StreamSound, FramesCounted
      <3>3. f + 1 = rawWritten[s] + rawDrops[s] + Cardinality(lost[s]) + (p + 1)
        BY <1>3, <3>1, <3>2
      <3> QED
        BY <1>2, <1>7, <3>3 DEF FramesCounted
    <2> QED
      BY <2>2, <2>3, <2>4, <2>5, <2>6 DEF StreamSound
  <1> QED
    BY <1>8, <1>9, <1>10 DEF RawIInv

(* The copy: it touches its own buffer only, which the writer has not got. *)
LEMMA CopySteps ==
  ASSUME RawIInv, NEW s \in Streams, StartCopy(s) \/ EndCopy(s)
  PROVE  RawIInv'
  <1>1. RawShapes /\ StreamSound(s) /\ \A u \in Streams : StreamSound(u)
    BY DEF RawIInv
  <1> DEFINE p == ring[s].published
             h == ring[s].head
             slot == push[s].slot
  <1>2. PICK x \in {0, push[s].frame} : staging' = [staging EXCEPT ![s] = [staging[s] EXCEPT ![slot] = x]]
                                        /\ (EndCopy(s) => x = push[s].frame)
    BY <1>1 DEF StartCopy, EndCopy, RawShapes
  <1>3. PICK pc \in {"copying", "publish"} : push' = [push EXCEPT ![s] = [push[s] EXCEPT !.pc = pc]]
                                             /\ (pc = "publish" => EndCopy(s))
    BY <1>1 DEF StartCopy, EndCopy, RawShapes
  <1>4. /\ push[s].pc \in {"copy", "copying"}
        /\ UNCHANGED <<ring, rawWriter, data, index, offset, rawWritten, first, rawDrops, lost, rawAccepted,
                       closing>>
    BY DEF StartCopy, EndCopy, rawFileVars, closeVars
  <1>5. /\ h \in 0 .. Staging - 1 /\ p \in 0 .. Staging - 1 /\ slot = (h + p) % Staging
        /\ Staging \in Nat \ {0}
    <2>1. ring[s].count \in Nat /\ ring[s].count <= Staging /\ p \in Nat /\ Staging \in Nat \ {0}
          /\ h \in 0 .. Staging - 1
      BY <1>1, RingShape
    <2>2. ring[s].count = p + 1 /\ slot = (h + p) % Staging
      BY <1>1, <1>4 DEF StreamSound, StagingSound
    <2> QED
      BY <2>1, <2>2
  <1>6. /\ slot \in 0 .. Staging - 1
        /\ \A k \in 0 .. p - 1 : (h + k) % Staging \in 0 .. Staging - 1 /\ (h + k) % Staging # slot
        /\ (h + 0) % Staging = h
    <2> HIDE DEF h, p, slot
    <2>1. slot \in 0 .. Staging - 1 /\ (h + 0) % Staging = h
      <3>1. (h + p) % Staging \in 0 .. Staging - 1
        BY ONLY <1>5, BufferPlaces
      <3>2. (h + 0) % Staging = h
        BY ONLY <1>5, BufferPlaces
      <3> QED
        BY ONLY <1>5, <3>1, <3>2
    <2>2. ASSUME NEW k \in 0 .. p - 1
          PROVE  (h + k) % Staging \in 0 .. Staging - 1 /\ (h + k) % Staging # slot
      <3>1. k \in 0 .. Staging - 1 /\ k # p
        BY <1>5
      <3>2. \A j \in 0 .. Staging - 1 : j # p => (h + j) % Staging # (h + p) % Staging
        BY <1>5, BufferPlaces
      <3>3. (h + k) % Staging \in 0 .. Staging - 1
        BY <1>5, <3>1, BufferPlaces
      <3> QED
        BY <1>5, <3>1, <3>2, <3>3
    <2> QED
      BY <2>1, <2>2
  <1>7. /\ push' \in [Streams -> Pushes] /\ staging' \in [Streams -> [0 .. Staging - 1 -> Nat]]
        /\ push'[s] = [push[s] EXCEPT !.pc = pc] /\ staging'[s] = [staging[s] EXCEPT ![slot] = x]
        /\ \A u \in Streams : u # s => push'[u] = push[u] /\ staging'[u] = staging[u]
    <2>1. /\ push \in [Streams -> Pushes] /\ staging \in [Streams -> [0 .. Staging - 1 -> Nat]]
          /\ push[s] \in Pushes /\ staging[s] \in [0 .. Staging - 1 -> Nat]
      BY <1>1 DEF RawShapes
    <2>2. x \in Nat
      BY <1>1, PushShape
    <2> DEFINE v == [push[s] EXCEPT !.pc = pc]
               w == [staging[s] EXCEPT ![slot] = x]
    <2>3. v \in Pushes
      BY <2>1 DEF Pushes
    <2>4. w \in [0 .. Staging - 1 -> Nat]
      BY <2>1, <2>2
    <2>5. push' = [push EXCEPT ![s] = v] /\ staging' = [staging EXCEPT ![s] = w]
      BY <1>2, <1>3
    <2> HIDE DEF v, w
    <2>6. /\ push' \in [Streams -> Pushes] /\ staging' \in [Streams -> [0 .. Staging - 1 -> Nat]]
          /\ push'[s] = v /\ staging'[s] = w
          /\ \A u \in Streams : u # s => push'[u] = push[u] /\ staging'[u] = staging[u]
      BY <2>1, <2>3, <2>4, <2>5, Updates
    <2> QED
      BY <2>6 DEF v, w
  <1>8. /\ push'[s].pc = pc /\ push'[s].slot = slot /\ push'[s].frame = push[s].frame
        /\ staging'[s][slot] = x
        /\ \A i \in 0 .. Staging - 1 : i # slot => staging'[s][i] = staging[s][i]
    <2>1. push[s] \in Pushes /\ staging[s] \in [0 .. Staging - 1 -> Nat]
      BY <1>1 DEF RawShapes
    <2>2. push'[s].pc = pc /\ push'[s].slot = slot /\ push'[s].frame = push[s].frame
      BY <1>7, <2>1 DEF Pushes
    <2> QED
      BY <1>6, <1>7, <2>1, <2>2
  <1>9. RawShapes'
    <2>1. \A u \in Streams : push'[u].frame <= Len(Cameras[u])
      BY <1>1, <1>7, <1>8 DEF RawShapes
    <2> QED
      BY <1>1, <1>4, <1>7, <2>1 DEF RawShapes
  <1>10. ASSUME NEW u \in Streams, u # s
         PROVE  StreamSound(u)'
    BY <1>1, <1>4, <1>7, <1>10, Untouched
  <1>11. StreamSound(s)'
    <2>1. Through(s)' = Through(s)
      BY <1>4 DEF Through
    <2>2. rawWriter[s].pc \in {"data", "index"} => Staged(s)' = Staged(s)
      <3> SUFFICES ASSUME rawWriter[s].pc \in {"data", "index"}
                   PROVE  Staged(s)' = Staged(s)
        OBVIOUS
      <3>1. rawWriter[s].slot = h /\ p > 0
        BY <1>1 DEF StreamSound, StagingSound
      <3>2. h # slot
        BY <1>5, <1>6, <3>1
      <3> QED
        BY <1>4, <1>5, <1>8, <3>1, <3>2 DEF Staged
    <2>3. AcceptedInOrder(s)'
      BY <1>1, <1>4, <1>8 DEF StreamSound, AcceptedInOrder
    <2>4. StagingSound(s)'
      <3>1. push'[s].pc = "publish" => staging'[s][push'[s].slot] = push'[s].frame
        BY <1>2, <1>3, <1>8
      <3>2. \A k \in 0 .. p - 1 : staging'[s][(h + k) % Staging] = staging[s][(h + k) % Staging]
        BY <1>6, <1>8
      <3> QED
        BY <1>1, <1>4, <1>8, <2>1, <3>1, <3>2 DEF StreamSound, StagingSound
    <2>5. FilesSound(s)'
      BY <1>1, <1>4, <2>1, <2>2 DEF StreamSound, FilesSound
    <2>6. ShutSound(s)'
      BY <1>1, <1>4, <2>1 DEF StreamSound, ShutSound
    <2>7. FramesCounted(s)'
      BY <1>1, <1>4, <1>8 DEF StreamSound, FramesCounted
    <2> QED
      BY <2>3, <2>4, <2>5, <2>6, <2>7 DEF StreamSound
  <1> QED
    BY <1>9, <1>10, <1>11 DEF RawIInv

(* A frame is published: it comes behind those that are. *)
LEMMA PublishSteps ==
  ASSUME RawIInv, NEW s \in Streams, Publish(s)
  PROVE  RawIInv'
  <1>1. RawShapes /\ StreamSound(s) /\ \A u \in Streams : StreamSound(u)
    BY DEF RawIInv
  <1> DEFINE f == push[s].frame
             p == ring[s].published
             h == ring[s].head
             pushed == rawAccepted[s].all
             n == Len(pushed)
             r == [ring[s] EXCEPT !.published = p + 1]
             a == [rawAccepted[s] EXCEPT !.all = Append(pushed, f)]
             v == [push[s] EXCEPT !.pc = "idle"]
  <1>2. /\ push' = [push EXCEPT ![s] = v] /\ ring' = [ring EXCEPT ![s] = r]
        /\ rawAccepted' = [rawAccepted EXCEPT ![s] = a]
        /\ push[s].pc = "publish"
        /\ UNCHANGED <<staging, rawWriter, data, index, offset, rawWritten, first, rawDrops, lost, closing>>
    BY <1>1 DEF Publish, rawFileVars, closeVars, RawShapes
  <1>3. /\ f \in Nat /\ pushed \in Seq(Nat) /\ n \in Nat /\ DOMAIN pushed = 1 .. n /\ p \in Nat
        /\ \A i \in DOMAIN pushed : pushed[i] \in Nat
        /\ h \in 0 .. Staging - 1 /\ Staging \in Nat \ {0} /\ Through(s) = n - p
        /\ rawAccepted[s].before \in Int
    BY <1>1, PushShape, RingShape, AcceptedShape DEF Through
  <1>4. /\ ring[s].count = p + 1 /\ p + 1 <= Staging /\ p <= n
        /\ push[s].slot = (h + p) % Staging /\ staging[s][push[s].slot] = f
    <2>1. ring[s].count <= Staging
      BY <1>1, RingShape
    <2> QED
      BY <1>1, <1>2, <2>1 DEF StreamSound, StagingSound
  <1>5. v \in Pushes /\ r \in Rings /\ a \in [all : Seq(Nat), before : Int]
    <2>1. /\ push[s] \in Pushes /\ ring[s] \in Rings
          /\ rawAccepted[s] \in [all : Seq(Nat), before : Int]
      BY <1>1 DEF RawShapes
    <2>2. Append(pushed, f) \in Seq(Nat) /\ p + 1 \in 0 .. Staging
      BY <1>3, <1>4
    <2>3. v \in Pushes
      BY <2>1 DEF Pushes
    <2>4. r \in Rings
      BY <2>1, <2>2 DEF Rings
    <2>5. a \in [all : Seq(Nat), before : Int]
      BY <2>1, <2>2
    <2> QED
      BY <2>3, <2>4, <2>5
  <1>6. /\ push' \in [Streams -> Pushes] /\ ring' \in [Streams -> Rings]
        /\ rawAccepted' \in [Streams -> [all : Seq(Nat), before : Int]]
        /\ push'[s] = v /\ ring'[s] = r /\ rawAccepted'[s] = a
        /\ \A u \in Streams : u # s =>
             push'[u] = push[u] /\ ring'[u] = ring[u] /\ rawAccepted'[u] = rawAccepted[u]
    <2>1. /\ push \in [Streams -> Pushes] /\ ring \in [Streams -> Rings]
          /\ rawAccepted \in [Streams -> [all : Seq(Nat), before : Int]]
      BY <1>1 DEF RawShapes
    <2> HIDE DEF v, r, a
    <2>2. /\ push' \in [Streams -> Pushes] /\ push'[s] = v
          /\ \A u \in Streams : u # s => push'[u] = push[u]
      BY <1>2, <1>5, <2>1, Updates
    <2>3. /\ ring' \in [Streams -> Rings] /\ ring'[s] = r
          /\ \A u \in Streams : u # s => ring'[u] = ring[u]
      BY <1>2, <1>5, <2>1, Updates
    <2>4. /\ rawAccepted' \in [Streams -> [all : Seq(Nat), before : Int]] /\ rawAccepted'[s] = a
          /\ \A u \in Streams : u # s => rawAccepted'[u] = rawAccepted[u]
      BY <1>2, <1>5, <2>1, Updates
    <2> QED
      BY <2>2, <2>3, <2>4
  <1>7. /\ push'[s].pc = "idle" /\ push'[s].frame = f
        /\ ring'[s].count = ring[s].count /\ ring'[s].head = h /\ ring'[s].published = p + 1
        /\ ring'[s].running = ring[s].running
        /\ rawAccepted'[s].all = Append(pushed, f) /\ rawAccepted'[s].before = rawAccepted[s].before
    <2>1. /\ push[s] \in Pushes /\ ring[s] \in Rings
          /\ rawAccepted[s] \in [all : Seq(Nat), before : Int]
      BY <1>1 DEF RawShapes
    <2>2. push'[s].pc = "idle" /\ push'[s].frame = f
      BY <1>6, <2>1 DEF Pushes
    <2>3. /\ ring'[s].count = ring[s].count /\ ring'[s].head = h /\ ring'[s].published = p + 1
          /\ ring'[s].running = ring[s].running
      BY <1>6, <2>1 DEF Rings
    <2>4. rawAccepted'[s].all = Append(pushed, f) /\ rawAccepted'[s].before = rawAccepted[s].before
      BY <1>6, <2>1
    <2> QED
      BY <2>2, <2>3, <2>4
  <1>8. /\ Len(rawAccepted'[s].all) = n + 1 /\ DOMAIN rawAccepted'[s].all = 1 .. n + 1
        /\ rawAccepted'[s].all[n + 1] = f
        /\ \A i \in 1 .. n : rawAccepted'[s].all[i] = pushed[i]
    BY <1>3, <1>7
  <1>9. Through(s)' = Through(s) /\ Through(s) \in Nat /\ Through(s) <= n
    <2>1. Through(s)' = (n + 1) - (p + 1)
      BY <1>7, <1>8 DEF Through
    <2>2. p \in Nat /\ n \in Nat /\ p <= n /\ Through(s) = n - p
      BY <1>3, <1>4
    <2> HIDE DEF n, p
    <2> QED
      BY ONLY <2>1, <2>2
  <1>10. RawShapes'
    <2>1. \A u \in Streams : push'[u].frame <= Len(Cameras[u])
      BY <1>1, <1>6, <1>7 DEF RawShapes
    <2> QED
      BY <1>1, <1>2, <1>6, <2>1 DEF RawShapes
  <1>11. ASSUME NEW u \in Streams, u # s
         PROVE  StreamSound(u)'
    BY <1>1, <1>2, <1>6, <1>11, Untouched
  <1>12. StreamSound(s)'
    <2>1. Staged(s)' = Staged(s)
      BY <1>2 DEF Staged
    <2>2. AcceptedInOrder(s)'
      <3> DEFINE q == rawAccepted'[s].all
      <3>1. /\ \A i \in 1 .. n : pushed[i] \in 1 .. f - 1
            /\ \A i, j \in 1 .. n : i < j => pushed[i] < pushed[j]
            /\ f > 0
        BY <1>1, <1>2, <1>3, SMTT(30) DEF StreamSound, AcceptedInOrder
      <3>2. \A i \in DOMAIN q : q[i] \in 1 .. f
        <4> SUFFICES ASSUME NEW i \in 1 .. n + 1
                     PROVE  q[i] \in 1 .. f
          BY <1>8
        <4>1. n \in Nat /\ f \in Nat
          BY <1>3
        <4>2. CASE i = n + 1
          BY <1>8, <3>1, <4>1, <4>2
        <4>3. CASE i # n + 1
          <5>1. i \in 1 .. n
            BY <4>1, <4>3
          <5>2. q[i] = pushed[i] /\ pushed[i] \in 1 .. f - 1
            BY <1>8, <3>1, <5>1
          <5> QED
            BY <4>1, <5>2
        <4> QED
          BY <4>2, <4>3
      <3>3. \A i, j \in DOMAIN q : i < j => q[i] < q[j]
        <4> SUFFICES ASSUME NEW i \in 1 .. n + 1, NEW j \in 1 .. n + 1, i < j
                     PROVE  q[i] < q[j]
          BY <1>8
        <4>1. i \in 1 .. n /\ q[i] = pushed[i]
          BY <1>3, <1>8
        <4>2. CASE j = n + 1
          <5>1. q[j] = f /\ pushed[i] \in 1 .. f - 1 /\ f \in Nat
            BY <1>3, <1>8, <3>1, <4>1, <4>2
          <5> HIDE DEF q, pushed, f
          <5> QED
            BY <4>1, <5>1
        <4>3. CASE j # n + 1
          <5>1. j \in 1 .. n /\ q[j] = pushed[j]
            BY <1>3, <1>8, <4>3, SMTT(30)
          <5> QED
            BY <3>1, <4>1, <5>1
        <4> QED
          BY <4>2, <4>3
      <3> QED
        BY <1>7, <3>2, <3>3 DEF AcceptedInOrder
    <2>3. StagingSound(s)'
      <3>1. ASSUME NEW k \in 0 .. p
            PROVE  staging'[s][(h + k) % Staging] = rawAccepted'[s].all[Through(s)' + 1 + k]
        <4>1. CASE k < p
          <5>1. k \in 0 .. p - 1 /\ Through(s) + 1 + k \in 1 .. n
            <6>1. p \in Nat /\ n \in Nat /\ Through(s) = n - p /\ k \in 0 .. p /\ Through(s) \in Nat
              BY <1>3, <1>9
            <6> HIDE DEF p, n
            <6> QED
              BY ONLY <4>1, <6>1
          <5>2. staging[s][(h + k) % Staging] = pushed[Through(s) + 1 + k]
            BY <1>1, <5>1 DEF StreamSound, StagingSound
          <5> QED
            BY <1>2, <1>8, <1>9, <5>1, <5>2
        <4>2. CASE k = p
          <5>1. Through(s) + 1 + k = n + 1
            BY <1>3, <4>2
          <5> QED
            BY <1>2, <1>4, <1>8, <1>9, <4>2, <5>1
        <4> QED
          BY <1>3, <4>1, <4>2
      <3>2. ring'[s].count = p + 1 + 0 /\ p + 1 <= n + 1
        BY <1>3, <1>4, <1>7, SMTT(30)
      <3>3. rawWriter'[s].pc \in {"data", "index"} => rawWriter'[s].slot = h /\ p + 1 > 0
        BY <1>1, <1>2, <1>3 DEF StreamSound, StagingSound
      <3>4. (p + 1) - 1 = p /\ p + 1 + 0 = p + 1
        BY <1>3
      <3> QED
        BY <1>7, <1>8, <3>1, <3>2, <3>3, <3>4 DEF StagingSound
    <2>4. FilesSound(s)'
      <3>1. /\ \A i \in 1 .. Through(s) : rawAccepted'[s].all[i] = pushed[i]
            /\ {rawAccepted'[s].all[i] : i \in 1 .. Through(s)} = {pushed[i] : i \in 1 .. Through(s)}
        <4>1. \A i \in 1 .. Through(s) : i \in 1 .. n
          <5>1. n \in Nat /\ Through(s) \in Nat /\ Through(s) <= n
            BY <1>3, <1>9
          <5> HIDE DEF n
          <5> QED
            BY ONLY <5>1
        <4> QED
          BY <1>8, <4>1
      <3> QED
        BY <1>1, <1>2, <1>9, <2>1, <3>1 DEF StreamSound, FilesSound
    <2>5. ShutSound(s)'
      <3>1. closing # Open => rawAccepted[s].before \in 0 .. n
        BY <1>1 DEF StreamSound, ShutSound
      <3>2. closing' # Open => rawAccepted'[s].before \in 0 .. n + 1
        BY <1>2, <1>3, <1>7, <3>1
      <3> QED
        BY <1>1, <1>2, <1>7, <1>8, <1>9, <3>2 DEF StreamSound, ShutSound
    <2>6. FramesCounted(s)'
      BY <1>1, <1>2, <1>7 DEF StreamSound, FramesCounted
    <2> QED
      BY <2>2, <2>3, <2>4, <2>5, <2>6 DEF StreamSound
  <1> QED
    BY <1>10, <1>11, <1>12 DEF RawIInv

(* The writer thread takes a buffer, or leaves. *)
LEMMA WaitSteps ==
  ASSUME RawIInv, NEW s \in Streams, Take(s) \/ Exit(s)
  PROVE  RawIInv'
  <1>1. RawShapes /\ StreamSound(s) /\ \A u \in Streams : StreamSound(u)
    BY DEF RawIInv
  <1>2. /\ rawWriter[s].pc = "wait"
        /\ UNCHANGED <<ring, staging, push, data, index, offset, rawWritten, first, rawDrops, lost, rawAccepted,
                       closing>>
    BY DEF Take, Exit, rawFileVars, closeVars
  <1>3. PICK w \in Writers :
          /\ rawWriter' = [rawWriter EXCEPT ![s] = w]
          /\ \/ w.pc = "data" /\ w.slot = ring[s].head /\ ring[s].published > 0
             \/ w.pc = "exited" /\ ~ring[s].running /\ ring[s].published = 0
    <2>1. CASE Take(s)
      <3> DEFINE w == [pc |-> "data", slot |-> ring[s].head]
      <3>1. w \in Writers /\ w.pc = "data" /\ w.slot = ring[s].head
        BY <1>1, RingShape DEF Writers
      <3>2. rawWriter' = [rawWriter EXCEPT ![s] = w] /\ ring[s].published > 0
        BY <2>1 DEF Take, Waits
      <3> HIDE DEF w
      <3> QED
        BY <3>1, <3>2
    <2>2. CASE Exit(s)
      <3> DEFINE w == [rawWriter[s] EXCEPT !.pc = "exited"]
      <3>1. w \in Writers /\ w.pc = "exited"
        BY <1>1 DEF RawShapes, Writers
      <3>2. rawWriter' = [rawWriter EXCEPT ![s] = w] /\ ~ring[s].running /\ ring[s].published = 0
        BY <1>1, <2>2 DEF Exit, Leaves, RawShapes
      <3> HIDE DEF w
      <3> QED
        BY <3>1, <3>2
    <2> QED
      BY <2>1, <2>2
  <1>4. /\ rawWriter' \in [Streams -> Writers] /\ rawWriter'[s] = w
        /\ \A u \in Streams : u # s => rawWriter'[u] = rawWriter[u]
    <2>1. rawWriter \in [Streams -> Writers]
      BY <1>1 DEF RawShapes
    <2> QED
      BY <1>3, <2>1, Updates
  <1>5. RawShapes'
    BY <1>1, <1>2, <1>4 DEF RawShapes
  <1>6. ASSUME NEW u \in Streams, u # s
        PROVE  StreamSound(u)'
    BY <1>1, <1>2, <1>4, <1>6, Untouched
  <1>7. StreamSound(s)'
    <2>1. Through(s)' = Through(s)
      BY <1>2 DEF Through
    <2>2. AcceptedInOrder(s)'
      BY <1>1, <1>2 DEF StreamSound, AcceptedInOrder
    <2>3. StagingSound(s)'
      BY <1>1, <1>2, <1>3, <1>4, <2>1 DEF StreamSound, StagingSound
    <2>4. FilesSound(s)'
      BY <1>1, <1>2, <1>3, <1>4, <2>1 DEF StreamSound, FilesSound
    <2>5. ShutSound(s)'
      <3>1. w.pc = "exited" => rawAccepted[s].before <= Through(s) /\ ~ring[s].running
        <4> SUFFICES ASSUME w.pc = "exited"
                     PROVE  rawAccepted[s].before <= Through(s)
          BY <1>3
        <4>1. Through(s) = Len(rawAccepted[s].all) /\ ~ring[s].running
          BY <1>1, <1>3, AcceptedShape DEF Through
        <4> QED
          BY <1>1, <4>1, AcceptedShape DEF StreamSound, ShutSound
      <3>2. closing <= s
        <4>1. closing \in Nat /\ s \in Nat
          BY <1>1, CloseShape
        <4> QED
          BY <1>1, <1>2, <4>1 DEF StreamSound, ShutSound
      <3>3. ~(closing > s)
        BY <1>1, <3>2, CloseShape
      <3> QED
        BY <1>1, <1>2, <1>4, <2>1, <3>1, <3>3 DEF StreamSound, ShutSound
    <2>6. FramesCounted(s)'
      BY <1>1, <1>2 DEF StreamSound, FramesCounted
    <2> QED
      BY <2>2, <2>3, <2>4, <2>5, <2>6 DEF StreamSound
  <1> QED
    BY <1>5, <1>6, <1>7 DEF RawIInv

(* What lies in the buffer the writer has: the first frame it is not through with. *)
LEMMA StagedNext ==
  ASSUME RawShapes, NEW s \in Streams, StreamSound(s), rawWriter[s].pc \in {"data", "index"}
  PROVE  /\ Through(s) \in Nat /\ Through(s) + 1 \in DOMAIN rawAccepted[s].all
         /\ Staged(s) = rawAccepted[s].all[Through(s) + 1]
         /\ Staged(s) \in 1 .. Len(Cameras[s])
         /\ Staged(s) \notin lost[s]
         /\ \A i \in 1 .. Through(s) : rawAccepted[s].all[i] < Staged(s)
  <1> DEFINE p == ring[s].published
             h == ring[s].head
             pushed == rawAccepted[s].all
  <1>1. /\ p \in Nat /\ pushed \in Seq(Nat) /\ Len(pushed) \in Nat /\ DOMAIN pushed = 1 .. Len(pushed)
        /\ h \in 0 .. Staging - 1 /\ Staging \in Nat \ {0}
    BY RingShape, AcceptedShape
  <1>2. p > 0 /\ p <= Len(pushed) /\ rawWriter[s].slot = h
    BY DEF StreamSound, StagingSound
  <1>3. Through(s) \in Nat /\ Through(s) + 1 \in DOMAIN pushed
    BY <1>1, <1>2 DEF Through
  <1>4. Staged(s) = pushed[Through(s) + 1]
    <2>1. 0 \in 0 .. p - 1 /\ (h + 0) % Staging = h
      <3>1. 0 \in 0 .. Staging - 1 /\ 0 \in 0 .. p - 1
        BY <1>1, <1>2
      <3> QED
        BY <1>1, <3>1, BufferPlaces
    <2>2. staging[s][(h + 0) % Staging] = pushed[Through(s) + 1 + 0]
      BY <2>1 DEF StreamSound, StagingSound
    <2> QED
      BY <1>2, <1>3, <2>1, <2>2 DEF Staged
  <1>5. Staged(s) \in 1 .. Len(Cameras[s])
    <2>1. Staged(s) \in 1 .. push[s].frame
      BY <1>3, <1>4 DEF StreamSound, AcceptedInOrder
    <2> QED
      BY <2>1, PushShape
  <1>6. \A i \in 1 .. Through(s) : pushed[i] < Staged(s) /\ pushed[i] \in Nat
    <2>1. \A i \in 1 .. Through(s) : i \in DOMAIN pushed /\ i < Through(s) + 1
      BY <1>1, <1>3
    <2>2. \A i, j \in DOMAIN pushed : i < j => pushed[i] < pushed[j]
      BY DEF StreamSound, AcceptedInOrder
    <2>3. \A i \in DOMAIN pushed : pushed[i] \in Nat
      BY <1>1, Numbers
    <2> QED
      BY <1>3, <1>4, <2>1, <2>2, <2>3
  <1>7. Staged(s) \notin lost[s]
    BY <1>5, <1>6 DEF StreamSound, FilesSound
  <1> QED
    BY <1>3, <1>4, <1>5, <1>6, <1>7

(* The writer is through with a buffer: the ring goes on by one. *)
LEMMA DoneSteps ==
  ASSUME RawShapes, NEW s \in Streams, StreamSound(s), NEW ok \in BOOLEAN, Done(s, ok),
         rawWriter[s].pc \in {"data", "index"},
         UNCHANGED <<staging, push, rawAccepted, closing>>
  PROVE  /\ ring' \in [Streams -> Rings] /\ rawWriter' \in [Streams -> Writers]
         /\ \A u \in Streams : u # s => ring'[u] = ring[u] /\ rawWriter'[u] = rawWriter[u]
         /\ ring'[s].count = ring[s].count - 1 /\ rawWriter'[s].pc = "wait"
         /\ Through(s)' = Through(s) + 1
         /\ AcceptedInOrder(s)' /\ StagingSound(s)' /\ ShutSound(s)'
  <1> DEFINE p == ring[s].published
             h == ring[s].head
             c == ring[s].count
             pushed == rawAccepted[s].all
             r == [ring[s] EXCEPT !.head = (h + 1) % Staging, !.count = c - 1, !.published = p - 1,
                                  !.error = ring[s].error \/ ~ok]
             w == [pc |-> "wait", slot |-> None]
  <1>1. /\ p \in Nat /\ c \in Nat /\ Len(pushed) \in Nat
        /\ h \in 0 .. Staging - 1 /\ Staging \in Nat \ {0} /\ c <= Staging
    BY RingShape, AcceptedShape
  <1>2. /\ p > 0 /\ p <= Len(pushed) /\ rawWriter[s].slot = h
        /\ c = p + (IF push[s].pc = "idle" THEN 0 ELSE 1)
    BY DEF StreamSound, StagingSound
  <1>3. /\ (h + 1) % Staging \in 0 .. Staging - 1
        /\ \A k \in 0 .. Staging - 1 : (((h + 1) % Staging) + k) % Staging = (h + (k + 1)) % Staging
    BY <1>1, BufferPlaces
  <1>4. ring' = [ring EXCEPT ![s] = r] /\ rawWriter' = [rawWriter EXCEPT ![s] = w]
    <2>1. s \in DOMAIN ring
      BY DEF RawShapes
    <2>2. ring' = [ring EXCEPT ![s] = r]
      BY <2>1 DEF Done
    <2>3. rawWriter' = [rawWriter EXCEPT ![s] = w]
      BY DEF Done
    <2> QED
      BY <2>2, <2>3
  <1>5. r \in Rings /\ w \in Writers
    <2>1. ring[s] \in Rings /\ None \in Int
      BY DEF RawShapes, None
    <2>2. p - 1 \in 0 .. Staging /\ c - 1 \in 0 .. Staging
      BY <1>1, <1>2
    <2>3. r \in Rings
      BY <1>3, <2>1, <2>2 DEF Rings
    <2>4. w \in Writers
      BY <2>1 DEF Writers
    <2> QED
      BY <2>3, <2>4
  <1>6. /\ r.head = (h + 1) % Staging /\ r.count = c - 1 /\ r.published = p - 1
        /\ r.running = ring[s].running
    <2>1. ring[s] \in Rings
      BY DEF RawShapes
    <2> QED
      BY <2>1 DEF Rings
  <1>7. /\ ring' \in [Streams -> Rings] /\ rawWriter' \in [Streams -> Writers]
        /\ ring'[s] = r /\ rawWriter'[s] = w
        /\ \A u \in Streams : u # s => ring'[u] = ring[u] /\ rawWriter'[u] = rawWriter[u]
    <2>1. ring \in [Streams -> Rings] /\ rawWriter \in [Streams -> Writers]
      BY DEF RawShapes
    <2> HIDE DEF r, w
    <2>2. ring' \in [Streams -> Rings] /\ ring'[s] = r /\ \A u \in Streams : u # s => ring'[u] = ring[u]
      BY <1>4, <1>5, <2>1, Updates
    <2>3. /\ rawWriter' \in [Streams -> Writers] /\ rawWriter'[s] = w
          /\ \A u \in Streams : u # s => rawWriter'[u] = rawWriter[u]
      BY <1>4, <1>5, <2>1, Updates
    <2> QED
      BY <2>2, <2>3
  <1>8. /\ ring'[s].head = (h + 1) % Staging /\ ring'[s].count = c - 1 /\ ring'[s].published = p - 1
        /\ ring'[s].running = ring[s].running /\ rawWriter'[s].pc = "wait"
    BY <1>6, <1>7
  <1> HIDE DEF r, w
  <1>9. Through(s)' = Through(s) + 1
    <2>1. Through(s)' = Len(pushed) - (p - 1) /\ Through(s) = Len(pushed) - p
      BY <1>8 DEF Through
    <2> QED
      BY <1>1, <2>1, SMTT(30)
  <1>10. AcceptedInOrder(s)'
    BY DEF StreamSound, AcceptedInOrder
  <1>11. StagingSound(s)'
    <2>1. c - 1 = (p - 1) + (IF push[s].pc = "idle" THEN 0 ELSE 1) /\ p - 1 <= Len(pushed)
      BY <1>1, <1>2
    <2>2. push[s].pc # "idle" => push[s].slot = (((h + 1) % Staging) + (p - 1)) % Staging
      <3> SUFFICES ASSUME push[s].pc # "idle"
                   PROVE  push[s].slot = (((h + 1) % Staging) + (p - 1)) % Staging
        OBVIOUS
      <3>1. p - 1 \in 0 .. Staging - 1 /\ (p - 1) + 1 = p
        BY <1>1, <1>2
      <3>2. push[s].slot = (h + p) % Staging
        BY DEF StreamSound, StagingSound
      <3> QED
        BY <1>3, <3>1, <3>2
    <2>3. ASSUME NEW k \in 0 .. (p - 1) - 1
          PROVE  staging[s][(((h + 1) % Staging) + k) % Staging] = pushed[Through(s)' + 1 + k]
      <3>1. k \in 0 .. Staging - 1 /\ k + 1 \in 0 .. p - 1
        BY <1>1, <1>2
      <3>2. staging[s][(h + (k + 1)) % Staging] = pushed[Through(s) + 1 + (k + 1)]
        BY <3>1 DEF StreamSound, StagingSound
      <3>3. Through(s) + 1 + (k + 1) = Through(s)' + 1 + k
        <4>1. Through(s) \in Int /\ k \in Int
          BY <3>1, AcceptedShape
        <4> QED
          BY <1>9, <4>1
      <3> QED
        BY <1>3, <3>1, <3>2, <3>3
    <2>4. push[s].pc = "publish" => staging[s][push[s].slot] = push[s].frame
      BY DEF StreamSound, StagingSound
    <2> QED
      BY <1>8, <2>1, <2>2, <2>3, <2>4 DEF StagingSound
  <1>12. ShutSound(s)'
    BY <1>8 DEF StreamSound, ShutSound
  <1> QED
    BY <1>7, <1>8, <1>9, <1>10, <1>11, <1>12

(* The payload is put where no record points yet. *)
LEMMA PayloadPut ==
  ASSUME NEW s \in Streams, DOMAIN data = Streams, PutData(s)
  PROVE  /\ DOMAIN data' = Streams /\ \A u \in Streams : u # s => data'[u] = data[u]
         /\ offset[s] \in DOMAIN data'[s] /\ data'[s][offset[s]] = Staged(s)
         /\ \A o \in DOMAIN data[s] : o \in DOMAIN data'[s] /\ (o # offset[s] => data'[s][o] = data[s][o])
  BY DEF PutData

LEMMA WriteFirstSteps ==
  ASSUME RawIInv, NEW s \in Streams, WriteFirst(s)
  PROVE  RawIInv'
  <1>1. RawShapes /\ StreamSound(s) /\ \A u \in Streams : StreamSound(u)
    BY DEF RawIInv
  <1> DEFINE w == [rawWriter[s] EXCEPT !.pc = "index"]
  <1>2. /\ rawWriter[s].pc = "data" /\ rawWriter' = [rawWriter EXCEPT ![s] = w]
        /\ PutData(s)
        /\ UNCHANGED <<ring, staging, push, index, offset, rawWritten, first, rawDrops, lost, rawAccepted,
                       closing>>
    BY <1>1 DEF WriteFirst, Put, FileOrder, PutData, closeVars, RawShapes
  <1>3. /\ rawWriter' \in [Streams -> Writers] /\ rawWriter'[s].pc = "index"
        /\ rawWriter'[s].slot = rawWriter[s].slot
        /\ \A u \in Streams : u # s => rawWriter'[u] = rawWriter[u]
    <2>1. rawWriter \in [Streams -> Writers] /\ rawWriter[s] \in Writers
      BY <1>1 DEF RawShapes
    <2>2. w \in Writers /\ w.pc = "index" /\ w.slot = rawWriter[s].slot
      BY <2>1 DEF Writers
    <2> HIDE DEF w
    <2> QED
      BY <1>2, <2>1, <2>2, Updates
  <1>4. /\ DOMAIN data' = Streams /\ \A u \in Streams : u # s => data'[u] = data[u]
        /\ offset[s] \in DOMAIN data'[s] /\ data'[s][offset[s]] = Staged(s)
        /\ \A o \in DOMAIN data[s] : o \in DOMAIN data'[s] /\ (o # offset[s] => data'[s][o] = data[s][o])
    BY <1>1, <1>2, PayloadPut DEF RawShapes
  <1>5. RawShapes'
    BY <1>1, <1>2, <1>3, <1>4 DEF RawShapes
  <1>6. ASSUME NEW u \in Streams, u # s
        PROVE  StreamSound(u)'
    BY <1>1, <1>2, <1>3, <1>4, <1>6, Untouched
  <1>7. StreamSound(s)'
    <2>1. Through(s)' = Through(s) /\ Staged(s)' = Staged(s)
      BY <1>2, <1>3 DEF Through, Staged
    <2>2. AcceptedInOrder(s)'
      BY <1>1, <1>2 DEF StreamSound, AcceptedInOrder
    <2>3. StagingSound(s)'
      BY <1>1, <1>2, <1>3, <2>1 DEF StreamSound, StagingSound
    <2>4. FilesSound(s)'
      <3>1. FilesSound(s)
        BY <1>1 DEF StreamSound
      <3>2. ASSUME NEW i \in DOMAIN index[s], index[s][i] # Part
            PROVE  /\ index[s][i].offset \in DOMAIN data'[s]
                   /\ data'[s][index[s][i].offset] = index[s][i].frame
        <4>1. /\ index[s][i].offset \in 0 .. offset[s] - 1 /\ index[s][i].offset \in DOMAIN data[s]
              /\ data[s][index[s][i].offset] = index[s][i].frame
          BY <3>1, <3>2 DEF FilesSound
        <4>2. index[s][i].offset # offset[s]
          BY <1>1, <4>1, CountShape
        <4> QED
          BY <1>4, <4>1, <4>2
      <3> QED
        BY <1>2, <1>4, <2>1, <3>1, <3>2 DEF FilesSound
    <2>5. ShutSound(s)'
      BY <1>1, <1>2, <1>3, <2>1 DEF StreamSound, ShutSound
    <2>6. FramesCounted(s)'
      BY <1>1, <1>2 DEF StreamSound, FramesCounted
    <2> QED
      BY <2>2, <2>3, <2>4, <2>5, <2>6 DEF StreamSound
  <1> QED
    BY <1>5, <1>6, <1>7 DEF RawIInv

(* The frames the writer is through with are one more. *)
LEMMA SettledGrows ==
  ASSUME RawShapes, NEW s \in Streams, StreamSound(s), rawWriter[s].pc \in {"data", "index"}
  PROVE  {rawAccepted[s].all[i] : i \in 1 .. Through(s) + 1}
           = {rawAccepted[s].all[i] : i \in 1 .. Through(s)} \cup {Staged(s)}
  <1>1. Through(s) \in Nat /\ Staged(s) = rawAccepted[s].all[Through(s) + 1]
    BY StagedNext
  <1>2. 1 .. Through(s) + 1 = (1 .. Through(s)) \cup {Through(s) + 1}
    BY <1>1
  <1> QED
    BY <1>1, <1>2

LEMMA WriteSecondSteps ==
  ASSUME RawIInv, NEW s \in Streams, WriteSecond(s)
  PROVE  RawIInv'
  <1>1. RawShapes /\ StreamSound(s) /\ \A u \in Streams : StreamSound(u)
    BY DEF RawIInv
  <1> DEFINE q == index[s]
             x == Staged(s)
             rec == [frame |-> x, stamp |-> Stamp(s, x), offset |-> offset[s]]
             n == Through(s)
             pushed == rawAccepted[s].all
  <1>2. /\ rawWriter[s].pc = "index" /\ index' = [index EXCEPT ![s] = Append(q, rec)]
        /\ offset' = [offset EXCEPT ![s] = offset[s] + 1]
        /\ rawWritten' = [rawWritten EXCEPT ![s] = rawWritten[s] + 1]
        /\ DOMAIN first' = DOMAIN first
        /\ Done(s, TRUE)
        /\ UNCHANGED <<staging, push, data, rawDrops, lost, rawAccepted, closing>>
    BY <1>1 DEF WriteSecond, Put, FileOrder, PutRecord, closeVars, RawShapes
  <1>3. /\ n \in Nat /\ n + 1 \in DOMAIN pushed /\ x = pushed[n + 1]
        /\ x \in 1 .. Len(Cameras[s]) /\ x \notin lost[s]
        /\ \A i \in 1 .. n : pushed[i] < x
    BY <1>1, <1>2, StagedNext
  <1>4. /\ ring' \in [Streams -> Rings] /\ rawWriter' \in [Streams -> Writers]
        /\ \A u \in Streams : u # s => ring'[u] = ring[u] /\ rawWriter'[u] = rawWriter[u]
        /\ ring'[s].count = ring[s].count - 1 /\ rawWriter'[s].pc = "wait"
        /\ Through(s)' = n + 1
        /\ AcceptedInOrder(s)' /\ StagingSound(s)' /\ ShutSound(s)'
    BY <1>1, <1>2, DoneSteps
  <1>5. rec \in Records
    <2>1. Cameras[s] \in Seq(Int)
      BY CamerasAssumption DEF Streams
    <2>2. x \in DOMAIN Cameras[s] /\ Cameras[s][x] \in Int /\ x # 0 /\ x \in Nat
      BY <1>3, <2>1
    <2>3. Stamp(s, x) \in Int
      BY <2>2 DEF Stamp
    <2>4. offset[s] \in Int
      BY <1>1, CountShape
    <2> HIDE DEF x
    <2> QED
      BY <2>2, <2>3, <2>4 DEF Records
  <1>6. /\ q \in Seq(Records) /\ Append(q, rec) \in Seq(Records) /\ Len(q) \in Nat
        /\ Len(Append(q, rec)) = Len(q) + 1 /\ DOMAIN Append(q, rec) = 1 .. Len(q) + 1
        /\ DOMAIN q = 1 .. Len(q)
        /\ Append(q, rec)[Len(q) + 1] = rec
        /\ \A i \in 1 .. Len(q) : Append(q, rec)[i] = q[i]
    <2>1. q \in Seq(Records) /\ Len(q) \in Nat /\ DOMAIN q = 1 .. Len(q)
      BY <1>1, IndexShape
    <2> HIDE DEF q, rec
    <2> QED
      BY <1>5, <2>1
  <1>7. rec.frame = x /\ rec.offset = offset[s]
    OBVIOUS
  <1> HIDE DEF rec
  <1>8. offset[s] \in Nat /\ rawWritten[s] \in Nat
    BY <1>1, CountShape
  <1>9. /\ index' \in [Streams -> Seq(Records)] /\ index'[s] = Append(q, rec)
        /\ offset' \in [Streams -> Nat] /\ offset'[s] = offset[s] + 1
        /\ rawWritten' \in [Streams -> Nat] /\ rawWritten'[s] = rawWritten[s] + 1
        /\ \A u \in Streams : u # s =>
             index'[u] = index[u] /\ offset'[u] = offset[u] /\ rawWritten'[u] = rawWritten[u]
    <2>1. index \in [Streams -> Seq(Records)] /\ offset \in [Streams -> Nat] /\ rawWritten \in [Streams -> Nat]
      BY <1>1 DEF RawShapes
    <2>2. offset[s] + 1 \in Nat /\ rawWritten[s] + 1 \in Nat
      BY <1>8
    <2>3. /\ index' \in [Streams -> Seq(Records)] /\ index'[s] = Append(q, rec)
          /\ \A u \in Streams : u # s => index'[u] = index[u]
      BY <1>2, <1>6, <2>1, Updates
    <2>4. /\ offset' \in [Streams -> Nat] /\ offset'[s] = offset[s] + 1
          /\ \A u \in Streams : u # s => offset'[u] = offset[u]
      BY <1>2, <2>1, <2>2, Updates
    <2>5. /\ rawWritten' \in [Streams -> Nat] /\ rawWritten'[s] = rawWritten[s] + 1
          /\ \A u \in Streams : u # s => rawWritten'[u] = rawWritten[u]
      BY <1>2, <2>1, <2>2, Updates
    <2> QED
      BY <2>3, <2>4, <2>5
  <1>10. RawShapes'
    BY <1>1, <1>2, <1>4, <1>9 DEF RawShapes
  <1>11. ASSUME NEW u \in Streams, u # s
         PROVE  StreamSound(u)'
    BY <1>1, <1>2, <1>4, <1>9, <1>11, Untouched
  <1>12. StreamSound(s)'
    <2>1. FilesSound(s)'
      <3> DEFINE settled == {pushed[i] : i \in 1 .. n}
                 m == Len(q)
      <3>1. /\ lost[s] \subseteq settled
            /\ \A i \in 1 .. m : q[i] # Part =>
                 /\ q[i].frame \in settled \ lost[s] /\ q[i].offset \in 0 .. offset[s] - 1
                 /\ q[i].offset \in DOMAIN data[s] /\ data[s][q[i].offset] = q[i].frame
            /\ \A i, j \in 1 .. m : i < j /\ q[i] # Part /\ q[j] # Part => q[i].frame < q[j].frame
            /\ \A k \in 1 .. n : pushed[k] \notin lost[s] => \E i \in 1 .. m : q[i].frame = pushed[k]
            /\ offset[s] \in DOMAIN data[s] /\ data[s][offset[s]] = x
        BY <1>1, <1>2, <1>6 DEF StreamSound, FilesSound
      <3>2. {pushed[i] : i \in 1 .. n + 1} = settled \cup {x}
        BY <1>1, <1>2, SettledGrows
      <3>3. ASSUME NEW i \in 1 .. m + 1
            PROVE  (i \in 1 .. m /\ index'[s][i] = q[i]) \/ (i = m + 1 /\ index'[s][i] = rec)
        BY <1>6, <1>9
      <3>4. ASSUME NEW i \in 1 .. m + 1, index'[s][i] # Part
            PROVE  /\ index'[s][i].frame \in (settled \cup {x}) \ lost[s]
                   /\ index'[s][i].offset \in 0 .. offset[s]
                   /\ index'[s][i].offset \in DOMAIN data[s]
                   /\ data[s][index'[s][i].offset] = index'[s][i].frame
        <4>1. CASE i \in 1 .. m /\ index'[s][i] = q[i]
          BY <1>8, <3>1, <3>4, <4>1
        <4>2. CASE i = m + 1 /\ index'[s][i] = rec
          BY <1>3, <1>7, <1>8, <3>1, <4>2
        <4> QED
          BY <3>3, <4>1, <4>2
      <3>5. ASSUME NEW i \in 1 .. m + 1, NEW j \in 1 .. m + 1, i < j, index'[s][i] # Part, index'[s][j] # Part
            PROVE  index'[s][i].frame < index'[s][j].frame
        <4>1. i \in 1 .. m /\ index'[s][i] = q[i]
          BY <1>6, <3>3, <3>5
        <4>2. CASE j \in 1 .. m /\ index'[s][j] = q[j]
          BY <3>1, <3>5, <4>1, <4>2
        <4>3. CASE j = m + 1 /\ index'[s][j] = rec
          <5>1. q[i].frame \in settled
            BY <3>1, <3>5, <4>1
          <5>2. q[i].frame < x
            BY <1>3, <5>1
          <5> QED
            BY <1>7, <4>1, <4>3, <5>2
        <4> QED
          BY <3>3, <4>2, <4>3
      <3>6. ASSUME NEW k \in 1 .. n + 1, pushed[k] \notin lost[s]
            PROVE  \E i \in 1 .. m + 1 : index'[s][i].frame = pushed[k]
        <4>1. CASE k \in 1 .. n
          <5>1. PICK i \in 1 .. m : q[i].frame = pushed[k]
            BY <3>1, <3>6, <4>1
          <5>2. i \in 1 .. m + 1 /\ index'[s][i] = q[i]
            BY <1>6, <1>9
          <5> QED
            BY <5>1, <5>2
        <4>2. CASE k = n + 1
          <5>1. m + 1 \in 1 .. m + 1 /\ index'[s][m + 1].frame = x
            BY <1>6, <1>7, <1>9
          <5> QED
            BY <1>3, <4>2, <5>1
        <4> QED
          BY <1>3, <4>1, <4>2
      <3>7. (offset[s] + 1) - 1 = offset[s]
        BY <1>8
      <3>8. DOMAIN index'[s] = 1 .. m + 1
        BY <1>6, <1>9
      <3>9. /\ {rawAccepted'[s].all[i] : i \in 1 .. Through(s)'} = settled \cup {x}
            /\ lost[s] \subseteq settled \cup {x}
        BY <1>2, <1>4, <3>1, <3>2
      <3>10. \A k \in 1 .. Through(s)' : rawAccepted'[s].all[k] \notin lost'[s] =>
               \E i \in DOMAIN index'[s] : index'[s][i].frame = rawAccepted'[s].all[k]
        BY <1>2, <1>4, <3>6, <3>8
      <3>11. \A i \in DOMAIN index'[s] : index'[s][i] # Part =>
               /\ index'[s][i].frame \in (settled \cup {x}) \ lost'[s]
               /\ index'[s][i].offset \in 0 .. offset'[s] - 1
               /\ index'[s][i].offset \in DOMAIN data'[s]
               /\ data'[s][index'[s][i].offset] = index'[s][i].frame
        BY <1>2, <1>9, <3>4, <3>7, <3>8
      <3>12. \A i, j \in DOMAIN index'[s] : i < j /\ index'[s][i] # Part /\ index'[s][j] # Part =>
               index'[s][i].frame < index'[s][j].frame
        BY <3>5, <3>8
      <3> HIDE DEF settled, m, n, q, x
      <3> QED
        BY <1>2, <1>4, <3>9, <3>10, <3>11, <3>12 DEF FilesSound
    <2>2. FramesCounted(s)'
      <3>1. /\ push[s].frame = rawWritten[s] + rawDrops[s] + Cardinality(lost[s]) + ring[s].count
            /\ rawDrops[s] \in Nat /\ Cardinality(lost[s]) \in Nat /\ ring[s].count \in Nat
        BY <1>1, CountShape, RingShape DEF StreamSound, FramesCounted
      <3>2. push[s].frame = (rawWritten[s] + 1) + rawDrops[s] + Cardinality(lost[s]) + (ring[s].count - 1)
        BY <1>8, <3>1
      <3> QED
        BY <1>2, <1>4, <1>9, <3>2 DEF FramesCounted
    <2> QED
      BY <1>4, <2>1, <2>2 DEF StreamSound
  <1> QED
    BY <1>10, <1>11, <1>12 DEF RawIInv

(* A write fails: the frame is lost, and a record that broke off is no record. *)
LEMMA WriteFailsSteps ==
  ASSUME RawIInv, NEW s \in Streams, RawWriteFails(s)
  PROVE  RawIInv'
  <1>1. RawShapes /\ StreamSound(s) /\ \A u \in Streams : StreamSound(u)
    BY DEF RawIInv
  <1> DEFINE q == index[s]
             m == Len(q)
             x == Staged(s)
             n == Through(s)
             pushed == rawAccepted[s].all
             settled == {pushed[i] : i \in 1 .. n}
             l == lost[s] \cup {x}
  <1>2. /\ rawWriter[s].pc \in {"data", "index"}
        /\ index' = index \/ index' = [index EXCEPT ![s] = Append(q, Part)]
        /\ lost' = [lost EXCEPT ![s] = l]
        /\ Done(s, FALSE)
        /\ UNCHANGED <<staging, push, data, offset, rawWritten, first, rawDrops, rawAccepted, closing>>
    BY <1>1 DEF RawWriteFails, closeVars, RawShapes
  <1>3. /\ n \in Nat /\ n + 1 \in DOMAIN pushed /\ x = pushed[n + 1]
        /\ x \in 1 .. Len(Cameras[s]) /\ x \notin lost[s]
        /\ \A i \in 1 .. n : pushed[i] < x
    BY <1>1, <1>2, StagedNext
  <1>4. /\ ring' \in [Streams -> Rings] /\ rawWriter' \in [Streams -> Writers]
        /\ \A u \in Streams : u # s => ring'[u] = ring[u] /\ rawWriter'[u] = rawWriter[u]
        /\ ring'[s].count = ring[s].count - 1 /\ rawWriter'[s].pc = "wait"
        /\ Through(s)' = n + 1
        /\ AcceptedInOrder(s)' /\ StagingSound(s)' /\ ShutSound(s)'
    BY <1>1, <1>2, DoneSteps
  <1>5. /\ q \in Seq(Records) /\ m \in Nat /\ DOMAIN q = 1 .. m /\ Part \in Records
        /\ Append(q, Part) \in Seq(Records) /\ DOMAIN Append(q, Part) = 1 .. m + 1
        /\ Append(q, Part)[m + 1] = Part
        /\ \A i \in 1 .. m : Append(q, Part)[i] = q[i]
    <2>1. q \in Seq(Records) /\ m \in Nat /\ DOMAIN q = 1 .. m
      BY <1>1, IndexShape
    <2>2. Part \in Records
      BY DEF Part, Records, None
    <2> HIDE DEF q
    <2> QED
      BY <2>1, <2>2
  <1>6. /\ index' \in [Streams -> Seq(Records)]
        /\ index'[s] = q \/ index'[s] = Append(q, Part)
        /\ \A u \in Streams : u # s => index'[u] = index[u]
    <2>1. index \in [Streams -> Seq(Records)]
      BY <1>1 DEF RawShapes
    <2>2. CASE index' = index
      BY <2>1, <2>2
    <2>3. CASE index' = [index EXCEPT ![s] = Append(q, Part)]
      BY <1>5, <2>1, <2>3, Updates
    <2> QED
      BY <1>2, <2>2, <2>3
  <1>7. /\ lost' \in [Streams -> SUBSET Nat] /\ lost'[s] = l
        /\ \A u \in Streams : u # s => lost'[u] = lost[u]
        /\ IsFiniteSet(l) /\ Cardinality(l) = Cardinality(lost[s]) + 1
    <2>1. lost \in [Streams -> SUBSET Nat] /\ IsFiniteSet(lost[s]) /\ lost[s] \in SUBSET Nat
      BY <1>1, CountShape DEF RawShapes
    <2>2. l \in SUBSET Nat
      BY <1>3, <2>1
    <2>3. IsFiniteSet(l) /\ Cardinality(l) = Cardinality(lost[s]) + 1
      BY <1>3, <2>1, FS_AddElement, Zenon
    <2> HIDE DEF l
    <2> QED
      BY <1>2, <2>1, <2>2, <2>3, Updates
  <1>8. RawShapes'
    <2>1. \A u \in Streams : IsFiniteSet(lost'[u])
      BY <1>1, <1>7 DEF RawShapes
    <2> QED
      BY <1>1, <1>2, <1>4, <1>6, <1>7, <2>1 DEF RawShapes
  <1>9. ASSUME NEW u \in Streams, u # s
        PROVE  StreamSound(u)'
    BY <1>1, <1>2, <1>4, <1>6, <1>7, <1>9, Untouched
  <1>10. StreamSound(s)'
    <2>1. FilesSound(s)'
      <3>1. /\ lost[s] \subseteq settled
            /\ \A i \in 1 .. m : q[i] # Part =>
                 /\ q[i].frame \in settled \ lost[s] /\ q[i].offset \in 0 .. offset[s] - 1
                 /\ q[i].offset \in DOMAIN data[s] /\ data[s][q[i].offset] = q[i].frame
            /\ \A i, j \in 1 .. m : i < j /\ q[i] # Part /\ q[j] # Part => q[i].frame < q[j].frame
            /\ \A k \in 1 .. n : pushed[k] \notin lost[s] => \E i \in 1 .. m : q[i].frame = pushed[k]
        BY <1>1, <1>5 DEF StreamSound, FilesSound
      <3>2. {pushed[i] : i \in 1 .. n + 1} = settled \cup {x}
        BY <1>1, <1>2, SettledGrows
      <3>3. /\ \A i \in 1 .. m : i \in DOMAIN index'[s] /\ index'[s][i] = q[i]
            /\ \A i \in DOMAIN index'[s] : index'[s][i] # Part => i \in 1 .. m
        BY <1>5, <1>6
      <3>4. x \notin settled
        BY <1>3
      <3>5. /\ {rawAccepted'[s].all[i] : i \in 1 .. Through(s)'} = settled \cup {x}
            /\ lost'[s] \subseteq settled \cup {x}
        <4>1. {rawAccepted'[s].all[i] : i \in 1 .. Through(s)'} = {pushed[i] : i \in 1 .. n + 1}
          BY <1>2, <1>4
        <4>2. lost'[s] \subseteq settled \cup {x}
          BY <1>7, <3>1
        <4> HIDE DEF settled, n, x
        <4> QED
          BY <3>2, <4>1, <4>2
      <3>6. ASSUME NEW i \in DOMAIN index'[s], index'[s][i] # Part
            PROVE  /\ index'[s][i].frame \in (settled \cup {x}) \ lost'[s]
                   /\ index'[s][i].offset \in 0 .. offset'[s] - 1
                   /\ index'[s][i].offset \in DOMAIN data'[s]
                   /\ data'[s][index'[s][i].offset] = index'[s][i].frame
        <4>1. i \in 1 .. m /\ index'[s][i] = q[i] /\ q[i] # Part
          BY <3>3, <3>6
        <4>2. /\ q[i].frame \in settled \ lost[s] /\ q[i].offset \in 0 .. offset[s] - 1
              /\ q[i].offset \in DOMAIN data[s] /\ data[s][q[i].offset] = q[i].frame
          BY <3>1, <4>1
        <4>3. data' = data /\ offset' = offset /\ lost'[s] = lost[s] \cup {x}
          BY <1>2, <1>7
        <4>4. q[i].frame \in (settled \cup {x}) \ lost'[s]
          <5> HIDE DEF settled, x, q
          <5> QED
            BY ONLY <3>4, <4>2, <4>3
        <4> HIDE DEF settled, x, q
        <4> QED
          BY <4>1, <4>2, <4>3, <4>4
      <3>7. \A i, j \in DOMAIN index'[s] : i < j /\ index'[s][i] # Part /\ index'[s][j] # Part =>
              index'[s][i].frame < index'[s][j].frame
        BY <3>1, <3>3
      <3>8. ASSUME NEW k \in 1 .. n + 1, pushed[k] \notin l
            PROVE  \E i \in DOMAIN index'[s] : index'[s][i].frame = pushed[k]
        <4>1. k \in 1 .. n
          BY <1>3, <3>8
        <4>2. PICK i \in 1 .. m : q[i].frame = pushed[k]
          BY <3>1, <3>8, <4>1
        <4> QED
          BY <3>3, <4>2
      <3>9. \A k \in 1 .. Through(s)' : rawAccepted'[s].all[k] \notin lost'[s] =>
              \E i \in DOMAIN index'[s] : index'[s][i].frame = rawAccepted'[s].all[k]
        BY <1>2, <1>4, <1>7, <3>8
      <3> HIDE DEF settled, m, n, q, x, l
      <3> QED
        BY <1>4, <3>5, <3>6, <3>7, <3>9 DEF FilesSound
    <2>2. FramesCounted(s)'
      <3>1. /\ push[s].frame = rawWritten[s] + rawDrops[s] + Cardinality(lost[s]) + ring[s].count
            /\ rawDrops[s] \in Nat /\ Cardinality(lost[s]) \in Nat /\ ring[s].count \in Nat
            /\ rawWritten[s] \in Nat
        BY <1>1, CountShape, RingShape DEF StreamSound, FramesCounted
      <3>2. push[s].frame = rawWritten[s] + rawDrops[s] + (Cardinality(lost[s]) + 1) + (ring[s].count - 1)
        BY <3>1
      <3> HIDE DEF l
      <3> QED
        BY <1>2, <1>4, <1>7, <3>2 DEF FramesCounted
    <2> QED
      BY <1>4, <2>1, <2>2 DEF StreamSound
  <1> QED
    BY <1>8, <1>9, <1>10 DEF RawIInv

(* close() touches nothing of a stream but whether it runs, and waits. *)
LEMMA OnlyShut ==
  ASSUME NEW s \in Streams, StreamSound(s), ShutSound(s)',
         UNCHANGED <<staging, push, rawWriter, data, index, offset, rawWritten, rawDrops, lost>>,
         rawAccepted'[s].all = rawAccepted[s].all, ring'[s].head = ring[s].head,
         ring'[s].count = ring[s].count, ring'[s].published = ring[s].published
  PROVE  StreamSound(s)'
  <1>1. Through(s)' = Through(s) /\ Staged(s)' = Staged(s)
    BY DEF Through, Staged
  <1>2. AcceptedInOrder(s)'
    BY DEF StreamSound, AcceptedInOrder
  <1>3. StagingSound(s)'
    BY <1>1 DEF StreamSound, StagingSound
  <1>4. FilesSound(s)'
    BY <1>1 DEF StreamSound, FilesSound
  <1>5. FramesCounted(s)'
    BY DEF StreamSound, FramesCounted
  <1> QED
    BY <1>2, <1>3, <1>4, <1>5 DEF StreamSound

LEMMA StartCloseSteps ==
  ASSUME RawIInv, StartClose
  PROVE  RawIInv'
  <1>1. RawShapes /\ \A s \in Streams : StreamSound(s)
    BY DEF RawIInv
  <1>2. /\ closing = Open /\ closing' = 1
        /\ rawAccepted' = [s \in Streams |-> [rawAccepted[s] EXCEPT !.before = Len(rawAccepted[s].all)]]
        /\ UNCHANGED <<ring, staging, push, rawWriter, data, index, offset, rawWritten, first, rawDrops, lost>>
    BY DEF StartClose, rawFileVars
  <1>3. ASSUME NEW s \in Streams
        PROVE  /\ rawAccepted'[s] \in [all : Seq(Nat), before : Int]
               /\ rawAccepted'[s].all = rawAccepted[s].all
               /\ rawAccepted'[s].before = Len(rawAccepted[s].all)
    <2>1. rawAccepted[s] \in [all : Seq(Nat), before : Int] /\ Len(rawAccepted[s].all) \in Nat
      BY <1>1, AcceptedShape DEF RawShapes
    <2>2. rawAccepted'[s] = [rawAccepted[s] EXCEPT !.before = Len(rawAccepted[s].all)]
      BY <1>2
    <2> QED
      BY <2>1, <2>2
  <1>4. RawShapes'
    <2>1. rawAccepted' \in [Streams -> [all : Seq(Nat), before : Int]]
      <3>1. rawAccepted' = [s \in Streams |-> rawAccepted'[s]]
        BY <1>2
      <3> QED
        BY <1>3, <3>1
    <2>2. closing' \in Open .. Closed
      BY <1>1, <1>2, CloseShape DEF Open, Closed
    <2> QED
      BY <1>1, <1>2, <2>1, <2>2 DEF RawShapes
  <1>5. ASSUME NEW s \in Streams
        PROVE  StreamSound(s)'
    <2>1. ring[s].running /\ rawWriter[s].pc # "exited"
      BY <1>1, <1>2 DEF StreamSound, ShutSound
    <2>2. s \in Nat \ {0} /\ Len(rawAccepted[s].all) \in Nat
      BY <1>1, CloseShape, AcceptedShape
    <2>3. ShutSound(s)'
      BY <1>2, <1>3, <2>1, <2>2 DEF ShutSound, Open
    <2> QED
      BY <1>1, <1>2, <1>3, <2>3, OnlyShut
  <1> QED
    BY <1>4, <1>5 DEF RawIInv

LEMMA CloseStreamSteps ==
  ASSUME RawIInv, NEW s \in Streams, CloseStream(s)
  PROVE  RawIInv'
  <1>1. RawShapes /\ StreamSound(s) /\ \A u \in Streams : StreamSound(u)
    BY DEF RawIInv
  <1> DEFINE r == [ring[s] EXCEPT !.running = FALSE]
  <1>2. /\ closing = s /\ ring' = [ring EXCEPT ![s] = r]
        /\ UNCHANGED <<staging, push, rawWriter, data, index, offset, rawWritten, first, rawDrops, lost, rawAccepted,
                       closing>>
    BY <1>1 DEF CloseStream, rawFileVars, closeVars, RawShapes
  <1>3. /\ ring' \in [Streams -> Rings] /\ \A u \in Streams : u # s => ring'[u] = ring[u]
        /\ ring'[s].head = ring[s].head /\ ring'[s].count = ring[s].count
        /\ ring'[s].published = ring[s].published /\ ~ring'[s].running
    <2>1. ring \in [Streams -> Rings] /\ ring[s] \in Rings
      BY <1>1 DEF RawShapes
    <2>2. /\ r \in Rings /\ r.head = ring[s].head /\ r.count = ring[s].count
          /\ r.published = ring[s].published /\ r.running = FALSE
      BY <2>1 DEF Rings
    <2> HIDE DEF r
    <2>3. ring' \in [Streams -> Rings] /\ ring'[s] = r /\ \A u \in Streams : u # s => ring'[u] = ring[u]
      BY <1>2, <2>1, <2>2, Updates
    <2> QED
      BY <2>2, <2>3
  <1>4. RawShapes'
    BY <1>1, <1>2, <1>3 DEF RawShapes
  <1>5. ASSUME NEW u \in Streams, u # s
        PROVE  StreamSound(u)'
    BY <1>1, <1>2, <1>3, <1>5, Untouched
  <1>6. StreamSound(s)'
    <2>1. closing # Open
      BY <1>1, <1>2, CloseShape DEF Open
    <2>2. Through(s)' = Through(s)
      BY <1>2, <1>3 DEF Through
    <2>3. ShutSound(s)'
      BY <1>1, <1>2, <1>3, <2>1, <2>2 DEF StreamSound, ShutSound
    <2> QED
      BY <1>1, <1>2, <1>3, <2>3, OnlyShut
  <1> QED
    BY <1>4, <1>5, <1>6 DEF RawIInv

LEMMA JoinSteps ==
  ASSUME RawIInv, (\E s \in Streams : Joined(s)) \/ WriteManifest
  PROVE  RawIInv'
  <1>1. RawShapes /\ \A u \in Streams : StreamSound(u)
    BY DEF RawIInv
  <1>2. UNCHANGED <<ring, staging, push, rawWriter, data, index, offset, rawWritten, first, rawDrops, lost,
                    rawAccepted>>
    BY DEF Joined, WriteManifest, rawFileVars
  <1>3. /\ closing # Open /\ closing' # Open /\ closing' \in Open .. Closed
        /\ \A u \in Streams : closing' > u => closing > u \/ rawWriter[u].pc = "exited"
    <2>1. Len(Cameras) \in Nat /\ \A u \in Streams : u \in 1 .. Len(Cameras)
      BY <1>1, CloseShape
    <2>2. ASSUME NEW s \in Streams, Joined(s)
          PROVE  /\ closing # Open /\ closing' # Open /\ closing' \in Open .. Closed
                 /\ \A u \in Streams : closing' > u => closing > u \/ rawWriter[u].pc = "exited"
      <3>1. closing = s /\ closing' = s + 1 /\ rawWriter[s].pc = "exited"
        BY <2>2 DEF Joined
      <3> QED
        BY <2>1, <3>1 DEF Open, Closed
    <2>3. CASE WriteManifest
      <3>1. closing = Len(Cameras) + 1 /\ closing' = Len(Cameras) + 2
        BY <2>3 DEF WriteManifest, AtManifest, Closed
      <3> QED
        BY <2>1, <3>1 DEF Open, Closed
    <2> QED
      BY <2>2, <2>3
  <1>4. RawShapes'
    BY <1>1, <1>2, <1>3 DEF RawShapes
  <1>5. ASSUME NEW s \in Streams
        PROVE  StreamSound(s)'
    <2>1. Through(s)' = Through(s)
      BY <1>2 DEF Through
    <2>2. ShutSound(s)'
      BY <1>1, <1>2, <1>3, <2>1 DEF StreamSound, ShutSound
    <2> QED
      BY <1>1, <1>2, <2>2, OnlyShut
  <1> QED
    BY <1>4, <1>5 DEF RawIInv

LEMMA RawSteps == RawIInv /\ [RawNext]_rawVars => RawIInv'
  <1> SUFFICES ASSUME RawIInv, [RawNext]_rawVars
               PROVE  RawIInv'
    OBVIOUS
  <1>1. ASSUME NEW s \in Streams, RawPushStep(s)
        PROVE  RawIInv'
    BY <1>1, DropSteps, ReserveSteps, CopySteps, PublishSteps DEF RawPushStep
  <1>2. ASSUME NEW s \in Streams, RawWriterStep(s)
        PROVE  RawIInv'
    BY <1>2, WaitSteps, WriteFirstSteps, WriteSecondSteps, WriteFailsSteps DEF RawWriterStep
  <1>3. CASE StartClose
    BY <1>3, StartCloseSteps
  <1>4. CASE CloseStep
    BY <1>4, CloseStreamSteps, JoinSteps DEF CloseStep
  <1>5. CASE UNCHANGED rawVars
    <2>1. UNCHANGED <<ring, staging, push, rawWriter, data, index, offset, rawWritten, first, rawDrops, lost,
                      rawAccepted, closing>>
      BY <1>5 DEF rawVars, rawFileVars, closeVars
    <2>2. RawShapes'
      BY <2>1 DEF RawIInv, RawShapes
    <2>3. ASSUME NEW s \in Streams
          PROVE  StreamSound(s)'
      BY <2>1, Untouched DEF RawIInv
    <2> QED
      BY <2>2, <2>3 DEF RawIInv
  <1> QED
    BY <1>1, <1>2, <1>3, <1>4, <1>5 DEF RawNext

-----------------------------------------------------------------------------
(* What the invariant says of the recording.                                *)

LEMMA SettledPlaces ==
  ASSUME RawShapes, NEW s \in Streams, StreamSound(s)
  PROVE  /\ Through(s) \in 0 .. Len(rawAccepted[s].all)
         /\ 1 .. Through(s) \subseteq DOMAIN rawAccepted[s].all
  <1>1. Len(rawAccepted[s].all) \in Nat /\ DOMAIN rawAccepted[s].all = 1 .. Len(rawAccepted[s].all)
    BY AcceptedShape
  <1>2. ring[s].published \in Nat
    BY RingShape
  <1>3. ring[s].published <= Len(rawAccepted[s].all)
    BY DEF StreamSound, StagingSound
  <1>4. Through(s) \in 0 .. Len(rawAccepted[s].all)
    BY <1>1, <1>2, <1>3 DEF Through
  <1> QED
    BY <1>1, <1>4

LEMMA ApartHolds ==
  ASSUME RawIInv
  PROVE  ApartInStaging
  <1> SUFFICES ASSUME NEW s \in Streams, push[s].pc # "idle", rawWriter[s].pc \in {"data", "index"}
               PROVE  push[s].slot # rawWriter[s].slot
    BY DEF ApartInStaging
  <1>1. RawShapes /\ StagingSound(s)
    BY DEF RawIInv, StreamSound
  <1> DEFINE h == ring[s].head
             p == ring[s].published
  <1>2. /\ push[s].slot = (h + p) % Staging
        /\ rawWriter[s].slot = h /\ p > 0 /\ ring[s].count = p + 1
    BY <1>1 DEF StagingSound
  <1>3. h \in 0 .. Staging - 1 /\ p \in Nat /\ ring[s].count <= Staging /\ Staging \in Nat \ {0}
    BY <1>1, RingShape
  <1> HIDE DEF h, p
  <1>4. p \in 0 .. Staging - 1 /\ 0 \in 0 .. Staging - 1 /\ p # 0
    BY <1>2, <1>3
  <1>5. (h + 0) % Staging = h /\ (h + p) % Staging # (h + 0) % Staging
    <2>1. (h + 0) % Staging = h
      BY ONLY <1>3, <1>4, BufferPlaces
    <2>2. \A j \in 0 .. Staging - 1 : j # p => (h + j) % Staging # (h + p) % Staging
      BY ONLY <1>3, <1>4, BufferPlaces
    <2> QED
      BY ONLY <1>4, <2>1, <2>2
  <1> QED
    BY <1>2, <1>5

LEMMA IndexHolds ==
  ASSUME RawIInv
  PROVE  IndexTrue
  <1> SUFFICES ASSUME NEW s \in Streams, Readable(s), NEW i \in DOMAIN index[s]
               PROVE  /\ ReadFrame(s, i) = index[s][i].frame /\ index[s][i].frame # 0
                      /\ \A j \in 1 .. i - 1 : index[s][j].frame < index[s][i].frame
    BY DEF IndexTrue
  <1>1. RawShapes /\ StreamSound(s)
    BY DEF RawIInv
  <1>2. FilesSound(s) /\ AcceptedInOrder(s)
    BY <1>1 DEF StreamSound
  <1>3. \A j \in DOMAIN index[s] : index[s][j] # Part
    BY DEF Readable
  <1>4. ReadFrame(s, i) = index[s][i].frame
    BY <1>2, <1>3 DEF FilesSound, ReadFrame
  <1>5. index[s][i].frame \in {rawAccepted[s].all[k] : k \in 1 .. Through(s)}
    BY <1>2, <1>3 DEF FilesSound
  <1>6. index[s][i].frame # 0
    <2>1. PICK k \in 1 .. Through(s) : index[s][i].frame = rawAccepted[s].all[k]
      BY <1>5
    <2>2. k \in DOMAIN rawAccepted[s].all
      BY <1>1, SettledPlaces
    <2>3. rawAccepted[s].all[k] \in 1 .. push[s].frame
      BY <1>2, <2>2 DEF AcceptedInOrder
    <2>4. push[s].frame \in Nat
      BY <1>1, PushShape
    <2> QED
      BY <2>1, <2>3, <2>4
  <1>7. ASSUME NEW j \in 1 .. i - 1
        PROVE  index[s][j].frame < index[s][i].frame
    <2>1. j \in DOMAIN index[s] /\ j < i
      <3>1. DOMAIN index[s] = 1 .. Len(index[s]) /\ Len(index[s]) \in Nat
        BY <1>1, IndexShape
      <3> QED
        BY <3>1
    <2> QED
      BY <1>2, <1>3, <2>1 DEF FilesSound
  <1> QED
    BY <1>4, <1>6, <1>7

LEMMA LeftBehindHolds ==
  ASSUME RawIInv
  PROVE  NothingLeftBehind
  <1> SUFFICES ASSUME closing = Closed, \A s \in Streams : Readable(s), NEW s \in Streams
               PROVE  LET pushed == rawAccepted[s].all
                          there == ToSet(FrameIds(s))
                      IN /\ \A i \in 1 .. rawAccepted[s].before : pushed[i] \in lost[s] \cup there
                         /\ there \subseteq ToSet(pushed) \ lost[s]
                         /\ \A i, j \in DOMAIN pushed :
                              (i < j /\ pushed[j] \in there) => pushed[i] \in lost[s] \cup there
    BY DEF NothingLeftBehind
  <1> DEFINE pushed == rawAccepted[s].all
             there == ToSet(FrameIds(s))
             settled == {pushed[k] : k \in 1 .. Through(s)}
  <1>1. RawShapes /\ StreamSound(s)
    BY DEF RawIInv
  <1>2. FilesSound(s) /\ AcceptedInOrder(s) /\ ShutSound(s)
    BY <1>1 DEF StreamSound
  <1>3. \A i \in DOMAIN index[s] : index[s][i] # Part
    BY DEF Readable
  <1>4. there = {index[s][i].frame : i \in DOMAIN index[s]}
    BY DEF ToSet, FrameIds
  <1>5. there \subseteq settled \ lost[s]
    <2>1. \A i \in DOMAIN index[s] : index[s][i].frame \in settled \ lost[s]
      BY <1>2, <1>3 DEF FilesSound
    <2> HIDE DEF there, settled
    <2> QED
      BY <1>4, <2>1
  <1>6. \A k \in 1 .. Through(s) : pushed[k] \in lost[s] \cup there
    <2>1. \A k \in 1 .. Through(s) : pushed[k] \notin lost[s] =>
            \E i \in DOMAIN index[s] : index[s][i].frame = pushed[k]
      BY <1>2 DEF FilesSound
    <2> HIDE DEF there, pushed
    <2> QED
      BY <1>4, <2>1
  <1>7. /\ Through(s) \in 0 .. Len(pushed) /\ 1 .. Through(s) \subseteq DOMAIN pushed
        /\ Len(pushed) \in Nat /\ DOMAIN pushed = 1 .. Len(pushed)
        /\ \A i \in DOMAIN pushed : pushed[i] \in Nat
        /\ rawAccepted[s].before \in Int
    BY <1>1, SettledPlaces, AcceptedShape
  <1>8. rawAccepted[s].before <= Through(s)
    <2>1. Len(Cameras) \in Nat /\ s \in 1 .. Len(Cameras)
      BY CamerasAssumption DEF Streams
    <2>2. closing > s
      BY <2>1 DEF Closed
    <2> QED
      BY <1>2, <2>2 DEF ShutSound
  <1>9. \A i, j \in DOMAIN pushed : i < j => pushed[i] < pushed[j]
    BY <1>2 DEF AcceptedInOrder
  <1>10. settled \subseteq ToSet(pushed)
    BY <1>7 DEF ToSet
  <1>11. \A j \in DOMAIN pushed : pushed[j] \in settled => j <= Through(s)
    <2> SUFFICES ASSUME NEW j \in DOMAIN pushed, NEW k \in 1 .. Through(s), pushed[j] = pushed[k]
                 PROVE  j <= Through(s)
      OBVIOUS
    <2> HIDE DEF pushed
    <2>1. k \in DOMAIN pushed /\ pushed[j] \in Nat /\ pushed[k] \in Nat
      BY <1>7
    <2>2. ~(k < j)
      BY <1>9, <2>1
    <2> QED
      BY <1>7, <2>1, <2>2
  <1> HIDE DEF pushed, there, settled
  <1>12. \A i \in 1 .. rawAccepted[s].before : pushed[i] \in lost[s] \cup there
    BY <1>6, <1>7, <1>8
  <1>13. there \subseteq ToSet(pushed) \ lost[s]
    BY <1>5, <1>10
  <1>14. ASSUME NEW i \in DOMAIN pushed, NEW j \in DOMAIN pushed, i < j, pushed[j] \in there
         PROVE  pushed[i] \in lost[s] \cup there
    <2>1. j <= Through(s)
      BY <1>5, <1>11, <1>14
    <2>2. i \in 1 .. Through(s)
      BY <1>7, <1>14, <2>1
    <2> QED
      BY <1>6, <2>2
  <1> QED
    BY <1>12, <1>13, <1>14 DEF pushed, there

LEMMA RawHolds == RawIInv => RecordingInv /\ NothingLeftBehind
  <1> SUFFICES ASSUME RawIInv PROVE RecordingInv /\ NothingLeftBehind
    OBVIOUS
  <1>1. RawTypeOK
    <2>1. ASSUME NEW s \in Streams
          PROVE  /\ ring[s].head \in 0 .. Staging - 1 /\ ring[s].count \in 0 .. Staging
                 /\ ring[s].published \in 0 .. ring[s].count
                 /\ rawWriter[s].pc \in {"wait", "data", "index", "exited"}
                 /\ push[s].pc \in {"idle", "copy", "copying", "publish"}
      <3>1. RawShapes /\ StagingSound(s)
        BY DEF RawIInv, StreamSound
      <3>2. push[s] \in Pushes /\ rawWriter[s] \in Writers
        BY <3>1 DEF RawShapes
      <3>3. ring[s].count = ring[s].published + (IF push[s].pc = "idle" THEN 0 ELSE 1)
        BY <3>1 DEF StagingSound
      <3>4. /\ ring[s].head \in 0 .. Staging - 1
            /\ ring[s].count \in Nat /\ ring[s].count <= Staging /\ ring[s].published \in Nat
        BY <3>1, RingShape
      <3>5. ring[s].published <= ring[s].count
        BY <3>3, <3>4
      <3> QED
        BY <3>2, <3>4, <3>5, StagingAssumption DEF Pushes, Writers
    <2>2. closing \in Open .. Closed
      BY DEF RawIInv, RawShapes
    <2> QED
      BY <2>1, <2>2 DEF RawTypeOK
  <1>2. FramesAccounted
    BY DEF RawIInv, StreamSound, FramesCounted, FramesAccounted
  <1> QED
    BY <1>1, <1>2, ApartHolds, IndexHolds, LeftBehindHolds DEF RecordingInv

(* The writer never touches a buffer whose copy is running; every record of a      *)
(* recording, broken off wherever it was, points to the frame it names, in the     *)
(* camera's order; no frame goes uncounted; and what push() took before close() is *)
(* in the closed file unless its own write failed.                                 *)
THEOREM RawRecordingKeeps == RawSpec => []RawRecordingInv
  <1>1. RawInit => RawIInv
    BY RawInits
  <1>2. RawIInv /\ [RawNext]_rawVars => RawIInv'
    BY RawSteps
  <1>3. RawIInv => RawRecordingInv
    BY RawHolds DEF RawRecordingInv
  <1> QED
    BY <1>1, <1>2, <1>3, PTL DEF RawSpec

-----------------------------------------------------------------------------
(* A run with either recorder.                                              *)

RecordersIInv == RecorderIInv /\ RawIInv

LEMMA RecordersSteps == RecordersIInv /\ [Next]_vars => RecordersIInv'
  <1> SUFFICES ASSUME RecordersIInv, [Next]_vars
               PROVE  RecordersIInv'
    OBVIOUS
  <1>1. [RecorderNext]_recorderVars /\ [RawNext]_rawVars
    BY DEF Next, Encoded, Rawly, OneMessage, vars
  <1> QED
    BY <1>1, RecorderSteps, RawSteps DEF RecordersIInv

(* Whichever recorder a program has, whatever its disk refuses and wherever close() *)
(* lands: no message and no frame that was accepted is lost, doubled or uncounted,   *)
(* and nothing in a file points at anything but what it names.                      *)
THEOREM RecordingsKeep == FairSpec => [](RecorderInv /\ MessagesAccounted /\ RawRecordingInv)
  <1>1. Init => RecordersIInv
    BY AccountsInit, RawInits DEF Init, RecordersIInv
  <1>2. RecordersIInv /\ [Next]_vars => RecordersIInv'
    BY RecordersSteps
  <1>3. RecordersIInv => RecorderInv /\ MessagesAccounted /\ RawRecordingInv
    BY RawHolds DEF RecordersIInv, RecorderIInv, RawRecordingInv
  <1> QED
    BY <1>1, <1>2, <1>3, PTL DEF FairSpec
=================================================================================
