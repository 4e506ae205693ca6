--------------------------- MODULE StereoToolsProofs ---------------------------
(***************************************************************************)
(* What the programs of a pair of cameras keep, for every set of frames     *)
(* their cameras expose, every number of buffers and every interleaving of  *)
(* their threads: triggers are scheduled ahead and sent while there is      *)
(* somebody to send them to, buffers in flight are read in order, and what  *)
(* is paired belongs together, on the live side and on the GPU's.           *)
(***************************************************************************)
EXTENDS StereoTools, SequenceTheorems, TLAPS

-----------------------------------------------------------------------------
(* The rig: LiveStereo under either of its programs. *)

\* The steps of the rig.  A stream is started while main starts, and not again.
RigNext ==
  \/ main = "start" /\ \E s \in Streams : StartStream(s) \/ StartThrows(s)
  \/ StopLive \/ (main = "stop" /\ StopStep)
  \/ \E s \in Streams :
       Commit(s) \/ Starve(s) \/ GiveUp(s) \/ Pop(s) \/ PopNothing(s) \/ Release(s) \/ Callback(s)

\* What a step of any program does to the rig, main and the queues of the pairer.
LEMMA StepsOfTheRig ==
  ASSUME [Next]_vars
  PROVE  /\ RigNext \/ UNCHANGED liveVars
         /\ main' = "start" => main = "start"
         /\ tool' = tool
  <1>1. CASE Viewing(ViewNext)
    <2> USE DEF Viewing
    <2>1. CASE MainStep
      <3>1. CASE Starting \/ StopCalled \/ Stopping
        <4>1. CASE Starting
          <5>1. PICK s \in Streams : StartStream(s) \/ StartThrows(s)
            BY <4>1 DEF Starting
          <5>2. main = "start" /\ tool' = tool
            BY <4>1 DEF Starting, Throw, Main, viewVars
          <5>3. QED
            BY <5>1, <5>2 DEF RigNext
        <4>2. CASE StopCalled
          <5>1. StopLive /\ main' # "start" /\ tool' = tool
            BY <4>2 DEF StopCalled, Main
          <5>2. QED
            BY <5>1 DEF RigNext
        <4>3. CASE Stopping
          BY <4>3 DEF Stopping, viewVars, RigNext
        <4>4. QED
          BY <3>1, <4>1, <4>2, <4>3
      <3>2. CASE PtpWaited \/ CheckKeys \/ Arm \/ StartTriggers \/ PopOnce \/ LeaveLoop \/ StopTriggers \/ Finish
        BY <1>1, <3>2 DEF Throw, Main, PtpWaited, CheckKeys, Arm, StartTriggers, PopOnce, LeaveLoop,
             StopTriggers, Finish
      <3>3. QED
        BY <2>1, <3>1, <3>2 DEF MainStep
    <2>2. CASE TriggerStep \/ Interrupt \/ ReportThrows \/ SendThrows
      BY <1>1, <2>2 DEF TriggerStep, LookAtTrigRun, SendTrigger, Sleep, Interrupt, ReportThrows, SendThrows
    <2>3. CASE \E s \in Streams : CameraStep(s) \/ CameraFails(s) \/ ReaderStep(s)
      BY <1>1, <2>3 DEF CameraStep, CameraFails, ReaderStep, ReaderAlone, ReaderPushes, viewVars, RigNext
    <2>4. QED
      BY <1>1, <2>1, <2>2, <2>3 DEF ViewNext
  <1>2. CASE Testing(TestNext)
    <2> USE DEF Testing
    <2>1. CASE TestStep
      <3>1. CASE RigStarts \/ RigStops \/ RigStopping
        <4>1. CASE RigStarts
          <5>1. PICK s \in Streams : StartStream(s) \/ StartThrows(s)
            BY <4>1 DEF RigStarts
          <5>2. main = "start" /\ tool' = tool
            BY <4>1 DEF RigStarts, Throw, Main, viewVars
          <5>3. QED
            BY <5>1, <5>2 DEF RigNext
        <4>2. CASE RigStops
          <5>1. StopLive /\ main' # "start" /\ tool' = tool
            BY <4>2 DEF RigStops, Main
          <5>2. QED
            BY <5>1 DEF RigNext
        <4>3. CASE RigStopping
          BY <4>3 DEF RigStopping, viewVars, RigNext
        <4>4. QED
          BY <3>1, <4>1, <4>2, <4>3
      <3>2. CASE RigWaited \/ BeginBurst \/ SendCommand \/ Pace \/ EndSends \/ Settle \/ FinishTest
        BY <1>2, <3>2 DEF Main, Throw, MainOnly, RigWaited, BeginBurst, SendCommand, Pace, EndSends, Settle, FinishTest
      <3>3. QED
        BY <2>1, <3>1, <3>2 DEF TestStep
    <2>2. CASE InterruptTest \/ CommandThrows
      BY <1>2, <2>2 DEF InterruptTest, CommandThrows, Throw, Main
    <2>3. CASE \E s \in Streams : RigCamera(s) \/ RigGivesUp(s) \/ RigReads(s)
      BY <1>2, <2>3 DEF RigCamera, RigGivesUp, RigReads, ReaderAlone, viewVars, RigNext
    <2>4. QED
      BY <1>2, <2>1, <2>2, <2>3 DEF TestNext
  <1>3. CASE Watching \/ Pairing(RingPairNext)
    BY <1>3 DEF Watching, Pairing, stereoVars, viewVars
  <1>4. CASE UNCHANGED vars
    BY <1>4 DEF vars, stereoVars, viewVars
  <1>5. QED
    BY <1>1, <1>2, <1>3, <1>4 DEF Next

LEMMA StoppedStays ==
  ASSUME [Next]_vars, main \in {"stop", "done"}, trigger.pc # "send"
  PROVE  main' \in {"stop", "done"}
  <1> USE DEF Main, Throw
  <1>1. CASE Viewing(ViewNext)
    BY <1>1 DEF Viewing, ViewNext, MainStep, Starting, viewVars, PtpWaited, CheckKeys, Arm, StartTriggers,
         PopOnce, LeaveLoop, StopTriggers, StopCalled, Stopping, Finish, TriggerStep, LookAtTrigRun,
         SendTrigger, Sleep, Interrupt, ReportThrows, SendThrows, CameraStep, CameraFails,
         ReaderStep, ReaderPushes
  <1>2. CASE Testing(TestNext)
    BY <1>2 DEF Testing, TestNext, TestStep, RigStarts, viewVars, RigWaited, BeginBurst, SendCommand, Pace,
         EndSends, Settle, RigStops, RigStopping, FinishTest, InterruptTest, CommandThrows, RigCamera, RigGivesUp,
         RigReads
  <1>3. CASE Watching \/ Pairing(RingPairNext) \/ UNCHANGED vars
    BY <1>3 DEF Watching, Pairing, vars, stereoVars, viewVars
  <1>4. QED
    BY <1>1, <1>2, <1>3 DEF Next

-----------------------------------------------------------------------------
(* The instants triggers are scheduled for. *)

TriggerPcs == {"none", "look", "send", "sleep", "exited"}

TriggerType == [pc : TriggerPcs, target : Int, behind : Nat]
CommandType == [target : Int, at : Int, behind : Nat]

\* A command is ahead but for what the thread was behind.
LeadKept(c) == c.target >= c.at + Lead - c.behind

\* Where the trigger thread is, and how far its next trigger is away.
TriggerInv ==
  /\ clock \in Nat /\ trigger \in TriggerType
  /\ sent \in Seq(CommandType)
  /\ tool \in Modes =>
       /\ trigger.pc \in {"look", "send", "sleep"} => LeadKept(Command)
       /\ \A i \in DOMAIN sent : LeadKept(sent[i])

LEMMA WholeSecondLater ==
  ASSUME NEW e \in Nat
  PROVE  WholeSecond(e) \in Nat /\ WholeSecond(e) > e
  <1> DEFINE q == e \div Second
             r == e % Second
  <1>0. Second \in Nat \ {0}
    BY ViewAssumption
  <1>1. q \in Nat /\ r \in 0 .. Second - 1 /\ e = Second * q + r /\ Second \in Nat \ {0}
    BY <1>0
  <1> HIDE DEF q, r
  <1>2. (q + 1) * Second = Second * q + Second /\ Second * q \in Nat
    BY <1>1
  <1>3. WholeSecond(e) = (q + 1) * Second
    BY DEF WholeSecond, q
  <1>4. QED
    BY <1>1, <1>2, <1>3

\* A command that is sent in time.
LEMMA AnotherCommand ==
  ASSUME TriggerInv, NEW c \in CommandType, sent' = Append(sent, c), tool \in Modes => LeadKept(c)
  PROVE  /\ sent' \in Seq(CommandType)
         /\ tool \in Modes => \A i \in DOMAIN sent' : LeadKept(sent'[i])
  <1>1. sent \in Seq(CommandType)
    BY DEF TriggerInv
  <1>2. /\ sent' \in Seq(CommandType)
        /\ \A i \in DOMAIN sent' : (i \in DOMAIN sent /\ sent'[i] = sent[i]) \/ sent'[i] = c
    BY <1>1, AppendProperties
  <1>3. QED
    BY <1>2 DEF TriggerInv

LEMMA TriggersAhead ==
  ASSUME TriggerInv, [Next]_vars
  PROVE  TriggerInv'
  <1> USE DEF Main, Throw, TriggerPcs
  <1>1. Modes \cap Tests = {} /\ Lead \in Nat /\ Period \in Nat /\ TaiOffset \in Nat /\ SendTakes \subseteq Nat
       /\ BurstTakes \subseteq Nat
    BY ViewAssumption, TestAssumption
  <1>2. CASE Viewing(ViewNext)
    <2>1. tool \in Modes /\ tool' = tool
      BY <1>2, StepsOfTheRig DEF Viewing
    <2>2. CASE Arm
      <3>1. CASE UNCHANGED <<clock, sent, trigger>>
        BY <2>1, <3>1 DEF TriggerInv, Command
      <3> DEFINE c == [target |-> WholeSecond(clock + Lead), at |-> clock, behind |-> 0]
      <3>2. CASE sent' = Append(sent, c) /\ UNCHANGED <<clock, trigger>>
        <4>1. clock + Lead \in Nat /\ clock \in Nat
          BY <1>1 DEF TriggerInv
        <4>2. WholeSecond(clock + Lead) \in Int /\ WholeSecond(clock + Lead) > clock + Lead
          BY <4>1, WholeSecondLater
        <4>3. c \in CommandType /\ LeadKept(c)
          BY <1>1, <4>1, <4>2 DEF CommandType, LeadKept
        <4>4. QED
          BY <3>2, <4>3, <2>1, AnotherCommand DEF TriggerInv, Command
      <3>3. QED
        BY <2>2, <3>1, <3>2 DEF Arm
    <2>3. CASE SendTrigger /\ sent # sent'
      <3>1. PICK takes \in SendTakes :
              /\ clock' = clock + takes
              /\ trigger' = [pc |-> "sleep", target |-> trigger.target + Period,
                             behind |-> MaxOf(0, trigger.behind + takes - Period)]
        BY <2>3 DEF SendTrigger
      <3>2. trigger.pc = "send" /\ sent' = Append(sent, Command)
        BY <2>3 DEF SendTrigger
      <3>3. /\ trigger.target \in Int /\ trigger.behind \in Nat /\ clock \in Nat
            /\ Command \in CommandType /\ LeadKept(Command)
        BY <3>2, <2>1 DEF TriggerInv, TriggerType, CommandType, Command
      <3>4. trigger.target >= clock + Lead - trigger.behind
        BY <3>3 DEF LeadKept, Command
      <3> DEFINE b == MaxOf(0, trigger.behind + takes - Period)
      <3>5. b \in Nat /\ trigger.target + Period >= (clock + takes) + Lead - b /\ clock + takes \in Nat
        BY <1>1, <3>3, <3>4 DEF MaxOf
      <3>6. trigger' = [pc |-> "sleep", target |-> trigger.target + Period, behind |-> b]
        BY <3>1
      <3> HIDE DEF b
      <3>7. /\ clock' = clock + takes /\ trigger'.target = trigger.target + Period /\ trigger'.behind = b
            /\ trigger' \in TriggerType
        BY <3>1, <3>3, <3>5, <3>6, <1>1 DEF TriggerType, TriggerPcs
      <3>8. clock' \in Nat /\ LeadKept(Command)'
        BY <3>5, <3>7 DEF LeadKept, Command
      <3>9. QED
        BY <2>1, <3>2, <3>3, <3>7, <3>8, AnotherCommand DEF TriggerInv
    <2>4. CASE Sleep
      <3>1. /\ trigger.pc = "sleep" /\ UNCHANGED <<sent, tool>> /\ trigger' = [trigger EXCEPT !.pc = "look"]
            /\ clock' = IF trigger.target - Lead > clock THEN clock + (trigger.target - Lead - clock) ELSE clock
        BY <2>4 DEF Sleep, PtpNow
      <3>2. /\ trigger.target \in Int /\ trigger.behind \in Nat /\ clock \in Nat
            /\ trigger.target >= clock + Lead - trigger.behind
            /\ trigger' \in TriggerType /\ trigger'.target = trigger.target /\ trigger'.behind = trigger.behind
        BY <3>1, <2>1 DEF TriggerInv, TriggerType, LeadKept, Command
      <3>3. clock' \in Nat /\ trigger'.target >= clock' + Lead - trigger'.behind
        BY <3>1, <3>2, <1>1
      <3>4. QED
        BY <3>1, <3>2, <3>3, <2>1 DEF TriggerInv, LeadKept, Command
    <2>5. CASE StartTriggers
      <3>1. /\ trigger' = [trigger EXCEPT !.pc = "look", !.target = clock + Lead]
            /\ UNCHANGED <<clock, sent>> /\ clock \in Nat /\ trigger \in TriggerType
        BY <2>5 DEF StartTriggers, PtpNow, TriggerInv
      <3>2. /\ trigger' \in TriggerType /\ trigger'.target = clock + Lead /\ trigger'.behind \in Nat
        <4>1. clock + Lead \in Int
          BY <3>1, <1>1
        <4> DEFINE t == clock + Lead
        <4>2. t \in Int /\ trigger' = [trigger EXCEPT !.pc = "look", !.target = t] /\ trigger \in TriggerType
          BY <3>1, <4>1
        <4> HIDE DEF t
        <4>3. trigger' \in TriggerType /\ trigger'.target = t /\ trigger'.behind \in Nat
          BY <4>2 DEF TriggerType
        <4>4. QED
          BY <4>3 DEF t
      <3>3. trigger'.target >= clock' + Lead - trigger'.behind
        <4>1. clock' = clock /\ clock \in Nat /\ Lead \in Nat
          BY <3>1, <1>1
        <4>2. QED
          BY <3>2, <4>1
      <3>4. QED
        BY <2>1, <3>1, <3>2, <3>3 DEF TriggerInv, LeadKept, Command
    <2>6. CASE LookAtTrigRun \/ (SendTrigger /\ sent = sent')
      <3>1. /\ trigger \in TriggerType /\ trigger' \in TriggerType /\ UNCHANGED <<clock, sent>>
            /\ trigger'.target = trigger.target /\ trigger'.behind = trigger.behind
            /\ trigger.pc \in {"look", "send"}
        <4>1. CASE LookAtTrigRun
          BY <4>1 DEF LookAtTrigRun, TriggerInv, TriggerType
        <4>2. CASE SendTrigger /\ sent = sent'
          <5>1. sent # Append(sent, Command)
            <6>1. sent \in Seq(CommandType) /\ Command \in CommandType
              BY DEF TriggerInv, TriggerType, CommandType, Command
            <6>2. Len(Append(sent, Command)) = Len(sent) + 1 /\ Len(sent) \in Nat
              BY <6>1, AppendProperties
            <6>3. QED
              BY <6>2
          <5>2. QED
            BY <4>2, <5>1 DEF SendTrigger, TriggerInv, TriggerType
        <4>3. QED
          BY <2>6, <4>1, <4>2
      <3>2. QED
        BY <3>1, <2>1 DEF TriggerInv, LeadKept, Command
    <2>7. CASE UNCHANGED <<clock, trigger, sent>>
      BY <2>1, <2>7 DEF TriggerInv, Command
    <2>8. QED
      <3>1. CASE MainStep
        BY <3>1, <2>2, <2>5, <2>7 DEF MainStep, Starting, viewVars, PtpWaited, CheckKeys,
             PopOnce, LeaveLoop, StopTriggers, StopCalled, Stopping, Finish
      <3>2. CASE TriggerStep \/ Interrupt \/ ReportThrows \/ SendThrows
        BY <3>2, <2>3, <2>4, <2>6, <2>7 DEF TriggerStep, Interrupt, ReportThrows, SendThrows
      <3>3. CASE \E s \in Streams : CameraStep(s) \/ CameraFails(s) \/ ReaderStep(s)
        BY <3>3, <2>7 DEF CameraStep, CameraFails, ReaderStep, ReaderPushes, viewVars
      <3>4. QED
        BY <1>2, <3>1, <3>2, <3>3 DEF ViewNext, Viewing
  <1>3. CASE Testing(TestNext)
    <2>1. tool \notin Modes /\ tool' = tool
      BY <1>1, <1>3, StepsOfTheRig DEF Testing
    <2>2. CASE SendCommand
      <3>1. PICK takes \in BurstTakes : clock' = clock + takes
        BY <2>2 DEF SendCommand
      <3>2. sent' = Append(sent, Command) /\ trigger' = trigger
        BY <2>2 DEF SendCommand
      <3>3. Command \in CommandType
        BY DEF TriggerInv, TriggerType, CommandType, Command
      <3>4. QED
        BY <3>1, <3>2, <3>3, <2>1, <1>1, AnotherCommand DEF TriggerInv
    <2>3. CASE BeginBurst
      BY <2>1, <2>3, <1>1 DEF BeginBurst, HostNow, TriggerInv, TriggerType
    <2>4. CASE Pace
      <3>1. CASE UNCHANGED <<trigger, clock, sent>>
        BY <3>1, <2>1 DEF TriggerInv
      <3>2. CASE /\ trigger' = [trigger EXCEPT !.target = @ + Period] /\ sent' = sent
                 /\ clock' = LET wait == trigger.target + Period - Lead - HostNow
                             IN IF wait > 0 THEN clock + wait ELSE clock
        <4>1. /\ trigger.target \in Int /\ clock \in Nat /\ clock - TaiOffset \in Int
              /\ trigger' \in TriggerType
          BY <3>2, <1>1 DEF TriggerInv, TriggerType
        <4>2. clock' \in Nat
          BY <3>2, <4>1, <1>1 DEF HostNow
        <4>3. QED
          BY <3>2, <4>1, <4>2, <2>1 DEF TriggerInv
      <3>3. QED
        BY <2>4, <3>1, <3>2 DEF Pace
    <2>5. CASE UNCHANGED <<clock, trigger, sent>>
      BY <2>1, <2>5 DEF TriggerInv
    <2>6. QED
      <3>1. CASE TestStep
        BY <3>1, <2>2, <2>3, <2>4, <2>5 DEF TestStep, RigStarts, viewVars, RigWaited, EndSends, Settle,
             RigStops, RigStopping, FinishTest
      <3>2. CASE InterruptTest \/ CommandThrows \/ \E s \in Streams : RigCamera(s) \/ RigGivesUp(s) \/ RigReads(s)
        BY <3>2, <2>5 DEF InterruptTest, CommandThrows, RigCamera, RigGivesUp, RigReads, viewVars
      <3>3. QED
        BY <1>3, <3>1, <3>2 DEF TestNext, Testing
  <1>4. CASE Watching \/ Pairing(RingPairNext) \/ UNCHANGED vars
    BY <1>4 DEF Watching, Pairing, vars, stereoVars, viewVars, TriggerInv, Command
  <1>5. QED
    BY <1>2, <1>3, <1>4 DEF Next

LEMMA TriggersStart == Init => TriggerInv
  <1> SUFFICES ASSUME Init PROVE TriggerInv
    OBVIOUS
  <1>1. clock \in Nat /\ sent = <<>> /\ trigger \in TriggerType /\ trigger.pc = "none"
    BY ViewAssumption DEF Init, ViewInit, TriggerType, TriggerPcs
  <1>2. QED
    BY <1>1 DEF TriggerInv

(* A command is sent a whole lead before the instant it is for, by the clock the cameras *)
(* have, but for what the sends before it overran and later ones have not made up: however *)
(* long a send waits for its acknowledgements, nothing else ever makes a trigger late.   *)
THEOREM CommandsInTime == Spec => []ScheduledAhead
  <1>1. Init => TriggerInv
    BY TriggersStart
  <1>2. TriggerInv /\ [Next]_vars => TriggerInv'
    BY TriggersAhead
  <1>3. TriggerInv => ScheduledAhead
    BY DEF TriggerInv, ScheduledAhead, LeadKept
  <1>4. QED
    BY <1>1, <1>2, <1>3, PTL DEF Spec

-----------------------------------------------------------------------------
(* The sinks: a buffer in flight is in one place, and the frames come in order. *)

RigTypes ==
  /\ camera \in [Streams -> {"off", "on", "failed", "draining", "stopped"}]
  /\ exposed \in [Streams -> Nat] /\ \A s \in Streams : exposed[s] <= Len(Shots[s])
  /\ buffer \in [Streams -> [1 .. Buffers -> Nat]]
  /\ ready \in [Streams -> Seq(1 .. Buffers)]
  /\ running \in BOOLEAN /\ open \in [Streams -> BOOLEAN]
  /\ reader \in [Streams -> [pc : {"none", "pop", "call", "release", "exited"}, buffer : 0 .. Buffers]]
  /\ stop \in [phase : 0 .. Len(StopOrder) + 1, stream : Streams]
  /\ main = "start" => \A s \in Streams : camera[s] = "off" => ready[s] = <<>> /\ reader[s].buffer = NoBuffer

InHands(s) == reader[s].pc \in {"call", "release"}

\* The buffers in flight, and the frames in them.
BuffersInLine(s) ==
  /\ InHands(s) <=> reader[s].buffer # NoBuffer
  /\ \A b \in 1 .. Buffers :
       buffer[s][b] # Idle <=> (reader[s].buffer = b \/ \E i \in 1 .. Len(ready[s]) : ready[s][i] = b)
  /\ \A b \in 1 .. Buffers : buffer[s][b] <= exposed[s]
  /\ \A i, j \in 1 .. Len(ready[s]) : i < j => buffer[s][ready[s][i]] < buffer[s][ready[s][j]]
  /\ InHands(s) => \A i \in 1 .. Len(ready[s]) : buffer[s][reader[s].buffer] < buffer[s][ready[s][i]]

RigInv == RigTypes /\ \A s \in Streams : BuffersInLine(s)

\* What a step that has to do with one stream leaves of the others.
OthersKept(s) ==
  \A r \in Streams \ {s} :
    /\ buffer'[r] = buffer[r] /\ ready'[r] = ready[r] /\ reader'[r] = reader[r] /\ exposed'[r] = exposed[r]

LEMMA OthersInLine ==
  ASSUME RigInv, NEW s \in Streams, OthersKept(s), BuffersInLine(s)'
  PROVE  \A r \in Streams : BuffersInLine(r)'
  <1> TAKE r \in Streams
  <1>1. CASE r # s
    <2>1. BuffersInLine(r)
      BY DEF RigInv
    <2>2. /\ buffer'[r] = buffer[r] /\ ready'[r] = ready[r]
          /\ reader'[r] = reader[r] /\ exposed'[r] = exposed[r]
      BY <1>1 DEF OthersKept
    <2>3. QED
      BY <2>1, <2>2 DEF BuffersInLine, InHands
  <1>2. QED
    BY <1>1

LEMMA StreamsCounted == Streams = 1 .. Len(Shots) /\ Len(Shots) = 2 /\ Streams = {1, 2}
  <1>1. Len(Shots) = 2 /\ Shots \in Seq(Seq(Nat \ {0}))
    BY PairerAssumption, ShotsAssumption
  <1>2. QED
    BY <1>1 DEF Streams

\* The rig as one step of it finds it.
LEMMA RigFacts ==
  ASSUME RigInv, NEW s \in Streams
  PROVE  /\ camera[s] \in {"off", "on", "failed", "draining", "stopped"}
         /\ exposed[s] \in Nat /\ exposed[s] <= Len(Shots[s])
         /\ buffer[s] \in [1 .. Buffers -> Nat] /\ ready[s] \in Seq(1 .. Buffers)
         /\ reader[s] \in [pc : {"none", "pop", "call", "release", "exited"}, buffer : 0 .. Buffers]
         /\ BuffersInLine(s) /\ Len(Shots[s]) \in Nat
  BY ShotsAssumption DEF RigInv, RigTypes, Streams

LEMMA CommitInLine ==
  ASSUME RigInv, NEW s \in Streams, Commit(s), main' = "start" => main = "start"
  PROVE  RigInv'
  <1>1. PICK b \in 1 .. Buffers :
          /\ buffer[s][b] = Idle /\ buffer' = [buffer EXCEPT ![s][b] = exposed[s] + 1]
          /\ ready' = [ready EXCEPT ![s] = Append(@, b)]
    BY DEF Commit
  <1>2. /\ camera[s] = "on" /\ exposed[s] < Len(Shots[s]) /\ exposed' = [exposed EXCEPT ![s] = @ + 1]
        /\ UNCHANGED <<camera, open, reader, running, stop>>
    BY DEF Commit, controlVars
  <1>3. /\ exposed[s] \in Nat /\ buffer[s] \in [1 .. Buffers -> Nat] /\ ready[s] \in Seq(1 .. Buffers)
        /\ Len(Shots[s]) \in Nat /\ BuffersInLine(s)
    BY RigFacts
  <1>4. /\ buffer' \in [Streams -> [1 .. Buffers -> Nat]]
        /\ buffer'[s] = [buffer[s] EXCEPT ![b] = exposed[s] + 1]
        /\ \A r \in Streams : r # s => buffer'[r] = buffer[r]
    BY <1>1, <1>3 DEF RigInv, RigTypes
  <1>5. /\ Append(ready[s], b) \in Seq(1 .. Buffers) /\ Len(Append(ready[s], b)) = Len(ready[s]) + 1
        /\ \A i \in 1 .. Len(ready[s]) : Append(ready[s], b)[i] = ready[s][i]
        /\ Append(ready[s], b)[Len(ready[s]) + 1] = b /\ Len(ready[s]) \in Nat
    BY <1>3, AppendProperties
  <1>6. /\ ready' \in [Streams -> Seq(1 .. Buffers)] /\ ready'[s] = Append(ready[s], b)
        /\ \A r \in Streams : r # s => ready'[r] = ready[r]
        /\ exposed' \in [Streams -> Nat] /\ exposed'[s] = exposed[s] + 1
        /\ \A r \in Streams : r # s => exposed'[r] = exposed[r]
    BY <1>1, <1>2, <1>3, <1>5 DEF RigInv, RigTypes
  <1>7. RigTypes'
    <2>1. \A r \in Streams : exposed'[r] <= Len(Shots[r])
      BY SMTT(30), <1>2, <1>3, <1>6 DEF RigInv, RigTypes
    <2>2. main' = "start" => \A r \in Streams : camera'[r] = "off" => ready'[r] = <<>> /\ reader'[r].buffer = NoBuffer
      BY <1>2, <1>6 DEF RigInv, RigTypes
    <2>3. QED
      BY <1>2, <1>4, <1>6, <2>1, <2>2 DEF RigInv, RigTypes
  <1>8. OthersKept(s)
    BY <1>2, <1>4, <1>6 DEF OthersKept
  <1>9. BuffersInLine(s)'
    <2>1. \A i \in 1 .. Len(ready[s]) : ready[s][i] \in 1 .. Buffers /\ ready[s][i] # b
      BY <1>1, <1>3, ElementOfSeq DEF BuffersInLine
    <2>2. reader[s].buffer # b /\ reader' = reader
      BY <1>1, <1>2, <1>3 DEF BuffersInLine
    <2>3. \A c \in 1 .. Buffers :
            buffer'[s][c] # Idle <=> (reader[s].buffer = c \/ \E i \in 1 .. Len(ready'[s]) : ready'[s][i] = c)
      <3> TAKE c \in 1 .. Buffers
      <3>1. buffer'[s][c] = IF c = b THEN exposed[s] + 1 ELSE buffer[s][c]
        BY <1>3, <1>4
      <3>2. (\E i \in 1 .. Len(ready'[s]) : ready'[s][i] = c)
              <=> c = b \/ \E i \in 1 .. Len(ready[s]) : ready[s][i] = c
        <4>1. 1 .. Len(ready'[s]) = (1 .. Len(ready[s])) \cup {Len(ready[s]) + 1}
          BY <1>5, <1>6
        <4>2. QED
          BY <1>5, <1>6, <4>1
      <3>3. exposed[s] + 1 # Idle
        BY <1>3 DEF Idle
      <3>4. QED
        BY <1>3, <3>1, <3>2, <3>3 DEF BuffersInLine
    <2>4. \A c \in 1 .. Buffers : buffer'[s][c] <= exposed'[s]
      <3> TAKE c \in 1 .. Buffers
      <3>1. buffer'[s][c] = IF c = b THEN exposed[s] + 1 ELSE buffer[s][c]
        BY <1>3, <1>4
      <3>2. buffer[s][c] <= exposed[s] /\ buffer[s][c] \in Nat
        BY <1>3 DEF BuffersInLine
      <3>3. QED
        BY <1>3, <1>6, <3>1, <3>2
    <2>5. \A i, j \in 1 .. Len(ready'[s]) : i < j => buffer'[s][ready'[s][i]] < buffer'[s][ready'[s][j]]
      <3> TAKE i, j \in 1 .. Len(ready'[s])
      <3> HAVE i < j
      <3>1. i \in 1 .. Len(ready[s]) /\ ready'[s][i] = ready[s][i] /\ ready[s][i] \in 1 .. Buffers
            /\ buffer'[s][ready'[s][i]] = buffer[s][ready[s][i]]
        BY <1>3, <1>4, <1>5, <1>6, <2>1
      <3>2. CASE j \in 1 .. Len(ready[s])
        <4>1. ready'[s][j] = ready[s][j] /\ buffer'[s][ready'[s][j]] = buffer[s][ready[s][j]]
          BY <1>3, <1>4, <1>5, <1>6, <2>1, <3>2
        <4>2. QED
          BY <1>3, <3>1, <3>2, <4>1 DEF BuffersInLine
      <3>3. CASE j = Len(ready[s]) + 1
        <4>1. buffer'[s][ready'[s][j]] = exposed[s] + 1
          BY <1>3, <1>4, <1>5, <1>6, <3>3
        <4>2. buffer[s][ready[s][i]] <= exposed[s] /\ buffer[s][ready[s][i]] \in Nat
          BY <1>3, <3>1 DEF BuffersInLine
        <4>3. QED
          BY <1>3, <3>1, <4>1, <4>2
      <3>4. QED
        BY <1>5, <1>6, <3>2, <3>3
    <2>6. InHands(s) => \A i \in 1 .. Len(ready'[s]) : buffer'[s][reader[s].buffer] < buffer'[s][ready'[s][i]]
      <3> HAVE InHands(s)
      <3> TAKE i \in 1 .. Len(ready'[s])
      <3>1. reader[s].buffer \in 1 .. Buffers /\ buffer'[s][reader[s].buffer] = buffer[s][reader[s].buffer]
        BY <1>3, <1>4, <2>2, RigFacts DEF BuffersInLine, NoBuffer
      <3>2. CASE i \in 1 .. Len(ready[s])
        <4>1. ready'[s][i] = ready[s][i] /\ buffer'[s][ready'[s][i]] = buffer[s][ready[s][i]]
          BY <1>3, <1>4, <1>5, <1>6, <2>1, <3>2
        <4>2. QED
          BY <1>3, <3>1, <3>2, <4>1 DEF BuffersInLine
      <3>3. CASE i = Len(ready[s]) + 1
        <4>1. buffer'[s][ready'[s][i]] = exposed[s] + 1
          BY <1>3, <1>4, <1>5, <1>6, <3>3
        <4>2. buffer[s][reader[s].buffer] <= exposed[s] /\ buffer[s][reader[s].buffer] \in Nat
          BY <1>3, <3>1 DEF BuffersInLine
        <4>3. QED
          BY <1>3, <3>1, <4>1, <4>2
      <3>4. QED
        BY <1>5, <1>6, <3>2, <3>3
    <2>7. QED
      BY <1>2, <1>3, <2>2, <2>3, <2>4, <2>5, <2>6 DEF BuffersInLine, InHands
  <1>10. QED
    BY <1>7, <1>8, <1>9, OthersInLine DEF RigInv

LEMMA PopInLine ==
  ASSUME RigInv, NEW s \in Streams, Pop(s), main' = "start" => main = "start"
  PROVE  RigInv'
  <1>1. /\ reader[s].pc = "pop" /\ ready[s] # <<>>
        /\ reader' = [reader EXCEPT ![s] = [pc |-> "call", buffer |-> Head(ready[s])]]
        /\ ready' = [ready EXCEPT ![s] = Tail(@)]
        /\ UNCHANGED <<camera, exposed, buffer, open, running, stop>>
    BY DEF Pop, cameraVars, controlVars
  <1>2. /\ buffer[s] \in [1 .. Buffers -> Nat] /\ ready[s] \in Seq(1 .. Buffers) /\ BuffersInLine(s)
        /\ Buffers \in Nat /\ ~InHands(s) /\ reader[s].buffer = NoBuffer
    BY <1>1, RigFacts, BuffersAssumption DEF BuffersInLine, InHands
  <1>3. /\ Head(ready[s]) \in 1 .. Buffers /\ Head(ready[s]) = ready[s][1]
        /\ Tail(ready[s]) \in Seq(1 .. Buffers) /\ Len(Tail(ready[s])) = Len(ready[s]) - 1
        /\ \A i \in 1 .. Len(ready[s]) - 1 : Tail(ready[s])[i] = ready[s][i + 1]
        /\ Len(ready[s]) \in Nat /\ Len(ready[s]) >= 1
    <2>1. Len(ready[s]) \in Nat /\ Len(ready[s]) >= 1
      BY <1>1, <1>2, LenProperties, EmptySeq
    <2>2. ready[s][1] \in 1 .. Buffers
      BY <1>2, <2>1, ElementOfSeq
    <2>3. QED
      <3>1. /\ Head(ready[s]) \in 1 .. Buffers /\ Tail(ready[s]) \in Seq(1 .. Buffers)
            /\ Len(Tail(ready[s])) = Len(ready[s]) - 1
            /\ \A i \in 1 .. Len(Tail(ready[s])) : Tail(ready[s])[i] = ready[s][i + 1]
        BY <1>1, <1>2, HeadTailProperties
      <3>2. Head(ready[s]) = ready[s][1]
        BY <1>1, <1>2
      <3>3. QED
        BY <2>1, <3>1, <3>2
  <1>4. /\ reader' \in [Streams -> [pc : {"none", "pop", "call", "release", "exited"}, buffer : 0 .. Buffers]]
        /\ reader'[s] = [pc |-> "call", buffer |-> Head(ready[s])]
        /\ \A r \in Streams : r # s => reader'[r] = reader[r]
        /\ ready' \in [Streams -> Seq(1 .. Buffers)] /\ ready'[s] = Tail(ready[s])
        /\ \A r \in Streams : r # s => ready'[r] = ready[r]
    BY <1>1, <1>2, <1>3 DEF RigInv, RigTypes
  <1>5. RigTypes'
    <2>1. main' = "start" => \A r \in Streams : camera'[r] = "off" => ready'[r] = <<>> /\ reader'[r].buffer = NoBuffer
      BY <1>1, <1>4 DEF RigInv, RigTypes
    <2>2. QED
      BY <1>1, <1>4, <2>1 DEF RigInv, RigTypes
  <1>6. OthersKept(s)
    BY <1>1, <1>4 DEF OthersKept
  <1>7. BuffersInLine(s)'
    <2>1. InHands(s)' /\ reader'[s].buffer = ready[s][1] /\ reader'[s].buffer # NoBuffer
      BY <1>3, <1>4 DEF InHands, NoBuffer
    <2>2. \A b \in 1 .. Buffers :
            buffer[s][b] # Idle <=> (ready[s][1] = b \/ \E i \in 1 .. Len(ready'[s]) : ready'[s][i] = b)
      <3> TAKE b \in 1 .. Buffers
      <3>1. buffer[s][b] # Idle <=> \E i \in 1 .. Len(ready[s]) : ready[s][i] = b
        BY <1>2 DEF BuffersInLine, NoBuffer
      <3>2. (\E i \in 1 .. Len(ready[s]) : ready[s][i] = b)
              <=> ready[s][1] = b \/ \E i \in 1 .. Len(ready[s]) - 1 : ready[s][i + 1] = b
        <4>1. \A i \in 1 .. Len(ready[s]) : i = 1 \/ (i - 1 \in 1 .. Len(ready[s]) - 1 /\ (i - 1) + 1 = i)
          BY <1>3
        <4>2. 1 \in 1 .. Len(ready[s]) /\ \A i \in 1 .. Len(ready[s]) - 1 : i + 1 \in 1 .. Len(ready[s])
          BY <1>3
        <4>3. QED
          BY <4>1, <4>2
      <3>3. QED
        BY <1>3, <1>4, <3>1, <3>2
    <2>3. \A i \in 1 .. Len(ready'[s]) : ready'[s][i] = ready[s][i + 1] /\ i + 1 \in 2 .. Len(ready[s])
      BY <1>3, <1>4
    <2>4. \A i, j \in 1 .. Len(ready'[s]) : i < j => buffer[s][ready'[s][i]] < buffer[s][ready'[s][j]]
      <3> TAKE i, j \in 1 .. Len(ready'[s])
      <3> HAVE i < j
      <3>1. i + 1 \in 1 .. Len(ready[s]) /\ j + 1 \in 1 .. Len(ready[s]) /\ i + 1 < j + 1
        BY <1>3, <1>4
      <3>2. QED
        BY <1>2, <2>3, <3>1 DEF BuffersInLine
    <2>5. \A i \in 1 .. Len(ready'[s]) : buffer[s][ready[s][1]] < buffer[s][ready'[s][i]]
      <3> TAKE i \in 1 .. Len(ready'[s])
      <3>1. i + 1 \in 1 .. Len(ready[s]) /\ 1 \in 1 .. Len(ready[s]) /\ 1 < i + 1
        BY <1>3, <1>4
      <3>2. QED
        BY <1>2, <2>3, <3>1 DEF BuffersInLine
    <2>6. QED
      BY <1>1, <1>2, <2>1, <2>2, <2>4, <2>5 DEF BuffersInLine
  <1>8. QED
    BY <1>5, <1>6, <1>7, OthersInLine DEF RigInv

LEMMA ReleaseInLine ==
  ASSUME RigInv, NEW s \in Streams, Release(s), main' = "start" => main = "start"
  PROVE  RigInv'
  <1> DEFINE b == reader[s].buffer
  <1>1. /\ reader[s].pc = "release" /\ buffer' = [buffer EXCEPT ![s][b] = Idle]
        /\ reader' = [reader EXCEPT ![s] = [pc |-> Again, buffer |-> NoBuffer]]
        /\ UNCHANGED <<camera, exposed, ready, open, running, stop>>
    BY DEF Release, cameraVars, controlVars
  <1>2. /\ buffer[s] \in [1 .. Buffers -> Nat] /\ ready[s] \in Seq(1 .. Buffers) /\ BuffersInLine(s)
        /\ Buffers \in Nat /\ InHands(s) /\ b \in 1 .. Buffers /\ Len(ready[s]) \in Nat
    BY <1>1, RigFacts, BuffersAssumption, LenProperties DEF BuffersInLine, InHands, NoBuffer
  <1>3. Again \in {"pop", "exited"}
    BY DEF Again
  <1>4. /\ reader' \in [Streams -> [pc : {"none", "pop", "call", "release", "exited"}, buffer : 0 .. Buffers]]
        /\ reader'[s] = [pc |-> Again, buffer |-> NoBuffer]
        /\ \A r \in Streams : r # s => reader'[r] = reader[r]
        /\ buffer' \in [Streams -> [1 .. Buffers -> Nat]] /\ buffer'[s] = [buffer[s] EXCEPT ![b] = Idle]
        /\ \A r \in Streams : r # s => buffer'[r] = buffer[r]
    BY SMTT(30), <1>1, <1>2, <1>3 DEF RigInv, RigTypes, Idle, NoBuffer
  <1> HIDE DEF b
  <1>5. RigTypes'
    <2>1. main' = "start" => \A r \in Streams : camera'[r] = "off" => ready'[r] = <<>> /\ reader'[r].buffer = NoBuffer
      BY <1>1, <1>4 DEF RigInv, RigTypes
    <2>2. QED
      BY <1>1, <1>4, <2>1 DEF RigInv, RigTypes
  <1>6. OthersKept(s)
    BY <1>1, <1>4 DEF OthersKept
  <1>7. BuffersInLine(s)'
    <2>1. ~InHands(s)' /\ reader'[s].buffer = NoBuffer
      BY <1>3, <1>4 DEF InHands
    <2>2. \A i \in 1 .. Len(ready[s]) :
            /\ ready[s][i] \in 1 .. Buffers /\ ready[s][i] # b
            /\ buffer'[s][ready[s][i]] = buffer[s][ready[s][i]]
      <3> TAKE i \in 1 .. Len(ready[s])
      <3>1. ready[s][i] \in 1 .. Buffers
        BY <1>2, ElementOfSeq
      <3>2. buffer[s][b] < buffer[s][ready[s][i]] /\ buffer[s][b] \in Nat
        BY <1>2 DEF BuffersInLine, b
      <3>3. buffer[s][ready[s][i]] \in Nat /\ ready[s][i] # b
        BY <1>2, <3>1, <3>2
      <3>4. QED
        BY <1>2, <1>4, <3>1, <3>3
    <2>3. \A c \in 1 .. Buffers : buffer'[s][c] = IF c = b THEN 0 ELSE buffer[s][c]
      BY <1>2, <1>4 DEF Idle
    <2>4. \A c \in 1 .. Buffers : buffer'[s][c] # Idle <=> \E i \in 1 .. Len(ready[s]) : ready[s][i] = c
      BY <1>2, <2>2, <2>3 DEF BuffersInLine, Idle, b
    <2>5. \A c \in 1 .. Buffers : buffer'[s][c] <= exposed[s]
      <3>1. exposed[s] \in Nat
        BY RigFacts
      <3>2. \A c \in 1 .. Buffers : buffer[s][c] <= exposed[s]
        BY <1>2 DEF BuffersInLine
      <3>3. QED
        BY <2>3, <3>1, <3>2
    <2>6. \A i, j \in 1 .. Len(ready[s]) : i < j => buffer'[s][ready[s][i]] < buffer'[s][ready[s][j]]
      BY <1>2, <2>2 DEF BuffersInLine
    <2>7. QED
      BY <1>1, <2>1, <2>4, <2>5, <2>6 DEF BuffersInLine, NoBuffer
  <1>8. QED
    BY <1>5, <1>6, <1>7, OthersInLine DEF RigInv

\* A reader that goes on with the buffer it has, or with none.
LEMMA ReaderInLine ==
  ASSUME RigInv, NEW s \in Streams, Callback(s) \/ PopNothing(s), main' = "start" => main = "start"
  PROVE  RigInv'
  <1>1. PICK pc \in {"pop", "release", "exited"} :
          /\ reader' = [reader EXCEPT ![s].pc = pc]
          /\ pc = "release" <=> reader[s].pc \in {"call", "release"}
    BY DEF Callback, PopNothing, Again
  <1>2. UNCHANGED <<camera, exposed, buffer, ready, open, running, stop>>
    BY DEF Callback, PopNothing, cameraVars, sinkVars, controlVars
  <1>3. /\ reader' \in [Streams -> [pc : {"none", "pop", "call", "release", "exited"}, buffer : 0 .. Buffers]]
        /\ reader'[s].pc = pc /\ reader'[s].buffer = reader[s].buffer
        /\ \A r \in Streams : r # s => reader'[r] = reader[r]
    BY <1>1 DEF RigInv, RigTypes
  <1>4. RigTypes'
    <2>1. main' = "start" => \A r \in Streams : camera'[r] = "off" => ready'[r] = <<>> /\ reader'[r].buffer = NoBuffer
      BY <1>2, <1>3 DEF RigInv, RigTypes
    <2>2. QED
      BY <1>2, <1>3, <2>1 DEF RigInv, RigTypes
  <1>5. OthersKept(s)
    BY <1>2, <1>3 DEF OthersKept
  <1>6. BuffersInLine(s)
    BY RigFacts
  <1>7. BuffersInLine(s)'
    BY <1>1, <1>2, <1>3, <1>6 DEF BuffersInLine, InHands
  <1>8. QED
    BY <1>4, <1>5, <1>7, OthersInLine DEF RigInv

\* What moves no frame.
LEMMA RestInLine ==
  ASSUME RigInv, UNCHANGED <<buffer, ready>>, exposed' \in [Streams -> Nat],
         \A s \in Streams : exposed[s] <= exposed'[s] /\ exposed'[s] <= Len(Shots[s]),
         camera' \in [Streams -> {"off", "on", "failed", "draining", "stopped"}],
         running' \in BOOLEAN, open' \in [Streams -> BOOLEAN],
         stop' \in [phase : 0 .. Len(StopOrder) + 1, stream : Streams],
         main' = "start" => main = "start" /\ \A s \in Streams : camera'[s] = "off" => camera[s] = "off",
         reader' \in [Streams -> [pc : {"none", "pop", "call", "release", "exited"}, buffer : 0 .. Buffers]],
         \A s \in Streams : reader'[s].buffer = reader[s].buffer /\ (InHands(s)' <=> InHands(s))
  PROVE  RigInv'
  <1>1. RigTypes'
    <2>1. main' = "start" => \A r \in Streams : camera'[r] = "off" => ready'[r] = <<>> /\ reader'[r].buffer = NoBuffer
      BY DEF RigInv, RigTypes
    <2>2. QED
      BY <2>1 DEF RigInv, RigTypes
  <1>2. ASSUME NEW s \in Streams PROVE BuffersInLine(s)'
    <2>1. BuffersInLine(s) /\ exposed[s] \in Nat /\ exposed'[s] \in Nat /\ buffer[s] \in [1 .. Buffers -> Nat]
      BY RigFacts
    <2>2. \A b \in 1 .. Buffers : buffer'[s][b] <= exposed'[s]
      <3>1. \A b \in 1 .. Buffers : buffer[s][b] <= exposed[s] /\ buffer[s][b] \in Nat
        BY <2>1 DEF BuffersInLine
      <3>2. exposed[s] <= exposed'[s]
        OBVIOUS
      <3>3. QED
        BY <2>1, <3>1, <3>2
    <2>3. QED
      BY <2>1, <2>2 DEF BuffersInLine
  <1>3. QED
    BY <1>1, <1>2 DEF RigInv

LEMMA StreamsStep ==
  ASSUME RigInv, NEW s \in Streams, camera[s] = "off", main = "start",
         running' = TRUE, reader' = [reader EXCEPT ![s].pc = "pop"],
         camera' = camera \/ camera' = [camera EXCEPT ![s] = "on"],
         UNCHANGED <<exposed, buffer, ready, open, stop>>
  PROVE  RigInv'
  <1>1. reader[s].buffer = NoBuffer /\ BuffersInLine(s)
    BY DEF RigInv, RigTypes
  <1>2. /\ reader' \in [Streams -> [pc : {"none", "pop", "call", "release", "exited"}, buffer : 0 .. Buffers]]
        /\ reader'[s].pc = "pop" /\ reader'[s].buffer = reader[s].buffer
        /\ \A r \in Streams : r # s => reader'[r] = reader[r]
    BY DEF RigInv, RigTypes
  <1>7. /\ camera' \in [Streams -> {"off", "on", "failed", "draining", "stopped"}]
        /\ \A r \in Streams : camera'[r] = "off" => camera[r] = "off"
    <2>1. CASE camera' = camera
      BY <2>1 DEF RigInv, RigTypes
    <2>2. CASE camera' = [camera EXCEPT ![s] = "on"]
      BY <2>2 DEF RigInv, RigTypes
    <2>3. QED
      BY <2>1, <2>2
  <1>3. \A r \in Streams : reader'[r].buffer = reader[r].buffer /\ (InHands(r)' <=> InHands(r))
    BY <1>1, <1>2 DEF InHands, BuffersInLine
  <1>4. /\ \A r \in Streams : exposed[r] <= exposed'[r] /\ exposed'[r] <= Len(Shots[r])
        /\ exposed' \in [Streams -> Nat]
    BY RigFacts DEF RigInv, RigTypes
  <1>5. /\ open' \in [Streams -> BOOLEAN]
        /\ stop' \in [phase : 0 .. Len(StopOrder) + 1, stream : Streams]
    BY DEF RigInv, RigTypes
  <1>6. QED
    BY <1>2, <1>7, <1>3, <1>4, <1>5, RestInLine

LEMMA StopsInLine ==
  ASSUME RigInv, StopLive \/ StopStep, main' = "start" => main = "start"
  PROVE  RigInv'
  <1>1. UNCHANGED <<buffer, ready, reader, exposed>>
    BY DEF StopLive, StopStep, StopSource, Drained, ClearRunning, CloseSink, JoinReader,
         cameraVars, sinkVars, controlVars
  <1>2. stop \in [phase : 0 .. 4, stream : 1 .. 2] /\ Streams = 1 .. 2 /\ Len(Shots) = 2
    BY StreamsCounted DEF RigInv, RigTypes, StopOrder
  <1>3. stop.phase = 0 => StopLive \/ ~StopStep
    BY DEF StopStep, StopSource, Drained, ClearRunning, CloseSink, JoinReader, Phase, StopOrder
  <1>4. Phase \in {"sources", "running", "sinks"} => stop.phase \in 1 .. 3
    BY <1>2 DEF Phase, StopOrder
  <1>5. stop' \in [phase : 0 .. 4, stream : 1 .. 2]
    <2>1. CASE StopLive
      BY <1>2, <2>1 DEF StopLive, StopOrder
    <2>2. CASE StopStep
      <3>1. stop.phase \in 1 .. 3
        BY <1>4, <2>2 DEF StopStep, StopSource, Drained, ClearRunning, CloseSink, JoinReader
      <3>2. NextStream \in [phase : 0 .. 4, stream : 1 .. 2]
        BY <1>2, <3>1 DEF NextStream
      <3>3. QED
        BY <1>2, <2>2, <3>1, <3>2 DEF StopStep, StopSource, Drained, ClearRunning, CloseSink, JoinReader,
             controlVars
    <2>3. QED
      BY <2>1, <2>2
  <1>6. /\ camera' \in [Streams -> {"off", "on", "failed", "draining", "stopped"}]
        /\ \A r \in Streams : camera'[r] = "off" => camera[r] = "off"
        /\ running' \in BOOLEAN /\ open' \in [Streams -> BOOLEAN]
    <2>1. CASE UNCHANGED camera /\ (UNCHANGED open \/ open' = [open EXCEPT ![stop.stream] = FALSE])
      BY <2>1 DEF StopLive, StopStep, StopSource, Drained, ClearRunning, CloseSink, JoinReader,
           controlVars, RigInv, RigTypes
    <2>2. CASE /\ UNCHANGED <<open, running>>
               /\ \E c \in {"draining", "stopped"} : camera' = [camera EXCEPT ![stop.stream] = c]
      BY <2>2 DEF RigInv, RigTypes
    <2>3. QED
      BY <2>1, <2>2 DEF StopLive, StopStep, StopSource, Drained, ClearRunning, CloseSink, JoinReader,
           cameraVars, sinkVars, controlVars
  <1>7. /\ \A r \in Streams : exposed[r] <= exposed'[r] /\ exposed'[r] <= Len(Shots[r])
        /\ exposed' \in [Streams -> Nat]
    BY <1>1, RigFacts DEF RigInv, RigTypes
  <1>8. /\ reader' \in [Streams -> [pc : {"none", "pop", "call", "release", "exited"}, buffer : 0 .. Buffers]]
        /\ \A s \in Streams : reader'[s].buffer = reader[s].buffer /\ (InHands(s)' <=> InHands(s))
    BY <1>1 DEF RigInv, RigTypes, InHands
  <1>9. stop' \in [phase : 0 .. Len(StopOrder) + 1, stream : Streams]
    BY <1>2, <1>5 DEF StopOrder
  <1>10. QED
    BY <1>1, <1>6, <1>7, <1>8, <1>9, RestInLine

LEMMA RigKept ==
  ASSUME RigInv, [Next]_vars
  PROVE  RigInv'
  <1>1. (RigNext \/ UNCHANGED liveVars) /\ (main' = "start" => main = "start")
    BY StepsOfTheRig
  <1>2. ASSUME NEW s \in Streams, StartStream(s) \/ StartThrows(s), main = "start"
        PROVE  RigInv'
    BY <1>2, StreamsStep DEF StartStream, StartThrows, sinkVars, cameraVars
  <1>3. ASSUME NEW s \in Streams, Starve(s) \/ GiveUp(s)
        PROVE  RigInv'
    <2>1. UNCHANGED <<buffer, ready, open, reader, running, stop>>
      BY <1>3 DEF Starve, GiveUp, sinkVars, controlVars
    <2>2. /\ exposed' \in [Streams -> Nat]
          /\ \A r \in Streams : exposed[r] <= exposed'[r] /\ exposed'[r] <= Len(Shots[r])
      <3>1. CASE exposed' = exposed
        BY <3>1, RigFacts DEF RigInv, RigTypes
      <3>2. CASE exposed[s] < Len(Shots[s]) /\ exposed' = [exposed EXCEPT ![s] = @ + 1]
        <4>1. exposed[s] \in Nat /\ Len(Shots[s]) \in Nat /\ exposed \in [Streams -> Nat]
          BY RigFacts DEF RigInv, RigTypes
        <4>2. \A r \in Streams : exposed'[r] = (IF r = s THEN exposed[s] + 1 ELSE exposed[r]) /\ exposed[r] \in Nat
                                 /\ exposed[r] <= Len(Shots[r])
          BY <3>2, <4>1, RigFacts
        <4>3. exposed' \in [Streams -> Nat]
          BY <3>2, <4>1
        <4>4. QED
          BY <3>2, <4>1, <4>2, <4>3
      <3>3. QED
        BY <1>3, <3>1, <3>2 DEF Starve, GiveUp
    <2>3. /\ camera' \in [Streams -> {"off", "on", "failed", "draining", "stopped"}]
          /\ \A r \in Streams : camera'[r] = "off" => camera[r] = "off"
      BY <1>3 DEF Starve, GiveUp, RigInv, RigTypes
    <2>4. /\ open' \in [Streams -> BOOLEAN] /\ running' \in BOOLEAN
          /\ stop' \in [phase : 0 .. Len(StopOrder) + 1, stream : Streams]
          /\ reader' \in [Streams -> [pc : {"none", "pop", "call", "release", "exited"}, buffer : 0 .. Buffers]]
          /\ \A r \in Streams : reader'[r].buffer = reader[r].buffer /\ (InHands(r)' <=> InHands(r))
      BY <2>1 DEF RigInv, RigTypes, InHands
    <2>5. QED
      BY <1>1, <2>1, <2>2, <2>3, <2>4, RestInLine
  <1>4. CASE UNCHANGED liveVars
    <2>1. RigTypes'
      BY <1>1, <1>4 DEF liveVars, cameraVars, sinkVars, controlVars, RigInv, RigTypes
    <2>2. \A s \in Streams : BuffersInLine(s)'
      BY <1>4 DEF liveVars, cameraVars, sinkVars, controlVars, RigInv, BuffersInLine, InHands
    <2>3. QED
      BY <2>1, <2>2 DEF RigInv
  <1>5. QED
    BY <1>1, <1>2, <1>3, <1>4, CommitInLine, PopInLine, ReleaseInLine, ReaderInLine, StopsInLine DEF RigNext

LEMMA RigStartsInLine == Init => RigInv
  <1>1. SUFFICES ASSUME Init PROVE RigInv
    OBVIOUS
  <1>2. Buffers \in Nat \ {0} /\ Streams = {1, 2} /\ \A s \in Streams : Len(Shots[s]) \in Nat
    BY BuffersAssumption, ShotsAssumption, StreamsCounted DEF Streams
  <1>3. <<>> \in Seq(1 .. Buffers) /\ Len(<<>>) = 0
    BY EmptySeq
  <1>4. RigTypes
    <2>1. stop \in [phase : 0 .. Len(StopOrder) + 1, stream : Streams]
      BY <1>1, <1>2 DEF Init, LiveInit, StopOrder
    <2>2. \A s \in Streams : exposed[s] \in Nat /\ exposed[s] <= Len(Shots[s])
      BY <1>1, <1>2 DEF Init, LiveInit
    <2>3. reader \in [Streams -> [pc : {"none", "pop", "call", "release", "exited"}, buffer : 0 .. Buffers]]
      BY <1>1, <1>2 DEF Init, LiveInit, NoBuffer
    <2>4. /\ buffer \in [Streams -> [1 .. Buffers -> Nat]] /\ ready \in [Streams -> Seq(1 .. Buffers)]
          /\ exposed \in [Streams -> Nat]
      BY <1>1, <1>3 DEF Init, LiveInit, Idle
    <2>5. \A s \in Streams : ready[s] = <<>> /\ reader[s].buffer = NoBuffer
      BY <1>1 DEF Init, LiveInit
    <2>6. /\ camera \in [Streams -> {"off", "on", "failed", "draining", "stopped"}]
          /\ running \in BOOLEAN /\ open \in [Streams -> BOOLEAN]
      BY <1>1 DEF Init, LiveInit
    <2>7. QED
      BY <2>1, <2>2, <2>3, <2>4, <2>5, <2>6 DEF RigTypes
  <1>5. \A s \in Streams : BuffersInLine(s)
    BY <1>1, <1>2, <1>3 DEF Init, LiveInit, BuffersInLine, InHands, Idle, NoBuffer
  <1>6. QED
    BY <1>4, <1>5 DEF RigInv

LEMMA RigGoesOn == Spec => []RigInv
  BY RigStartsInLine, RigKept, PTL DEF Spec

\* What InFlightOnce says of a line.
LineTrue(s, line) ==
  /\ {line[i] : i \in DOMAIN line} = {b \in 1 .. Buffers : buffer[s][b] # Idle}
  /\ \A i \in 1 .. Len(line) - 1 : buffer[s][line[i]] < buffer[s][line[i + 1]]

LEMMA LineIsLive ==
  ASSUME RigInv
  PROVE  LiveInv
  <1>1. LiveTypeOK
    BY DEF RigInv, RigTypes, LiveTypeOK
  <1>2. ASSUME NEW s \in Streams, NEW hands, NEW line,
               hands = IF reader[s].buffer = NoBuffer THEN <<>> ELSE <<reader[s].buffer>>,
               line = hands \o ready[s]
        PROVE  LineTrue(s, line)
    <2>1. /\ buffer[s] \in [1 .. Buffers -> Nat] /\ ready[s] \in Seq(1 .. Buffers) /\ BuffersInLine(s)
          /\ reader[s].buffer \in 0 .. Buffers /\ Len(ready[s]) \in Nat /\ DOMAIN ready[s] = 1 .. Len(ready[s])
      BY RigFacts, LenProperties
    <2>2. \A i \in 1 .. Len(ready[s]) : ready[s][i] \in 1 .. Buffers
      BY <2>1, ElementOfSeq
    <2>3. CASE reader[s].buffer = NoBuffer
      <3>1. line = ready[s]
        BY <1>2, <2>1, <2>3, ConcatEmptySeq
      <3>2. \A b \in 1 .. Buffers : buffer[s][b] # Idle <=> \E i \in 1 .. Len(ready[s]) : ready[s][i] = b
        BY <2>1, <2>3 DEF BuffersInLine, NoBuffer
      <3>3. \A i \in 1 .. Len(line) - 1 : buffer[s][line[i]] < buffer[s][line[i + 1]]
        <4> TAKE i \in 1 .. Len(line) - 1
        <4>1. i \in 1 .. Len(ready[s]) /\ i + 1 \in 1 .. Len(ready[s]) /\ i < i + 1
          BY <2>1, <3>1
        <4>2. QED
          BY <2>1, <3>1, <4>1 DEF BuffersInLine
      <3>4. QED
        BY <2>1, <2>2, <3>1, <3>2, <3>3 DEF LineTrue
    <2>4. CASE reader[s].buffer # NoBuffer
      <3> DEFINE h == reader[s].buffer
      <3>1. h \in 1 .. Buffers /\ <<h>> \in Seq(1 .. Buffers) /\ Len(<<h>>) = 1 /\ <<h>>[1] = h /\ InHands(s)
        BY <2>1, <2>4 DEF NoBuffer, BuffersInLine
      <3>2. line = <<h>> \o ready[s]
        BY <1>2, <2>4
      <3> HIDE DEF h
      <3>3. /\ line \in Seq(1 .. Buffers) /\ Len(line) = 1 + Len(ready[s]) /\ DOMAIN line = 1 .. Len(line)
            /\ line[1] = h /\ \A i \in 1 .. Len(ready[s]) : line[i + 1] = ready[s][i]
        BY <2>1, <3>1, <3>2, ConcatProperties, LenProperties
      <3>4. \A b \in 1 .. Buffers :
              buffer[s][b] # Idle <=> (h = b \/ \E i \in 1 .. Len(ready[s]) : ready[s][i] = b)
        BY <2>1 DEF BuffersInLine, h
      <3>5. \A i \in DOMAIN line : i = 1 \/ (i - 1 \in 1 .. Len(ready[s]) /\ (i - 1) + 1 = i)
        BY <2>1, <3>3
      <3>6. \A b : (\E i \in DOMAIN line : line[i] = b)
                     <=> (h = b \/ \E i \in 1 .. Len(ready[s]) : ready[s][i] = b)
        <4>1. 1 \in DOMAIN line /\ \A i \in 1 .. Len(ready[s]) : i + 1 \in DOMAIN line
          BY <2>1, <3>3
        <4>2. TAKE b
        <4>3. ASSUME NEW i \in DOMAIN line, line[i] = b
              PROVE  h = b \/ \E j \in 1 .. Len(ready[s]) : ready[s][j] = b
          <5>1. CASE i = 1
            BY <3>3, <4>3, <5>1
          <5>2. CASE i - 1 \in 1 .. Len(ready[s]) /\ (i - 1) + 1 = i
            <6>1. line[(i - 1) + 1] = ready[s][i - 1]
              BY <3>3, <5>2
            <6>2. QED
              BY <4>3, <5>2, <6>1
          <5>3. QED
            BY <3>5, <5>1, <5>2
        <4>4. QED
          BY <3>3, <4>1, <4>3
      <3>7. {line[i] : i \in DOMAIN line} = {b \in 1 .. Buffers : buffer[s][b] # Idle}
        <4>1. \A b : b \in {line[i] : i \in DOMAIN line} <=> \E i \in DOMAIN line : line[i] = b
          OBVIOUS
        <4>2. \A b : (\E i \in DOMAIN line : line[i] = b) => b \in 1 .. Buffers
          BY <3>3, ElementOfSeq
        <4>3. QED
          BY ZenonT(30), <3>4, <3>6, <4>1, <4>2
      <3>8. \A i \in 1 .. Len(line) - 1 : buffer[s][line[i]] < buffer[s][line[i + 1]]
        <4> TAKE i \in 1 .. Len(line) - 1
        <4>1. i \in 1 .. Len(ready[s]) /\ line[i + 1] = ready[s][i]
          BY <2>1, <3>3
        <4>2. CASE i = 1
          BY <2>1, <3>1, <3>3, <4>1, <4>2 DEF BuffersInLine, h
        <4>3. CASE i > 1
          <5>1. i - 1 \in 1 .. Len(ready[s]) /\ line[i] = ready[s][i - 1] /\ i - 1 < i
            <6>1. i - 1 \in 1 .. Len(ready[s]) /\ (i - 1) + 1 = i /\ i - 1 < i
              BY <2>1, <4>1, <4>3
            <6>2. QED
              BY <3>3, <6>1
          <5>2. QED
            BY <2>1, <4>1, <5>1 DEF BuffersInLine
        <4>4. QED
          BY <4>1, <4>2, <4>3
      <3>9. QED
        BY <3>7, <3>8 DEF LineTrue
    <2>5. QED
      BY <2>3, <2>4
  <1>3. InFlightOnce
    <2> SUFFICES ASSUME NEW s \in Streams
                 PROVE  LET hands == IF reader[s].buffer = NoBuffer THEN <<>> ELSE <<reader[s].buffer>>
                            line == hands \o ready[s]
                        IN /\ {line[i] : i \in DOMAIN line} = {b \in 1 .. Buffers : buffer[s][b] # Idle}
                           /\ \A i \in 1 .. Len(line) - 1 : buffer[s][line[i]] < buffer[s][line[i + 1]]
      BY DEF InFlightOnce
    <2>1. PICK hands : hands = IF reader[s].buffer = NoBuffer THEN <<>> ELSE <<reader[s].buffer>>
      OBVIOUS
    <2>2. PICK line : line = hands \o ready[s]
      OBVIOUS
    <2>3. LineTrue(s, line)
      BY <1>2, <2>1, <2>2
    <2>4. QED
      BY <2>1, <2>2, <2>3 DEF LineTrue
  <1>4. QED
    BY <1>1, <1>3 DEF LiveInv

(* In the viewer and in the trigger test, a buffer in flight is queued for its reader or *)
(* in the reader's hands, once, and the frames reach the callback in the order they were *)
(* exposed, whenever cameras fail and whenever they are stopped.                         *)
THEOREM FramesInFlight == Spec => []LiveInv
  BY RigGoesOn, LineIsLive, PTL

-----------------------------------------------------------------------------
(* The trigger thread is over before a source is torn down. *)

TriggerPlaces ==
  /\ camera \in [Streams -> {"off", "on", "failed", "draining", "stopped"}]
  /\ trigger \in TriggerType
  /\ trigger.pc \in {"look", "send", "sleep"} => tool \in Modes /\ main \in {"loop", "leave", "terminated"}
  /\ main \notin {"stop", "done"} => \A s \in Streams : camera[s] \notin {"draining", "stopped"}

LEMMA TriggersPlaced ==
  ASSUME RigInv, RigInv', TriggerInv', TriggerPlaces, [Next]_vars
  PROVE  TriggerPlaces'
  <1> USE DEF Main, Throw
  <1>1. /\ camera' \in [Streams -> {"off", "on", "failed", "draining", "stopped"}]
        /\ trigger' \in TriggerType
        /\ tool' = tool /\ Modes \cap Tests = {}
    BY StepsOfTheRig, ViewAssumption, TestAssumption DEF RigInv, RigTypes, TriggerInv
  <1>2. ASSUME main' \notin {"stop", "done"}
        PROVE  \A s \in Streams : camera'[s] \notin {"draining", "stopped"}
    <2>0. main \in {"stop", "done"} => trigger.pc # "send"
      BY DEF TriggerPlaces
    <2>1. main \notin {"stop", "done"} /\ (RigNext \/ UNCHANGED liveVars)
      BY <1>2, <2>0, StepsOfTheRig, StoppedStays
    <2>2. \A s \in Streams : camera[s] \notin {"draining", "stopped"}
      BY <2>1 DEF TriggerPlaces
    <2>3. \/ UNCHANGED camera
          \/ \E s \in Streams, c \in {"on", "failed"} : camera' = [camera EXCEPT ![s] = c]
      BY <2>1 DEF RigNext, StartStream, StartThrows, StopLive, Commit, Starve, GiveUp, Pop, PopNothing, Release,
           Callback, liveVars, cameraVars
    <2>4. QED
      BY <2>2, <2>3 DEF TriggerPlaces
  <1>3. ASSUME trigger'.pc \in {"look", "send", "sleep"}
        PROVE  tool \in Modes /\ main' \in {"loop", "leave", "terminated"}
    <2> USE DEF TriggerPlaces
    <2>1. CASE Viewing(ViewNext)
      <3>1. tool \in Modes
        BY <2>1 DEF Viewing
      <3>2. CASE MainStep
        <4>1. CASE main \in {"start", "keys", "arm", "trigger"} /\ main' \in {"loop", "leave"}
          BY <3>1, <4>1
        <4>2. CASE StopCalled
          BY <1>3, <4>2 DEF StopCalled, TriggersOver
        <4>3. CASE Starting \/ PtpWaited \/ CheckKeys \/ Stopping \/ Finish
          BY <1>3, <4>3, <3>1 DEF Starting, PtpWaited, CheckKeys, Stopping, Finish, viewVars
        <4>4. CASE Arm \/ StartTriggers \/ PopOnce \/ LeaveLoop \/ StopTriggers
          BY <1>3, <4>4, <3>1 DEF Arm, StartTriggers, PopOnce, LeaveLoop, StopTriggers
        <4>5. QED
          BY <3>2, <4>2, <4>3, <4>4 DEF MainStep
      <3>3. CASE TriggerStep \/ Interrupt \/ ReportThrows \/ SendThrows
        BY <1>3, <3>1, <3>3 DEF TriggerStep, LookAtTrigRun, SendTrigger, Sleep, Interrupt, ReportThrows, SendThrows
      <3>4. CASE \E s \in Streams : CameraStep(s) \/ CameraFails(s) \/ ReaderStep(s)
        BY <1>3, <3>1, <3>4 DEF CameraStep, CameraFails, ReaderStep, ReaderPushes, viewVars
      <3>5. QED
        BY <2>1, <3>2, <3>3, <3>4 DEF ViewNext, Viewing
    <2>2. CASE Testing(TestNext)
      <3>1. tool \notin Modes
        BY <1>1, <2>2 DEF Testing
      <3>2. trigger'.pc = trigger.pc
        BY <2>2 DEF Testing, TestNext, TestStep, RigStarts, viewVars, MainOnly, RigWaited, BeginBurst,
           SendCommand, Pace, EndSends, Settle, RigStops, RigStopping, FinishTest, InterruptTest, CommandThrows,
           RigCamera, RigGivesUp, RigReads, TriggerType
      <3>3. QED
        BY <1>3, <3>1, <3>2
    <2>3. CASE Watching \/ Pairing(RingPairNext) \/ UNCHANGED vars
      BY <1>3, <2>3 DEF Watching, Pairing, vars, stereoVars, viewVars
    <2>4. QED
      BY <2>1, <2>2, <2>3 DEF Next
  <1>4. QED
    BY <1>1, <1>2, <1>3 DEF TriggerPlaces

(* send_trigger touches the SDK that the sources own: whatever ends a run, the thread    *)
(* that sends is over before the first source is stopped.                                *)
THEOREM TriggersOutlived == Spec => []TriggersInside
  <1>1. Init => TriggerInv /\ TriggerPlaces
    <2>1. Init => TriggerInv
      BY TriggersStart
    <2>2. Init => TriggerPlaces
      BY <2>1 DEF Init, ViewInit, LiveInit, TriggerInv, TriggerPlaces
    <2>3. QED
      BY <2>1, <2>2
  <1>2. TriggerInv /\ [Next]_vars => TriggerInv'
    BY TriggersAhead
  <1>3. RigInv /\ RigInv' /\ TriggerInv' /\ TriggerPlaces /\ [Next]_vars => TriggerPlaces'
    BY TriggersPlaced
  <1>4. TriggerPlaces => TriggersInside
    BY DEF TriggerPlaces, TriggersInside
  <1>5. QED
    BY <1>1, <1>2, <1>3, <1>4, RigGoesOn, PTL DEF Spec
=============================================================================
