------------------------------ MODULE TriggerTest ------------------------------
(***************************************************************************)
(* tools/ptp_trigger_test/src/ptp_trigger_test_main.cpp: bursts of          *)
(* scheduled triggers, with the acknowledgements and the frames that come   *)
(* back counted.  Its Rig is LiveStereo for any number of cameras; the      *)
(* callback counts.  A command is taken by some cameras, and some of their   *)
(* answers come back.                                                       *)
(***************************************************************************)
EXTENDS StereoView

CONSTANTS
  Tests,       \* "burst", "sweep"
  BurstSizes,  \* how many commands each burst has; a single burst is the first
  BurstTakes   \* how long a command may take to be acknowledged

ASSUME TestAssumption ==
  /\ Tests \subseteq {"burst", "sweep"}
  /\ BurstSizes \in Seq(Nat \ {0}) /\ BurstTakes \subseteq Nat

NoBurst == [sent |-> 0, acks |-> 0, ok |-> 0, allOk |-> 0, missing |-> 0,
            from |-> [s \in Streams |-> 0], delivered |-> [s \in Streams |-> 0]]

VARIABLES
  burst,      \* BurstStats
  rate,       \* which burst it is
  requestAck, \* request_ack
  seen,       \* frames_seen
  taken       \* external: the triggers each camera took

testVars == <<burst, rate, requestAck, seen, taken>>
testVarsToo == <<burst, rate, seen, taken>>

TestInit ==
  /\ burst = NoBurst /\ rate = 1
  /\ requestAck \in IF tool = "burst" THEN BOOLEAN ELSE {TRUE}
  /\ seen = [s \in Streams |-> 0] /\ taken = [s \in Streams |-> 0]

\* A step of the main thread that touches none of the rig, and one that only touches it.
MainOnly == UNCHANGED <<liveVars, pairerVars, tool, thrown, exit, gStop, trigRun, checker, requestAck>>
RigOnly == UNCHANGED <<pairerVars, testVars>>

RigStarts ==
  /\ main = "start"
  /\ \/ \E s \in Streams : StartStream(s) /\ UNCHANGED viewVars
     \/ \E s \in Streams : StartThrows(s) /\ Throw("start")
  /\ RigOnly

\* It is waited for the lock, and gone on without; a lost camera cannot be asked.
RigWaited ==
  /\ Started
  /\ \/ Main("start", "begin") /\ UNCHANGED <<trigger, clock, sent, testVarsToo>> /\ MainOnly
     \/ Throw("start") /\ UNCHANGED liveVars /\ RigOnly

\* run_burst() starts: what the cameras returned before is not its own.
BeginBurst ==
  /\ Main("begin", "send")
  /\ burst' = [NoBurst EXCEPT !.from = seen]
  /\ trigger' = [trigger EXCEPT !.target = HostNow + Lead]
  /\ UNCHANGED <<clock, sent, rate, seen, taken>> /\ MainOnly

InBurst == ~gStop /\ burst.sent < BurstSizes[rate]

\* SendActionCommand, and the count of what it returned.  A camera takes the command or
\* refuses it (it may be late, or never arrive), and its answer may not come back; without
\* acknowledgements none does.
SendCommand ==
  /\ Main("send", "pace") /\ InBurst
  /\ \E takers, acked \in SUBSET Streams, takes \in BurstTakes :
       LET ok == acked \cap takers IN
       /\ (~requestAck => acked = {})
       /\ taken' = [s \in Streams |-> IF s \in takers THEN taken[s] + 1 ELSE taken[s]]
       /\ clock' = clock + takes
       /\ burst' = [burst EXCEPT
            !.sent = @ + 1, !.acks = @ + Cardinality(acked), !.ok = @ + Cardinality(ok),
            !.allOk = @ + (IF ok = Streams THEN 1 ELSE 0),
            !.missing = @ + (IF requestAck /\ acked # Streams THEN 1 ELSE 0)]
  /\ sent' = Append(sent, Command)
  /\ UNCHANGED <<trigger, rate, seen>> /\ MainOnly

\* It throws instead, on the main thread.
CommandThrows == Throw("send") /\ InBurst /\ UNCHANGED liveVars /\ RigOnly

\* The next instant, and the sleep until it is a lead away.
Pace ==
  /\ main = "pace"
  /\ \/ Failed /\ main' = "settle" /\ UNCHANGED <<trigger, clock>>
     \/ /\ ~Failed /\ main' = "send"
        /\ trigger' = [trigger EXCEPT !.target = @ + Period]
        /\ clock' = LET wait == trigger.target + Period - Lead - HostNow
                    IN IF wait > 0 THEN clock + wait ELSE clock
  /\ UNCHANGED <<sent, testVarsToo>> /\ MainOnly

EndSends ==
  /\ Main("send", "settle") /\ ~InBurst
  /\ UNCHANGED <<trigger, clock, sent, testVarsToo>> /\ MainOnly

\* The time for the last frames to arrive is over; a sweep goes on with its next rate.
Settle ==
  /\ main = "settle"
  /\ burst' = [burst EXCEPT !.delivered = [s \in Streams |-> seen[s] - burst.from[s]]]
  /\ LET more == tool = "sweep" /\ rate < Len(BurstSizes) /\ ~Failed /\ ~gStop IN
     /\ main' = IF more THEN "begin" ELSE "leave"
     /\ rate' = IF more THEN rate + 1 ELSE rate
  /\ UNCHANGED <<trigger, clock, sent, seen, taken>> /\ MainOnly

InterruptTest ==
  /\ main = "send" /\ ~gStop
  /\ gStop' = TRUE
  /\ UNCHANGED <<main, tool, thrown, exit, trigger, trigRun, clock, sent, checker>>
  /\ UNCHANGED liveVars /\ RigOnly

\* Rig::stop(), or ~Rig().
RigStops ==
  /\ Main("leave", "stop") /\ StopLive
  /\ UNCHANGED <<tool, thrown, exit, gStop, trigger, trigRun, clock, sent, checker>> /\ RigOnly

RigStopping == main = "stop" /\ StopStep /\ UNCHANGED viewVars /\ RigOnly

Missing(s) == IF burst.sent > burst.delivered[s] THEN burst.sent - burst.delivered[s] ELSE 0
Clean == (\A s \in Streams : Missing(s) = 0) /\ burst.missing = 0 /\ burst.acks = burst.ok

FinishTest ==
  /\ Main("stop", "done") /\ Stopped
  /\ exit' = IF thrown \/ (tool = "burst" /\ ~Clean) THEN 1 ELSE 0
  /\ UNCHANGED <<tool, thrown, gStop, trigger, trigRun, clock, sent, checker>>
  /\ UNCHANGED liveVars /\ RigOnly

\* A camera in trigger mode returns a frame for a trigger it took, or does not.
RigCamera(s) ==
  /\ exposed[s] < taken[s]
  /\ Commit(s) \/ Starve(s)
  /\ UNCHANGED viewVars /\ RigOnly

RigGivesUp(s) == GiveUp(s) /\ UNCHANGED viewVars /\ RigOnly

\* Rig::read_loop with the callback that counts.
RigReads(s) ==
  \/ ReaderAlone(s) /\ UNCHANGED viewVars /\ RigOnly
  \/ /\ Callback(s)
     /\ seen' = [seen EXCEPT ![s] = @ + 1]
     /\ UNCHANGED <<pairerVars, viewVars, burst, rate, requestAck, taken>>

TestStep ==
  \/ RigStarts \/ RigWaited \/ BeginBurst \/ SendCommand \/ Pace \/ EndSends \/ Settle
  \/ RigStops \/ RigStopping \/ FinishTest

TestNext ==
  \/ TestStep \/ InterruptTest \/ CommandThrows
  \/ \E s \in Streams : RigCamera(s) \/ RigGivesUp(s) \/ RigReads(s)

-----------------------------------------------------------------------------
\* The verdict of a single burst is true of the cameras and not only of the counters: clean
\* means that each camera answered OK to every command and returned a frame for every one,
\* so that it exposed for every one.  (Without acknowledgements only the frames are known.)
VerdictTrue ==
  (tool = "burst" /\ exit = 0) =>
    /\ \A s \in Streams : taken[s] = burst.sent /\ seen[s] >= burst.sent
    /\ requestAck => burst.allOk = burst.sent

\* "schedule each command N ms ahead of its fire time" (print_usage).
BurstScheduledAhead ==
  tool \in Tests => \A i \in DOMAIN sent : sent[i].target > sent[i].at
=============================================================================
