------------------------------ MODULE StereoView ------------------------------
(***************************************************************************)
(* The main thread of stereo_view and its trigger thread                    *)
(* (tools/stereo_view/src/stereo_view_main.cpp), with the scheduled start   *)
(* of spinnaker/src/action_sync.cpp and the checker of                      *)
(* capture/src/action_sync_check.cpp.  Pausing and the window only delay    *)
(* the main thread and are left out; so is what the report prints, but not  *)
(* that it reads nodes of the cameras, and throws when one is lost.         *)
(*                                                                         *)
(* An exception that leaves the scope of a joinable std::thread, or that    *)
(* leaves a thread's function, ends the process with std::terminate: main   *)
(* is "terminated", and no thread takes another step.                       *)
(*                                                                         *)
(* The clock is the PTP clock the cameras judge a scheduled instant by.  It *)
(* moves with the trigger thread, the only one that looks at it, by what a  *)
(* send takes and by a sleep, which ends on time.                           *)
(***************************************************************************)
EXTENDS StereoPairer

CONSTANTS
  Modes,        \* how the cameras are triggered: "free", "start", "frame"
  KeyStates,    \* what a camera says of its action keys
  MaxPairs,     \* --pairs; 0 for no end
  Period,       \* of the triggers, and of the frames after a scheduled start
  Lead,         \* how far ahead a trigger is scheduled
  Second,       \* the grain of a scheduled start
  TaiOffset,    \* TAI - UTC
  SendTakes,    \* how long SendActionCommand may take
  CheckFrames, StartTolerance,   \* check_frames, tolerance_ms
  StartOffset,  \* expected_start_offset_ms
  MaxCommands,  \* bound: how many triggers are sent
  StartClocks   \* the PTP time at which a start is scheduled

ASSUME ViewAssumption ==
  /\ Modes \subseteq {"free", "start", "frame"}
  /\ KeyStates \subseteq {"absent", "write-only", "match", "differ"}
  /\ {MaxPairs, Lead, TaiOffset, CheckFrames, StartTolerance, MaxCommands} \subseteq Nat
  /\ {Period, Second} \subseteq Nat \ {0} /\ SendTakes \cup StartClocks \subseteq Nat
  /\ StartOffset \in Int

Unchecked == [enabled |-> FALSE, target |-> 0, n |-> 0, first |-> 0, prev |-> 0,
              low |-> 0, high |-> 0, verdict |-> "none"]

VARIABLES
  main,      \* the main thread's program counter
  tool,      \* the options: "free", "start" (--sync-start) or "frame" (--capture-hz)
  thrown,    \* an exception is on its way to the handler at the end of main
  exit,      \* the exit code
  gStop,     \* g_stop
  trigger,   \* the trigger thread: its program counter and target; history: by how
             \* much it is `behind`, which sends longer than a period add up to
  trigRun,   \* trig_run
  clock,     \* PTP time
  sent,      \* history: the commands, each with its target, when it was sent, and how
             \* far behind the thread was
  checker    \* sync_check[s]

viewVars == <<main, tool, thrown, exit, gStop, trigger, trigRun, clock, sent, checker>>
stereoVars == <<liveVars, pairerVars, viewVars>>

ViewInit ==
  /\ main = "start" /\ thrown = FALSE /\ exit = -1 /\ gStop = FALSE
  /\ trigger = [pc |-> "none", target |-> 0, behind |-> 0] /\ trigRun = TRUE
  /\ clock \in (IF tool = "start" THEN StartClocks ELSE {0})
  /\ sent = <<>> /\ checker = [s \in Streams |-> Unchecked]

Main(from, to) == main = from /\ main' = to

Throw(from) ==
  /\ Main(from, "leave") /\ thrown' = TRUE
  /\ UNCHANGED <<tool, exit, gStop, trigger, trigRun, clock, sent, checker>>

-----------------------------------------------------------------------------
(* Starting. *)

Starting ==
  /\ main = "start"
  /\ \/ \E s \in Streams : StartStream(s) /\ UNCHANGED viewVars
     \/ \E s \in Streams : StartThrows(s) /\ Throw("start")
  /\ UNCHANGED pairerVars

\* wait_for_ptp_slave returns, with the lock or without: both paths go on.  It reads a
\* node of each camera, which throws when the camera is lost.
PtpWaited ==
  /\ Started
  /\ \/ /\ Main("start", CASE tool = "start" -> "keys" [] tool = "frame" -> "trigger" [] OTHER -> "loop")
        /\ UNCHANGED <<tool, thrown, exit, gStop, trigger, trigRun, clock, sent, checker>>
     \/ tool # "free" /\ Throw("start")
  /\ UNCHANGED <<liveVars, pairerVars>>

\* arm_scheduled_start refuses a camera that cannot take, or would ignore, the command,
\* and reading the keys of a lost one throws.
Refuses(key) == key \in {"absent", "differ"}

CheckKeys ==
  /\ \E keys \in [Streams -> KeyStates] :
       \/ Throw("keys")
       \/ /\ \A s \in Streams : ~Refuses(keys[s])
          /\ Main("keys", "arm")
          /\ UNCHANGED <<tool, thrown, exit, gStop, trigger, trigRun, clock, sent, checker>>
  /\ UNCHANGED <<liveVars, pairerVars>>

\* The first whole second after the lead time.
WholeSecond(earliest) == ((earliest \div Second) + 1) * Second

\* arm_action_sync: the cameras have lost the lock, or the command is sent and both
\* checkers hold the instant it is for.
Arm ==
  /\ \/ Throw("arm")
     \/ LET target == WholeSecond(clock + Lead) IN
        /\ Main("arm", "loop")
        /\ sent' = Append(sent, [target |-> target, at |-> clock, behind |-> 0])
        /\ checker' = [s \in Streams |-> [Unchecked EXCEPT !.enabled = TRUE, !.target = target]]
        /\ UNCHANGED <<tool, thrown, exit, gStop, trigger, trigRun, clock>>
  /\ UNCHANGED <<liveVars, pairerVars>>

-----------------------------------------------------------------------------
(* The trigger thread. *)

\* Seeded fault: host_now_ns(), which counts UTC.
HostNow == clock - TaiOffset

\* ptp_now_ns().
PtpNow == clock

StartTriggers ==
  /\ Main("trigger", "loop")
  /\ trigger' = [trigger EXCEPT !.pc = "look", !.target = PtpNow + Lead]
  /\ UNCHANGED <<tool, thrown, exit, gStop, trigRun, clock, sent, checker>>
  /\ UNCHANGED <<liveVars, pairerVars>>

LookAtTrigRun ==
  /\ trigger.pc = "look"
  /\ trigger' = [trigger EXCEPT !.pc = IF trigRun /\ ~gStop THEN "send" ELSE "exited"]
  /\ UNCHANGED <<main, tool, thrown, exit, gStop, trigRun, clock, sent, checker>>
  /\ UNCHANGED <<liveVars, pairerVars>>

MaxOf(x, y) == IF x > y THEN x ELSE y
MinOf(x, y) == IF x < y THEN x ELSE y

\* The command that is about to be sent.
Command == [target |-> trigger.target, at |-> clock, behind |-> trigger.behind]

\* send_trigger blocks until the cameras have acknowledged, or until the SDK's own
\* timeout: nothing bounds it by the period.  Past the bound nothing is sent.
SendTrigger ==
  /\ trigger.pc = "send"
  /\ \/ /\ Len(sent) < MaxCommands
        /\ \E takes \in SendTakes :
             /\ clock' = clock + takes
             /\ trigger' = [pc |-> "sleep", target |-> trigger.target + Period,
                            behind |-> MaxOf(0, trigger.behind + takes - Period)]
        /\ sent' = Append(sent, Command)
     \/ /\ Len(sent) = MaxCommands
        /\ trigger' = [trigger EXCEPT !.pc = "look"]
        /\ UNCHANGED <<clock, sent>>
  /\ UNCHANGED <<main, tool, thrown, exit, gStop, trigRun, checker>>
  /\ UNCHANGED <<liveVars, pairerVars>>

\* SendActionCommand throws, and nothing in the thread's function catches it.
SendThrows ==
  /\ trigger.pc = "send"
  /\ main' = "terminated" /\ thrown' = TRUE
  /\ UNCHANGED <<tool, exit, gStop, trigger, trigRun, clock, sent, checker>>
  /\ UNCHANGED <<liveVars, pairerVars>>

\* It sleeps until the next target is a lead away, unless that is already over.
Sleep ==
  /\ trigger.pc = "sleep"
  /\ clock' = IF trigger.target - Lead > PtpNow THEN clock + (trigger.target - Lead - PtpNow)
              ELSE clock
  /\ trigger' = [trigger EXCEPT !.pc = "look"]
  /\ UNCHANGED <<main, tool, thrown, exit, gStop, trigRun, sent, checker>>
  /\ UNCHANGED <<liveVars, pairerVars>>

TriggerStep == LookAtTrigRun \/ SendTrigger \/ Sleep

\* A camera that waits for commands exposes one frame for each, or starts with the first.
Exposes(s) ==
  CASE tool = "frame" -> exposed[s] < Len(sent)
    [] tool = "start" -> sent # <<>>
    [] OTHER -> TRUE

CameraStep(s) ==
  /\ Exposes(s)
  /\ Commit(s) \/ Starve(s)
  /\ UNCHANGED <<pairerVars, viewVars>>

CameraFails(s) == GiveUp(s) /\ UNCHANGED <<pairerVars, viewVars>>

ReaderPushes(s) == Callback(s) /\ Push(s, Delivered(s)) /\ UNCHANGED viewVars

ReaderStep(s) == (ReaderAlone(s) /\ UNCHANGED <<pairerVars, viewVars>>) \/ ReaderPushes(s)

-----------------------------------------------------------------------------
(* The loop. *)

\* The start is judged against the target and the offset to expect, the spacing by its
\* extremes.
Passes(c) ==
  /\ Distance(c.first - c.target, StartOffset) <= StartTolerance
  /\ c.n > 1 => Distance(c.low, 0) <= StartTolerance /\ Distance(c.high, 0) <= StartTolerance

\* ActionSyncChecker::observe().
Observe(c, stamp) ==
  LET gap == stamp - c.prev - Period
      next == [c EXCEPT !.n = @ + 1, !.prev = stamp,
                        !.first = IF c.n = 0 THEN stamp ELSE @,
                        !.low = IF c.n = 0 THEN 0 ELSE IF c.n = 1 THEN gap ELSE MinOf(@, gap),
                        !.high = IF c.n = 0 THEN 0 ELSE IF c.n = 1 THEN gap ELSE MaxOf(@, gap)]
  IN
  IF ~c.enabled \/ c.verdict # "none" THEN c
  ELSE IF next.n < CheckFrames THEN next
  ELSE [next EXCEPT !.verdict = IF Passes(next) THEN "pass" ELSE "fail"]

ObserveResult ==
  LET r == results'[Len(results')] IN
  checker' = [s \in Streams |->
    IF r[s] = 0 THEN checker[s] ELSE Observe(checker[s], StampOf(s, r[s]))]

Leaves == gStop \/ Failed \/ (MaxPairs # 0 /\ Cardinality(Pairs) >= MaxPairs)

\* A result of the pairer, if there is one, and the checkers' look at it.
PopResult == (PopPair \/ PopStale \/ PopExpired) /\ ObserveResult

\* The loop's body has ended, whether or not a report was due.
PopOnce ==
  /\ main = "loop" /\ ~Leaves
  /\ PopResult
  /\ UNCHANGED <<main, tool, thrown, exit, gStop, trigger, trigRun, clock, sent>>
  /\ UNCHANGED liveVars

\* A report was due, and ptp_sample() threw: a camera is lost.  With a trigger thread
\* there main unwinds past it while it is joinable, and the process ends; without one it
\* unwinds like any other exception, ~LiveStereo() stopping the cameras.
ReportThrows ==
  /\ main = "loop" /\ ~Leaves
  /\ PopResult \/ UNCHANGED <<pairerVars, checker>>
  /\ main' = IF trigger.pc = "none" THEN "leave" ELSE "terminated"
  /\ thrown' = TRUE
  /\ UNCHANGED <<tool, exit, gStop, trigger, trigRun, clock, sent>>
  /\ UNCHANGED liveVars

\* Before the loop nothing looks at it.
Interrupt ==
  /\ ~gStop /\ main = "loop"
  /\ gStop' = TRUE
  /\ UNCHANGED <<main, tool, thrown, exit, trigger, trigRun, clock, sent, checker>>
  /\ UNCHANGED <<liveVars, pairerVars>>

LeaveLoop ==
  /\ main = "loop" /\ Leaves
  /\ main' = "leave"
  /\ UNCHANGED <<tool, thrown, exit, gStop, trigger, trigRun, clock, sent, checker>>
  /\ UNCHANGED <<liveVars, pairerVars>>

\* Seeded fault: the trigger thread is stopped but not waited for.
NotJoined == trigRun' = FALSE

\* The trigger loop ends before acquisition is torn down.
TriggersOver == trigRun' = FALSE /\ trigger.pc \in {"none", "exited"}

StopTriggers ==
  /\ main = "leave" /\ trigRun
  /\ trigRun' = FALSE
  /\ UNCHANGED <<main, tool, thrown, exit, gStop, trigger, clock, sent, checker>>
  /\ UNCHANGED <<liveVars, pairerVars>>

\* live->stop(), or ~LiveStereo() when an exception unwinds main; there is no trigger
\* thread then.
StopCalled ==
  /\ Main("leave", "stop")
  /\ TriggersOver
  /\ StopLive
  /\ UNCHANGED <<tool, thrown, exit, gStop, trigger, clock, sent, checker>>
  /\ UNCHANGED pairerVars

Stopping == main = "stop" /\ StopStep /\ UNCHANGED <<pairerVars, viewVars>>

\* A run that paired nothing is a failure, and an exception is one.
Finish ==
  /\ Main("stop", "done") /\ Stopped
  /\ exit' = IF thrown \/ Pairs = {} THEN 1 ELSE 0
  /\ UNCHANGED <<tool, thrown, gStop, trigger, trigRun, clock, sent, checker>>
  /\ UNCHANGED <<liveVars, pairerVars>>

MainStep ==
  \/ Starting \/ PtpWaited \/ CheckKeys \/ Arm \/ StartTriggers
  \/ PopOnce \/ LeaveLoop \/ StopTriggers \/ StopCalled \/ Stopping \/ Finish

ViewNext ==
  \/ MainStep \/ TriggerStep \/ Interrupt \/ ReportThrows \/ SendThrows
  \/ \E s \in Streams : CameraStep(s) \/ CameraFails(s) \/ ReaderStep(s)

-----------------------------------------------------------------------------
\* send_trigger touches the SDK the sources own: no command is on its way when a source
\* is torn down.
TriggersInside ==
  trigger.pc \in {"look", "send", "sleep"} => \A s \in Streams : camera[s] \notin {"draining", "stopped"}

\* What a checker says of a camera is so of the frames it saw, the first of those the
\* pairer gave out: it passes them exactly if the first came at the scheduled instant and
\* each next a period after the one before.
CheckerTrue ==
  \A s \in Streams :
    checker[s].verdict # "none" =>
      LET stamps == [i \in 1 .. CheckFrames |-> StampOf(s, Out(s)[i])] IN
      (checker[s].verdict = "pass") <=>
        /\ Distance(stamps[1], checker[s].target + StartOffset) <= StartTolerance
        /\ \A i \in 1 .. CheckFrames - 1 :
             Distance(stamps[i + 1] - stamps[i], Period) <= StartTolerance

ViewInv ==
  LiveInv /\ PairerInv /\ TriggersInside /\ CheckerTrue
    /\ (exit = 0 /\ tool \in Modes => Pairs # {})
    /\ (exit # -1 => \A s \in Streams : reader[s].pc \in {"none", "exited"})

\* A command is sent the whole lead before the instant it is for, by the clock the cameras
\* have, but for what the thread is behind: by how much the sends before it overran their
\* periods, less what shorter sends have made up since.  Nothing else makes it late, and
\* what is made up is not lost again.
ScheduledAhead ==
  tool \in Modes =>
    \A i \in DOMAIN sent : sent[i].target >= sent[i].at + Lead - sent[i].behind
=============================================================================
