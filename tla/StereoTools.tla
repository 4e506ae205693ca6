------------------------------ MODULE StereoTools ------------------------------
(***************************************************************************)
(* The programs that use a pair of cameras, in one specification: the       *)
(* viewer in each of its trigger modes, its --ptp-watch, the trigger test,  *)
(* and the pairing of two device rings.  Which one runs is chosen at the    *)
(* start, and the variables of the others stay as they are.                 *)
(***************************************************************************)
EXTENDS TriggerTest, PtpWatch, RingPair

Programs == Modes \cup Tests \cup {"watch", "rings"}

vars == <<stereoVars, testVars, watchVars, ringPairVars>>

Init ==
  /\ tool \in Programs
  /\ LiveInit /\ PairerInit /\ ViewInit /\ TestInit /\ WatchInit /\ RingPairInit

\* A step of one program.  std::terminate leaves no thread of it.
Viewing(step) ==
  tool \in Modes /\ main # "terminated" /\ step /\ UNCHANGED <<testVars, watchVars, ringPairVars>>
Testing(step) == tool \in Tests /\ step /\ UNCHANGED <<watchVars, ringPairVars>>
Watching == tool = "watch" /\ WatchOnce /\ UNCHANGED <<stereoVars, testVars, ringPairVars>>
Pairing(step) == tool = "rings" /\ step /\ UNCHANGED <<stereoVars, testVars, watchVars>>

Next == Viewing(ViewNext) \/ Testing(TestNext) \/ Watching \/ Pairing(RingPairNext)

Spec == Init /\ [][Next]_vars

\* The threads of whichever program runs: its first, its second, and the one of a camera.
FirstThread == Viewing(MainStep) \/ Testing(TestStep) \/ Pairing(TransformStep)
SecondThread == Viewing(TriggerStep) \/ Pairing(PairStep)
CameraThread(s) ==
  Viewing(ReaderStep(s)) \/ Testing(RigReads(s)) \/ (s = Left /\ Pairing(Announce))

\* Every thread goes on when it can.  Nothing makes a camera deliver, and nobody has to
\* interrupt.
FairSpec ==
  /\ Spec
  /\ WF_vars(FirstThread) /\ WF_vars(SecondThread)
  /\ \A s \in Streams : WF_vars(CameraThread(s))

-----------------------------------------------------------------------------
\* The two cameras are drained and joined, copies are accounted for and what the tools say
\* at their end (the checker of the scheduled start, the test's verdict, the watch's
\* report) is true of what happened.
ToolsInv == ViewInv /\ VerdictTrue /\ (tool = "watch" => WatchTrue)

\* What is paired belongs together, of the live readers' queues and of the device rings,
\* and the rings' pair consumer counts what it took.
PairingTrue == PairsTrue /\ RingPairInv

\* A program on its way out, interrupted, told that a camera gave up, or unwinding; and out.
Ending ==
  IF tool = "rings" THEN ~transform.running /\ ~pair.running
  ELSE \/ main \in {"leave", "stop", "done", "terminated"}
       \/ main \in {"loop", "begin", "send", "pace", "settle"} /\ (gStop \/ Failed)
Ended ==
  IF tool = "rings" THEN transform.pc = "exited" /\ pair.pc = "exited" /\ \A r \in Rings : holds[r] = {}
  ELSE /\ exit # -1 /\ trigger.pc \in {"none", "exited"}
       /\ \A s \in Streams : camera[s] \in {"off", "stopped"} /\ reader[s].pc \in {"none", "exited"}

\* std::terminate: the threads are gone with the process, and the cameras were not given
\* back.  Only the viewer with a trigger thread comes to this, by an exception.
Terminated == main = "terminated" /\ tool = "frame" /\ thrown

\* The rings' last frame, which no newer one replaces, is there; and is transformed.
AllSupplied == tool = "rings" /\ supplied[Left] = Len(Shots[Left])
LastTransformed == ~transform.running \/ Last(Shots[Left]) \in Range(transformed)

\* Whatever a tool is at, an interrupt or a camera that gives up ends it, and so does an
\* exception: the cameras are stopped, having every buffer back, and every thread is joined,
\* unless an exception came up while the trigger thread was there.  The workers of the
\* device rings end when they are stopped, holding nothing; and the frame no newer one
\* replaces is transformed, whatever the stage was doing when it came and whichever step
\* failed.  (What is due and what is done both stay so: two promises, one formula.)
ToolsProgress ==
  (Ending \/ AllSupplied) ~>
    ((Ending => Ended \/ Terminated) /\ (AllSupplied => LastTransformed))
=============================================================================
