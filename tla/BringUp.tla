------------------------------- MODULE BringUp -------------------------------
(***************************************************************************)
(* From the command line to the first trigger: how acquire (acquire_main.cpp *)
(* over source_spinnaker.cpp), stereo_view (over LiveStereo) and the bring- *)
(* up tool spin_acquire read their document, open and configure the cameras *)
(* and refuse a rig that does not fit it; how acquire waits for PTP, checks *)
(* the action keys and starts the triggers, while the acquisition threads   *)
(* lose cameras and get them back; and how all of it is given back to the   *)
(* SDK.                                                                     *)
(*                                                                         *)
(* The pipeline behind the streams is AcquireApp's, the frames of a stream  *)
(* SpinnakerSource's, what stereo_view does between its start and its end   *)
(* StereoView's: here a stream is idle, open, lost or failed.               *)
(***************************************************************************)
EXTENDS CameraSetup

CONSTANTS
  Cases,     \* a program, its arguments, its document, the cameras attached and what
             \* they hold from before, and the TAI offset the kernel has
  Lead,      \* lead_time_ms, trigger_lead_ms
  PtpWait,   \* polls of wait_for_ptp_slave before its deadline
  MaxLost,   \* bound: connections lost in a run
  None

VARIABLES
  case,      \* what the run starts from
  pc, at,    \* where main is, and at which stream
  status,    \* main's exit status
  cfg,       \* what the loader returned
  opened,    \* opened[s]: the camera stream s selected
  sources,   \* the streams whose SpinnakerSource is constructed
  nodes,     \* nodes[c]: the node map of camera c
  ptp,       \* ptp[c]: GevIEEE1588Status
  inited,    \* the cameras that were Init()ed and not DeInit()ed
  geometry,  \* geometry[s], of the constructed streams
  state,     \* state[s]: "idle", "open", "lost", "failed"
  now,       \* the clock of the cameras
  target,    \* the instant of the first trigger
  checker,   \* checker[s]: the stamp ActionSyncChecker expects of the first frame
  trigger,   \* the trigger thread: "none", "running", "told", "gone"
  acked,     \* of the last command: what it was counted as, and who fired
  handles,   \* the SDK's camera list is not cleared
  released,  \* ReleaseInstance was called
  lost       \* bound: connections lost so far

mainVars == <<pc, at, status>>
rigVars == <<opened, sources, nodes, ptp, inited, geometry, state>>
syncVars == <<now, target, checker, trigger, acked>>
sdkVars == <<handles, released>>
vars == <<case, mainVars, cfg, rigVars, syncVars, sdkVars, lost>>

Cameras == DOMAIN case.rig
Acquire == case.program = "acquire"
View == case.program = "stereo_view"
Alone == case.program = "spin_acquire"
Opened == DOMAIN opened
Camera_(s) == case.rig[opened[s]]
Nodes(s) == nodes[opened[s]]

Init ==
  /\ case \in Cases
  /\ pc = "args" /\ at = 1 /\ status = 0 /\ cfg = None
  /\ opened = <<>> /\ sources = {} /\ geometry = <<>>
  /\ nodes = [c \in Cameras |-> case.rig[c].left] /\ ptp = [c \in Cameras |-> case.rig[c].ptp]
  /\ inited = {} /\ state = <<>>
  /\ now = 0 /\ target = None /\ checker = <<>> /\ trigger = "none"
  /\ acked = [as |-> "none", fired |-> {}]
  /\ handles = FALSE /\ released = FALSE /\ lost = 0

Goes(to, i) == pc' = to /\ at' = i /\ UNCHANGED status
\* A refusal, from where it is met to the end of what has been built.
Refused(to) == pc' = to /\ at' = 1 /\ status' = 1

-----------------------------------------------------------------------------
(* The command line and the document. *)

\* The first argument that decides does; --record forces a recording.
Option(argument) == argument \notin {"--record", "--help", "a.yaml", "b.yaml"}
Parsed(argv) ==
  LET Read(so_far, argument) ==
        IF so_far.end # "run" THEN so_far
        ELSE CASE argument = "--record" /\ Acquire -> [so_far EXCEPT !.record = TRUE]
               [] argument = "--help" -> [so_far EXCEPT !.end = "help"]
               [] Option(argument) \/ argument = "--record" -> [so_far EXCEPT !.end = "failed"]
               [] OTHER -> IF so_far.path # None THEN [so_far EXCEPT !.end = "failed"]
                           ELSE [so_far EXCEPT !.path = argument]
  IN FoldLeft(Read, [end |-> "run", record |-> FALSE, path |-> None], argv)

Forced == Parsed(case.argv).record

ParseArguments ==
  /\ pc = "args"
  /\ CASE Parsed(case.argv).end = "run" -> Goes("load", 1)
       [] Parsed(case.argv).end = "help" -> Goes("exit", 1)
       [] OTHER -> Refused("exit")
  /\ UNCHANGED <<case, cfg, rigVars, syncVars, sdkVars, lost>>

\* spin_acquire opens the SDK before it looks at the document, the others after.
Load ==
  /\ pc = "load"
  /\ LET faults == IF Acquire THEN Faults(case.doc)
                   ELSE IF View THEN StereoViewFaults(case.doc)
                   ELSE IF case.doc = Bad THEN {"document"}
                   ELSE CameraFaults(case.doc) \cup Unreadable(Section(case.doc, "standalone"))
         untriggered == [camera |-> Camera(case.doc), action |-> [enabled |-> FALSE]]
         alone == [streams |-> <<[role |-> "", serial |-> Camera(case.doc).serial]>>,
                   depth |-> Value(Section(case.doc, "standalone"), "buffer_count", 8)]
         pair == [streams |-> PairStreams(case.doc),
                  depth |-> Value(Section(case.doc, "stereo"), "buffer_count", 8)]
     IN IF faults = {}
        THEN /\ cfg' = (IF Acquire THEN Loaded(case.doc)
                        ELSE untriggered @@ (IF View THEN pair ELSE alone))
             /\ handles' = TRUE /\ Goes("select", 1)
        ELSE /\ Refused(IF Alone THEN "clear" ELSE "exit")
             /\ handles' = Alone /\ UNCHANGED cfg
  /\ UNCHANGED <<case, rigVars, syncVars, released, lost>>

-----------------------------------------------------------------------------
(* The cameras. *)

\* select: without a serial, the first one found.
Matching(serial) ==
  IF serial = "" THEN Cameras \cap {1} ELSE {c \in Cameras : case.rig[c].serial = serial}

\* A constructor that throws: of the source only its members go.
Unbuilt == IF Alone THEN "clear" ELSE "unbuilt"

\* acquire and spin_acquire select all of their cameras before they open one.
Select ==
  /\ pc = "select" /\ ~View
  /\ LET found == [s \in DOMAIN cfg.streams |-> Matching(cfg.streams[s].serial)]
         pick == [s \in DOMAIN cfg.streams |-> CHOOSE c \in found[s] : TRUE]
     IN IF /\ \A s \in DOMAIN found : found[s] # {}
           /\ IsInjective(pick)
        THEN opened' = pick /\ state' = [s \in DOMAIN pick |-> "idle"] /\ Goes("open", 1)
        ELSE Refused(Unbuilt) /\ UNCHANGED <<opened, state>>
  /\ UNCHANGED <<case, cfg, sources, nodes, ptp, inited, geometry, syncVars, sdkVars, lost>>

\* LiveStereo selects and opens one eye after the other, once there are two cameras.
SelectEye ==
  /\ pc = "select" /\ View
  /\ LET found == Matching(cfg.streams[at].serial) IN
     \/ /\ Cardinality(Cameras) < 2 /\ Refused("clear") /\ UNCHANGED <<opened, state>>
     \/ /\ Cardinality(Cameras) >= 2 /\ found = {}
        /\ Refused("unbuilt") /\ UNCHANGED <<opened, state>>
     \/ /\ Cardinality(Cameras) >= 2
        /\ \E c \in found : opened' = Append(opened, c)
        /\ state' = Append(state, "idle") /\ Goes("open", at)
  /\ UNCHANGED <<case, cfg, sources, nodes, ptp, inited, geometry, syncVars, sdkVars, lost>>

\* What applying the configuration does to a camera, and to its PTP clock.
Configures(s, ok) ==
  LET c == opened[s] IN
  /\ ok = Configurable(Camera_(s), cfg.camera, cfg.action)
  /\ nodes' = [nodes EXCEPT ![c] = Configured(Camera_(s), @, cfg.camera, cfg.action)]
  /\ ptp' = [ptp EXCEPT ![c] = IF @ = "" THEN "" ELSE "Listening"]
  /\ inited' = inited \cup {c}

\* SpinnakerSource's constructor.  One that throws leaves its camera initialised.
OpenCamera ==
  /\ pc = "open" /\ at <= Len(opened)
  /\ \/ /\ Configures(at, TRUE)
        /\ sources' = sources \cup {at}
        /\ geometry' = Append(geometry, Geometry(Camera_(at), nodes'[opened[at]]))
        /\ Goes(IF View /\ at = 1 THEN "select" ELSE "open", at + 1)
     \/ /\ Configures(at, FALSE) /\ UNCHANGED <<sources, geometry>> /\ Refused(Unbuilt)
  /\ UNCHANGED <<case, cfg, opened, state, syncVars, sdkVars, lost>>

OneGeometry ==
  \A s \in sources : /\ geometry[s].width = geometry[1].width
                     /\ geometry[s].height = geometry[1].height
                     /\ geometry[s].format = geometry[1].format

Formats == {"BayerRG8", "BayerGR8", "BayerGB8", "BayerBG8", "Mono8", "RGB8", "RGBa8"}

\* main's checks on the source it was given, and what its consumers' constructors ask.
Fitting ==
  /\ geometry[1].format \in Formats
  /\ cfg.calibration # <<>> => cfg.calibration.size = geometry[1].width
  /\ (cfg.recording.enabled \/ Forced) => cfg.recording.topics # <<>>
  /\ cfg.viewer # "ess" => cfg.maxConsumers > 1
  /\ cfg.stereo => cfg.maxConsumers > 2

\* LiveStereo's checks: the frames' sizes agree too, the slots are enough for the mode,
\* and the serials (not the cameras) differ.
PairFits ==
  /\ OneGeometry /\ geometry[1].bytes = geometry[2].bytes
  /\ \A s \in sources : cfg.depth >= MinSlots(Nodes(s))
  /\ cfg.streams[1].serial # cfg.streams[2].serial

Drawn == Formats \ {"RGB8", "RGBa8"}

Build ==
  /\ pc = "open" /\ at > Len(opened)
  /\ CASE Alone -> IF cfg.depth >= MinSlots(Nodes(1)) THEN Goes("start", 1) ELSE Refused("drop")
       [] View -> IF ~PairFits THEN Refused("unbuilt")
                  ELSE IF geometry[1].format \in Drawn THEN Goes("start", 1) ELSE Refused("drop")
       [] OTHER -> IF ~OneGeometry THEN Refused("unbuilt")
                   ELSE IF Fitting THEN Goes("start", 1) ELSE Refused("drop")
  /\ UNCHANGED <<case, cfg, rigVars, syncVars, sdkVars, lost>>

\* The acquisition thread binds the sink's slots, which have the size of stream 1's buffers.
StartStream ==
  /\ pc = "start" /\ at <= Len(opened)
  /\ state' = [state EXCEPT ![at] =
       IF Bindable(Nodes(at), geometry[at], geometry[1].buffer, cfg.depth)
       THEN "open" ELSE "failed"]
  /\ Goes("start", at + 1)
  /\ UNCHANGED <<case, cfg, opened, sources, nodes, ptp, inited, geometry, syncVars, sdkVars,
                 lost>>

\* The transport fails, and the camera comes up again with what it has from power-on.
Lose(s) ==
  /\ s \in DOMAIN state /\ state[s] = "open" /\ lost < MaxLost
  /\ pc \notin {"drop", "unbuilt", "clear", "exit"}
  /\ state' = [state EXCEPT ![s] = "lost"] /\ lost' = lost + 1
  /\ nodes' = [nodes EXCEPT ![opened[s]] = Camera_(s).powerOn]
  /\ ptp' = [ptp EXCEPT ![opened[s]] = IF @ = "" THEN "" ELSE "Listening"]
  /\ UNCHANGED <<case, mainVars, cfg, opened, sources, inited, geometry, syncVars, sdkVars>>

\* open_stream after DeInit: configured as before, and the same camera as before, or the
\* attempts run out.
Recover(s) ==
  /\ s \in DOMAIN state /\ state[s] = "lost"
  /\ LET after == Configured(Camera_(s), Nodes(s), cfg.camera, cfg.action)
         ok == /\ Configurable(Camera_(s), cfg.camera, cfg.action)
               /\ SameGeometry(Camera_(s), after, geometry[s])
               /\ Bindable(after, geometry[s], geometry[1].buffer, cfg.depth)
     IN /\ nodes' = [nodes EXCEPT ![opened[s]] = after]
        /\ state' = [state EXCEPT ![s] = IF ok THEN "open" ELSE "failed"]
  /\ UNCHANGED <<case, mainVars, cfg, opened, sources, ptp, inited, geometry, syncVars, sdkVars,
                 lost>>

\* The camera's clock finds its master, or loses it.
Clock(c) ==
  /\ ptp[c] \in {"Listening", "Slave"} /\ pc \in {"start", "ptp", "run"}
  /\ ptp' = [ptp EXCEPT ![c] = IF @ = "Slave" THEN "Listening" ELSE "Slave"]
  /\ UNCHANGED <<case, mainVars, cfg, opened, sources, nodes, inited, geometry, state, syncVars,
                 sdkVars, lost>>

-----------------------------------------------------------------------------
(* The triggers. *)

AllSlave == \A s \in Opened : ptp[opened[s]] = "Slave"

\* finish_arming: the first checker is taken back into the timebase of the stamps, the
\* others are copies of it.
Finished(first) == [s \in Opened |-> first - case.tai]

\* No triggers, a scheduled start for all, or (after the wait) one trigger per frame.
\* Reading the status of a camera that is being lost may throw.
Arm ==
  /\ pc = "start" /\ at > Len(opened)
  /\ \/ ~cfg.action.enabled /\ Goes("run", 1) /\ UNCHANGED <<target, checker>>
     \/ /\ cfg.action.enabled /\ ~cfg.action.perFrame /\ AllSlave
        /\ target' = now + Lead /\ checker' = Finished(now + Lead) /\ Goes("run", 1)
     \/ /\ cfg.action.enabled /\ cfg.action.perFrame /\ cfg.action.hz > 0
        /\ Goes("ptp", 0) /\ UNCHANGED <<target, checker>>
     \/ /\ cfg.action.enabled
        /\ \/ IF cfg.action.perFrame THEN cfg.action.hz <= 0 ELSE ~AllSlave
           \/ \E s \in Opened : state[s] # "open"
        /\ Refused("stop") /\ UNCHANGED <<target, checker>>
  /\ UNCHANGED <<case, cfg, rigVars, now, trigger, acked, sdkVars, lost>>

\* Seeded fault: the wait has no deadline.
WaitsOn(polls) == FALSE

WaitOver(polls) == polls = PtpWait

\* wait_for_ptp_slave; a wait that ends without all of them is not fatal.
Poll ==
  /\ pc = "ptp"
  /\ \/ (AllSlave \/ WaitOver(at)) /\ Goes("keys", 1) /\ UNCHANGED now
     \/ ~AllSlave /\ at < PtpWait /\ Goes("ptp", at + 1) /\ now' = now + 1
     \/ (\E s \in Opened : state[s] # "open") /\ Refused("stop") /\ UNCHANGED now
  /\ UNCHANGED <<case, cfg, rigVars, target, checker, trigger, acked, sdkVars, lost>>

\* The keys are checked before a command is sent: a camera they do not match is silent.
StartTriggers ==
  /\ pc = "keys"
  /\ \/ /\ \A s \in Opened : KeysVerified(Camera_(s), Nodes(s), cfg.action.keys)
        /\ target' = now + Lead /\ checker' = Finished(now + Lead)
        /\ trigger' = "running" /\ Goes("run", 1)
     \/ /\ \E s \in Opened : \/ ~KeysVerified(Camera_(s), Nodes(s), cfg.action.keys)
                             \/ state[s] # "open"
        /\ Refused("stop") /\ UNCHANGED <<target, checker, trigger>>
  /\ UNCHANGED <<case, cfg, rigVars, now, acked, sdkVars, lost>>

\* A camera on the command's keys, another program's included.
Answering(c) ==
  /\ Answers(nodes[c], cfg.action.keys)
  /\ \A s \in Opened : opened[s] = c => state[s] # "lost"

\* A camera that answers and whose start-of-frame trigger is the action.
Fires(c) ==
  /\ Answering(c)
  /\ nodes[c]["TriggerMode"]["FrameStart"] = "On"
  /\ nodes[c]["TriggerSource"]["FrameStart"] = "Action0"

\* The command of one frame: of the cameras that answer some are heard in time, those
\* without a clock with an error.
Send ==
  /\ trigger = "running"
  /\ LET answering == {c \in Cameras : Answering(c)} IN
     \E heard \in SUBSET answering :
        LET ok == {c \in heard : ptp[c] = "Slave"} IN
        acked' = [as |-> IF Cardinality(ok) >= Len(opened) THEN "ok"
                         ELSE IF Cardinality(heard) < Len(opened) THEN "missing" ELSE "not ok",
                  fired |-> {c \in Cameras : ptp[c] = "Slave" /\ Fires(c)}]
  /\ UNCHANGED <<case, mainVars, cfg, rigVars, now, target, checker, trigger, sdkVars, lost>>

TriggerLeaves ==
  /\ trigger = "told" /\ trigger' = "gone"
  /\ UNCHANGED <<case, mainVars, cfg, rigVars, now, target, checker, acked, sdkVars, lost>>

-----------------------------------------------------------------------------
(* The end of the run, and what is given back in which order. *)

\* What spin_acquire is for: it got frames, all of them in the buffers it bound.
Verdict(landed) == IF landed = {"ours"} THEN 0 ELSE 1

\* A signal or a window; spin_acquire runs to its number of frames, of which there are none
\* when its stream never opened.
Ends ==
  /\ pc = "run" /\ pc' = "stop" /\ at' = 1
  /\ IF Alone
     THEN \E landed \in SUBSET {"ours", "foreign"} :
             /\ (state[1] = "failed" /\ lost = 0) => landed = {}
             /\ status' = Verdict(landed)
     ELSE UNCHANGED status
  /\ UNCHANGED <<case, cfg, rigVars, syncVars, sdkVars, lost>>

Then(step) ==
  CASE step = "stop" -> "drop" [] step = "drop" -> "clear" [] OTHER -> "exit"

\* stop_action_sync: told, then joined.
StopTriggers ==
  /\ pc = "stop"
  /\ \/ trigger = "running" /\ trigger' = "told" /\ UNCHANGED mainVars
     \/ trigger \in {"none", "gone"} /\ Goes(Then("stop"), 1) /\ UNCHANGED trigger
  /\ UNCHANGED <<case, cfg, rigVars, now, target, checker, acked, sdkVars, lost>>

\* streams_.clear(): every source is stopped and deinitialises its camera.  Without a
\* whole SpinnakerAcquireSource nothing else is given back by hand.
DropStreams ==
  /\ pc \in {"drop", "unbuilt"}
  /\ inited' = inited \ {opened[s] : s \in sources} /\ sources' = {}
  /\ state' = [s \in DOMAIN state |-> "idle"]
  /\ Goes(Then(pc), 1)
  /\ UNCHANGED <<case, cfg, opened, nodes, ptp, geometry, syncVars, sdkVars, lost>>

Clear ==
  /\ pc = "clear"
  /\ handles' = FALSE /\ released' = TRUE /\ Goes(Then("clear"), 1)
  /\ UNCHANGED <<case, cfg, rigVars, syncVars, lost>>

-----------------------------------------------------------------------------
Main ==
  ParseArguments \/ Load \/ Select \/ SelectEye \/ OpenCamera \/ Build \/ StartStream \/ Arm \/ Poll
  \/ StartTriggers \/ StopTriggers \/ DropStreams \/ Clear

Next ==
  \/ Main \/ Ends \/ Send \/ TriggerLeaves
  \/ \E s \in Opened : Lose(s) \/ Recover(s)
  \/ \E c \in Cameras : Clock(c)

Spec == Init /\ [][Next]_vars

\* main and the trigger thread run; cameras need not come back, nor clocks find a master.
FairSpec == Spec /\ WF_vars(Main) /\ WF_vars(TriggerLeaves)

-----------------------------------------------------------------------------
(* Properties. *)

TypeOK ==
  /\ case \in Cases /\ status \in {0, 1} /\ lost \in 0 .. MaxLost
  /\ pc \in {"args", "load", "select", "open", "start", "ptp", "keys", "run", "stop", "drop",
             "unbuilt", "clear", "exit"}
  /\ inited \subseteq Cameras /\ sources \subseteq Opened
  /\ \A s \in DOMAIN state : state[s] \in {"idle", "open", "lost", "failed"}
  /\ trigger \in {"none", "running", "told", "gone"}

Shared(s) == \E t \in Opened \ {s} : opened[t] = opened[s]

\* The streams of a run have a camera each.  LiveStereo compares serials: a stream without
\* one may share the first camera with the stream that names it.
OwnCameras ==
  (pc = "run" /\ \E s \in Opened : Shared(s)) =>
     View /\ \E s \in Opened : cfg.streams[s].serial = ""

\* A stream that delivers has the camera its buffers were cut for, however often that
\* camera went away: the size, the payload within a slot, the slots its mode needs.
BuffersFit ==
  \A s \in DOMAIN state : (state[s] = "open" /\ ~Shared(s)) =>
     /\ SameGeometry(Camera_(s), Nodes(s), geometry[s])
     /\ Payload(Camera_(s), Nodes(s)) <= geometry[1].buffer
     /\ cfg.depth >= MinSlots(Nodes(s))

\* No calibration runs on the other eye, on another camera, or at another size.
EyesMatch ==
  (Acquire /\ pc = "run" /\ cfg.calibration # <<>>) =>
     \A s \in Opened :
        LET eye == cfg.calibration.eyes[s] IN
        /\ eye.role = cfg.streams[s].role
        /\ (eye.serial # "" /\ cfg.streams[s].serial # "") => eye.serial = Camera_(s).serial
        /\ geometry[s].width = cfg.calibration.size

\* What runs is what the stages behind it take for granted, on whichever path the
\* document was accepted.
StagesGranted ==
  (Acquire /\ pc = "run") =>
     /\ (cfg.recording.enabled \/ Forced) => cfg.recording.topics # <<>>
     /\ cfg.recording.enabled => ~Twice(cfg.recording.topics) /\ cfg.recording.chunk > 0
     /\ cfg.ess => cfg.stereo /\ cfg.calibration # <<>> /\ Len(opened) = 2 /\ cfg.slots > 0

\* Every stream is checked against the instant of the trigger, in the stamps' timebase.
CheckersAgree == target # None => \A s \in DOMAIN checker : checker[s] + case.tai = target

\* The SDK goes last: no source holds a camera and no thread sends a command by then.
SdkLast == released => sources = {} /\ trigger \notin {"running", "told"}

\* spin_acquire only confirms a run whose stream was opened, on the buffers it asked for.
Confirmed ==
  (Alone /\ pc = "exit" /\ status = 0 /\ cfg # None) => geometry # <<>> /\ released

\* The rig that runs is the one the document describes, and on every way out it is given
\* back before the SDK.
BringUpInv ==
  /\ TypeOK /\ OwnCameras /\ BuffersFit /\ EyesMatch
  /\ StagesGranted /\ CheckersAgree /\ SdkLast /\ Confirmed

\* No command goes out that a camera would wait for and not take (where its keys can be
\* read back), a reconnected one included; and one counted ok exposed a frame on every
\* camera, unless a stray one answered for it.
TriggersReach ==
  /\ trigger = "running" =>
       \A s \in Opened : (state[s] = "open" /\ Camera_(s).keys = "readable") => Fires(opened[s])
  /\ acked.as = "ok" =>
       \/ \A s \in Opened : opened[s] \in acked.fired
       \/ \E c \in Cameras \ {opened[s] : s \in Opened} : Answering(c)

\* A start ends, in a run or in a refusal, whatever the clocks do; and so does a stop.
BringUpEnds == (pc = "load" ~> pc \in {"run", "exit"}) /\ (pc = "stop" ~> pc = "exit")
=============================================================================
