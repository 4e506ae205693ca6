------------------------------ MODULE AcquireApp ------------------------------
(***************************************************************************)
(* app/src/acquire_main.cpp from the first line of main to the last: the    *)
(* streams, the topics, the consumers and their threads are set up, the     *)
(* main loop takes the frames off the reference ring, and everything is     *)
(* stopped, joined and destroyed, on the normal way out and on every        *)
(* exception's.  The threads are the relay of SIGINT, a source and an       *)
(* upload per stream, an encoder per recorded stream, the pair consumer or  *)
(* the disparity window, the readback stage, a viewer and the triggers.     *)
(*                                                                         *)
(* The rings, the tap, the stages and the recorder have modules of their    *)
(* own; here a ring is its newest frame and who holds which, a tap its      *)
(* newest frame, and a message the recorder accepts is in the file.  A      *)
(* cudaSetDevice on a worker's thread succeeds, as it did on main's.        *)
(***************************************************************************)
EXTENDS TopicGraph, Integers, SequencesExt

CONSTANTS
  Configs,    \* what load_app_config returns, what the rig turns out to be and, as
              \* bounds, how many frames each stream brings and what may end the run
  Depth,      \* slots of a device ring
  Slots       \* slots of the readback stage

Streams == {1, 2}
Reference == 1
Disparity == <<"", "disparity">>

Source == <<"source1", "source2">>
Upload == <<"upload1", "upload2">>
Encoder == <<"encoder1", "encoder2">>
Stream == <<"stream1", "stream2">>
Threads == Range(Source) \cup Range(Upload) \cup Range(Encoder)
           \cup {"relay", "trigger", "viewer", "essviewer", "pairs", "download"}
Readers == {"main", "viewer", "pairs"}

VARIABLES
  cfg,         \* the configuration
  pc, at,      \* where main is, and at which stream, topic or step of that
  thrown,      \* an exception is on its way out
  alive,       \* the objects that exist, of those with a thread or a user in one
  registered,  \* the streams whose ring is in g_rings
  thr,         \* thr[t]: "none", "running", "closing" (its window is closed), "gone"
  asked,       \* the threads that were told to stop
  subscribed,  \* the topics with a recorder behind them
  recorder,    \* "none", "open", "closed"
  recorded,    \* <<topic, frame>>: what the file holds
  refused,     \* what came after close()
  shot,        \* shot[s]: frames source s has committed
  uploading,   \* uploading[s]: the upload has taken the next one
  up,          \* up[s]: the newest frame in ring s (latest_)
  announced,   \* announced[s]: the frame wait_seq_ was last moved for
  waitSeq,     \* wait_seq_ of the reference ring
  hold,        \* hold[r][s]: the frame of ring s that reader r has leased, or 0
  paired, seenByViewer,   \* the last reference frame each has had
  tap,         \* tap[s]: the newest frame in the tap of stream s
  tapOpen,     \* the taps that are built and running
  took,        \* took[s]: the last frame encoder s took
  encoding,    \* encoding[s]: the frame it is at, or 0
  accepted,    \* the readback stage's inflight_
  giving,      \* the frame its sink is given, or 0
  signals,     \* SIGINTs the relay has not seen
  relayAt,     \* the ring the relay is about to wake; 0 in sigwait
  stopped,     \* g_stop
  closed,      \* a viewer's closed_
  finished,    \* the streams whose source is finished
  late,        \* a frame was published after an end had been raised
  seen, peek, last  \* locals of the loop, the first two of one round of it

setupVars == <<cfg, graphVars, alive, registered, subscribed>>
threadVars == <<thr, asked>>
fileVars == <<recorder, recorded, refused>>
ringVars == <<shot, uploading, up, announced, waitSeq, hold, late>>
readerVars == <<paired, seenByViewer>>
tapVars == <<tap, tapOpen, took, encoding>>
stageVars == <<accepted, giving>>
endVars == <<signals, relayAt, stopped, closed, finished>>
loopVars == <<seen, peek, last>>
mainVars == <<pc, at, thrown>>
dataVars == <<fileVars, ringVars, readerVars, tapVars, stageVars, endVars>>
vars == <<mainVars, loopVars, setupVars, threadVars, dataVars>>

Init ==
  /\ cfg \in Configs /\ GraphInit
  /\ pc = "open" /\ at = 1 /\ thrown = FALSE
  /\ alive = {"guard"} /\ registered = {} /\ subscribed = {}
  /\ thr = [t \in Threads |-> IF t = "relay" THEN "running" ELSE "none"] /\ asked = {}
  /\ recorder = "none" /\ recorded = {} /\ refused = {}
  /\ shot = [s \in Streams |-> 0] /\ uploading = [s \in Streams |-> FALSE]
  /\ up = [s \in Streams |-> 0] /\ announced = [s \in Streams |-> 0]
  /\ waitSeq = 0 /\ hold = [r \in Readers |-> [s \in Streams |-> 0]] /\ late = FALSE
  /\ paired = 0 /\ seenByViewer = 0
  /\ tap = [s \in Streams |-> 0] /\ tapOpen = {}
  /\ took = [s \in Streams |-> 0] /\ encoding = [s \in Streams |-> 0]
  /\ accepted = <<>> /\ giving = 0
  /\ signals = 0 /\ relayAt = 0 /\ stopped = FALSE /\ closed = FALSE /\ finished = {}
  /\ seen = 0 /\ peek = 0 /\ last = 0

Running(t) == thr[t] = "running"
Live(t) == thr[t] \in {"running", "closing"}
Started(ts) == [t \in Threads |-> IF t \in ts THEN "running" ELSE thr[t]]
Ends(t) == thr' = [thr EXCEPT ![t] = "gone"] /\ UNCHANGED asked
Goes(to, i) == pc' = to /\ at' = i /\ UNCHANGED thrown

\* load_app_config and the switches between them: who runs.
StereoOn == cfg.stereo /\ cfg.streams = 2
EssOn == cfg.ess /\ StereoOn
HasEngine == EssOn /\ cfg.viewer # "ess"
HasEssViewer == EssOn /\ cfg.viewer = "ess"
HasViewer == cfg.viewer # "ess"
Raw(s) == cfg.topics[s]
Colour(s) == <<Raw(s)[1], "image_color">>     \* sibling_topic

-----------------------------------------------------------------------------
(* The way out: stop_helpers and what precedes it, then the destructors in the *)
(* reverse order of the declarations.                                           *)

Stop(t, owner) == [do |-> "stop", what |-> t, of |-> owner]
Free(o) == [do |-> "free", what |-> o, of |-> o]

\* Seeded fault: the file is closed before what feeds it is stopped.
RecorderFirst == <<
  Stop("trigger", "guard"), Stop("source1", "guard"), Stop("upload1", "guard"),
  Stop("source2", "guard"), Stop("upload2", "guard"),
  Stop("essviewer", "guard"), Stop("pairs", "guard"), Stop("recorder", "guard"),
  Stop("download", "guard"), Stop("encoder1", "guard"), Stop("encoder2", "guard"),
  Stop("viewer", "guard"), Stop("relay", "guard")>>

Shutdown == <<
  Stop("trigger", "guard"), Stop("source1", "guard"), Stop("upload1", "guard"),
  Stop("source2", "guard"), Stop("upload2", "guard"),
  Stop("essviewer", "guard"), Stop("pairs", "guard"), Stop("download", "guard"),
  Stop("encoder1", "guard"), Stop("encoder2", "guard"), Stop("recorder", "guard"),
  Stop("viewer", "guard"), Stop("relay", "guard")>>

\* Seeded fault: the readback stage is declared after the pair consumer.
StageFirst == <<
  Stop("essviewer", "essviewer"), Free("essviewer"),
  Stop("download", "download"), Free("download"), Stop("pairs", "pairs"), Free("pairs"),
  Free("ess"), Stop("viewer", "viewer"), Free("viewer"), Stop("relay", "unregister"),
  Free("unregister"), Stop("encoder1", "stream1"), Stop("upload1", "stream1"),
  Free("stream1"), Stop("encoder2", "stream2"), Stop("upload2", "stream2"), Free("stream2"),
  Stop("recorder", "recorder"), Free("recorder"),
  Stop("trigger", "source"), Stop("source1", "source"), Stop("source2", "source"),
  Free("source"), Stop("relay", "guard")>>

Unwinding == <<
  Stop("essviewer", "essviewer"), Free("essviewer"), Stop("pairs", "pairs"), Free("pairs"),
  Stop("download", "download"), Free("download"), Free("ess"),
  Stop("viewer", "viewer"), Free("viewer"), Stop("relay", "unregister"), Free("unregister"),
  Stop("encoder1", "stream1"), Stop("upload1", "stream1"), Free("stream1"),
  Stop("encoder2", "stream2"), Stop("upload2", "stream2"), Free("stream2"),
  Stop("recorder", "recorder"), Free("recorder"),
  Stop("trigger", "source"), Stop("source1", "source"), Stop("source2", "source"),
  Free("source"), Stop("relay", "guard")>>

Plan == Shutdown \o Unwinding

\* An exception leaves the scope of the objects, or is first caught by the handler
\* around the loop; by then the loop's lease is gone.
Abort == pc' = "down" /\ at' = Len(Shutdown) + 1 /\ thrown' = TRUE
Caught == pc' = "down" /\ at' = 1 /\ thrown' = TRUE

\* What a stop does before it joins.
Ask ==
  /\ pc = "down" /\ at <= Len(Plan)
  /\ LET d == Plan[at] IN
     /\ d.do = "stop" /\ d.of \in alive /\ d.what \notin asked
     /\ asked' = asked \cup {d.what}
     /\ tapOpen' = tapOpen \ {s \in Streams : Encoder[s] = d.what}
     /\ recorder' = IF d.what = "recorder" /\ recorder = "open" THEN "closed" ELSE recorder
     /\ signals' = IF d.what = "relay" /\ Running("relay") THEN signals + 1 ELSE signals
     \* RingPairConsumer::stop and stop_helpers wake the rings
     /\ waitSeq' = IF d.what \in {"pairs", "relay"} THEN waitSeq + 1 ELSE waitSeq
  /\ UNCHANGED <<mainVars, loopVars, setupVars, thr, recorded, refused, shot, uploading, up,
                 announced, hold, late, readerVars, tap, took, encoding, stageVars, relayAt,
                 stopped, closed, finished>>

\* The thread has been joined, if it was ever started.  The stage drops what is in flight.
Join ==
  /\ pc = "down" /\ at <= Len(Plan)
  /\ LET d == Plan[at] IN
     /\ d.do = "stop" /\ d.of \in alive /\ d.what \in asked
     /\ d.what \in Threads => ~Live(d.what)
     /\ accepted' = IF d.what = "download" THEN <<>> ELSE accepted
  /\ Goes("down", at + 1)
  /\ UNCHANGED <<loopVars, setupVars, threadVars, fileVars, ringVars, readerVars, tapVars, giving,
                 endVars>>

Destroy ==
  /\ pc = "down" /\ at <= Len(Plan)
  /\ LET d == Plan[at] IN
     /\ d.do = "free" \/ d.of \notin alive
     /\ alive' = IF d.do = "free" THEN alive \ {d.of} ELSE alive
     /\ registered' = IF d.do = "free" /\ d.of = "unregister" /\ d.of \in alive
                      THEN {} ELSE registered
  /\ Goes("down", at + 1)
  /\ UNCHANGED <<loopVars, cfg, graphVars, subscribed, threadVars, dataVars>>

Exit ==
  /\ pc = "down" /\ at > Len(Plan)
  /\ Goes("exit", 0)
  /\ UNCHANGED <<loopVars, setupVars, threadVars, dataVars>>

-----------------------------------------------------------------------------
(* Setting up, in main's order.  Anything that allocates may throw. *)

\* Each stream resolves to a camera of its own, they have one geometry, and it is the
\* one the calibration was solved at.
RigFits ==
  /\ cfg.streams \in 1 .. 2
  /\ Len(cfg.cameras) = 2 /\ cfg.streams = 2 => cfg.cameras[1] # cfg.cameras[2]
  /\ cfg.calibrated \in {0, cfg.size}

Open ==
  /\ pc = "open"
  /\ \/ RigFits /\ alive' = alive \cup {"source"}
        /\ IF cfg.recording /\ cfg.record = <<>>
           THEN Goes("down", Len(Shutdown) + 1) ELSE Goes("stream", 1)
     \/ Abort /\ UNCHANGED alive
  /\ UNCHANGED <<loopVars, cfg, graphVars, registered, subscribed, threadVars, dataVars>>

\* The ring is in g_rings before the stream is complete, and the stream is in `streams`
\* before its topics are declared.
AddStream ==
  /\ pc = "stream"
  /\ \/ /\ registered' = registered \cup {at}
        /\ alive' = alive \cup {Stream[at]} \cup (IF at = cfg.streams THEN {"unregister"} ELSE {})
        /\ ~Known(Raw(at)) /\ ~Known(Colour(at)) /\ Raw(at) # Colour(at)
        /\ graph' = Declared(Declared(graph, Raw(at), Entry("tap", at)),
                             Colour(at), Entry("ring", at))
        /\ IF at < cfg.streams THEN Goes("stream", at + 1) ELSE Goes("viewer", 1)
     \/ /\ registered' \in {registered, registered \cup {at}}
        /\ alive' \in {alive, alive \cup (IF at \in registered' THEN {Stream[at]} ELSE {})}
        /\ Abort /\ UNCHANGED graph
  /\ UNCHANGED <<loopVars, cfg, built, subscribed, threadVars, dataVars>>

MakeViewer ==
  /\ pc = "viewer"
  /\ \/ HasViewer /\ cfg.maxConsumers > 1 /\ alive' = alive \cup {"viewer"} /\ Goes("engine", 1)
     \/ ~HasViewer /\ Goes("engine", 1) /\ UNCHANGED alive
     \/ HasViewer /\ Abort /\ UNCHANGED alive
  /\ built' = built \cup {Colour(Reference)}
  /\ UNCHANGED <<loopVars, cfg, graph, registered, subscribed, threadVars, dataVars>>

MakeEngine ==
  /\ pc = "engine"
  /\ \/ /\ HasEngine /\ ~Known(Disparity)
        /\ alive' = alive \cup {"ess"}
        /\ graph' = Declared(graph, Disparity, Entry("plane", NoStream))
        /\ Goes("recorder", 1)
     \/ ~HasEngine /\ Goes("recorder", 1) /\ UNCHANGED <<alive, graph>>
     \/ HasEngine /\ Abort /\ UNCHANGED <<alive, graph>>
  /\ UNCHANGED <<loopVars, cfg, built, registered, subscribed, threadVars, dataVars>>

MakeRecorder ==
  /\ pc = "recorder"
  /\ \/ cfg.recording /\ alive' = alive \cup {"recorder"} /\ Goes("topic", 1)
     \/ ~cfg.recording /\ Goes("wire", 1) /\ UNCHANGED alive
     \/ cfg.recording /\ Abort /\ UNCHANGED alive
  /\ UNCHANGED <<loopVars, cfg, graphVars, registered, subscribed, threadVars, dataVars>>

\* A topic that nothing here produces, or that has no wire form.
Unrecordable(name) ==
  (name = Disparity /\ ~HasEngine) \/ ~Known(name) \/ (Known(name) /\ Device(name))

\* An image topic gets its tap and its encoder's thread, the disparity its readback stage.
SubscribeTopic ==
  /\ pc = "topic" /\ at <= Len(cfg.record)
  /\ LET name == cfg.record[at] IN
     \/ /\ ~Unrecordable(name)
        /\ subscribed' = subscribed \cup {name} /\ built' = built \cup {name}
        /\ LET s == StreamOf(name) IN
           IF Resolves(name, "tap")
           THEN /\ tapOpen' = tapOpen \cup {s} /\ thr' = Started({Encoder[s]})
                /\ UNCHANGED alive
           ELSE alive' = alive \cup {"download"} /\ UNCHANGED <<tapOpen, thr>>
        /\ Goes("topic", at + 1)
     \/ Abort /\ UNCHANGED <<subscribed, built, tapOpen, thr, alive>>
  /\ UNCHANGED <<loopVars, cfg, graph, registered, asked, fileVars, ringVars, readerVars,
                 tap, took, encoding, stageVars, endVars>>

StartRecorder ==
  /\ pc = "topic" /\ at > Len(cfg.record)
  /\ \/ recorder' = "open" /\ Goes("wire", 1)
     \/ Abort /\ UNCHANGED recorder
  /\ UNCHANGED <<loopVars, setupVars, threadVars, recorded, refused, ringVars, readerVars,
                 tapVars, stageVars, endVars>>

\* The readback stage starts if something resolved it; then the pairing, whose reference
\* has to be one eye's ring, and which takes the third consumer id.
Pairable ==
  /\ Known(cfg.reference) /\ StreamOf(cfg.reference) # NoStream
  /\ Resolves(cfg.reference, "ring") /\ cfg.maxConsumers > 2

Wire ==
  /\ pc = "wire"
  /\ LET stage == IF "download" \in alive THEN {"download"} ELSE {} IN
     \/ /\ StereoOn /\ Pairable
        /\ alive' = alive \cup {"pairs"} \cup (IF HasEssViewer THEN {"essviewer"} ELSE {})
        /\ built' = built \cup {Colour(1), Colour(2)}
        /\ thr' = Started(stage \cup (IF HasEssViewer THEN {} ELSE {"pairs"}))
        /\ Goes("begin", 1)
     \/ ~StereoOn /\ Goes("begin", 1) /\ thr' = Started(stage) /\ UNCHANGED <<alive, built>>
     \/ StereoOn /\ Abort /\ thr' = Started(stage) /\ UNCHANGED <<alive, built>>
  /\ UNCHANGED <<loopVars, cfg, graph, registered, subscribed, asked, dataVars>>

\* The viewers start; the loop's stream may not be had, and the pairing and the readback
\* stage run by then.
Begin ==
  /\ pc = "begin"
  /\ thr' = Started({t \in {"viewer", "essviewer"} : t \in alive})
  /\ Goes("start", 1) \/ Abort
  /\ UNCHANGED <<loopVars, setupVars, asked, dataVars>>

\* The source starts, then its upload; a source that cannot start throws.
StartStream ==
  /\ pc = "start"
  /\ \/ /\ thr' = Started({Source[at], Upload[at]})
        /\ IF at < cfg.streams THEN Goes("start", at + 1) ELSE Goes("arm", 1)
     \/ Caught /\ UNCHANGED thr
  /\ UNCHANGED <<loopVars, setupVars, asked, dataVars>>

\* arm_action_sync: a thread only when every frame is triggered.
Arm ==
  /\ pc = "arm"
  /\ \/ /\ thr' = IF cfg.trigger = "frame" THEN Started({"trigger"}) ELSE thr
        /\ Goes("check", 0)
     \/ cfg.trigger # "off" /\ Caught /\ UNCHANGED thr
  /\ UNCHANGED <<loopVars, setupVars, asked, dataVars>>

SetUp ==
  Open \/ AddStream \/ MakeViewer \/ MakeEngine \/ MakeRecorder \/ SubscribeTopic
  \/ StartRecorder \/ Wire \/ Begin \/ StartStream \/ Arm

-----------------------------------------------------------------------------
(* The main loop. *)

Ended == stopped \/ closed \/ finished # {}

InLoop == pc \in {"check", "seen", "view", "wait", "lease", "use"}
ToLoop(to) == pc' = to /\ UNCHANGED <<at, thrown>>

\* `seen` and `peek` are locals of one round.
Check ==
  /\ pc = "check"
  /\ IF Ended THEN Goes("down", 1) ELSE ToLoop("seen")
  /\ seen' = 0 /\ peek' = 0
  /\ UNCHANGED <<last, setupVars, threadVars, dataVars>>

ReadSeen ==
  /\ pc = "seen" /\ ToLoop("view")
  /\ seen' = waitSeq
  /\ UNCHANGED <<peek, last, setupVars, threadVars, dataVars>>

\* view_latest_inplace finds no frame, or the one that was consumed last.
NothingNew == up[Reference] = 0 \/ up[Reference] = last

View ==
  /\ pc = "view"
  /\ peek' = up[Reference]
  /\ ToLoop(IF NothingNew THEN "wait" ELSE "lease")
  /\ UNCHANGED <<seen, last, setupVars, threadVars, dataVars>>

\* Seeded fault: only the end of the run wakes the loop.
WokenByEnd == Ended

\* wait_for_publish(seen) returns.
Woken == waitSeq # seen

Wait ==
  /\ pc = "wait" /\ Woken /\ ToLoop("check")
  /\ UNCHANGED <<loopVars, setupVars, threadVars, dataVars>>

\* lease_latest hands out what is the newest by now, or fails if that has moved on.
Lease ==
  /\ pc = "lease"
  /\ \/ /\ hold' = [hold EXCEPT !["main"][Reference] = up[Reference]]
        /\ last' = up[Reference] /\ ToLoop("use")
     \/ up[Reference] # peek /\ ToLoop("check") /\ UNCHANGED <<hold, last>>
  /\ UNCHANGED <<seen, peek, setupVars, threadVars, fileVars, shot, uploading, up, announced,
                 waitSeq, late, readerVars, tapVars, stageVars, endVars>>

LetGo(h, r) == [h EXCEPT ![r] = [s \in Streams |-> 0]]

\* Seeded fault: the handler around the loop runs with the lease still held.
KeptOnThrow == hold
DroppedOnThrow == LetGo(hold, "main")

\* The round's body: the lease goes with it, also when it throws.
Use ==
  /\ pc = "use"
  /\ \/ ToLoop("check") /\ hold' = LetGo(hold, "main") /\ UNCHANGED <<seen, peek>>
     \/ "fault" \in cfg.ends /\ Caught /\ hold' = DroppedOnThrow /\ seen' = 0 /\ peek' = 0
  /\ UNCHANGED <<last, setupVars, threadVars, fileVars, shot, uploading, up, announced, waitSeq,
                 late, readerVars, tapVars, stageVars, endVars>>

LoopStep == Check \/ ReadSeen \/ View \/ Wait \/ Lease \/ Use

-----------------------------------------------------------------------------
(* The sources and the uploads. *)

\* RingFrameSink::commit: the tap's copy, then the ingress ring.
Commit(s) ==
  /\ Running(Source[s]) /\ s \notin finished /\ shot[s] < cfg.frames[s]
  /\ shot' = [shot EXCEPT ![s] = @ + 1]
  /\ tap' = IF s \in tapOpen THEN [tap EXCEPT ![s] = shot[s] + 1] ELSE tap
  /\ UNCHANGED <<mainVars, loopVars, setupVars, threadVars, fileVars, uploading, up, announced,
                 waitSeq, hold, late, readerVars, tapOpen, took, encoding, stageVars, endVars>>

\* A camera gives up, a recording is over: finished, then the callback wakes the rings.
SourceEnds(s) ==
  /\ "source" \in cfg.ends /\ Running(Source[s]) /\ s \notin finished
  /\ finished' = finished \cup {s}
  /\ UNCHANGED <<mainVars, loopVars, setupVars, threadVars, fileVars, ringVars, readerVars,
                 tapVars, stageVars, signals, relayAt, stopped, closed>>

SourceWakes(s) ==
  /\ Running(Source[s]) /\ s \in finished
  /\ waitSeq' = waitSeq + 1 /\ Ends(Source[s])
  /\ UNCHANGED <<mainVars, loopVars, setupVars, fileVars, shot, uploading, up, announced, hold,
                 late, readerVars, tapVars, stageVars, endVars>>

SourceLeaves(s) ==
  /\ Running(Source[s]) /\ Source[s] \in asked /\ s \notin finished
  /\ Ends(Source[s])
  /\ UNCHANGED <<mainVars, loopVars, setupVars, dataVars>>

UploadTakes(s) ==
  /\ Running(Upload[s]) /\ ~uploading[s] /\ up[s] = announced[s] /\ up[s] < shot[s]
  /\ uploading' = [uploading EXCEPT ![s] = TRUE]
  /\ UNCHANGED <<mainVars, loopVars, setupVars, threadVars, fileVars, shot, up, announced,
                 waitSeq, hold, late, readerVars, tapVars, stageVars, endVars>>

\* acquire_write waits until nobody reads the slot whose turn it is.
CanWrite(s) == \A r \in Readers : hold[r][s] # 0 => (up[s] + 1 - hold[r][s]) % Depth # 0

UploadPublishes(s) ==
  /\ Running(Upload[s]) /\ uploading[s] /\ CanWrite(s)
  /\ up' = [up EXCEPT ![s] = @ + 1] /\ uploading' = [uploading EXCEPT ![s] = FALSE]
  /\ late' = (late \/ (s = Reference /\ Ended))
  /\ UNCHANGED <<mainVars, loopVars, setupVars, threadVars, fileVars, shot, announced, waitSeq,
                 hold, readerVars, tapVars, stageVars, endVars>>

UploadAnnounces(s) ==
  /\ Running(Upload[s]) /\ up[s] # announced[s]
  /\ announced' = [announced EXCEPT ![s] = up[s]]
  /\ waitSeq' = IF s = Reference THEN waitSeq + 1 ELSE waitSeq
  /\ UNCHANGED <<mainVars, loopVars, setupVars, threadVars, fileVars, shot, uploading, up, hold,
                 late, readerVars, tapVars, stageVars, endVars>>

\* What the ingress ring still holds is not uploaded.
UploadLeaves(s) ==
  /\ Running(Upload[s]) /\ Upload[s] \in asked /\ ~uploading[s] /\ up[s] = announced[s]
  /\ Ends(Upload[s])
  /\ UNCHANGED <<mainVars, loopVars, setupVars, dataVars>>

StreamStep(s) ==
  SourceWakes(s) \/ SourceLeaves(s) \/ UploadTakes(s) \/ UploadPublishes(s)
  \/ UploadAnnounces(s) \/ UploadLeaves(s)

-----------------------------------------------------------------------------
(* The encoders and the readback stage, which feed the recorder. *)

Record(message) ==
  IF recorder = "open"
  THEN recorded' = recorded \cup {message} /\ UNCHANGED <<recorder, refused>>
  ELSE refused' = refused \cup {message} /\ UNCHANGED <<recorder, recorded>>

EncoderTakes(s) ==
  /\ Running(Encoder[s]) /\ encoding[s] = 0 /\ s \in tapOpen /\ tap[s] > took[s]
  /\ encoding' = [encoding EXCEPT ![s] = tap[s]] /\ took' = [took EXCEPT ![s] = tap[s]]
  /\ UNCHANGED <<mainVars, loopVars, setupVars, threadVars, fileVars, ringVars, readerVars, tap,
                 tapOpen, stageVars, endVars>>

EncoderWrites(s) ==
  /\ Running(Encoder[s]) /\ encoding[s] # 0
  /\ Record(<<Raw(s), encoding[s]>>)
  /\ encoding' = [encoding EXCEPT ![s] = 0]
  /\ UNCHANGED <<mainVars, loopVars, setupVars, threadVars, ringVars, readerVars, tap, tapOpen,
                 took, stageVars, endVars>>

\* acquire_latest returns null, even with a frame there that was not taken.
EncoderLeaves(s) ==
  /\ Running(Encoder[s]) /\ encoding[s] = 0 /\ s \notin tapOpen
  /\ Ends(Encoder[s])
  /\ UNCHANGED <<mainVars, loopVars, setupVars, dataVars>>

StageTakes ==
  /\ Running("download") /\ "download" \notin asked /\ giving = 0 /\ accepted # <<>>
  /\ giving' = Head(accepted) /\ accepted' = Tail(accepted)
  /\ UNCHANGED <<mainVars, loopVars, setupVars, threadVars, fileVars, ringVars, readerVars,
                 tapVars, endVars>>

StageGives ==
  /\ Running("download") /\ giving # 0
  /\ Record(<<Disparity, giving>>) /\ giving' = 0
  /\ UNCHANGED <<mainVars, loopVars, setupVars, threadVars, ringVars, readerVars, tapVars,
                 accepted, endVars>>

StageLeaves ==
  /\ Running("download") /\ "download" \in asked /\ giving = 0
  /\ Ends("download")
  /\ UNCHANGED <<mainVars, loopVars, setupVars, dataVars>>

RecorderStep ==
  (\E s \in Streams : EncoderTakes(s) \/ EncoderWrites(s) \/ EncoderLeaves(s))
  \/ StageTakes \/ StageGives \/ StageLeaves

-----------------------------------------------------------------------------
(* The viewers and the pairing. *)

\* No window could be opened: the run goes on without it.
ViewerDisabled ==
  /\ Running("viewer") /\ cfg.viewer # "headless" /\ seenByViewer = 0
  /\ Ends("viewer")
  /\ UNCHANGED <<mainVars, loopVars, setupVars, dataVars>>

ViewerLooks ==
  /\ Running("viewer") /\ hold["viewer"][Reference] = 0 /\ up[Reference] > seenByViewer
  /\ "viewer" \notin asked
  /\ hold' = [hold EXCEPT !["viewer"][Reference] = up[Reference]]
  /\ seenByViewer' = up[Reference]
  /\ UNCHANGED <<mainVars, loopVars, setupVars, threadVars, fileVars, shot, uploading, up,
                 announced, waitSeq, late, paired, tapVars, stageVars, endVars>>

ViewerDrops ==
  /\ Running("viewer") /\ hold["viewer"][Reference] # 0
  /\ hold' = LetGo(hold, "viewer")
  /\ UNCHANGED <<mainVars, loopVars, setupVars, threadVars, fileVars, shot, uploading, up,
                 announced, waitSeq, late, readerVars, tapVars, stageVars, endVars>>

\* The window is closed, drawing failed, or stop() was called: closed_, then wake_all.
ViewerCloses ==
  /\ Running("viewer") /\ cfg.viewer # "headless" /\ hold["viewer"][Reference] = 0
  /\ "window" \in cfg.ends \/ "viewer" \in asked
  /\ closed' = TRUE /\ thr' = [thr EXCEPT !["viewer"] = "closing"]
  /\ UNCHANGED <<mainVars, loopVars, setupVars, asked, fileVars, ringVars, readerVars, tapVars,
                 stageVars, signals, relayAt, stopped, finished>>

ViewerWakes ==
  /\ thr["viewer"] = "closing"
  /\ waitSeq' = waitSeq + 1 /\ Ends("viewer")
  /\ UNCHANGED <<mainVars, loopVars, setupVars, fileVars, shot, uploading, up, announced, hold,
                 late, readerVars, tapVars, stageVars, endVars>>

\* HeadlessYoloConsumer has no window to close.
HeadlessLeaves ==
  /\ Running("viewer") /\ cfg.viewer = "headless" /\ "viewer" \in asked
  /\ hold["viewer"][Reference] = 0
  /\ Ends("viewer")
  /\ UNCHANGED <<mainVars, loopVars, setupVars, dataVars>>

\* RingPairConsumer::step runs on its own thread or on the disparity window's.
Pairing(t) == t \in {"pairs", "essviewer"} /\ Running(t)
Anchor == StreamOf(cfg.reference)
Partner == CHOOSE s \in Streams : s # Anchor
PairIdle == \A s \in Streams : hold["pairs"][s] = 0

PairLeases(t) ==
  /\ Pairing(t) /\ t \notin asked /\ PairIdle /\ up[Anchor] > paired
  /\ hold' = [hold EXCEPT !["pairs"][Anchor] = up[Anchor]]
  /\ paired' = up[Anchor]
  /\ UNCHANGED <<mainVars, loopVars, setupVars, threadVars, fileVars, shot, uploading, up,
                 announced, waitSeq, late, seenByViewer, tapVars, stageVars, endVars>>

PairPartner(t) ==
  /\ Pairing(t) /\ hold["pairs"][Anchor] # 0 /\ hold["pairs"][Partner] = 0 /\ up[Partner] > 0
  /\ hold' = [hold EXCEPT !["pairs"][Partner] = up[Partner]]
  /\ UNCHANGED <<mainVars, loopVars, setupVars, threadVars, fileVars, shot, uploading, up,
                 announced, waitSeq, late, readerVars, tapVars, stageVars, endVars>>

\* No partner within the retries, or the step threw.
PairGivesUp(t) ==
  /\ Pairing(t) /\ hold["pairs"][Anchor] # 0
  /\ hold' = LetGo(hold, "pairs")
  /\ UNCHANGED <<mainVars, loopVars, setupVars, threadVars, fileVars, shot, uploading, up,
                 announced, waitSeq, late, readerVars, tapVars, stageVars, endVars>>

\* The pair callback: the leases are dropped, the disparity goes to the readback stage if
\* it has a slot.
PairGives(t) ==
  /\ Pairing(t) /\ hold["pairs"][Partner] # 0
  /\ hold' = LetGo(hold, "pairs")
  /\ accepted' = IF t = "pairs" /\ "download" \in alive /\ Len(accepted) < Slots
                 THEN Append(accepted, hold["pairs"][Anchor]) ELSE accepted
  /\ UNCHANGED <<mainVars, loopVars, setupVars, threadVars, fileVars, shot, uploading, up,
                 announced, waitSeq, late, readerVars, tapVars, giving, endVars>>

PairLeaves ==
  /\ Running("pairs") /\ "pairs" \in asked /\ PairIdle
  /\ Ends("pairs")
  /\ UNCHANGED <<mainVars, loopVars, setupVars, dataVars>>

\* The disparity window: could not be opened, was closed, failed, or was stopped; in
\* every case closed, and nobody is woken.
EssViewerCloses ==
  /\ Running("essviewer") /\ PairIdle
  /\ "window" \in cfg.ends \/ "essviewer" \in asked
  /\ closed' = TRUE /\ Ends("essviewer")
  /\ UNCHANGED <<mainVars, loopVars, setupVars, fileVars, ringVars, readerVars, tapVars,
                 stageVars, signals, relayAt, stopped, finished>>

PairStep(t) ==
  PairLeases(t) \/ PairPartner(t) \/ PairGivesUp(t) \/ PairGives(t)

-----------------------------------------------------------------------------
(* The triggers and the signal. *)

\* The command's acknowledgements are counted and the thread sleeps to the next target.
TriggerLeaves ==
  /\ Running("trigger") /\ "trigger" \in asked
  /\ Ends("trigger")
  /\ UNCHANGED <<mainVars, loopVars, setupVars, dataVars>>

\* Ctrl-C, at any time, once.
Signal ==
  /\ "signal" \in cfg.ends /\ signals = 0 /\ ~stopped /\ pc # "exit"
  /\ signals' = 1
  /\ UNCHANGED <<mainVars, loopVars, setupVars, threadVars, fileVars, ringVars, readerVars,
                 tapVars, stageVars, relayAt, stopped, closed, finished>>

RelayWoken ==
  /\ Running("relay") /\ relayAt = 0 /\ signals > 0
  /\ signals' = signals - 1 /\ stopped' = TRUE /\ relayAt' = 1
  /\ UNCHANGED <<mainVars, loopVars, setupVars, threadVars, fileVars, ringVars, readerVars,
                 tapVars, stageVars, closed, finished>>

\* wake_all_rings, a ring at a time.
RelayWakes ==
  /\ relayAt # 0
  /\ waitSeq' = IF relayAt = Reference /\ relayAt \in registered THEN waitSeq + 1 ELSE waitSeq
  /\ IF relayAt = Cardinality(Streams) THEN relayAt' = 0 /\ Ends("relay")
     ELSE relayAt' = relayAt + 1 /\ UNCHANGED threadVars
  /\ UNCHANGED <<mainVars, loopVars, setupVars, fileVars, shot, uploading, up, announced, hold,
                 late, readerVars, tapVars, stageVars, signals, stopped, closed, finished>>

Relay == RelayWoken \/ RelayWakes

-----------------------------------------------------------------------------
WayOut == Ask \/ Join \/ Destroy \/ Exit
Main == SetUp \/ LoopStep \/ WayOut

Viewer == ViewerDrops \/ ViewerWakes \/ HeadlessLeaves
          \/ ("viewer" \in asked /\ ViewerCloses)
DisparityWindow == PairStep("essviewer") \/ ("essviewer" \in asked /\ EssViewerCloses)
PairThread == PairStep("pairs") \/ PairLeaves

Next ==
  \/ Main
  \/ \E s \in Streams : Commit(s) \/ SourceEnds(s) \/ StreamStep(s)
  \/ RecorderStep
  \/ ViewerDisabled \/ ViewerLooks \/ ViewerDrops \/ ViewerCloses \/ ViewerWakes
  \/ HeadlessLeaves
  \/ \E t \in {"pairs", "essviewer"} : PairStep(t)
  \/ PairLeaves \/ EssViewerCloses \/ TriggerLeaves
  \/ Signal \/ Relay

Spec == Init /\ [][Next]_vars

\* Every thread runs, and does what it was asked; nobody has to bring a frame, close a
\* window or send a signal.
FairSpec ==
  /\ Spec
  /\ WF_vars(Main) /\ WF_vars(Relay) /\ WF_vars(TriggerLeaves)
  /\ \A s \in Streams : WF_vars(SourceWakes(s) \/ SourceLeaves(s))
                        /\ WF_vars(UploadTakes(s) \/ UploadPublishes(s) \/ UploadAnnounces(s))
                        /\ WF_vars(UploadLeaves(s))
                        /\ WF_vars(EncoderTakes(s) \/ EncoderWrites(s) \/ EncoderLeaves(s))
  /\ WF_vars(StageTakes \/ StageGives \/ StageLeaves)
  /\ WF_vars(Viewer) /\ WF_vars(PairThread) /\ WF_vars(DisparityWindow)

-----------------------------------------------------------------------------
(* Properties. *)

TypeOK ==
  /\ cfg \in Configs
  /\ pc \in {"open", "stream", "viewer", "engine", "recorder", "topic", "wire", "begin", "start",
             "arm", "check", "seen", "view", "wait", "lease", "use", "down", "exit"}
  /\ at \in Nat /\ thrown \in BOOLEAN /\ registered \subseteq Streams
  /\ thr \in [Threads -> {"none", "running", "closing", "gone"}]
  /\ recorder \in {"none", "open", "closed"}
  /\ hold \in [Readers -> [Streams -> Nat]] /\ relayAt \in Streams \cup {0}

\* What a thread reaches through a raw pointer or a reference.
Needs(t) ==
  CASE t \in Range(Source) -> {"source"} \cup {Stream[s] : s \in {i \in Streams : Source[i] = t}}
    [] t \in Range(Upload) -> {Stream[s] : s \in {i \in Streams : Upload[i] = t}}
    [] t \in Range(Encoder) ->
         {"recorder"} \cup {Stream[s] : s \in {i \in Streams : Encoder[i] = t}}
    [] t = "viewer" -> {"viewer", "stream1"}
    [] t = "pairs" -> {"pairs", "stream1", "stream2"} \cup (IF HasEngine THEN {"ess"} ELSE {})
                      \cup (IF Disparity \in built THEN {"download"} ELSE {})
    [] t = "essviewer" -> {"essviewer", "pairs", "stream1", "stream2"}
    [] t = "download" -> {"download", "recorder"}
    [] t = "trigger" -> {"source"}
    [] OTHER -> {"guard"}

\* No object goes while a thread that reaches it runs, on any way out.
UsesLive == \A t \in Threads : Live(t) => Needs(t) \subseteq alive

\* The triggers are gone before the sources, whose SDK they use, are stopped.
TriggersFirst == Running("trigger") => \A s \in Streams : Source[s] \notin asked

\* The relay wakes no ring that is gone.  (Not so when a stream could not be added: its
\* predecessors are destroyed with their rings still registered.)
Added(s) == Known(Raw(s)) /\ StreamOf(Raw(s)) = s

WakesLive ==
  (relayAt \in registered /\ Added(cfg.streams)) => Stream[relayAt] \in alive

\* The loop sleeps on `seen` only with nothing announced that it has not consumed.
ParkedUpToDate == (pc = "wait" /\ waitSeq = seen) => announced[Reference] <= last

\* Threads and objects on every way through main: what a thread uses is there, and at
\* the end nobody is left.
AppInv ==
  /\ TypeOK /\ UsesLive /\ TriggersFirst /\ WakesLive /\ ParkedUpToDate
  /\ pc = "exit" => (alive = {"guard"} /\ \A t \in Threads : ~Live(t))

\* "Stopping the recorder first would drop the tail of the run": nothing is given to the
\* recorder after it was closed, and what an encoder took is in the file by then.
TailRecorded ==
  /\ refused = {}
  /\ recorder = "closed" =>
       \A s \in Streams : took[s] # 0 => <<Raw(s), took[s]>> \in recorded

\* No publish is missed between the look and the wait, and once the run has been ended the
\* next frame to be published at the latest brings the loop out.
FramesNoticed == \A n \in 1 .. 3 : announced[Reference] = n ~> (last >= n \/ ~InLoop)
LoopProgress == FramesNoticed /\ (late ~> ~InLoop)

\* The way out is walked to its end, whoever waits for whom.
ShutdownEnds == pc = "down" ~> pc = "exit"
=============================================================================
