--------------------------- MODULE AcquireAppProofs ---------------------------
(***************************************************************************)
(* AcquireApp's AppInv and TailRecorded, for every configuration.           *)
(*                                                                         *)
(* The objects are built in one order and taken down in another, and what   *)
(* has to be shown is that the second suits the threads.  `Built` says what *)
(* there is at each place of main on the way up, `Passed` what is stopped   *)
(* and gone at each place on the way down, `Order` that the recorder is     *)
(* open for as long as anything feeds it, `Fed` that what feeds it holds    *)
(* nothing back.                                                            *)
(***************************************************************************)
EXTENDS AcquireApp, FiniteSetTheorems, TLAPS

Up == pc \notin {"down", "exit"}
Loop == {"check", "seen", "view", "wait", "lease", "use"}
PastWire == {"begin", "start", "arm"} \cup Loop
PastEngine == {"recorder", "topic", "wire"} \cup PastWire
PastStreams == {"viewer", "engine"} \cup PastEngine
BeforeStart == {"open", "stream", "viewer", "engine", "recorder", "topic", "wire", "begin"}
Objects == {"guard", "source", "stream1", "stream2", "unregister", "viewer", "ess",
            "recorder", "download", "pairs", "essviewer"}

\* The way up: what main has made by the time it is at pc.
Built ==
  /\ "guard" \in alive /\ alive \subseteq Objects
  /\ pc = "open" => alive = {"guard"} /\ DOMAIN graph = {}
  /\ Up /\ pc # "open" => "source" \in alive /\ cfg.streams \in 1 .. 2
  /\ pc = "stream" => at \in 1 .. cfg.streams /\ \A s \in 1 .. at - 1 : Stream[s] \in alive
  /\ pc \in PastStreams => \A s \in 1 .. cfg.streams : Stream[s] \in alive
  /\ pc \in PastEngine /\ HasEngine => "ess" \in alive /\ Resolves(Disparity, "plane")
  /\ pc = "topic" => "recorder" \in alive
  /\ pc = "start" => at \in 1 .. cfg.streams
  /\ Up /\ "download" \in alive => "recorder" \in alive
  /\ Up /\ Disparity \in built => "download" \in alive
  /\ Up /\ "pairs" \in alive => pc \in PastWire /\ cfg.streams = 2
  /\ Up /\ "essviewer" \in alive => "pairs" \in alive
  /\ Up /\ "viewer" \in alive => pc \in PastStreams
  /\ "pairs" \in alive => Anchor \in Streams

\* A topic's stream is there, and so is every ring that may be woken, once all have been
\* added and for as long as they are registered.
Wired ==
  /\ \A n \in DOMAIN graph :
       graph[n].kind # "plane" =>
         graph[n].stream \in Streams /\ (Up => Stream[graph[n].stream] \in alive)
  /\ pc = "stream" =>
       /\ \A n \in DOMAIN graph : graph[n].stream \in 1 .. at - 1
       /\ \A s \in registered : Stream[s] \in alive
  /\ pc = "open" => registered = {}
  /\ pc \in PastStreams => "unregister" \in alive /\ \A s \in registered : Stream[s] \in alive
  /\ registered # {} /\ Added(cfg.streams) =>
       "unregister" \in alive /\ \A s \in registered : Stream[s] \in alive

\* A thread is started late and asked to stop on the way down.
Threaded ==
  /\ Up => asked = {}
  /\ pc \in BeforeStart =>
       ~Live("trigger") /\ \A s \in Streams : ~Live(Source[s]) /\ ~Live(Upload[s])
  /\ Up /\ pc \notin PastWire => ~Live("pairs")
  /\ Up /\ pc \in {"open", "stream", "viewer", "engine", "recorder"} =>
       "download" \notin alive /\ \A s \in Streams : ~Live(Encoder[s])

\* The way down: main is past the k-th place of Plan.
Past(k) == pc = "exit" \/ (pc = "down" /\ at > k)
Shutting(k) == pc = "down" /\ at \in k + 1 .. 13

Passed ==
  /\ pc = "down" => at \in 1 .. 38
  /\ Shutting(1) => ~Live("trigger")
  /\ Shutting(2) => ~Live("source1")
  /\ Shutting(4) => ~Live("source2")
  /\ Shutting(8) => ~Live("download")
  /\ Shutting(9) => ~Live("encoder1")
  /\ Shutting(10) => ~Live("encoder2")
  /\ Past(13) => ~Live("trigger") /\ ~Live("source1") /\ ~Live("source2")
  /\ Past(14) => ~Live("essviewer")
  /\ Past(15) => "essviewer" \notin alive
  /\ Past(16) => ~Live("pairs")
  /\ Past(17) => "pairs" \notin alive
  /\ Past(18) => ~Live("download")
  /\ Past(19) => "download" \notin alive
  /\ Past(20) => "ess" \notin alive
  /\ Past(21) => ~Live("viewer")
  /\ Past(22) => "viewer" \notin alive
  /\ Past(24) => "unregister" \notin alive
  /\ Past(25) => ~Live("encoder1")
  /\ Past(26) => ~Live("upload1")
  /\ Past(27) => "stream1" \notin alive
  /\ Past(28) => ~Live("encoder2")
  /\ Past(29) => ~Live("upload2")
  /\ Past(30) => "stream2" \notin alive
  /\ Past(32) => "recorder" \notin alive
  /\ Past(36) => "source" \notin alive
  /\ Past(37) => ~Live("relay")

BonesOK ==
  /\ cfg \in Configs /\ at \in Nat /\ registered \subseteq Streams
  /\ thr \in [Threads -> {"none", "running", "closing", "gone"}]
  /\ pc \in {"open", "stream", "viewer", "engine", "recorder", "topic", "wire", "begin", "start",
             "arm", "check", "seen", "view", "wait", "lease", "use", "down", "exit"}
  /\ thrown \in BOOLEAN

\* Where main is, what there is, and who runs.
Bones == BonesOK /\ Built /\ Wired /\ Threaded /\ Passed /\ UsesLive /\ TriggersFirst

\* The numbers, and the loop's wait.
Counters ==
  /\ shot \in [Streams -> Nat] /\ up \in [Streams -> Nat] /\ announced \in [Streams -> Nat]
  /\ tap \in [Streams -> Nat] /\ took \in [Streams -> Nat] /\ encoding \in [Streams -> Nat]
  /\ uploading \in [Streams -> BOOLEAN]
  /\ hold \in [Readers -> [Streams -> Nat]]
  /\ {waitSeq, seen, last} \subseteq Nat
  /\ relayAt \in Streams \cup {0}

Waiting ==
  /\ \A s \in Streams : announced[s] <= up[s]
  /\ pc \in {"view", "wait"} => seen <= waitSeq
  /\ ParkedUpToDate

\* Nothing has come from a camera yet.
Fresh ==
  /\ \A s \in Streams :
       /\ ~Live(Source[s]) /\ ~Live(Upload[s])
       /\ shot[s] = 0 /\ up[s] = 0 /\ tap[s] = 0 /\ took[s] = 0 /\ encoding[s] = 0
       /\ ~uploading[s] /\ \A r \in Readers : hold[r][s] = 0
  /\ accepted = <<>> /\ giving = 0 /\ paired = 0
NoFeeders == ~Live("download") /\ \A s \in Streams : ~Live(Encoder[s])

\* The recorder is open from before the first frame until nothing feeds it.
Order ==
  /\ recorder \in {"none", "open", "closed"}
  /\ pc \in BeforeStart => Fresh
  /\ recorder = "none" => Fresh \/ NoFeeders
  /\ recorder = "none" /\ pc = "wire" => NoFeeders /\ "download" \notin alive
  /\ recorder = "none" /\ pc \in PastWire => NoFeeders
  /\ recorder = "closed" => ~Up /\ NoFeeders

\* What a feeder holds it still brings to the file.
Fed ==
  /\ refused = {}
  /\ giving # 0 => Live("download")
  /\ \A s \in Streams :
       /\ encoding[s] # 0 => Live(Encoder[s])
       /\ took[s] # 0 => encoding[s] = took[s] \/ <<Raw(s), took[s]>> \in recorded

IInv == Bones /\ Counters /\ Waiting /\ Order /\ Fed

-----------------------------------------------------------------------------
(* What the constants of main come to. *)

LEMMA Names ==
  /\ Streams = {1, 2} /\ Cardinality(Streams) = 2
  /\ Source[1] = "source1" /\ Source[2] = "source2"
  /\ Upload[1] = "upload1" /\ Upload[2] = "upload2"
  /\ Encoder[1] = "encoder1" /\ Encoder[2] = "encoder2"
  /\ Stream[1] = "stream1" /\ Stream[2] = "stream2"
  /\ Threads = {"source1", "source2", "upload1", "upload2", "encoder1", "encoder2", "relay",
                "trigger", "viewer", "essviewer", "pairs", "download"}
<1>1. Cardinality({1, 2}) = 2
  <2>1. {1, 2} = 1 .. 2
    BY SMT
  <2>2. 1 \in Int /\ 2 \in Int /\ ~(1 > 2) /\ 2 - 1 + 1 = 2
    BY SMT
  <2>3. Cardinality(1 .. 2) = 2
    BY <2>2, FS_Interval, Zenon
  <2> QED BY <2>1, <2>3
<1>2. Range(Source) = {"source1", "source2"} /\ Range(Upload) = {"upload1", "upload2"}
      /\ Range(Encoder) = {"encoder1", "encoder2"}
  BY DEF Range, Source, Upload, Encoder
<1> QED BY <1>1, <1>2 DEF Streams, Threads, Source, Upload, Encoder, Stream

LEMMA PlanIs ==
  /\ Len(Plan) = 37 /\ Len(Shutdown) = 13
  /\ Plan[1] = Stop("trigger", "guard") /\ Plan[2] = Stop("source1", "guard")
  /\ Plan[3] = Stop("upload1", "guard") /\ Plan[4] = Stop("source2", "guard")
  /\ Plan[5] = Stop("upload2", "guard") /\ Plan[6] = Stop("essviewer", "guard")
  /\ Plan[7] = Stop("pairs", "guard") /\ Plan[8] = Stop("download", "guard")
  /\ Plan[9] = Stop("encoder1", "guard") /\ Plan[10] = Stop("encoder2", "guard")
  /\ Plan[11] = Stop("recorder", "guard") /\ Plan[12] = Stop("viewer", "guard")
  /\ Plan[13] = Stop("relay", "guard")
  /\ Plan[14] = Stop("essviewer", "essviewer") /\ Plan[15] = Free("essviewer")
  /\ Plan[16] = Stop("pairs", "pairs") /\ Plan[17] = Free("pairs")
  /\ Plan[18] = Stop("download", "download") /\ Plan[19] = Free("download")
  /\ Plan[20] = Free("ess")
  /\ Plan[21] = Stop("viewer", "viewer") /\ Plan[22] = Free("viewer")
  /\ Plan[23] = Stop("relay", "unregister") /\ Plan[24] = Free("unregister")
  /\ Plan[25] = Stop("encoder1", "stream1") /\ Plan[26] = Stop("upload1", "stream1")
  /\ Plan[27] = Free("stream1")
  /\ Plan[28] = Stop("encoder2", "stream2") /\ Plan[29] = Stop("upload2", "stream2")
  /\ Plan[30] = Free("stream2")
  /\ Plan[31] = Stop("recorder", "recorder") /\ Plan[32] = Free("recorder")
  /\ Plan[33] = Stop("trigger", "source") /\ Plan[34] = Stop("source1", "source")
  /\ Plan[35] = Stop("source2", "source") /\ Plan[36] = Free("source")
  /\ Plan[37] = Stop("relay", "guard")
BY DEF Plan, Shutdown, Unwinding

LEMMA NeedsIs ==
  /\ Needs("source1") = {"source", "stream1"} /\ Needs("source2") = {"source", "stream2"}
  /\ Needs("upload1") = {"stream1"} /\ Needs("upload2") = {"stream2"}
  /\ Needs("encoder1") = {"recorder", "stream1"} /\ Needs("encoder2") = {"recorder", "stream2"}
  /\ Needs("viewer") = {"viewer", "stream1"} /\ Needs("trigger") = {"source"}
  /\ Needs("essviewer") = {"essviewer", "pairs", "stream1", "stream2"}
  /\ Needs("download") = {"download", "recorder"} /\ Needs("relay") = {"guard"}
  /\ Needs("pairs") = {"pairs", "stream1", "stream2"} \cup (IF HasEngine THEN {"ess"} ELSE {})
                        \cup (IF Disparity \in built THEN {"download"} ELSE {})
<1>1. Range(Source) = {"source1", "source2"} /\ Range(Upload) = {"upload1", "upload2"}
      /\ Range(Encoder) = {"encoder1", "encoder2"}
  BY DEF Range, Source, Upload, Encoder
<1>2. /\ {Stream[s] : s \in {i \in Streams : Source[i] = "source1"}} = {"stream1"}
      /\ {Stream[s] : s \in {i \in Streams : Source[i] = "source2"}} = {"stream2"}
      /\ {Stream[s] : s \in {i \in Streams : Upload[i] = "upload1"}} = {"stream1"}
      /\ {Stream[s] : s \in {i \in Streams : Upload[i] = "upload2"}} = {"stream2"}
      /\ {Stream[s] : s \in {i \in Streams : Encoder[i] = "encoder1"}} = {"stream1"}
      /\ {Stream[s] : s \in {i \in Streams : Encoder[i] = "encoder2"}} = {"stream2"}
  BY Names
<1>3. /\ Needs("source1") = {"source", "stream1"} /\ Needs("source2") = {"source", "stream2"}
      /\ Needs("upload1") = {"stream1"} /\ Needs("upload2") = {"stream2"}
      /\ Needs("encoder1") = {"recorder", "stream1"} /\ Needs("encoder2") = {"recorder", "stream2"}
  BY <1>1, <1>2 DEF Needs
<1> QED BY <1>1, <1>3 DEF Needs

\* What a thread's step leaves of main's.
Aside ==
  /\ UNCHANGED <<mainVars, setupVars, asked>>
  /\ thr' \in [Threads -> {"none", "running", "closing", "gone"}]
  /\ \A t \in Threads : (Live(t)' => Live(t)) /\ (Running(t)' => Running(t))

LEMMA EndsAside ==
  ASSUME BonesOK, NEW t \in Threads, Ends(t)
  PROVE  /\ thr' \in [Threads -> {"none", "running", "closing", "gone"}]
         /\ \A u \in Threads : (Live(u)' => Live(u)) /\ (Running(u)' => Running(u))
BY DEF BonesOK, Ends, Live, Running

\* The steps of everybody but main.
Others ==
  \/ \E s \in Streams : Commit(s) \/ SourceEnds(s) \/ StreamStep(s)
  \/ RecorderStep
  \/ ViewerDisabled \/ ViewerLooks \/ ViewerDrops \/ ViewerCloses \/ ViewerWakes
  \/ HeadlessLeaves
  \/ \E t \in {"pairs", "essviewer"} : PairStep(t)
  \/ PairLeaves \/ EssViewerCloses \/ TriggerLeaves
  \/ Signal \/ Relay

LEMMA OthersAside ==
  ASSUME BonesOK, Others \/ LoopStep
  PROVE  /\ UNCHANGED <<setupVars, asked>>
         /\ thr' \in [Threads -> {"none", "running", "closing", "gone"}]
         /\ \A t \in Threads : (Live(t)' => Live(t)) /\ (Running(t)' => Running(t))
         /\ Others => UNCHANGED mainVars
<1> USE DEF setupVars, threadVars, mainVars
<1>0. UNCHANGED thr => /\ thr' \in [Threads -> {"none", "running", "closing", "gone"}]
         /\ \A t \in Threads : (Live(t)' => Live(t)) /\ (Running(t)' => Running(t))
  BY DEF BonesOK, Live, Running
<1>1. ASSUME NEW s \in Streams, Commit(s) \/ SourceEnds(s) PROVE Aside
  BY <1>1, <1>0 DEF Commit, SourceEnds, Aside
<1>2. ASSUME NEW s \in Streams, StreamStep(s) PROVE Aside
  <2>1. Source[s] \in Threads /\ Upload[s] \in Threads
    BY Names
  <2>2. CASE SourceWakes(s) \/ SourceLeaves(s)
    BY <2>1, <2>2, EndsAside DEF SourceWakes, SourceLeaves, Ends, Aside
  <2>3. CASE UploadLeaves(s)
    BY <2>1, <2>3, EndsAside DEF UploadLeaves, Ends, Aside
  <2>4. CASE UploadTakes(s) \/ UploadPublishes(s) \/ UploadAnnounces(s)
    BY <2>4, <1>0 DEF UploadTakes, UploadPublishes, UploadAnnounces, Aside
  <2> QED BY <1>2, <2>2, <2>3, <2>4 DEF StreamStep
<1>3. ASSUME RecorderStep PROVE Aside
  <2>1. "download" \in Threads /\ \A s \in Streams : Encoder[s] \in Threads
    BY Names
  <2>2. ASSUME NEW s \in Streams, EncoderTakes(s) \/ EncoderWrites(s) PROVE Aside
    BY <2>2, <1>0 DEF EncoderTakes, EncoderWrites, Aside
  <2>3. ASSUME NEW s \in Streams, EncoderLeaves(s) PROVE Aside
    BY <2>1, <2>3, EndsAside DEF EncoderLeaves, Ends, Aside
  <2>4. CASE StageTakes \/ StageGives
    BY <2>4, <1>0 DEF StageTakes, StageGives, Aside
  <2>5. CASE StageLeaves
    BY <2>1, <2>5, EndsAside DEF StageLeaves, Ends, Aside
  <2> QED BY <1>3, <2>2, <2>3, <2>4, <2>5 DEF RecorderStep
<1>4. ASSUME ViewerDisabled \/ ViewerWakes \/ HeadlessLeaves PROVE Aside
  <2>1. "viewer" \in Threads
    BY Names
  <2> QED BY <1>4, <2>1, EndsAside DEF ViewerDisabled, ViewerWakes, HeadlessLeaves, Ends, Aside
<1>5. ASSUME ViewerLooks \/ ViewerDrops PROVE Aside
  BY <1>5, <1>0 DEF ViewerLooks, ViewerDrops, Aside
<1>6. ASSUME ViewerCloses PROVE Aside
  BY <1>6, Names DEF ViewerCloses, BonesOK, Live, Running, Aside
<1>7. ASSUME NEW t \in {"pairs", "essviewer"}, PairStep(t) PROVE Aside
  BY <1>7, <1>0 DEF PairStep, PairLeases, PairPartner, PairGivesUp, PairGives, Aside
<1>8. ASSUME PairLeaves \/ EssViewerCloses \/ TriggerLeaves PROVE Aside
  <2>1. {"pairs", "essviewer", "trigger"} \subseteq Threads
    BY Names
  <2> QED BY <1>8, <2>1, EndsAside DEF PairLeaves, EssViewerCloses, TriggerLeaves, Ends, Aside
<1>9. ASSUME Signal \/ Relay PROVE Aside
  <2>1. "relay" \in Threads
    BY Names
  <2>2. CASE Signal \/ RelayWoken
    BY <2>2, <1>0 DEF Signal, RelayWoken, Aside
  <2>3. CASE RelayWakes
    BY <2>3, <2>1, <1>0, EndsAside DEF RelayWakes, Ends, Aside
  <2> QED BY <1>9, <2>2, <2>3 DEF Relay
<1>10. Others => Aside
  BY <1>1, <1>2, <1>3, <1>4, <1>5, <1>6, <1>7, <1>8, <1>9 DEF Others
<1>11. LoopStep => UNCHANGED <<setupVars, threadVars>>
  BY DEF LoopStep, Check, ReadSeen, View, Wait, Lease, Use
<1> QED BY <1>0, <1>10, <1>11 DEF Aside

-----------------------------------------------------------------------------
(* Bones, action by action. *)

\* What Bones says of where main is, without the threads.
Places == Built /\ Wired

LEMMA PlacesStay ==
  ASSUME Places, UNCHANGED <<mainVars, setupVars>>
  PROVE  Places'
<1>1. UNCHANGED <<pc, at, cfg, graph, built, alive, registered>>
  BY DEF mainVars, setupVars, graphVars
<1>2. UNCHANGED <<Up, HasEngine, Anchor, Added(cfg.streams), Resolves(Disparity, "plane")>>
  BY <1>1 DEF Up, HasEngine, EssOn, StereoOn, Anchor, StreamOf, Added, Known, Raw, Resolves
<1>3. Built'
  BY <1>1, <1>2 DEF Places, Built
<1>4. Wired'
  BY <1>1, <1>2 DEF Places, Wired
<1> QED BY <1>3, <1>4 DEF Places

\* Nobody starts: what a thread needs stays, as long as no object goes.
LEMMA UsesStay ==
  ASSUME BonesOK, UsesLive, UNCHANGED <<cfg, built>>, alive \subseteq alive',
         \A t \in Threads : Live(t)' => Live(t)
  PROVE  UsesLive'
<1>1. \A t \in Threads : Needs(t)' = Needs(t)
  BY DEF Needs, HasEngine, EssOn, StereoOn
<1> QED BY <1>1 DEF UsesLive

LEMMA ThreadsStay ==
  ASSUME Bones, UNCHANGED <<mainVars, setupVars, asked>>,
         \A t \in Threads : (Live(t)' => Live(t)) /\ (Running(t)' => Running(t))
  PROVE  Threaded' /\ Passed' /\ UsesLive' /\ TriggersFirst'
<1> USE DEF Bones
<1>1. UNCHANGED <<pc, at, cfg, graph, built, alive, registered>>
  BY DEF mainVars, setupVars, graphVars
<1>2. UNCHANGED Up /\ \A k \in 0 .. 37 : UNCHANGED <<Past(k), Shutting(k)>>
  BY <1>1 DEF Up, Past, Shutting
<1>3. Threaded'
  BY <1>1, <1>2, Names DEF Threaded
<1>4. Passed'
  BY <1>1, <1>2, Names DEF Passed
<1>5. UsesLive'
  BY <1>1, UsesStay
<1>6. TriggersFirst'
  BY Names DEF TriggersFirst
<1> QED BY <1>3, <1>4, <1>5, <1>6

LEMMA OthersKeepBones ==
  ASSUME Bones, Others
  PROVE  Bones'
<1>1. BonesOK
  BY DEF Bones
<1>2. UNCHANGED <<mainVars, setupVars, asked>>
      /\ thr' \in [Threads -> {"none", "running", "closing", "gone"}]
      /\ \A t \in Threads : (Live(t)' => Live(t)) /\ (Running(t)' => Running(t))
  BY <1>1, OthersAside
<1>3. Places'
  BY <1>2, PlacesStay DEF Bones, Places
<1>4. BonesOK'
  BY <1>1, <1>2 DEF BonesOK, mainVars, setupVars
<1> QED BY <1>2, <1>3, <1>4, ThreadsStay DEF Bones, Places

\* A round of the loop, or the way out of it.
LEMMA LoopStepGoes ==
  ASSUME BonesOK, LoopStep
  PROVE  /\ pc \in Loop
         /\ \/ pc' \in Loop /\ UNCHANGED <<at, thrown>>
            \/ pc' = "down" /\ at' = 1 /\ thrown' \in BOOLEAN
BY DEF BonesOK, LoopStep, Check, ReadSeen, View, Wait, Lease, Use, Goes, ToLoop, Caught, Loop

LEMMA LoopKeepsBones ==
  ASSUME Bones, LoopStep
  PROVE  Bones'
<1>1. BonesOK
  BY DEF Bones
<1>2. UNCHANGED <<cfg, graph, built, alive, registered, asked>>
      /\ thr' \in [Threads -> {"none", "running", "closing", "gone"}]
      /\ \A t \in Threads : (Live(t)' => Live(t)) /\ (Running(t)' => Running(t))
  BY <1>1, OthersAside DEF setupVars, graphVars
<1>3. /\ pc \in Loop
      /\ \/ pc' \in Loop /\ UNCHANGED <<at, thrown>>
         \/ pc' = "down" /\ at' = 1 /\ thrown' \in BOOLEAN
  BY <1>1, LoopStepGoes
<1>4. BonesOK'
  BY <1>1, <1>2, <1>3 DEF BonesOK, Loop
<1>5. UNCHANGED <<HasEngine, Anchor, Added(cfg.streams), Resolves(Disparity, "plane")>>
  BY <1>2 DEF HasEngine, EssOn, StereoOn, Anchor, StreamOf, Added, Known, Raw, Resolves
<1>6. pc \in PastWire /\ pc \in PastEngine /\ pc \in PastStreams /\ Up
      /\ pc \notin {"open", "stream", "topic", "start"}
  BY <1>3 DEF Loop, PastWire, PastEngine, PastStreams, Up
<1>7. pc' \notin {"open", "stream", "topic", "start"} /\ (pc' \in PastStreams \cup PastEngine => pc' \in Loop)
      /\ (Up' => pc' \in Loop) /\ (pc' \in Loop => pc' \in PastWire /\ pc' \in PastStreams)
      /\ pc' \notin BeforeStart
  BY <1>3 DEF Loop, PastWire, PastEngine, PastStreams, Up, BeforeStart
<1>8. Built'
  BY <1>2, <1>5, <1>6, <1>7 DEF Bones, Built
<1>9. Wired'
  BY <1>2, <1>5, <1>6, <1>7 DEF Bones, Wired
<1>10. Threaded'
  <2>1. Up' => pc' \notin {"open", "stream", "viewer", "engine", "recorder"}
    BY <1>7 DEF Loop
  <2> QED BY <1>2, <1>6, <1>7, <2>1 DEF Bones, Threaded
<1>11. Passed'
  BY <1>3 DEF Passed, Past, Shutting, Loop
<1>12. UsesLive'
  BY <1>1, <1>2, UsesStay DEF Bones
<1>13. TriggersFirst'
  BY <1>2, Names DEF Bones, TriggersFirst
<1> QED BY <1>4, <1>8, <1>9, <1>10, <1>11, <1>12, <1>13 DEF Bones

LEMMA Lengths == Len(Shutdown) = 13 /\ Len(Plan) = 37
BY PlanIs

LEMMA AbortPasses ==
  ASSUME pc' = "down", at' = Len(Shutdown) + 1,
         (~Live("trigger"))', \A s \in Streams : (~Live(Source[s]))'
  PROVE  Passed'
BY Lengths, Names DEF Passed, Past, Shutting

\* On the way up nobody has been asked to stop.
LEMMA TriggersStay ==
  ASSUME asked' = {}
  PROVE  TriggersFirst'
BY DEF TriggersFirst

LEMMA OpenKeepsBones ==
  ASSUME Bones, Open
  PROVE  Bones'
<1> USE DEF Open, Goes, Abort, loopVars, graphVars, threadVars
<1>1. /\ pc = "open" /\ UNCHANGED <<cfg, graph, built, registered, thr, asked>>
      /\ alive \subseteq alive' /\ alive' \subseteq {"guard", "source"} /\ "guard" \in alive'
      /\ \/ pc' = "stream" /\ at' = 1 /\ cfg.streams \in 1 .. 2 /\ "source" \in alive'
         \/ pc' = "down" /\ at' = Len(Shutdown) + 1
      /\ thrown' \in BOOLEAN
  BY DEF Bones, Built, BonesOK, RigFits
<1>2. BonesOK'
  <2>1. at' \in Nat
    BY <1>1, Lengths
  <2>2. pc' \in {"stream", "down"} /\ UNCHANGED <<cfg, registered, thr>>
    BY <1>1
  <2> QED BY <1>1, <2>1, <2>2 DEF Bones, BonesOK
<1>3. DOMAIN graph = {} /\ registered = {} /\ asked = {}
      /\ thr' = thr /\ ~Live("trigger") /\ ~Live("pairs")
      /\ (\A s \in Streams : ~Live(Source[s]) /\ ~Live(Upload[s]) /\ ~Live(Encoder[s]))
      /\ (Disparity \notin built)
  BY <1>1 DEF Bones, Built, Wired, Threaded, Up, BeforeStart, PastWire, Loop
<1>4. Built'
  BY <1>1, <1>3 DEF Built, Up, Objects, PastStreams, PastEngine, PastWire, Loop
<1>5. Wired'
  BY <1>1, <1>3 DEF Wired, Up, PastStreams, PastEngine, PastWire, Loop, Added, Known, Raw
<1>6. Threaded'
  BY <1>1, <1>3 DEF Threaded, Live, BeforeStart
<1>7. Passed'
  <2>1. CASE pc' = "down" /\ at' = Len(Shutdown) + 1
    BY <1>1, <1>3, <2>1, AbortPasses DEF Live
  <2>2. CASE pc' = "stream"
    BY <2>2 DEF Passed, Past, Shutting
  <2> QED BY <1>1, <2>1, <2>2
<1>8. UsesLive'
  BY <1>1, UsesStay DEF Bones, Live
<1> QED BY <1>1, <1>2, <1>3, <1>4, <1>5, <1>6, <1>7, <1>8, TriggersStay DEF Bones

\* Once the streams are there, what main builds leaves them there.
LEMMA WiredGrows ==
  ASSUME BonesOK, Wired, UNCHANGED <<cfg, registered>>, alive \subseteq alive',
         pc \in PastStreams, pc' \in PastStreams \cup {"down"},
         \/ graph' = graph
         \/ graph' = Declared(graph, Disparity, Entry("plane", NoStream))
  PROVE  Wired'
<1>1. \A n \in DOMAIN graph' :
        graph'[n].kind # "plane" => n \in DOMAIN graph /\ graph'[n] = graph[n]
  BY DEF Declared, Entry
<1>2. pc' \notin {"stream", "open"} /\ Up
  BY DEF PastStreams, PastEngine, PastWire, Loop, Up
<1>3. "unregister" \in alive /\ \A s \in registered : Stream[s] \in alive
  BY DEF Wired
<1> QED BY <1>1, <1>2, <1>3 DEF Wired

LEMMA AddStreamKeepsBones ==
  ASSUME Bones, AddStream
  PROVE  Bones'
<1>1. /\ pc = "stream" /\ UNCHANGED <<cfg, built, thr, asked>>
      /\ alive \subseteq alive' /\ alive' \subseteq alive \cup {Stream[at], "unregister"}
      /\ \/ /\ registered' = registered \cup {at}
            /\ alive' = alive \cup {Stream[at]} \cup (IF at = cfg.streams THEN {"unregister"} ELSE {})
            /\ graph' = Declared(Declared(graph, Raw(at), Entry("tap", at)),
                                 Colour(at), Entry("ring", at))
            /\ \/ at < cfg.streams /\ pc' = "stream" /\ at' = at + 1
               \/ ~(at < cfg.streams) /\ pc' = "viewer" /\ at' = 1
         \/ /\ registered' \in {registered, registered \cup {at}}
            /\ pc' = "down" /\ at' = Len(Shutdown) + 1 /\ UNCHANGED graph
      /\ thrown' \in BOOLEAN
  BY DEF AddStream, Goes, Abort, loopVars, threadVars, Bones, BonesOK
<1>2. /\ at \in 1 .. cfg.streams /\ cfg.streams \in 1 .. 2 /\ "source" \in alive
      /\ "guard" \in alive /\ alive \subseteq Objects /\ asked = {}
      /\ \A s \in 1 .. at - 1 : Stream[s] \in alive
      /\ \A s \in registered : Stream[s] \in alive
      /\ \A n \in DOMAIN graph : graph[n].stream \in 1 .. at - 1
      /\ "download" \notin alive /\ Disparity \notin built /\ "pairs" \notin alive
      /\ "essviewer" \notin alive /\ "viewer" \notin alive
  BY <1>1 DEF Bones, Built, Wired, Threaded, Up, PastWire, PastStreams, PastEngine, Loop
<1>3. at \in Streams /\ Stream[at] \in {"stream1", "stream2"}
  BY <1>2, Names
<1>4. BonesOK'
  <2>1. pc' \in {"stream", "viewer", "down"} /\ at' \in Nat /\ registered' \subseteq Streams
    <3>1. at \in Nat /\ at + 1 \in Nat /\ registered \subseteq Streams
      BY <1>2 DEF Bones, BonesOK
    <3>2. registered' = registered \/ registered' = registered \cup {at}
      BY <1>1
    <3>3. at' \in Nat
      BY <1>1, <3>1, Lengths
    <3>4. pc' \in {"stream", "viewer", "down"}
      BY <1>1
    <3>5. registered' \subseteq Streams
      BY <1>3, <3>1, <3>2
    <3> QED BY <3>3, <3>4, <3>5
  <2> QED BY <1>1, <2>1 DEF Bones, BonesOK
<1>5. \A n \in DOMAIN graph' : graph'[n].stream \in 1 .. at
  <2>1. CASE pc' = "down"
    BY <1>1, <1>2, <2>1
  <2>2. CASE pc' # "down"
    <3> DEFINE first == Declared(graph, Raw(at), Entry("tap", at))
    <3>1. graph' = Declared(first, Colour(at), Entry("ring", at))
      BY <1>1, <2>2
    <3>2. Entry("tap", at).stream = at /\ Entry("ring", at).stream = at
      BY DEF Entry
    <3>3. first = [n \in DOMAIN graph \cup {Raw(at)} |->
                     IF n = Raw(at) THEN Entry("tap", at) ELSE graph[n]]
      BY DEF Declared
    <3> HIDE DEF first
    <3>6. \A n \in DOMAIN graph : graph[n].stream \in 1 .. at
      BY <1>2
    <3>7. \A n \in DOMAIN first : first[n].stream \in 1 .. at
      BY <3>2, <3>3, <3>6, <1>2
    <3>4. graph' = [n \in DOMAIN first \cup {Colour(at)} |->
                      IF n = Colour(at) THEN Entry("ring", at) ELSE first[n]]
      BY <3>1 DEF Declared
    <3> QED BY <3>2, <3>4, <3>7, <1>2
  <2> QED BY <2>1, <2>2
<1>6. \A s \in 1 .. at : pc' # "down" => Stream[s] \in alive'
  BY <1>1, <1>2
<1>7. Built'
  BY <1>1, <1>2, <1>3, <1>6 DEF Built, Up, Objects, PastStreams, PastEngine, PastWire, Loop
<1>8. Wired'
  <2>1. CASE pc' = "down"
    <3>1. \A n \in DOMAIN graph' : graph'[n].stream \in 1 .. at - 1
      BY <1>1, <1>2, <2>1
    <3>2. ~Added(cfg.streams)'
      BY <3>1, <1>1, <1>2 DEF Added, Known, StreamOf
    <3>3. \A n \in DOMAIN graph' : graph'[n].stream \in Streams
      BY <3>1, <1>2, Names
    <3> QED BY <2>1, <3>2, <3>3 DEF Wired, Up, PastStreams, PastEngine, PastWire, Loop
  <2>2. CASE pc' # "down"
    <3>1. \A s \in registered' : Stream[s] \in alive'
      BY <1>1, <1>2, <2>2
    <3>2. \A n \in DOMAIN graph' : graph'[n].stream \in Streams /\ Stream[graph'[n].stream] \in alive'
      BY <1>2, <1>5, <1>6, <2>2, Names
    <3>3. CASE at < cfg.streams
      <4>1. pc' = "stream" /\ at' - 1 = at
        BY <1>1, <1>2, <2>2, <3>3
      <4>2. ~Added(cfg.streams)'
        BY <1>1, <1>2, <1>5, <3>3 DEF Added, Known, StreamOf
      <4> QED BY <4>1, <4>2, <3>1, <3>2, <1>5 DEF Wired, PastStreams, PastEngine, PastWire, Loop
    <3>4. CASE ~(at < cfg.streams)
      <4>1. pc' = "viewer" /\ "unregister" \in alive'
        BY <1>1, <1>2, <2>2, <3>4
      <4> QED BY <4>1, <3>1, <3>2 DEF Wired
    <3> QED BY <3>3, <3>4
  <2> QED BY <2>1, <2>2
<1>9. Threaded'
  <2>1. /\ ~Live("trigger") /\ ~Live("pairs")
        /\ \A s \in Streams : ~Live(Source[s]) /\ ~Live(Upload[s]) /\ ~Live(Encoder[s])
    BY <1>1 DEF Bones, Threaded, Up, BeforeStart, PastWire, Loop
  <2>2. "download" \notin alive'
    BY <1>1, <1>2, <1>3
  <2> QED BY <2>1, <2>2, <1>1, <1>2 DEF Threaded, Live
<1>10. Passed'
  <2>1. CASE pc' = "down"
    <3>1. ~Live("trigger") /\ \A s \in Streams : ~Live(Source[s])
      BY <1>1 DEF Bones, Threaded, BeforeStart
    <3> QED BY <1>1, <2>1, <3>1, AbortPasses DEF Live
  <2>2. CASE pc' # "down"
    BY <1>1, <2>2 DEF Passed, Past, Shutting
  <2> QED BY <2>1, <2>2
<1>11. UsesLive'
  BY <1>1, UsesStay DEF Bones, Live
<1> QED BY <1>1, <1>2, <1>4, <1>7, <1>8, <1>9, <1>10, <1>11, TriggersStay DEF Bones

\* A topic of a camera is not the disparity.
LEMMA ColourIs == \A s : Colour(s) # Disparity
<1>1. ASSUME NEW s PROVE Colour(s)[2] = "image_color"
  BY DEF Colour
<1>2. Disparity[2] = "disparity" /\ "disparity" # "image_color"
  BY DEF Disparity
<1> QED BY <1>1, <1>2

\* Before the sources start nobody runs whose need could grow.
LEMMA ThreadedStays ==
  ASSUME Bones, pc \in {"viewer", "engine", "recorder"}, UNCHANGED <<thr, asked>>,
         pc' \in {"viewer", "engine", "recorder", "topic", "wire", "down"},
         "download" \notin alive' \/ pc' = "down"
  PROVE  Threaded'
<1>1. /\ ~Live("trigger") /\ ~Live("pairs") /\ asked = {}
      /\ \A s \in Streams : ~Live(Source[s]) /\ ~Live(Upload[s]) /\ ~Live(Encoder[s])
  BY DEF Bones, Threaded, Up, BeforeStart, PastWire, Loop
<1> QED BY <1>1 DEF Threaded, Live, Up

LEMMA UpPasses ==
  ASSUME pc' \notin {"down", "exit"}
  PROVE  Passed'
BY DEF Passed, Past, Shutting

LEMMA SetUpPasses ==
  ASSUME Bones, pc \in BeforeStart, UNCHANGED thr,
         pc' \notin {"down", "exit"} \/ (pc' = "down" /\ at' = Len(Shutdown) + 1)
  PROVE  Passed'
<1>1. CASE pc' \notin {"down", "exit"}
  BY <1>1, UpPasses
<1>2. CASE pc' = "down" /\ at' = Len(Shutdown) + 1
  <2>1. (~Live("trigger"))' /\ \A s \in Streams : (~Live(Source[s]))'
    BY DEF Bones, Threaded, Live
  <2> QED BY <1>2, <2>1, AbortPasses
<1> QED BY <1>1, <1>2

LEMMA MakeViewerKeepsBones ==
  ASSUME Bones, MakeViewer
  PROVE  Bones'
<1>1. /\ pc = "viewer" /\ UNCHANGED <<cfg, graph, registered, thr, asked>>
      /\ built' = built \cup {Colour(Reference)}
      /\ alive' \in {alive, alive \cup {"viewer"}}
      /\ \/ pc' = "engine" /\ at' = 1
         \/ pc' = "down" /\ at' = Len(Shutdown) + 1
      /\ thrown' \in BOOLEAN
  BY DEF MakeViewer, Goes, Abort, loopVars, threadVars, Bones, BonesOK
<1>2. /\ "guard" \in alive /\ alive \subseteq Objects /\ asked = {} /\ "source" \in alive
      /\ cfg.streams \in 1 .. 2 /\ \A s \in 1 .. cfg.streams : Stream[s] \in alive
      /\ "download" \notin alive /\ Disparity \notin built /\ "pairs" \notin alive
      /\ "essviewer" \notin alive
  BY <1>1 DEF Bones, Built, Threaded, Up, PastWire, PastStreams, PastEngine, Loop
<1>3. Disparity \notin built'
  BY <1>1, <1>2, ColourIs
<1>4. BonesOK'
  <2>1. at' \in Nat
    BY <1>1, Lengths
  <2>2. pc' \in {"engine", "down"}
    BY <1>1
  <2> QED BY <1>1, <2>1, <2>2 DEF Bones, BonesOK
<1>5. Built'
  BY <1>1, <1>2, <1>3 DEF Built, Up, Objects, PastStreams, PastEngine, PastWire, Loop
<1>6. Wired'
  BY <1>1, WiredGrows DEF Bones, PastStreams
<1>7. Threaded'
  BY <1>1, <1>2, ThreadedStays
<1>8. Passed'
  BY <1>1, SetUpPasses DEF BeforeStart
<1>9. UsesLive'
  <2>1. ~Live("pairs") /\ "pairs" \in Threads
    BY <1>1, Names DEF Bones, Threaded, Up, PastWire, Loop
  <2>2. \A t \in Threads : t # "pairs" => Needs(t)' = Needs(t)
    BY <1>1 DEF Needs
  <2> QED BY <1>1, <2>1, <2>2 DEF Bones, UsesLive, Live
<1> QED BY <1>1, <1>2, <1>4, <1>5, <1>6, <1>7, <1>8, <1>9, TriggersStay DEF Bones

LEMMA MakeEngineKeepsBones ==
  ASSUME Bones, MakeEngine
  PROVE  Bones'
<1>1. /\ pc = "engine" /\ UNCHANGED <<cfg, built, registered, thr, asked>>
      /\ alive' \in {alive, alive \cup {"ess"}}
      /\ \/ pc' = "recorder" /\ at' = 1
         \/ pc' = "down" /\ at' = Len(Shutdown) + 1
      /\ HasEngine /\ pc' = "recorder" =>
           "ess" \in alive' /\ graph' = Declared(graph, Disparity, Entry("plane", NoStream))
      /\ ~(HasEngine /\ pc' = "recorder") => UNCHANGED graph
      /\ thrown' \in BOOLEAN
  BY DEF MakeEngine, Goes, Abort, loopVars, threadVars, Bones, BonesOK
<1>2. /\ "guard" \in alive /\ alive \subseteq Objects /\ asked = {} /\ "source" \in alive
      /\ cfg.streams \in 1 .. 2 /\ \A s \in 1 .. cfg.streams : Stream[s] \in alive
      /\ "download" \notin alive /\ Disparity \notin built /\ "pairs" \notin alive
      /\ "essviewer" \notin alive
  BY <1>1 DEF Bones, Built, Threaded, Up, PastWire, PastStreams, PastEngine, Loop
<1>3. pc' = "recorder" /\ HasEngine => Resolves(Disparity, "plane")'
  BY <1>1 DEF Resolves, Known, Declared, Entry
<1>4. BonesOK'
  <2>1. at' \in Nat
    BY <1>1, Lengths
  <2>2. pc' \in {"recorder", "down"}
    BY <1>1
  <2> QED BY <1>1, <2>1, <2>2 DEF Bones, BonesOK
<1>5. UNCHANGED HasEngine
  BY <1>1 DEF HasEngine, EssOn, StereoOn
<1>6. Built'
  BY <1>1, <1>2, <1>3, <1>5 DEF Built, Up, Objects, PastStreams, PastEngine, PastWire, Loop
<1>7. Wired'
  BY <1>1, WiredGrows DEF Bones, PastStreams, PastEngine
<1>8. Threaded'
  BY <1>1, <1>2, ThreadedStays
<1>9. Passed'
  BY <1>1, SetUpPasses DEF BeforeStart
<1>10. UsesLive'
  BY <1>1, UsesStay DEF Bones, Live
<1> QED BY <1>1, <1>2, <1>4, <1>6, <1>7, <1>8, <1>9, <1>10, TriggersStay DEF Bones

LEMMA MakeRecorderKeepsBones ==
  ASSUME Bones, MakeRecorder
  PROVE  Bones'
<1>1. /\ pc = "recorder" /\ UNCHANGED <<cfg, graph, built, registered, thr, asked>>
      /\ alive' \in {alive, alive \cup {"recorder"}}
      /\ \/ pc' = "topic" /\ at' = 1 /\ "recorder" \in alive'
         \/ pc' = "wire" /\ at' = 1
         \/ pc' = "down" /\ at' = Len(Shutdown) + 1
      /\ thrown' \in BOOLEAN
  BY DEF MakeRecorder, Goes, Abort, loopVars, graphVars, threadVars, Bones, BonesOK
<1>2. /\ "guard" \in alive /\ alive \subseteq Objects /\ asked = {} /\ "source" \in alive
      /\ cfg.streams \in 1 .. 2 /\ \A s \in 1 .. cfg.streams : Stream[s] \in alive
      /\ "download" \notin alive /\ Disparity \notin built /\ "pairs" \notin alive
      /\ "essviewer" \notin alive
      /\ HasEngine => "ess" \in alive /\ Resolves(Disparity, "plane")
  BY <1>1 DEF Bones, Built, Threaded, Up, PastWire, PastStreams, PastEngine, Loop
<1>4. BonesOK'
  <2>1. at' \in Nat
    BY <1>1, Lengths
  <2>2. pc' \in {"topic", "wire", "down"}
    BY <1>1
  <2> QED BY <1>1, <2>1, <2>2 DEF Bones, BonesOK
<1>5. UNCHANGED <<HasEngine, Resolves(Disparity, "plane")>>
  BY <1>1 DEF HasEngine, EssOn, StereoOn, Resolves, Known
<1>6. Built'
  BY <1>1, <1>2, <1>5 DEF Built, Up, Objects, PastStreams, PastEngine, PastWire, Loop
<1>7. Wired'
  BY <1>1, WiredGrows DEF Bones, PastStreams, PastEngine
<1>8. Threaded'
  BY <1>1, <1>2, ThreadedStays
<1>9. Passed'
  BY <1>1, SetUpPasses DEF BeforeStart
<1>10. UsesLive'
  BY <1>1, UsesStay DEF Bones, Live
<1> QED BY <1>1, <1>2, <1>4, <1>6, <1>7, <1>8, <1>9, <1>10, TriggersStay DEF Bones

LEMMA StartedIs ==
  ASSUME BonesOK, NEW ts, thr' = Started(ts), ts \subseteq Threads
  PROVE  /\ thr' \in [Threads -> {"none", "running", "closing", "gone"}]
         /\ \A t \in Threads : t \notin ts => (Live(t)' = Live(t) /\ Running(t)' = Running(t))
         /\ \A t \in ts : Running(t)'
BY DEF BonesOK, Started, Live, Running

LEMMA SubscribeTopicKeepsBones ==
  ASSUME Bones, SubscribeTopic
  PROVE  Bones'
<1> DEFINE name == cfg.record[at]
           s == StreamOf(name)
<1>1. /\ pc = "topic" /\ UNCHANGED <<cfg, graph, registered, asked>>
      /\ \/ /\ ~Unrecordable(name) /\ built' = built \cup {name}
            /\ pc' = "topic" /\ at' = at + 1
            /\ \/ Resolves(name, "tap") /\ thr' = Started({Encoder[s]}) /\ UNCHANGED alive
               \/ ~Resolves(name, "tap") /\ alive' = alive \cup {"download"} /\ UNCHANGED thr
         \/ /\ UNCHANGED <<built, thr, alive>>
            /\ pc' = "down" /\ at' = Len(Shutdown) + 1
      /\ thrown' \in BOOLEAN
  BY DEF SubscribeTopic, Goes, Abort, loopVars, Bones, BonesOK
<1>2. /\ "guard" \in alive /\ alive \subseteq Objects /\ asked = {} /\ "source" \in alive
      /\ cfg.streams \in 1 .. 2 /\ \A i \in 1 .. cfg.streams : Stream[i] \in alive
      /\ Disparity \in built => "download" \in alive
      /\ "pairs" \notin alive /\ "essviewer" \notin alive /\ "recorder" \in alive
      /\ HasEngine => "ess" \in alive /\ Resolves(Disparity, "plane")
      /\ ~Live("trigger") /\ ~Live("pairs") /\ at \in Nat
      /\ \A i \in Streams : ~Live(Source[i]) /\ ~Live(Upload[i])
      /\ \A n \in DOMAIN graph : graph[n].kind # "plane" =>
           graph[n].stream \in Streams /\ Stream[graph[n].stream] \in alive
  BY <1>1 DEF Bones, BonesOK, Built, Wired, Threaded, Up, PastWire, PastStreams, PastEngine, Loop,
              BeforeStart
<1>3. UNCHANGED <<HasEngine, Resolves(Disparity, "plane")>>
  BY <1>1 DEF HasEngine, EssOn, StereoOn, Resolves, Known
<1>4. Resolves(name, "tap") => s \in Streams /\ Stream[s] \in alive
  BY <1>2 DEF Resolves, Known, StreamOf
<1>5. /\ thr' \in [Threads -> {"none", "running", "closing", "gone"}]
      /\ \A t \in Threads : Live(t)' => Live(t) \/ (Resolves(name, "tap") /\ t = Encoder[s])
  <2>1. CASE UNCHANGED thr
    BY <2>1 DEF Bones, BonesOK, Live
  <2>2. CASE Resolves(name, "tap") /\ thr' = Started({Encoder[s]})
    <3>1. {Encoder[s]} \subseteq Threads
      BY <1>4, <2>2, Names
    <3> HIDE DEF name, s
    <3> QED BY <2>2, <3>1, StartedIs DEF Bones
  <2> QED BY <1>1, <2>1, <2>2
<1>6. \A t \in Threads : t \notin {"encoder1", "encoder2"} => (Live(t)' => Live(t))
  BY <1>4, <1>5, Names
<1>7. Disparity \in built' /\ Up' => "download" \in alive'
  <2>1. CASE pc' = "down"
    BY <2>1 DEF Up
  <2>2. CASE ~Unrecordable(name) /\ name = Disparity /\ ~Resolves(name, "tap")
    BY <1>1, <1>2, <2>2
  <2>3. CASE ~Unrecordable(name) /\ name = Disparity /\ Resolves(name, "tap")
    BY <1>2, <2>3 DEF Unrecordable, Resolves
  <2> QED BY <1>1, <1>2, <2>1, <2>2, <2>3
<1> HIDE DEF name, s
<1>8. BonesOK'
  <2>1. at' \in Nat
    BY <1>1, <1>2, Lengths
  <2>2. pc' \in {"topic", "down"}
    BY <1>1
  <2> QED BY <1>1, <1>5, <2>1, <2>2 DEF Bones, BonesOK
<1>9. alive \subseteq alive' /\ alive' \subseteq alive \cup {"download"}
  BY <1>1
<1>10. Built'
  BY <1>1, <1>2, <1>3, <1>7, <1>9 DEF Built, Up, Objects, PastStreams, PastEngine, PastWire, Loop
<1>11. Wired'
  BY <1>1, <1>9, WiredGrows DEF Bones, PastStreams, PastEngine
<1>12. Threaded'
  <2>1. ~Live("trigger")' /\ ~Live("pairs")'
        /\ \A i \in Streams : ~Live(Source[i])' /\ ~Live(Upload[i])'
    BY <1>2, <1>6, Names
  <2> QED BY <1>1, <1>2, <2>1 DEF Threaded, Up
<1>13. Passed'
  <2>1. CASE pc' = "down"
    BY <1>1, <2>1, SetUpPasses DEF BeforeStart
  <2>2. CASE pc' = "topic"
    BY <2>2, UpPasses
  <2> QED BY <1>1, <2>1, <2>2
<1>14. UsesLive'
  <2>1. ~Live("pairs")'
    BY <1>2, <1>6, Names
  <2>2. \A t \in Threads : t # "pairs" => Needs(t)' = Needs(t)
    BY <1>1 DEF Needs
  <2>3. Resolves(name, "tap") => Needs(Encoder[s]) \subseteq alive
    BY <1>2, <1>4, Names, NeedsIs
  <2> QED BY <1>5, <1>9, <2>1, <2>2, <2>3 DEF Bones, UsesLive
<1> QED BY <1>1, <1>2, <1>8, <1>10, <1>11, <1>12, <1>13, <1>14, TriggersStay DEF Bones

LEMMA StartRecorderKeepsBones ==
  ASSUME Bones, StartRecorder
  PROVE  Bones'
<1>1. /\ pc = "topic" /\ UNCHANGED <<cfg, graph, built, registered, alive, thr, asked>>
      /\ \/ pc' = "wire" /\ at' = 1
         \/ pc' = "down" /\ at' = Len(Shutdown) + 1
      /\ thrown' \in BOOLEAN
  BY DEF StartRecorder, Goes, Abort, loopVars, setupVars, graphVars, threadVars, Bones, BonesOK
<1>2. /\ "guard" \in alive /\ alive \subseteq Objects /\ asked = {} /\ "source" \in alive
      /\ cfg.streams \in 1 .. 2 /\ \A s \in 1 .. cfg.streams : Stream[s] \in alive
      /\ "pairs" \notin alive /\ "essviewer" \notin alive /\ "recorder" \in alive
      /\ Disparity \in built => "download" \in alive
      /\ HasEngine => "ess" \in alive /\ Resolves(Disparity, "plane")
      /\ ~Live("trigger") /\ ~Live("pairs")
      /\ \A s \in Streams : ~Live(Source[s]) /\ ~Live(Upload[s])
  BY <1>1 DEF Bones, Built, Threaded, Up, PastWire, PastStreams, PastEngine, Loop, BeforeStart
<1>3. BonesOK'
  <2>1. at' \in Nat
    BY <1>1, Lengths
  <2>2. pc' \in {"wire", "down"}
    BY <1>1
  <2> QED BY <1>1, <2>1, <2>2 DEF Bones, BonesOK
<1>4. UNCHANGED <<HasEngine, Resolves(Disparity, "plane")>>
  BY <1>1 DEF HasEngine, EssOn, StereoOn, Resolves, Known
<1>5. Built'
  BY <1>1, <1>2, <1>4 DEF Built, Up, Objects, PastStreams, PastEngine, PastWire, Loop
<1>6. Wired'
  BY <1>1, WiredGrows DEF Bones, PastStreams, PastEngine
<1>7. Threaded'
  BY <1>1, <1>2 DEF Threaded, Live, Up
<1>8. Passed'
  BY <1>1, SetUpPasses DEF BeforeStart
<1>9. UsesLive'
  BY <1>1, UsesStay DEF Bones, Live
<1> QED BY <1>1, <1>2, <1>3, <1>5, <1>6, <1>7, <1>8, <1>9, TriggersStay DEF Bones

LEMMA WireKeepsBones ==
  ASSUME Bones, Wire
  PROVE  Bones'
<1> DEFINE stage == IF "download" \in alive THEN {"download"} ELSE {}
<1>1. /\ pc = "wire" /\ UNCHANGED <<cfg, graph, registered, asked>>
      /\ \/ /\ StereoOn /\ Pairable
            /\ alive' = alive \cup {"pairs"} \cup (IF HasEssViewer THEN {"essviewer"} ELSE {})
            /\ built' = built \cup {Colour(1), Colour(2)}
            /\ thr' = Started(stage \cup (IF HasEssViewer THEN {} ELSE {"pairs"}))
            /\ pc' = "begin" /\ at' = 1
         \/ /\ thr' = Started(stage) /\ UNCHANGED <<alive, built>>
            /\ \/ pc' = "begin" /\ at' = 1
               \/ pc' = "down" /\ at' = Len(Shutdown) + 1
      /\ thrown' \in BOOLEAN
  BY DEF Wire, Goes, Abort, loopVars, Bones, BonesOK
<1>2. /\ "guard" \in alive /\ alive \subseteq Objects /\ asked = {} /\ "source" \in alive
      /\ cfg.streams \in 1 .. 2 /\ \A i \in 1 .. cfg.streams : Stream[i] \in alive
      /\ Disparity \in built => "download" \in alive
      /\ "pairs" \notin alive /\ "essviewer" \notin alive
      /\ "download" \in alive => "recorder" \in alive
      /\ HasEngine => "ess" \in alive /\ Resolves(Disparity, "plane")
      /\ ~Live("trigger")
      /\ \A i \in Streams : ~Live(Source[i]) /\ ~Live(Upload[i])
      /\ \A n \in DOMAIN graph : graph[n].kind # "plane" => graph[n].stream \in Streams
  BY <1>1 DEF Bones, Built, Wired, Threaded, Up, PastWire, PastStreams, PastEngine, Loop,
              BeforeStart
<1>3. UNCHANGED <<HasEngine, Resolves(Disparity, "plane"), Anchor>>
  BY <1>1 DEF HasEngine, EssOn, StereoOn, Resolves, Known, Anchor, StreamOf
<1>4. "pairs" \in alive' => cfg.streams = 2 /\ Anchor \in Streams /\ pc' = "begin"
  BY <1>1, <1>2 DEF StereoOn, Pairable, Resolves, Known, StreamOf, Anchor
<1>5. PICK ts : /\ ts \subseteq {"download", "pairs"} /\ thr' = Started(ts)
                /\ "download" \in ts => "download" \in alive
                /\ "pairs" \in ts => "pairs" \in alive'
  BY <1>1
<1> HIDE DEF stage
<1>6. ts \subseteq Threads
  BY <1>5, Names
<1>7. /\ thr' \in [Threads -> {"none", "running", "closing", "gone"}]
      /\ \A t \in Threads : Live(t)' => Live(t) \/ t \in ts
  BY <1>5, <1>6, StartedIs DEF Bones
<1>8. (Disparity \in built') = (Disparity \in built)
  BY <1>1, ColourIs
<1>9. alive \subseteq alive' /\ alive' \subseteq alive \cup {"pairs", "essviewer"}
      /\ ("essviewer" \in alive' => "pairs" \in alive')
  BY <1>1, <1>2
<1>10. pc' \in {"begin", "down"} /\ (pc' = "begin" => at' = 1)
       /\ (pc' = "down" => at' = Len(Shutdown) + 1)
  BY <1>1
<1>11. BonesOK'
  <2>1. at' \in Nat
    BY <1>10, Lengths
  <2> QED BY <1>1, <1>7, <1>10, <2>1 DEF Bones, BonesOK
<1>12. Built'
  BY <1>1, <1>2, <1>3, <1>4, <1>8, <1>9, <1>10
     DEF Built, Up, Objects, PastStreams, PastEngine, PastWire, Loop
<1>13. Wired'
  BY <1>1, <1>9, <1>10, WiredGrows DEF Bones, PastStreams, PastEngine, PastWire
<1>14. ~Live("trigger")' /\ \A i \in Streams : ~Live(Source[i])' /\ ~Live(Upload[i])'
  BY <1>2, <1>5, <1>7, Names
<1>15. Threaded'
  BY <1>1, <1>2, <1>10, <1>14 DEF Threaded, Up, PastWire
<1>16. Passed'
  BY <1>10, <1>14, AbortPasses, UpPasses
<1>17. UsesLive'
  <2>1. \A t \in Threads : Needs(t)' = Needs(t)
    BY <1>1, <1>3, <1>8 DEF Needs
  <2>2. "download" \in ts => Needs("download") \subseteq alive
    BY <1>2, <1>5, NeedsIs
  <2>3. "pairs" \in ts => Needs("pairs") \subseteq alive'
    <3>1. "pairs" \in ts => "stream1" \in alive /\ "stream2" \in alive
      BY <1>2, <1>4, <1>5, Names
    <3> QED BY <1>2, <1>5, <1>9, <3>1, NeedsIs
  <2> QED BY <1>5, <1>7, <1>9, <2>1, <2>2, <2>3 DEF Bones, UsesLive
<1> QED BY <1>1, <1>2, <1>11, <1>12, <1>13, <1>15, <1>16, <1>17, TriggersStay DEF Bones

LEMMA BeginKeepsBones ==
  ASSUME Bones, Begin
  PROVE  Bones'
<1> DEFINE ts == {t \in {"viewer", "essviewer"} : t \in alive}
<1>1. /\ pc = "begin" /\ UNCHANGED <<cfg, graph, built, registered, alive, asked>>
      /\ thr' = Started(ts)
      /\ \/ pc' = "start" /\ at' = 1
         \/ pc' = "down" /\ at' = Len(Shutdown) + 1
      /\ thrown' \in BOOLEAN
  BY DEF Begin, Goes, Abort, loopVars, setupVars, graphVars, Bones, BonesOK
<1>2. /\ "guard" \in alive /\ alive \subseteq Objects /\ asked = {} /\ "source" \in alive
      /\ cfg.streams \in 1 .. 2 /\ \A i \in 1 .. cfg.streams : Stream[i] \in alive
      /\ Disparity \in built => "download" \in alive
      /\ "pairs" \in alive => cfg.streams = 2 /\ Anchor \in Streams
      /\ "essviewer" \in alive => "pairs" \in alive
      /\ "download" \in alive => "recorder" \in alive
      /\ HasEngine => "ess" \in alive /\ Resolves(Disparity, "plane")
      /\ ~Live("trigger")
      /\ \A i \in Streams : ~Live(Source[i]) /\ ~Live(Upload[i])
  BY <1>1 DEF Bones, Built, Wired, Threaded, Up, PastWire, PastStreams, PastEngine, Loop,
              BeforeStart
<1>3. UNCHANGED <<HasEngine, Resolves(Disparity, "plane"), Anchor>>
  BY <1>1 DEF HasEngine, EssOn, StereoOn, Resolves, Known, Anchor, StreamOf
<1>4. ts \subseteq Threads
  BY Names
<1>5. /\ thr' \in [Threads -> {"none", "running", "closing", "gone"}]
      /\ \A t \in Threads : Live(t)' => Live(t) \/ t \in ts
  <2> HIDE DEF ts
  <2> QED BY <1>1, <1>4, StartedIs DEF Bones
<1>6. pc' \in {"start", "down"} /\ (pc' = "start" => at' = 1)
       /\ (pc' = "down" => at' = Len(Shutdown) + 1)
  BY <1>1
<1>7. BonesOK'
  <2>1. at' \in Nat
    BY <1>6, Lengths
  <2> QED BY <1>1, <1>5, <1>6, <2>1 DEF Bones, BonesOK
<1>8. Built'
  BY <1>1, <1>2, <1>3, <1>6 DEF Built, Up, Objects, PastStreams, PastEngine, PastWire, Loop
<1>9. Wired'
  BY <1>1, <1>6, WiredGrows DEF Bones, PastStreams, PastEngine, PastWire
<1>10. ~Live("trigger")' /\ \A i \in Streams : ~Live(Source[i])' /\ ~Live(Upload[i])'
  BY <1>2, <1>5, Names
<1>11. Threaded'
  BY <1>1, <1>2, <1>6, <1>10 DEF Threaded, Up, PastWire, Loop, BeforeStart
<1>12. Passed'
  BY <1>6, <1>10, AbortPasses, UpPasses
<1>13. UsesLive'
  <2>1. \A t \in Threads : Needs(t)' = Needs(t)
    BY <1>1, <1>3 DEF Needs
  <2>2. "stream1" \in alive /\ ("pairs" \in alive => "stream2" \in alive)
    BY <1>2, Names
  <2>3. \A t \in ts : Needs(t) \subseteq alive
    BY <1>2, <2>2, NeedsIs
  <2> QED BY <1>1, <1>5, <2>1, <2>3 DEF Bones, UsesLive
<1> QED BY <1>1, <1>2, <1>7, <1>8, <1>9, <1>11, <1>12, <1>13, TriggersStay DEF Bones

LEMMA StartsKeepBones ==
  ASSUME Bones, StartStream \/ Arm
  PROVE  Bones'
<1>1. /\ pc \in {"start", "arm"} /\ UNCHANGED <<cfg, graph, built, registered, alive, asked>>
      /\ \/ /\ pc = "start" /\ thr' = Started({Source[at], Upload[at]})
            /\ pc' = "start" /\ at' = at + 1 /\ at < cfg.streams
         \/ /\ pc = "start" /\ thr' = Started({Source[at], Upload[at]})
            /\ pc' = "arm" /\ at' = 1
         \/ pc = "arm" /\ thr' = Started({"trigger"}) /\ pc' = "check" /\ at' = 0
         \/ thr' = thr /\ pc' \in {"check", "down"} /\ at' = IF pc' = "check" THEN 0 ELSE 1
      /\ thrown' \in BOOLEAN
  BY DEF StartStream, Arm, Goes, Caught, loopVars, setupVars, graphVars, Bones, BonesOK
<1>2. /\ "guard" \in alive /\ alive \subseteq Objects /\ asked = {} /\ "source" \in alive
      /\ cfg.streams \in 1 .. 2 /\ \A i \in 1 .. cfg.streams : Stream[i] \in alive
      /\ Disparity \in built => "download" \in alive
      /\ "pairs" \in alive => cfg.streams = 2 /\ Anchor \in Streams
      /\ "essviewer" \in alive => "pairs" \in alive
      /\ "download" \in alive => "recorder" \in alive
      /\ HasEngine => "ess" \in alive /\ Resolves(Disparity, "plane")
      /\ pc = "start" => at \in 1 .. cfg.streams
  BY <1>1 DEF Bones, Built, Wired, Threaded, Up, PastWire, PastStreams, PastEngine, Loop,
              BeforeStart
<1>3. UNCHANGED <<HasEngine, Resolves(Disparity, "plane"), Anchor>>
  BY <1>1 DEF HasEngine, EssOn, StereoOn, Resolves, Known, Anchor, StreamOf
<1>4. PICK ts : /\ ts \subseteq Threads
                /\ thr' = Started(ts) \/ (ts = {} /\ thr' = thr)
                /\ ts = {} \/ ts = {"trigger"} \/ (pc = "start" /\ ts = {Source[at], Upload[at]})
  <2>1. pc = "start" => {Source[at], Upload[at]} \subseteq Threads
    BY <1>2, Names
  <2>2. {"trigger"} \subseteq Threads
    BY Names
  <2> QED BY <1>1, <2>1, <2>2
<1>5. /\ thr' \in [Threads -> {"none", "running", "closing", "gone"}]
      /\ \A t \in Threads : Live(t)' => Live(t) \/ t \in ts
  <2>1. CASE thr' = Started(ts)
    BY <1>4, <2>1, StartedIs DEF Bones
  <2>2. CASE thr' = thr
    BY <2>2 DEF Bones, BonesOK, Live
  <2> QED BY <1>4, <2>1, <2>2
<1>6. /\ pc' \in {"start", "arm", "check", "down"} /\ (pc' = "start" => at' \in 1 .. cfg.streams)
      /\ (pc' = "down" => at' = 1) /\ at' \in Nat
  BY <1>1, <1>2
<1>7. BonesOK'
  BY <1>1, <1>5, <1>6 DEF Bones, BonesOK
<1>8. Built'
  BY <1>1, <1>2, <1>3, <1>6 DEF Built, Up, Objects, PastStreams, PastEngine, PastWire, Loop
<1>9. Wired'
  BY <1>1, <1>6, WiredGrows DEF Bones, PastStreams, PastEngine, PastWire, Loop
<1>10. Threaded'
  BY <1>1, <1>2, <1>6 DEF Threaded, Up, PastWire, Loop, BeforeStart
<1>11. Passed'
  BY <1>6, UpPasses DEF Passed, Past, Shutting
<1>12. UsesLive'
  <2>1. \A t \in Threads : Needs(t)' = Needs(t)
    BY <1>1, <1>3 DEF Needs
  <2>2. \A t \in ts : Needs(t) \subseteq alive
    BY <1>2, <1>4, NeedsIs, Names
  <2> QED BY <1>1, <1>5, <2>1, <2>2 DEF Bones, UsesLive
<1> QED BY <1>1, <1>2, <1>7, <1>8, <1>9, <1>10, <1>11, <1>12, TriggersStay DEF Bones

-----------------------------------------------------------------------------
(* The way down. *)

\* Which places free something, and what: the rest stop a thread or the recorder.
LEMMA Freeing ==
  /\ \A k \in 1 .. 37 : Plan[k].do = "free" <=> k \in {15, 17, 19, 20, 22, 24, 27, 30, 32, 36}
  /\ \A k \in 1 .. 37 : Plan[k].do # "free" => Plan[k].do = "stop"
  /\ Plan[15].of = "essviewer" /\ Plan[17].of = "pairs"
  /\ Plan[19].of = "download" /\ Plan[20].of = "ess"
  /\ Plan[22].of = "viewer" /\ Plan[24].of = "unregister"
  /\ Plan[27].of = "stream1" /\ Plan[30].of = "stream2"
  /\ Plan[32].of = "recorder" /\ Plan[36].of = "source"
BY PlanIs DEF Stop, Free

LEMMA Stopping ==
  /\ Plan[1].what = "trigger" /\ Plan[1].of = "guard"
  /\ Plan[2].what = "source1" /\ Plan[2].of = "guard"
  /\ Plan[3].what = "upload1" /\ Plan[3].of = "guard"
  /\ Plan[4].what = "source2" /\ Plan[4].of = "guard"
  /\ Plan[5].what = "upload2" /\ Plan[5].of = "guard"
  /\ Plan[6].what = "essviewer" /\ Plan[6].of = "guard"
  /\ Plan[7].what = "pairs" /\ Plan[7].of = "guard"
  /\ Plan[8].what = "download" /\ Plan[8].of = "guard"
  /\ Plan[9].what = "encoder1" /\ Plan[9].of = "guard"
  /\ Plan[10].what = "encoder2" /\ Plan[10].of = "guard"
  /\ Plan[11].what = "recorder" /\ Plan[11].of = "guard"
  /\ Plan[12].what = "viewer" /\ Plan[12].of = "guard"
  /\ Plan[13].what = "relay" /\ Plan[13].of = "guard"
  /\ Plan[14].what = "essviewer" /\ Plan[14].of = "essviewer"
  /\ Plan[16].what = "pairs" /\ Plan[16].of = "pairs"
  /\ Plan[18].what = "download" /\ Plan[18].of = "download"
  /\ Plan[21].what = "viewer" /\ Plan[21].of = "viewer"
  /\ Plan[23].what = "relay" /\ Plan[23].of = "unregister"
  /\ Plan[25].what = "encoder1" /\ Plan[25].of = "stream1"
  /\ Plan[26].what = "upload1" /\ Plan[26].of = "stream1"
  /\ Plan[28].what = "encoder2" /\ Plan[28].of = "stream2"
  /\ Plan[29].what = "upload2" /\ Plan[29].of = "stream2"
  /\ Plan[31].what = "recorder" /\ Plan[31].of = "recorder"
  /\ Plan[33].what = "trigger" /\ Plan[33].of = "source"
  /\ Plan[34].what = "source1" /\ Plan[34].of = "source"
  /\ Plan[35].what = "source2" /\ Plan[35].of = "source"
  /\ Plan[37].what = "relay" /\ Plan[37].of = "guard"
BY PlanIs DEF Stop

\* A place of the plan is left behind: its thread does not run, or its object is gone.
LEMMA PlacePasses ==
  ASSUME Bones, pc = "down", pc' = "down", at \in 1 .. 37, at' = at + 1, UNCHANGED thr,
         alive' \subseteq alive,
         at \notin {15, 17, 19, 20, 22, 24, 27, 30, 32, 36, 11, 23, 31} => ~Live(Plan[at].what),
         at \in {15, 17, 19, 20, 22, 24, 27, 30, 32, 36} => Plan[at].of \notin alive'
  PROVE  Passed'
<1> USE DEF Past, Shutting
<1>1. Passed
  BY DEF Bones
<1>2. \A t : Live(t)' = Live(t)
  BY DEF Live
<1>3. pc' = "down" => at' \in 1 .. 38
  BY SMT
<1>4. (Shutting(1) => ~Live("trigger"))'
  BY <1>1, <1>2, Stopping DEF Passed
<1>5. (Shutting(2) => ~Live("source1"))'
  BY <1>1, <1>2, Stopping DEF Passed
<1>6. (Shutting(4) => ~Live("source2"))'
  BY <1>1, <1>2, Stopping DEF Passed
<1>7. (Shutting(8) => ~Live("download"))'
  BY <1>1, <1>2, Stopping DEF Passed
<1>8. (Shutting(9) => ~Live("encoder1"))'
  BY <1>1, <1>2, Stopping DEF Passed
<1>9. (Shutting(10) => ~Live("encoder2"))'
  BY <1>1, <1>2, Stopping DEF Passed
<1>10. (Past(13) => ~Live("trigger") /\ ~Live("source1") /\ ~Live("source2"))'
  BY <1>1, <1>2, Stopping DEF Passed
<1>11. (Past(14) => ~Live("essviewer"))'
  BY <1>1, <1>2, Stopping DEF Passed
<1>12. (Past(16) => ~Live("pairs"))'
  BY <1>1, <1>2, Stopping DEF Passed
<1>13. (Past(18) => ~Live("download"))'
  BY <1>1, <1>2, Stopping DEF Passed
<1>14. (Past(21) => ~Live("viewer"))'
  BY <1>1, <1>2, Stopping DEF Passed
<1>15. (Past(25) => ~Live("encoder1"))'
  BY <1>1, <1>2, Stopping DEF Passed
<1>16. (Past(26) => ~Live("upload1"))'
  BY <1>1, <1>2, Stopping DEF Passed
<1>17. (Past(28) => ~Live("encoder2"))'
  BY <1>1, <1>2, Stopping DEF Passed
<1>18. (Past(29) => ~Live("upload2"))'
  BY <1>1, <1>2, Stopping DEF Passed
<1>19. (Past(37) => ~Live("relay"))'
  BY <1>1, <1>2, Stopping DEF Passed
<1>20. (Past(15) => "essviewer" \notin alive)'
  BY <1>1, Freeing DEF Passed
<1>21. (Past(17) => "pairs" \notin alive)'
  BY <1>1, Freeing DEF Passed
<1>22. (Past(19) => "download" \notin alive)'
  BY <1>1, Freeing DEF Passed
<1>23. (Past(20) => "ess" \notin alive)'
  BY <1>1, Freeing DEF Passed
<1>24. (Past(22) => "viewer" \notin alive)'
  BY <1>1, Freeing DEF Passed
<1>25. (Past(24) => "unregister" \notin alive)'
  BY <1>1, Freeing DEF Passed
<1>26. (Past(27) => "stream1" \notin alive)'
  BY <1>1, Freeing DEF Passed
<1>27. (Past(30) => "stream2" \notin alive)'
  BY <1>1, Freeing DEF Passed
<1>28. (Past(32) => "recorder" \notin alive)'
  BY <1>1, Freeing DEF Passed
<1>29. (Past(36) => "source" \notin alive)'
  BY <1>1, Freeing DEF Passed
<1> HIDE DEF Past, Shutting
<1> QED BY <1>3, <1>4, <1>5, <1>6, <1>7, <1>8, <1>9, <1>10, <1>11,
     <1>12, <1>13, <1>14, <1>15, <1>16, <1>17, <1>18, <1>19, <1>20, <1>21, <1>22, <1>23, <1>24,
     <1>25, <1>26, <1>27, <1>28, <1>29
     DEF Passed

\* Going down, Built and Wired only speak of what is not there any more.
LEMMA PlacesLeft ==
  ASSUME Bones, pc = "down", pc' \in {"down", "exit"}, UNCHANGED <<cfg, graph, built>>,
         alive' \subseteq alive, "guard" \in alive',
         registered' \in {registered, {}},
         registered' # {} /\ Added(cfg.streams) =>
           "unregister" \in alive' /\ \A s \in registered : Stream[s] \in alive'
  PROVE  Built' /\ Wired'
<1>1. UNCHANGED <<Anchor, Added(cfg.streams)>>
  BY DEF Anchor, StreamOf, Added, Known, Raw
<1>2. /\ alive \subseteq Objects /\ ("pairs" \in alive => Anchor \in Streams)
      /\ \A n \in DOMAIN graph : graph[n].kind # "plane" => graph[n].stream \in Streams
  BY DEF Bones, Built, Wired
<1>3. ~Up' /\ pc' \notin {"open", "stream", "topic", "start"} \cup PastStreams \cup PastEngine
  BY DEF Up, PastStreams, PastEngine, PastWire, Loop
<1>4. Built'
  BY <1>1, <1>2, <1>3 DEF Built
<1>5. Wired'
  BY <1>1, <1>2, <1>3 DEF Wired
<1> QED BY <1>4, <1>5

LEMMA AskKeepsBones ==
  ASSUME Bones, Ask
  PROVE  Bones'
<1>1. /\ pc = "down" /\ at \in 1 .. 37 /\ UNCHANGED <<mainVars, setupVars, thr>>
      /\ Plan[at].do = "stop" /\ asked' = asked \cup {Plan[at].what}
  BY Lengths DEF Ask, Bones, Passed
<1>2. UNCHANGED <<pc, at, thrown, cfg, graph, built, alive, registered>>
  BY <1>1 DEF mainVars, setupVars, graphVars
<1>3. BonesOK' /\ Threaded' /\ UsesLive'
  BY <1>1, <1>2, UsesStay
     DEF Bones, BonesOK, Threaded, Up, Live, BeforeStart, PastWire, Loop
<1>4. Built' /\ Wired'
  BY <1>1, PlacesStay DEF Bones, Places
<1>5. Passed'
  BY <1>1, <1>2 DEF Bones, Passed, Past, Shutting, Live
<1>6. TriggersFirst'
  <2>1. Plan[at].what \in {"source1", "source2"} => at \in {2, 4, 34, 35}
    BY <1>1, Freeing, Stopping
  <2>2. at \in {2, 4, 34, 35} => ~Live("trigger")
    BY <1>1 DEF Bones, Passed, Past, Shutting
  <2>3. ~Live("trigger") => ~Running("trigger")'
    BY <1>1 DEF Live, Running
  <2>4. Running("trigger")' => Running("trigger")
    BY <1>1 DEF Running
  <2> QED BY <1>1, <2>1, <2>2, <2>3, <2>4, Names DEF Bones, TriggersFirst
<1> QED BY <1>3, <1>4, <1>5, <1>6 DEF Bones

LEMMA JoinKeepsBones ==
  ASSUME Bones, Join
  PROVE  Bones'
<1>1. /\ pc = "down" /\ at \in 1 .. 37 /\ pc' = "down" /\ at' = at + 1
      /\ UNCHANGED <<thrown, setupVars, thr, asked>>
      /\ Plan[at].do = "stop" /\ (Plan[at].what \in Threads => ~Live(Plan[at].what))
  BY Lengths DEF Join, Goes, threadVars, Bones, Passed
<1>2. UNCHANGED <<cfg, graph, built, alive, registered>>
  BY <1>1 DEF setupVars, graphVars
<1>3. BonesOK' /\ UsesLive' /\ TriggersFirst'
  BY <1>1, <1>2, UsesStay DEF Bones, BonesOK, Live, Running, TriggersFirst
<1>4. Threaded'
  BY <1>1 DEF Threaded, Up, BeforeStart, PastWire
<1>5. Built' /\ Wired'
  BY <1>1, <1>2, PlacesLeft DEF Bones, Built, Wired
<1>6. Passed'
  <2>1. at \notin {15, 17, 19, 20, 22, 24, 27, 30, 32, 36}
    BY <1>1, Freeing
  <2>2. at \notin {11, 31} => Plan[at].what \in Threads
    BY <1>1, <2>1, Stopping, Names
  <2>3. at \notin {11, 23, 31} => ~Live(Plan[at].what)
    BY <1>1, <2>2
  <2> QED BY <1>1, <1>2, <2>1, <2>3, PlacePasses
<1> QED BY <1>3, <1>4, <1>5, <1>6 DEF Bones

\* Nobody who reaches an object is left when its turn comes.
LEMMA NobodyReaches ==
  ASSUME Bones, pc = "down", at \in {15, 17, 19, 20, 22, 24, 27, 30, 32, 36},
         NEW t \in Threads, Live(t)
  PROVE  Plan[at].of \notin Needs(t)
<1> USE DEF Past
<1>1. Passed
  BY DEF Bones
<1>2. CASE at = 15
  <2>1. t # "essviewer"
    BY <1>1, <1>2 DEF Passed
  <2> QED BY <1>2, <2>1, Freeing, NeedsIs, Names
<1>3. CASE at = 17
  <2>1. t \notin {"essviewer", "pairs"}
    BY <1>1, <1>3 DEF Passed
  <2> QED BY <1>3, <2>1, Freeing, NeedsIs, Names
<1>4. CASE at = 19
  <2>1. t \notin {"download", "pairs"}
    BY <1>1, <1>4 DEF Passed
  <2> QED BY <1>4, <2>1, Freeing, NeedsIs, Names
<1>5. CASE at = 20
  <2>1. t # "pairs"
    BY <1>1, <1>5 DEF Passed
  <2> QED BY <1>5, <2>1, Freeing, NeedsIs, Names
<1>6. CASE at = 22
  <2>1. t # "viewer"
    BY <1>1, <1>6 DEF Passed
  <2> QED BY <1>6, <2>1, Freeing, NeedsIs, Names
<1>7. CASE at = 24
  BY <1>7, Freeing, NeedsIs, Names
<1>8. CASE at = 27
  <2>1. t \notin {"source1", "upload1", "encoder1", "viewer", "pairs", "essviewer"}
    BY <1>1, <1>8 DEF Passed
  <2> QED BY <1>8, <2>1, Freeing, NeedsIs, Names
<1>9. CASE at = 30
  <2>1. t \notin {"source2", "upload2", "encoder2", "pairs", "essviewer"}
    BY <1>1, <1>9 DEF Passed
  <2> QED BY <1>9, <2>1, Freeing, NeedsIs, Names
<1>10. CASE at = 32
  <2>1. t \notin {"encoder1", "encoder2", "download"}
    BY <1>1, <1>10 DEF Passed
  <2> QED BY <1>10, <2>1, Freeing, NeedsIs, Names
<1>11. CASE at = 36
  <2>1. t \notin {"source1", "source2", "trigger"}
    BY <1>1, <1>11 DEF Passed
  <2> QED BY <1>11, <2>1, Freeing, NeedsIs, Names
<1> QED BY <1>2, <1>3, <1>4, <1>5, <1>6, <1>7, <1>8, <1>9, <1>10, <1>11

\* A thread whose owner is gone, or was never there, does not run.
LEMMA OwnerGone ==
  ASSUME Bones, at \in 1 .. 37, Plan[at].do = "stop", Plan[at].of \notin alive,
         at \notin {23, 31}
  PROVE  ~Live(Plan[at].what)
<1>1. "guard" \in alive /\ \A t \in Threads : Live(t) => Needs(t) \subseteq alive
  BY DEF Bones, Built, UsesLive
<1>2. at \in {14, 16, 18, 21, 25, 26, 28, 29, 33, 34, 35}
  BY <1>1, Freeing, Stopping
<1>3. Plan[at].what \in Threads
  BY <1>2, Stopping, Names
<1>4. Plan[at].of \in Needs(Plan[at].what)
  <2>1. CASE at \in {14, 16, 18, 21, 25}
    BY <2>1, Stopping, NeedsIs
  <2>2. CASE at \in {26, 28, 29, 33, 34, 35}
    BY <2>2, Stopping, NeedsIs
  <2> QED BY <1>2, <2>1, <2>2
<1> QED BY <1>1, <1>3, <1>4

LEMMA DestroyKeepsBones ==
  ASSUME Bones, Destroy
  PROVE  Bones'
<1> DEFINE frees == {15, 17, 19, 20, 22, 24, 27, 30, 32, 36}
<1>1. /\ pc = "down" /\ at \in 1 .. 37 /\ pc' = "down" /\ at' = at + 1
      /\ UNCHANGED <<thrown, cfg, graph, built, thr, asked>>
      /\ Plan[at].do = "free" \/ Plan[at].of \notin alive
      /\ alive' = IF Plan[at].do = "free" THEN alive \ {Plan[at].of} ELSE alive
      /\ registered' = IF Plan[at].do = "free" /\ Plan[at].of = "unregister" /\ Plan[at].of \in alive
                       THEN {} ELSE registered
  BY Lengths DEF Destroy, Goes, graphVars, threadVars, Bones, Passed
<1>2. Plan[at].do = "free" <=> at \in frees
  BY <1>1, Freeing
<1>3. at \in frees => Plan[at].of # "guard"
  BY Freeing
<1>4. BonesOK' /\ TriggersFirst'
  BY <1>1 DEF Bones, BonesOK, Running, TriggersFirst
<1>5. Threaded'
  BY <1>1 DEF Threaded, Up, BeforeStart, PastWire
<1>6. Built' /\ Wired'
  <2>1. ASSUME registered' # {}, Added(cfg.streams)
        PROVE  "unregister" \in alive' /\ \A s \in registered : Stream[s] \in alive'
    <3>1. registered' = registered /\ registered # {}
      BY <1>1, <2>1
    <3>2. "unregister" \in alive /\ \A s \in registered : Stream[s] \in alive
      BY <2>1, <3>1 DEF Bones, Wired
    <3>3. at <= 24
      BY <1>1, <3>2 DEF Bones, Passed, Past
    <3>4. at = 24 => registered' = {}
      BY <1>1, <3>2, Freeing
    <3>5. at \in frees => at \in {15, 17, 19, 20, 22}
      BY <3>1, <3>3, <3>4
    <3>6. at \in frees => Plan[at].of \notin {"unregister", "stream1", "stream2"}
      BY <3>5, Freeing
    <3>7. \A s \in registered : Stream[s] \in {"stream1", "stream2"}
      BY Names DEF Bones, BonesOK
    <3> QED BY <1>1, <1>2, <3>2, <3>6, <3>7
  <2>2. "guard" \in alive'
    BY <1>1, <1>2, <1>3 DEF Bones, Built
  <2>3. alive' \subseteq alive /\ registered' \in {registered, {}}
    BY <1>1
  <2> QED BY <1>1, <2>1, <2>2, <2>3, PlacesLeft
<1>7. Passed'
  <2>1. at \notin frees /\ at \notin {11, 23, 31} => ~Live(Plan[at].what)
    <3>1. SUFFICES ASSUME at \notin frees, at \notin {11, 23, 31}
                   PROVE  ~Live(Plan[at].what)
      OBVIOUS
    <3>2. Plan[at].do # "free" /\ Plan[at].of \notin alive
      BY <1>1, <1>2, <3>1
    <3>3. Plan[at].do = "stop"
      BY <1>1, <3>2, Freeing
    <3> QED BY <1>1, <3>1, <3>2, <3>3, OwnerGone
  <2>2. at \in frees => Plan[at].of \notin alive'
    BY <1>1, <1>2
  <2>3. alive' \subseteq alive
    BY <1>1
  <2> QED BY <1>1, <2>1, <2>2, <2>3, PlacePasses
<1>8. UsesLive'
  <2>1. \A t \in Threads : Needs(t)' = Needs(t) /\ Live(t)' = Live(t)
    BY <1>1 DEF Needs, HasEngine, EssOn, StereoOn, Live
  <2>2. ASSUME NEW t \in Threads, Live(t) PROVE Needs(t) \subseteq alive'
    <3>1. Needs(t) \subseteq alive
      BY <2>2 DEF Bones, UsesLive
    <3>2. at \in frees => Plan[at].of \notin Needs(t)
      BY <1>1, <2>2, NobodyReaches
    <3> QED BY <1>1, <1>2, <3>1, <3>2
  <2> QED BY <2>1, <2>2 DEF UsesLive
<1> QED BY <1>4, <1>5, <1>6, <1>7, <1>8 DEF Bones

LEMMA ExitKeepsBones ==
  ASSUME Bones, Exit
  PROVE  Bones'
<1>1. /\ pc = "down" /\ at = 38 /\ pc' = "exit" /\ at' = 0
      /\ UNCHANGED <<thrown, cfg, graph, built, alive, registered, thr, asked>>
  BY Lengths DEF Exit, Goes, setupVars, graphVars, threadVars, Bones, Passed
<1>2. BonesOK' /\ UsesLive' /\ TriggersFirst'
  BY <1>1, UsesStay DEF Bones, BonesOK, Live, Running, TriggersFirst
<1>3. Threaded'
  BY <1>1 DEF Threaded, Up, BeforeStart, PastWire
<1>4. Built' /\ Wired'
  BY <1>1, PlacesLeft DEF Bones, Built, Wired
<1>5. Passed'
  BY <1>1 DEF Bones, Passed, Past, Shutting, Live
<1> QED BY <1>2, <1>3, <1>4, <1>5 DEF Bones

LEMMA NextKeepsBones ==
  ASSUME Bones, [Next]_vars
  PROVE  Bones'
<1>1. CASE Others
  BY <1>1, OthersKeepBones
<1>2. CASE LoopStep
  BY <1>2, LoopKeepsBones
<1>3. CASE SetUp
  BY <1>3, OpenKeepsBones, AddStreamKeepsBones, MakeViewerKeepsBones, MakeEngineKeepsBones,
     MakeRecorderKeepsBones, SubscribeTopicKeepsBones, StartRecorderKeepsBones, WireKeepsBones,
     BeginKeepsBones, StartsKeepBones
     DEF SetUp
<1>4. CASE WayOut
  BY <1>4, AskKeepsBones, JoinKeepsBones, DestroyKeepsBones, ExitKeepsBones DEF WayOut
<1>5. CASE UNCHANGED vars
  <2>1. UNCHANGED <<mainVars, setupVars, thr, asked>>
    BY <1>5 DEF vars, threadVars
  <2>2. BonesOK'
    BY <2>1 DEF Bones, BonesOK, mainVars, setupVars
  <2> QED BY <2>1, <2>2, PlacesStay, ThreadsStay DEF Bones, Places, Live, Running
<1> QED BY <1>1, <1>2, <1>3, <1>4, <1>5 DEF Next, Main, Others

LEMMA BonesAtFirst == Init => Bones
<1> SUFFICES ASSUME Init PROVE Bones
  OBVIOUS
<1>1. /\ pc = "open" /\ at = 1 /\ thrown = FALSE /\ cfg \in Configs
      /\ alive = {"guard"} /\ registered = {} /\ asked = {}
      /\ thr = [t \in Threads |-> IF t = "relay" THEN "running" ELSE "none"]
  BY DEF Init
<1>2. DOMAIN graph = {} /\ built = {}
  BY DEF Init, GraphInit
<1>3. \A t \in Threads : Live(t) => t = "relay"
  BY <1>1 DEF Live
<1>4. BonesOK
  BY <1>1 DEF BonesOK
<1>5. Built
  BY <1>1, <1>2 DEF Built, Up, Objects, PastStreams, PastEngine, PastWire, Loop
<1>6. Wired
  BY <1>1, <1>2 DEF Wired, PastStreams, PastEngine, PastWire, Loop
<1>7. Threaded
  BY <1>1, <1>3, Names DEF Threaded
<1>8. Passed
  BY <1>1 DEF Passed, Past, Shutting
<1>9. UsesLive
  BY <1>1, <1>3, NeedsIs DEF UsesLive
<1>10. TriggersFirst
  BY <1>1 DEF TriggersFirst
<1> QED BY <1>4, <1>5, <1>6, <1>7, <1>8, <1>9, <1>10 DEF Bones

-----------------------------------------------------------------------------
(* The numbers, and the loop's wait. *)

LEMMA LetGoIs ==
  ASSUME NEW h \in [Readers -> [Streams -> Nat]], NEW r \in Readers
  PROVE  /\ LetGo(h, r) \in [Readers -> [Streams -> Nat]]
         /\ \A q \in Readers, s \in Streams : LetGo(h, r)[q][s] \in {0, h[q][s]}
BY DEF LetGo

\* What the steps of the threads do to the numbers.
LEMMA StreamCounts ==
  ASSUME Counters, NEW s \in Streams, Commit(s) \/ SourceEnds(s) \/ StreamStep(s)
  PROVE  Counters'
<1> USE DEF Counters, loopVars, tapVars, endVars, dataVars
<1>1. CASE Commit(s)
  BY <1>1 DEF Commit
<1>2. CASE SourceEnds(s) \/ SourceWakes(s) \/ SourceLeaves(s) \/ UploadLeaves(s)
  BY <1>2 DEF SourceEnds, SourceWakes, SourceLeaves, UploadLeaves, ringVars
<1>3. CASE UploadTakes(s)
  BY <1>3 DEF UploadTakes
<1>4. CASE UploadPublishes(s)
  BY <1>4 DEF UploadPublishes
<1>5. CASE UploadAnnounces(s)
  BY <1>5 DEF UploadAnnounces
<1> QED BY <1>1, <1>2, <1>3, <1>4, <1>5 DEF StreamStep

LEMMA RecorderCounts ==
  ASSUME Counters, RecorderStep
  PROVE  Counters'
<1> USE DEF Counters, loopVars, ringVars, tapVars, endVars, dataVars
<1>1. ASSUME NEW s \in Streams, EncoderTakes(s) PROVE Counters'
  BY <1>1 DEF EncoderTakes
<1>2. ASSUME NEW s \in Streams, EncoderWrites(s) PROVE Counters'
  BY <1>2 DEF EncoderWrites
<1>3. ASSUME NEW s \in Streams, EncoderLeaves(s) PROVE Counters'
  BY <1>3 DEF EncoderLeaves
<1>4. CASE StageTakes \/ StageGives \/ StageLeaves
  BY <1>4 DEF StageTakes, StageGives, StageLeaves
<1> QED BY <1>1, <1>2, <1>3, <1>4 DEF RecorderStep

LEMMA ViewerCounts ==
  ASSUME Counters,
         \/ ViewerDisabled \/ ViewerLooks \/ ViewerDrops \/ ViewerCloses \/ ViewerWakes
         \/ HeadlessLeaves \/ TriggerLeaves \/ Signal \/ Relay \/ PairLeaves \/ EssViewerCloses
  PROVE  Counters'
<1> USE DEF Counters, loopVars, tapVars, endVars, dataVars
<1>1. CASE ViewerDisabled \/ HeadlessLeaves \/ TriggerLeaves \/ PairLeaves
  BY <1>1 DEF ViewerDisabled, HeadlessLeaves, TriggerLeaves, PairLeaves, ringVars
<1>2. CASE ViewerLooks
  BY <1>2 DEF ViewerLooks, Readers, Reference, Streams
<1>3. CASE ViewerDrops
  <2>1. hold' \in [Readers -> [Streams -> Nat]]
    BY <1>3, LetGoIs DEF ViewerDrops, Readers
  <2> QED BY <1>3, <2>1 DEF ViewerDrops
<1>4. CASE ViewerCloses \/ EssViewerCloses \/ Signal
  BY <1>4 DEF ViewerCloses, EssViewerCloses, Signal, ringVars
<1>5. CASE ViewerWakes
  BY <1>5 DEF ViewerWakes
<1>6. CASE RelayWoken
  BY <1>6 DEF RelayWoken, ringVars, Streams
<1>7. CASE RelayWakes
  <2>1. relayAt' \in Streams \cup {0}
    BY <1>7, Names DEF RelayWakes
  <2>2. waitSeq' \in Nat
    BY <1>7 DEF RelayWakes
  <2> QED BY <1>7, <2>1, <2>2 DEF RelayWakes
<1> QED BY <1>1, <1>2, <1>3, <1>4, <1>5, <1>6, <1>7 DEF Relay

\* Who pairs has two streams to pair.
LEMMA PairedStreams ==
  ASSUME "pairs" \in alive => Anchor \in Streams, UsesLive,
         NEW t \in {"pairs", "essviewer"}, PairStep(t)
  PROVE  Anchor \in Streams /\ Partner \in Streams
<1>1. t \in Threads /\ Live(t)
  BY Names DEF PairStep, PairLeases, PairPartner, PairGivesUp, PairGives, Pairing, Running, Live
<1>2. "pairs" \in Needs(t)
  BY NeedsIs
<1>3. Anchor \in Streams
  BY <1>1, <1>2 DEF UsesLive
<1>4. \E s \in Streams : s # Anchor
  BY DEF Streams
<1> QED BY <1>3, <1>4 DEF Partner

LEMMA PairCounts ==
  ASSUME Counters, "pairs" \in alive => Anchor \in Streams, UsesLive,
         NEW t \in {"pairs", "essviewer"}, PairStep(t)
  PROVE  Counters'
<1> USE DEF Counters, loopVars, tapVars, endVars, dataVars
<1>1. Anchor \in Streams /\ Partner \in Streams
  BY PairedStreams
<1>2. hold' \in [Readers -> [Streams -> Nat]]
  <2>1. CASE PairLeases(t)
    BY <1>1, <2>1 DEF PairLeases, Readers
  <2>2. CASE PairPartner(t)
    BY <1>1, <2>2 DEF PairPartner, Readers
  <2>3. CASE PairGivesUp(t) \/ PairGives(t)
    <3>1. hold' = LetGo(hold, "pairs")
      BY <2>3 DEF PairGivesUp, PairGives
    <3> QED BY <3>1, LetGoIs DEF Readers
  <2> QED BY <2>1, <2>2, <2>3 DEF PairStep
<1> QED BY <1>2 DEF PairStep, PairLeases, PairPartner, PairGivesUp, PairGives

LEMMA SetUpCounts ==
  ASSUME Counters, SetUp
  PROVE  Counters'
<1>1. UNCHANGED <<loopVars, ringVars, tap, took, encoding, endVars>>
  BY DEF SetUp, Open, AddStream, MakeViewer, MakeEngine, MakeRecorder, SubscribeTopic,
         StartRecorder, Wire, Begin, StartStream, Arm, dataVars, tapVars
<1> QED BY <1>1 DEF Counters, loopVars, ringVars, endVars

LEMMA LoopCounts ==
  ASSUME Counters, LoopStep
  PROVE  Counters'
<1> USE DEF Counters, loopVars, tapVars, endVars, dataVars
<1>1. CASE Check \/ ReadSeen \/ View \/ Wait
  BY <1>1 DEF Check, ReadSeen, View, Wait, ringVars
<1>2. CASE Lease
  BY <1>2 DEF Lease, Readers, Reference, Streams
<1>3. CASE Use
  <2>1. hold' \in [Readers -> [Streams -> Nat]]
    BY <1>3, LetGoIs DEF Use, DroppedOnThrow, Readers
  <2>2. seen' \in Nat
    BY <1>3 DEF Use
  <2> QED BY <1>3, <2>1, <2>2 DEF Use
<1> QED BY <1>1, <1>2, <1>3 DEF LoopStep

LEMMA WayOutCounts ==
  ASSUME Counters, WayOut
  PROVE  Counters'
<1> USE DEF Counters, loopVars, tapVars, endVars, dataVars, ringVars
<1>1. CASE Ask
  <2>1. waitSeq' \in Nat
    BY <1>1 DEF Ask
  <2> QED BY <1>1, <2>1 DEF Ask
<1>2. CASE Join \/ Destroy \/ Exit
  BY <1>2 DEF Join, Destroy, Exit
<1> QED BY <1>1, <1>2 DEF WayOut

LEMMA NextCounts ==
  ASSUME Bones, Counters, [Next]_vars
  PROVE  Counters'
<1>1. UsesLive /\ ("pairs" \in alive => Anchor \in Streams)
  BY DEF Bones, Built
<1>2. CASE Others
  BY <1>1, <1>2, StreamCounts, RecorderCounts, ViewerCounts, PairCounts DEF Others
<1>3. CASE UNCHANGED vars
  BY <1>3 DEF vars, Counters, loopVars, ringVars, tapVars, endVars, dataVars
<1> QED BY <1>2, <1>3, SetUpCounts, LoopCounts, WayOutCounts DEF Next, Main, Others

\* Who neither publishes nor consumes leaves the wait as it is, or wakes it.
LEMMA WaitStays ==
  ASSUME Counters, Waiting, UNCHANGED <<up, announced, seen, last>>,
         waitSeq' \in {waitSeq, waitSeq + 1}, UNCHANGED pc \/ pc' \notin {"view", "wait"}
  PROVE  Waiting'
BY DEF Waiting, ParkedUpToDate, Counters, Reference, Streams

LEMMA OthersKeepWaiting ==
  ASSUME Counters, Waiting, Others
  PROVE  Waiting'
<1> USE DEF loopVars, mainVars, tapVars, endVars, dataVars
<1>1. ASSUME NEW s \in Streams, Commit(s) \/ SourceEnds(s) PROVE Waiting'
  BY <1>1, WaitStays DEF Commit, SourceEnds, ringVars
<1>2. ASSUME NEW s \in Streams, StreamStep(s) PROVE Waiting'
  <2>1. CASE SourceWakes(s) \/ SourceLeaves(s) \/ UploadLeaves(s) \/ UploadTakes(s)
    BY <2>1, WaitStays DEF SourceWakes, SourceLeaves, UploadLeaves, UploadTakes, ringVars
  <2>2. CASE UploadPublishes(s)
    BY <2>2 DEF UploadPublishes, Waiting, ParkedUpToDate, Counters
  <2>3. CASE UploadAnnounces(s)
    <3>1. announced' = [announced EXCEPT ![s] = up[s]] /\ UNCHANGED <<up, pc, seen, last>>
          /\ waitSeq' = IF s = Reference THEN waitSeq + 1 ELSE waitSeq
      BY <2>3 DEF UploadAnnounces
    <3>2. \A i \in Streams : announced'[i] <= up'[i]
      BY <3>1 DEF Waiting, Counters
    <3>3. CASE s = Reference
      BY <3>1, <3>2, <3>3 DEF Waiting, ParkedUpToDate, Counters
    <3>4. CASE s # Reference
      <4>1. announced'[Reference] = announced[Reference] /\ waitSeq' = waitSeq
        BY <3>1, <3>4 DEF Counters, Reference, Streams
      <4> QED BY <3>1, <3>2, <4>1 DEF Waiting, ParkedUpToDate
    <3> QED BY <3>3, <3>4
  <2> QED BY <1>2, <2>1, <2>2, <2>3 DEF StreamStep
<1>3. CASE RecorderStep
  <2>1. UNCHANGED <<up, announced, seen, last, waitSeq, pc>>
    BY <1>3 DEF RecorderStep, EncoderTakes, EncoderWrites, EncoderLeaves, StageTakes, StageGives,
       StageLeaves, ringVars
  <2> QED BY <2>1, WaitStays
<1>4. CASE ViewerDisabled \/ ViewerLooks \/ ViewerDrops \/ ViewerCloses \/ HeadlessLeaves
           \/ PairLeaves \/ EssViewerCloses \/ TriggerLeaves \/ Signal \/ RelayWoken
  <2>1. UNCHANGED <<up, announced, seen, last, waitSeq, pc>>
    BY <1>4 DEF ViewerDisabled, ViewerLooks, ViewerDrops, ViewerCloses, HeadlessLeaves, PairLeaves,
       EssViewerCloses, TriggerLeaves, Signal, RelayWoken, ringVars
  <2> QED BY <2>1, WaitStays
<1>5. CASE ViewerWakes \/ RelayWakes
  <2>1. UNCHANGED <<up, announced, seen, last, pc>> /\ waitSeq' \in {waitSeq, waitSeq + 1}
    BY <1>5 DEF ViewerWakes, RelayWakes
  <2> QED BY <2>1, WaitStays
<1>6. ASSUME NEW t \in {"pairs", "essviewer"}, PairStep(t) PROVE Waiting'
  <2>1. UNCHANGED <<up, announced, seen, last, waitSeq, pc>>
    BY <1>6 DEF PairStep, PairLeases, PairPartner, PairGivesUp, PairGives
  <2> QED BY <2>1, WaitStays
<1> QED BY <1>1, <1>2, <1>3, <1>4, <1>5, <1>6 DEF Others, Relay

LEMMA LoopKeepsWaiting ==
  ASSUME Counters, Waiting, LoopStep
  PROVE  Waiting'
<1> USE DEF loopVars, dataVars, ringVars, Goes, ToLoop
<1>1. CASE Check \/ Wait
  BY <1>1 DEF Check, Wait, Waiting, ParkedUpToDate
<1>2. CASE ReadSeen
  BY <1>2 DEF ReadSeen, Waiting, ParkedUpToDate, Counters
<1>3. CASE View
  <2>1. UNCHANGED <<up, announced, seen, last, waitSeq>> /\ pc = "view"
        /\ pc' = (IF NothingNew THEN "wait" ELSE "lease")
    BY <1>3 DEF View
  <2>2. NothingNew => announced[Reference] <= last
    BY DEF NothingNew, Waiting, Counters, Reference, Streams
  <2> QED BY <2>1, <2>2 DEF Waiting, ParkedUpToDate
<1>4. CASE Lease
  BY <1>4 DEF Lease, Waiting, ParkedUpToDate
<1>5. CASE Use
  BY <1>5 DEF Use, Caught, Waiting, ParkedUpToDate
<1> QED BY <1>1, <1>2, <1>3, <1>4, <1>5 DEF LoopStep

LEMMA NextKeepsWaiting ==
  ASSUME Counters, Waiting, [Next]_vars
  PROVE  Waiting'
<1>1. CASE SetUp
  <2>1. UNCHANGED <<up, announced, seen, last, waitSeq>>
    BY <1>1 DEF SetUp, Open, AddStream, MakeViewer, MakeEngine, MakeRecorder, SubscribeTopic,
       StartRecorder, Wire, Begin, StartStream, Arm, dataVars, ringVars, loopVars
  <2>2. pc' \notin {"view", "wait"}
    BY <1>1 DEF SetUp, Open, AddStream, MakeViewer, MakeEngine, MakeRecorder, SubscribeTopic,
       StartRecorder, Wire, Begin, StartStream, Arm, Goes, Abort, Caught
  <2> QED BY <2>1, <2>2, WaitStays
<1>2. CASE WayOut
  <2>1. UNCHANGED <<up, announced, seen, last>> /\ waitSeq' \in {waitSeq, waitSeq + 1}
    BY <1>2 DEF WayOut, Ask, Join, Destroy, Exit, dataVars, ringVars, loopVars
  <2>2. pc' \notin {"view", "wait"}
    BY <1>2 DEF WayOut, Ask, Join, Destroy, Exit, Goes, mainVars
  <2> QED BY <2>1, <2>2, WaitStays
<1>3. CASE UNCHANGED vars
  <2>1. UNCHANGED <<up, announced, seen, last, waitSeq, pc>>
    BY <1>3 DEF vars, dataVars, ringVars, loopVars, mainVars
  <2> QED BY <2>1, WaitStays
<1> QED BY <1>1, <1>2, <1>3, OthersKeepWaiting, LoopKeepsWaiting DEF Next, Main, Others

-----------------------------------------------------------------------------
(* The recorder and what feeds it. *)

\* Until a source runs nothing comes, whoever else moves.
LEMMA OthersStayFresh ==
  ASSUME Bones, Counters, Fresh, Others
  PROVE  Fresh'
<1> USE DEF Fresh
<1>0. /\ \A s \in Streams : (~Live(Source[s]))' /\ (~Live(Upload[s]))'
  BY OthersAside, Names DEF Bones
<1>1. ASSUME NEW s \in Streams, Commit(s) \/ StreamStep(s) PROVE FALSE
  BY <1>1 DEF Commit, StreamStep, SourceWakes, SourceLeaves, UploadTakes, UploadPublishes,
     UploadAnnounces, UploadLeaves, Running, Live
<1>2. ASSUME NEW s \in Streams, SourceEnds(s) PROVE Fresh'
  BY <1>0, <1>2 DEF SourceEnds, ringVars, readerVars, tapVars, stageVars
<1>3. CASE RecorderStep
  <2>1. UNCHANGED <<ringVars, tap, accepted, giving, paired, took, encoding>>
    <3>1. ASSUME NEW s \in Streams, EncoderTakes(s) PROVE FALSE
      BY <3>1 DEF EncoderTakes
    <3>2. ASSUME NEW s \in Streams, EncoderWrites(s) PROVE FALSE
      BY <3>2 DEF EncoderWrites
    <3>3. ASSUME NEW s \in Streams, EncoderLeaves(s)
          PROVE UNCHANGED <<ringVars, tap, accepted, giving, paired, took, encoding>>
      BY <3>3 DEF EncoderLeaves, dataVars, tapVars, stageVars, readerVars
    <3>4. ~StageTakes /\ ~StageGives
      BY DEF StageTakes, StageGives
    <3>5. StageLeaves => UNCHANGED <<ringVars, tap, accepted, giving, paired, took, encoding>>
      BY DEF StageLeaves, dataVars, tapVars, stageVars, readerVars
    <3> QED BY <1>3, <3>1, <3>2, <3>3, <3>4, <3>5 DEF RecorderStep
  <2> QED BY <1>0, <2>1 DEF ringVars
<1>4. CASE ViewerDisabled \/ HeadlessLeaves \/ PairLeaves \/ TriggerLeaves \/ ViewerCloses
           \/ EssViewerCloses \/ Signal \/ RelayWoken
  <2>1. UNCHANGED <<ringVars, tap, accepted, giving, paired, took, encoding>>
    BY <1>4 DEF ViewerDisabled, HeadlessLeaves, PairLeaves, TriggerLeaves, ViewerCloses,
       EssViewerCloses, Signal, RelayWoken, dataVars, tapVars, stageVars, readerVars
  <2> QED BY <1>0, <2>1 DEF ringVars
<1>5. CASE ViewerWakes \/ RelayWakes
  BY <1>0, <1>5 DEF ViewerWakes, RelayWakes, readerVars, tapVars, stageVars
<1>6. CASE ViewerLooks
  <2>1. hold' = [hold EXCEPT !["viewer"][Reference] = 0]
    BY <1>6 DEF ViewerLooks, Reference, Streams
  <2>2. \A r \in Readers, s \in Streams : hold'[r][s] = 0
    BY <2>1 DEF Counters
  <2> QED BY <1>0, <1>6, <2>2 DEF ViewerLooks, tapVars, stageVars
<1>7. CASE ViewerDrops
  <2>1. \A r \in Readers, s \in Streams : hold'[r][s] = 0
    BY <1>7 DEF ViewerDrops, LetGo, Counters
  <2> QED BY <1>0, <1>7, <2>1 DEF ViewerDrops, readerVars, tapVars, stageVars
<1>8. ASSUME NEW t \in {"pairs", "essviewer"}, PairStep(t) PROVE Fresh'
  <2>1. Anchor \in Streams /\ Partner \in Streams
    BY <1>8, PairedStreams DEF Bones, Built
  <2>2. ~PairLeases(t) /\ ~PairPartner(t)
    BY <2>1 DEF PairLeases, PairPartner, Readers
  <2>3. ~PairGivesUp(t) /\ ~PairGives(t)
    BY <2>1 DEF PairGivesUp, PairGives, Readers
  <2> QED BY <1>8, <2>2, <2>3 DEF PairStep
<1> QED BY <1>1, <1>2, <1>3, <1>4, <1>5, <1>6, <1>7, <1>8 DEF Others, Relay

LEMMA MainStaysFresh ==
  ASSUME Bones, Counters, Fresh, SetUp \/ WayOut, ~StartStream
  PROVE  Fresh'
<1> USE DEF Fresh
<1>1. \A s \in Streams : (~Live(Source[s]))' /\ (~Live(Upload[s]))'
  <2>1. CASE WayOut
    <3>1. UNCHANGED thr
      BY <2>1 DEF WayOut, Ask, Join, Destroy, Exit, threadVars
    <3> QED BY <3>1 DEF Live
  <2>2. CASE SetUp
    <3>1. PICK ts : /\ thr' = thr \/ thr' = Started(ts)
                    /\ \A s \in Streams : Source[s] \notin ts /\ Upload[s] \notin ts
      <4>1. CASE SubscribeTopic
        <5>1. \A x \in Streams : \A s \in Streams : Source[s] \notin {Encoder[x]}
                                                   /\ Upload[s] \notin {Encoder[x]}
          BY Names
        <5>2. Resolves(cfg.record[at], "tap") => StreamOf(cfg.record[at]) \in Streams
          BY DEF Bones, Wired, Resolves, Known, StreamOf
        <5>3. thr' = thr \/ (StreamOf(cfg.record[at]) \in Streams
                             /\ thr' = Started({Encoder[StreamOf(cfg.record[at])]}))
          BY <4>1, <5>2 DEF SubscribeTopic
        <5>4. CASE thr' = thr
          <6> WITNESS {}
          <6> QED BY <5>4
        <5> QED BY <5>1, <5>3, <5>4
      <4>2. CASE Wire
        <5>1. \E ts \in SUBSET {"download", "pairs"} : thr' = Started(ts)
          <6>1. CASE "download" \in alive
            BY <4>2, <6>1 DEF Wire
          <6>2. CASE "download" \notin alive
            BY <4>2, <6>2 DEF Wire
          <6> QED BY <6>1, <6>2
        <5> QED BY <5>1, Names
      <4>3. CASE Begin
        <5>1. \E ts \in SUBSET {"viewer", "essviewer"} : thr' = Started(ts)
          BY <4>3 DEF Begin
        <5> QED BY <5>1, Names
      <4>4. CASE Arm
        <5>1. thr' = thr \/ thr' = Started({"trigger"})
          BY <4>4 DEF Arm
        <5>2. \A s \in Streams : Source[s] \notin {"trigger"} /\ Upload[s] \notin {"trigger"}
          BY Names
        <5> QED BY <5>1, <5>2
      <4>5. CASE Open \/ AddStream \/ MakeViewer \/ MakeEngine \/ MakeRecorder \/ StartRecorder
        BY <4>5 DEF Open, AddStream, MakeViewer, MakeEngine, MakeRecorder, StartRecorder, threadVars
      <4> QED BY <2>2, <4>1, <4>2, <4>3, <4>4, <4>5 DEF SetUp
    <3> QED BY <3>1, Names DEF Started, Live
  <2> QED BY <2>1, <2>2
<1>2. UNCHANGED <<shot, up, tap, took, encoding, uploading, hold, giving, paired>>
      /\ accepted' \in {accepted, <<>>}
  <2>1. CASE WayOut
    BY <2>1 DEF WayOut, Ask, Join, Destroy, Exit, dataVars, ringVars, readerVars, tapVars, stageVars
  <2>2. CASE SetUp
    BY <2>2 DEF SetUp, Open, AddStream, MakeViewer, MakeEngine, MakeRecorder, SubscribeTopic,
       StartRecorder, Wire, Begin, StartStream, Arm, dataVars, ringVars, readerVars, tapVars,
       stageVars
  <2> QED BY <2>1, <2>2
<1> QED BY <1>1, <1>2

\* Nobody who feeds the recorder starts but on the way up.
LEMMA FeedersStay ==
  ASSUME NoFeeders, \A t \in Threads : Live(t)' => Live(t)
  PROVE  NoFeeders'
BY Names DEF NoFeeders

LEMMA OnlyMainOpens ==
  ASSUME Others \/ LoopStep
  PROVE  UNCHANGED recorder
<1>1. LoopStep => UNCHANGED recorder
  BY DEF LoopStep, Check, ReadSeen, View, Wait, Lease, Use, dataVars, fileVars
<1>2. (\E s \in Streams : Commit(s) \/ SourceEnds(s) \/ StreamStep(s)) => UNCHANGED recorder
  BY DEF Commit, SourceEnds, StreamStep, SourceWakes, SourceLeaves, UploadTakes, UploadPublishes,
         UploadAnnounces, UploadLeaves, dataVars, fileVars
<1>3. RecorderStep => UNCHANGED recorder
  BY DEF RecorderStep, EncoderTakes, EncoderWrites, EncoderLeaves, StageTakes, StageGives,
         StageLeaves, Record, dataVars, fileVars
<1>4. ViewerDisabled \/ ViewerLooks \/ ViewerDrops \/ ViewerCloses \/ ViewerWakes \/ HeadlessLeaves
        => UNCHANGED recorder
  BY DEF ViewerDisabled, ViewerLooks, ViewerDrops, ViewerCloses, ViewerWakes, HeadlessLeaves,
         dataVars, fileVars
<1>5. (\E t \in {"pairs", "essviewer"} : PairStep(t)) => UNCHANGED recorder
  BY DEF PairStep, PairLeases, PairPartner, PairGivesUp, PairGives, fileVars
<1>6. PairLeaves \/ EssViewerCloses \/ TriggerLeaves \/ Signal \/ Relay => UNCHANGED recorder
  BY DEF PairLeaves, EssViewerCloses, TriggerLeaves, Signal, Relay, RelayWoken, RelayWakes,
         dataVars, fileVars
<1> QED BY <1>1, <1>2, <1>3, <1>4, <1>5, <1>6 DEF Others

LEMMA AsideKeepsOrder ==
  ASSUME Bones, Counters, Order, Others \/ LoopStep
  PROVE  Order'
<1>1. UNCHANGED <<recorder, alive>> /\ \A t \in Threads : Live(t)' => Live(t)
  BY OnlyMainOpens, OthersAside DEF Bones, setupVars
<1>2. NoFeeders => NoFeeders'
  BY <1>1, FeedersStay
<1>3. CASE Others
  <2>1. UNCHANGED <<pc, Up>>
    BY <1>3, OthersAside DEF Bones, mainVars, Up
  <2>2. Fresh => Fresh'
    BY <1>3, OthersStayFresh
  <2> QED BY <1>1, <1>2, <2>1, <2>2 DEF Order
<1>4. CASE LoopStep
  <2>1. pc \in Loop /\ pc' \in Loop \cup {"down"}
    BY <1>4, LoopStepGoes DEF Bones
  <2>2. pc \in PastWire /\ Up /\ pc' \notin BeforeStart /\ pc' # "wire"
    BY <2>1 DEF Loop, PastWire, BeforeStart, Up
  <2> QED BY <1>1, <1>2, <2>2 DEF Order
<1> QED BY <1>3, <1>4

\* What feeds the recorder is down when main comes to close it.
LEMMA ClosedLate ==
  ASSUME Bones, Order, Ask, recorder' = "closed"
  PROVE  NoFeeders
<1>1. CASE recorder = "closed"
  BY <1>1 DEF Order
<1>2. CASE recorder # "closed"
  <2>1. pc = "down" /\ at \in 1 .. 37 /\ Plan[at].do = "stop" /\ Plan[at].what = "recorder"
    BY <1>2, Lengths DEF Ask, Bones, Passed
  <2>2. at \in {11, 31}
    <3>1. at \notin {15, 17, 19, 20, 22, 24, 27, 30, 32, 36}
      BY <2>1, Freeing
    <3>2. CASE at \in {1, 2, 3, 4, 5, 6, 7, 8, 9, 10, 12, 13}
      BY <2>1, <3>2, Stopping
    <3>3. CASE at \in {14, 16, 18, 21, 23, 25, 26, 28, 29, 33, 34, 35, 37}
      BY <2>1, <3>3, Stopping
    <3> QED BY <2>1, <3>1, <3>2, <3>3
  <2>3. ~Live("download") /\ ~Live("encoder1") /\ ~Live("encoder2")
    BY <2>1, <2>2 DEF Bones, Passed, Past, Shutting
  <2> QED BY <2>3, Names DEF NoFeeders
<1> QED BY <1>1, <1>2

LEMMA WayOutKeepsOrder ==
  ASSUME Bones, Counters, Order, WayOut
  PROVE  Order'
<1>1. UNCHANGED thr /\ pc = "down" /\ pc' \in {"down", "exit"} /\ ~SetUp
  BY DEF WayOut, Ask, Join, Destroy, Exit, threadVars, mainVars, Goes, SetUp, Open, AddStream,
         MakeViewer, MakeEngine, MakeRecorder, SubscribeTopic, StartRecorder, Wire, Begin,
         StartStream, Arm
<1>2. NoFeeders => NoFeeders'
  BY <1>1 DEF NoFeeders, Live
<1>3. Fresh => Fresh'
  BY <1>1, MainStaysFresh DEF SetUp
<1>4. recorder' = recorder \/ (Ask /\ recorder' = "closed")
  BY DEF WayOut, Ask, Join, Destroy, Exit, fileVars, dataVars
<1>5. recorder' = "closed" => NoFeeders
  BY <1>4, ClosedLate DEF Order
<1>6. ~Up' /\ pc' \notin BeforeStart \cup PastWire \cup {"wire"}
  BY <1>1 DEF Up, BeforeStart, PastWire, Loop
<1> QED BY <1>2, <1>3, <1>4, <1>5, <1>6 DEF Order

LEMMA SetUpKeepsOrder ==
  ASSUME Bones, Counters, Order, SetUp
  PROVE  Order'
<1>1. pc \in BeforeStart \cup {"start", "arm"} /\ Up
      /\ (pc' \in BeforeStart => ~StartStream /\ pc \in BeforeStart)
  BY DEF SetUp, Open, AddStream, MakeViewer, MakeEngine, MakeRecorder, SubscribeTopic,
         StartRecorder, Wire, Begin, StartStream, Arm, Goes, Abort, Caught, BeforeStart, Up
<1>2. recorder # "closed" /\ recorder' \in {recorder, "open"}
      /\ (pc' = "wire" => MakeRecorder \/ (StartRecorder /\ recorder' = "open"))
  <2>1. recorder # "closed"
    BY <1>1 DEF Order
  <2>2. recorder' \in {recorder, "open"}
    BY DEF SetUp, Open, AddStream, MakeViewer, MakeEngine, MakeRecorder, SubscribeTopic,
         StartRecorder, Wire, Begin, StartStream, Arm, fileVars, dataVars
  <2>3. pc' = "wire" => MakeRecorder \/ StartRecorder
    BY DEF SetUp, Open, AddStream, MakeViewer, MakeEngine, MakeRecorder, SubscribeTopic,
         StartRecorder, Wire, Begin, StartStream, Arm, Goes, Abort, Caught
  <2>4. StartRecorder /\ pc' = "wire" => recorder' = "open"
    BY DEF StartRecorder, Goes, Abort
  <2> QED BY <2>1, <2>2, <2>3, <2>4
<1>3. pc' \in BeforeStart => Fresh'
  BY <1>1, MainStaysFresh DEF Order
<1>4. pc \in BeforeStart => Fresh'
  <2>1. pc \in BeforeStart => ~StartStream
    BY DEF StartStream, BeforeStart
  <2> QED BY <2>1, MainStaysFresh DEF Order
<1>5. recorder = "none" /\ pc \in PastWire => NoFeeders'
  <2>1. SUFFICES ASSUME recorder = "none", pc \in PastWire PROVE NoFeeders'
    OBVIOUS
  <2>2. NoFeeders
    BY <2>1 DEF Order
  <2>3. Begin \/ StartStream \/ Arm
    BY <2>1 DEF SetUp, Open, AddStream, MakeViewer, MakeEngine, MakeRecorder, SubscribeTopic,
         StartRecorder, Wire, Begin, StartStream, Arm, PastWire, Loop
  <2>4. \A t \in {"download", "encoder1", "encoder2"} : thr'[t] = thr[t]
    <3>1. CASE Begin
      BY <3>1, Names DEF Begin, Started
    <3>2. CASE StartStream
      <4>1. at \in {1, 2}
        BY <3>2 DEF StartStream, Bones, Built, Up
      <4>2. {Source[at], Upload[at]} \subseteq {"source1", "source2", "upload1", "upload2"}
        BY <4>1, Names
      <4>3. thr' = thr \/ thr' = Started({Source[at], Upload[at]})
        BY <3>2 DEF StartStream
      <4> QED BY <4>2, <4>3, Names DEF Started
    <3>3. CASE Arm
      <4>1. thr' = thr \/ thr' = Started({"trigger"})
        BY <3>3 DEF Arm
      <4> QED BY <4>1, Names DEF Started
    <3> QED BY <2>3, <3>1, <3>2, <3>3
  <2> QED BY <2>2, <2>4, Names DEF NoFeeders, Live
<1>6. recorder = "none" /\ pc = "wire" => NoFeeders'
  <2>1. SUFFICES ASSUME recorder = "none", pc = "wire" PROVE NoFeeders'
    OBVIOUS
  <2>2. NoFeeders /\ "download" \notin alive
    BY <2>1 DEF Order
  <2>3. Wire
    BY <2>1 DEF SetUp, Open, AddStream, MakeViewer, MakeEngine, MakeRecorder, SubscribeTopic,
         StartRecorder, Wire, Begin, StartStream, Arm
  <2>4. \E ts \in SUBSET {"pairs"} : thr' = Started(ts)
    BY <2>2, <2>3 DEF Wire
  <2>5. \A t \in {"download", "encoder1", "encoder2"} : thr'[t] = thr[t]
    BY <2>4, Names DEF Started
  <2> QED BY <2>2, <2>5, Names DEF NoFeeders, Live
<1>7. pc' = "wire" /\ MakeRecorder => NoFeeders' /\ "download" \notin alive'
  <2>1. SUFFICES ASSUME pc' = "wire", MakeRecorder
                 PROVE  NoFeeders' /\ "download" \notin alive'
    OBVIOUS
  <2>2. pc = "recorder" /\ UNCHANGED <<alive, thr>>
    BY <2>1 DEF MakeRecorder, Goes, Abort, threadVars
  <2>3. "download" \notin alive /\ \A s \in Streams : ~Live(Encoder[s])
    BY <2>2 DEF Bones, Threaded, Up
  <2>4. ~Live("download")
    BY <2>3, NeedsIs, Names DEF Bones, UsesLive
  <2> QED BY <2>2, <2>3, <2>4 DEF NoFeeders, Live
<1>8. pc' \in PastWire => pc \in PastWire \cup {"wire"}
  BY DEF SetUp, Open, AddStream, MakeViewer, MakeEngine, MakeRecorder, SubscribeTopic,
         StartRecorder, Wire, Begin, StartStream, Arm, Goes, Abort, Caught, PastWire, Loop
<1>9. pc \in BeforeStart \cup PastWire
  BY <1>1 DEF PastWire
<1> QED BY <1>2, <1>3, <1>4, <1>5, <1>6, <1>7, <1>8, <1>9 DEF Order

\* Who does not feed the recorder leaves what feeds it alone, or starts it.
LEMMA FedStays ==
  ASSUME Fed, UNCHANGED <<cfg, refused, recorded, giving, took, encoding>>,
         Live("download") => Live("download")',
         \A s \in Streams : Live(Encoder[s]) => Live(Encoder[s])'
  PROVE  Fed'
<1>1. \A s \in Streams : Raw(s)' = Raw(s)
  BY DEF Raw
<1> QED BY <1>1 DEF Fed

LEMMA EndsStays ==
  ASSUME BonesOK, NEW t \in Threads, Ends(t)
  PROVE  \A u \in Threads : u # t => Live(u)' = Live(u)
BY DEF BonesOK, Ends, Live

LEMMA RecorderStepFeeds ==
  ASSUME Bones, Counters, Order, Fed, RecorderStep
  PROVE  Fed'
<1> USE DEF Fed
<1>1. UNCHANGED cfg /\ \A s \in Streams : Raw(s)' = Raw(s)
  BY DEF RecorderStep, EncoderTakes, EncoderWrites, EncoderLeaves, StageTakes, StageGives,
         StageLeaves, setupVars, Raw
<1>2. ASSUME NEW s \in Streams, EncoderTakes(s) PROVE Fed'
  <2>1. UNCHANGED <<thr, refused, recorded, giving>>
        /\ encoding' = [encoding EXCEPT ![s] = tap[s]] /\ took' = [took EXCEPT ![s] = tap[s]]
        /\ Live(Encoder[s])
    BY <1>2 DEF EncoderTakes, threadVars, fileVars, stageVars, Running, Live
  <2> QED BY <1>1, <2>1 DEF Counters, Live
<1>3. ASSUME NEW s \in Streams, EncoderWrites(s) PROVE Fed'
  <2>1. UNCHANGED <<thr, giving, took>> /\ encoding' = [encoding EXCEPT ![s] = 0]
        /\ encoding[s] # 0 /\ Live(Encoder[s]) /\ Record(<<Raw(s), encoding[s]>>)
    BY <1>3 DEF EncoderWrites, threadVars, stageVars, Running, Live
  <2>2. recorder = "open"
    BY <2>1 DEF Order, Fresh, NoFeeders
  <2>3. recorded' = recorded \cup {<<Raw(s), encoding[s]>>} /\ UNCHANGED refused
    BY <2>1, <2>2 DEF Record
  <2>4. giving' # 0 => Live("download")'
    BY <2>1 DEF Live
  <2>5. ASSUME NEW i \in Streams
        PROVE  /\ encoding'[i] # 0 => Live(Encoder[i])'
               /\ took'[i] # 0 => encoding'[i] = took'[i] \/ <<Raw(i)', took'[i]>> \in recorded'
    <3>1. CASE i = s
      BY <1>1, <2>1, <2>3, <3>1 DEF Counters
    <3>2. CASE i # s
      BY <1>1, <2>1, <2>3, <3>2 DEF Counters, Live
    <3> QED BY <3>1, <3>2
  <2> QED BY <2>3, <2>4, <2>5
<1>4. ASSUME NEW s \in Streams, EncoderLeaves(s) PROVE Fed'
  <2>1. UNCHANGED <<refused, recorded, giving, took, encoding>> /\ encoding[s] = 0
        /\ Ends(Encoder[s])
    BY <1>4 DEF EncoderLeaves, dataVars, fileVars, tapVars, stageVars
  <2>2. \A u \in Threads : u # Encoder[s] => Live(u)' = Live(u)
    BY <2>1, Names, EndsStays DEF Bones
  <2>3. \A i \in Streams : i # s => Encoder[i] # Encoder[s]
    BY Names
  <2>4. "download" # Encoder[s] /\ "download" \in Threads
        /\ \A i \in Streams : Encoder[i] \in Threads
    BY Names
  <2> QED BY <1>1, <2>1, <2>2, <2>3, <2>4
<1>5. CASE StageTakes
  <2>1. UNCHANGED <<thr, refused, recorded, took, encoding>> /\ Live("download")
    BY <1>5 DEF StageTakes, threadVars, fileVars, tapVars, Running, Live
  <2> QED BY <1>1, <2>1 DEF Live
<1>6. CASE StageGives
  <2>1. UNCHANGED <<thr, took, encoding>> /\ Live("download") /\ giving # 0 /\ giving' = 0
        /\ Record(<<Disparity, giving>>)
    BY <1>6 DEF StageGives, threadVars, tapVars, Running, Live
  <2>2. recorder = "open"
    BY <2>1 DEF Order, Fresh, NoFeeders
  <2>3. recorded \subseteq recorded' /\ UNCHANGED refused
    BY <2>1, <2>2 DEF Record
  <2> QED BY <1>1, <2>1, <2>3 DEF Live
<1>7. CASE StageLeaves
  <2>1. UNCHANGED <<refused, recorded, giving, took, encoding>> /\ giving = 0 /\ Ends("download")
    BY <1>7 DEF StageLeaves, dataVars, fileVars, tapVars, stageVars
  <2>2. \A u \in Threads : u # "download" => Live(u)' = Live(u)
    BY <2>1, Names, EndsStays DEF Bones
  <2>3. \A i \in Streams : Encoder[i] # "download" /\ Encoder[i] \in Threads
    BY Names
  <2> QED BY <1>1, <2>1, <2>2, <2>3
<1> QED BY <1>2, <1>3, <1>4, <1>5, <1>6, <1>7 DEF RecorderStep

\* The other threads' steps.
LEMMA OthersKeepFed ==
  ASSUME Bones, Fed, Others, ~RecorderStep
  PROVE  Fed'
<1> DEFINE Same == /\ UNCHANGED <<cfg, refused, recorded, giving, took, encoding>>
                   /\ \A t \in {"download", "encoder1", "encoder2"} : Live(t)' = Live(t)
<1> USE DEF setupVars, fileVars, tapVars, stageVars, dataVars
<1>0. ASSUME NEW t \in Threads \ {"download", "encoder1", "encoder2"}, Ends(t)
      PROVE  \A u \in {"download", "encoder1", "encoder2"} : Live(u)' = Live(u)
  BY <1>0, EndsStays, Names DEF Bones
<1>1. ASSUME NEW s \in Streams, Commit(s) \/ SourceEnds(s) PROVE Same
  BY <1>1 DEF Commit, SourceEnds, threadVars, Live
<1>2. ASSUME NEW s \in Streams, StreamStep(s) PROVE Same
  <2>1. Source[s] \in Threads \ {"download", "encoder1", "encoder2"}
        /\ Upload[s] \in Threads \ {"download", "encoder1", "encoder2"}
    BY Names
  <2>2. CASE SourceWakes(s) \/ SourceLeaves(s)
    BY <1>0, <2>1, <2>2 DEF SourceWakes, SourceLeaves
  <2>3. CASE UploadLeaves(s)
    BY <1>0, <2>1, <2>3 DEF UploadLeaves
  <2>4. CASE UploadTakes(s) \/ UploadPublishes(s) \/ UploadAnnounces(s)
    BY <2>4 DEF UploadTakes, UploadPublishes, UploadAnnounces, threadVars, Live
  <2> QED BY <1>2, <2>2, <2>3, <2>4 DEF StreamStep
<1>3. {"viewer", "pairs", "essviewer", "trigger", "relay"}
        \subseteq Threads \ {"download", "encoder1", "encoder2"}
  BY Names
<1>4. ASSUME ViewerDisabled \/ ViewerWakes \/ HeadlessLeaves PROVE Same
  BY <1>0, <1>3, <1>4 DEF ViewerDisabled, ViewerWakes, HeadlessLeaves
<1>5. ASSUME ViewerLooks \/ ViewerDrops \/ Signal \/ RelayWoken PROVE Same
  BY <1>5 DEF ViewerLooks, ViewerDrops, Signal, RelayWoken, threadVars, Live
<1>6. ASSUME ViewerCloses PROVE Same
  <2>1. thr' = [thr EXCEPT !["viewer"] = "closing"]
    BY <1>6 DEF ViewerCloses
  <2>2. \A t \in {"download", "encoder1", "encoder2"} : thr'[t] = thr[t]
    BY <2>1, Names DEF Bones, BonesOK
  <2> QED BY <1>6, <2>2 DEF ViewerCloses, Live
<1>7. ASSUME NEW t \in {"pairs", "essviewer"}, PairStep(t) PROVE Same
  BY <1>7 DEF PairStep, PairLeases, PairPartner, PairGivesUp, PairGives, threadVars, Live
<1>8. ASSUME PairLeaves \/ EssViewerCloses \/ TriggerLeaves PROVE Same
  BY <1>0, <1>3, <1>8 DEF PairLeaves, EssViewerCloses, TriggerLeaves
<1>9. ASSUME RelayWakes PROVE Same
  <2>1. Ends("relay") \/ UNCHANGED thr
    BY <1>9 DEF RelayWakes, threadVars
  <2>2. \A u \in {"download", "encoder1", "encoder2"} : Live(u)' = Live(u)
    BY <1>0, <1>3, <2>1 DEF Live
  <2> QED BY <1>9, <2>2 DEF RelayWakes
<1>10. Same
  BY <1>1, <1>2, <1>4, <1>5, <1>6, <1>7, <1>8, <1>9 DEF Others, Relay
<1>11. \A s \in Streams : Encoder[s] \in {"encoder1", "encoder2"}
  BY Names
<1> QED BY <1>10, <1>11, FedStays

LEMMA NextKeepsFed ==
  ASSUME Bones, Counters, Order, Fed, [Next]_vars
  PROVE  Fed'
<1> USE DEF setupVars, graphVars, fileVars, tapVars, stageVars, dataVars, threadVars
<1>0. "download" \in Threads /\ \A s \in Streams : Encoder[s] \in Threads
  BY Names
<1>1. CASE RecorderStep
  BY <1>1, RecorderStepFeeds
<1>2. CASE Others /\ ~RecorderStep
  BY <1>2, OthersKeepFed
<1>3. CASE LoopStep
  BY <1>3, FedStays DEF LoopStep, Check, ReadSeen, View, Wait, Lease, Use, Live
<1>4. CASE WayOut
  BY <1>4, FedStays DEF WayOut, Ask, Join, Destroy, Exit, Live
<1>5. CASE SetUp
  <2>1. UNCHANGED <<cfg, refused, recorded, giving, took, encoding>>
    BY <1>5 DEF SetUp, Open, AddStream, MakeViewer, MakeEngine, MakeRecorder, SubscribeTopic,
         StartRecorder, Wire, Begin, StartStream, Arm
  <2>2. thr' = thr \/ \E ts : thr' = Started(ts)
    BY <1>5 DEF SetUp, Open, AddStream, MakeViewer, MakeEngine, MakeRecorder, SubscribeTopic,
         StartRecorder, Wire, Begin, StartStream, Arm
  <2>3. \A t \in Threads : Live(t) => Live(t)'
    BY <2>2 DEF Started, Live
  <2> QED BY <1>0, <2>1, <2>3, FedStays
<1>6. CASE UNCHANGED vars
  BY <1>6, FedStays DEF vars, Live
<1> QED BY <1>1, <1>2, <1>3, <1>4, <1>5, <1>6 DEF Next, Main, Others

-----------------------------------------------------------------------------
(* The theorems. *)

LEMMA AtFirst == Init => IInv
<1> SUFFICES ASSUME Init PROVE IInv
  OBVIOUS
<1>1. Bones
  BY BonesAtFirst
<1>2. /\ pc = "open" /\ recorder = "none" /\ recorded = {} /\ refused = {}
      /\ shot = [s \in Streams |-> 0] /\ uploading = [s \in Streams |-> FALSE]
      /\ up = [s \in Streams |-> 0] /\ announced = [s \in Streams |-> 0]
      /\ waitSeq = 0 /\ hold = [r \in Readers |-> [s \in Streams |-> 0]]
      /\ paired = 0 /\ tap = [s \in Streams |-> 0]
      /\ took = [s \in Streams |-> 0] /\ encoding = [s \in Streams |-> 0]
      /\ accepted = <<>> /\ giving = 0 /\ relayAt = 0 /\ seen = 0 /\ last = 0
      /\ thr = [t \in Threads |-> IF t = "relay" THEN "running" ELSE "none"]
  BY DEF Init
<1>3. Counters
  BY <1>2 DEF Counters
<1>4. Waiting
  BY <1>2 DEF Waiting, ParkedUpToDate
<1>5. Fresh
  BY <1>2, Names DEF Fresh, Live
<1>6. Order
  BY <1>2, <1>5 DEF Order, PastWire, Loop
<1>7. Fed
  BY <1>2 DEF Fed
<1> QED BY <1>1, <1>3, <1>4, <1>6, <1>7 DEF IInv

LEMMA NextKeeps ==
  ASSUME IInv, [Next]_vars
  PROVE  IInv'
<1> USE DEF IInv
<1>1. Bones' /\ Counters' /\ Waiting' /\ Fed'
  BY NextKeepsBones, NextCounts, NextKeepsWaiting, NextKeepsFed
<1>2. Order'
  <2>1. CASE UNCHANGED vars
    <3>1. UNCHANGED <<pc, Up, recorder, alive, thr, shot, up, tap, took, encoding, uploading, hold,
                      accepted, giving, paired>>
      BY <2>1 DEF vars, mainVars, setupVars, threadVars, dataVars, fileVars, ringVars, readerVars,
         tapVars, stageVars, Up
    <3>2. UNCHANGED <<Fresh, NoFeeders>>
      BY <3>1 DEF Fresh, NoFeeders, Live
    <3> QED BY <3>1, <3>2 DEF Order
  <2> QED BY <2>1, AsideKeepsOrder, WayOutKeepsOrder, SetUpKeepsOrder DEF Next, Main, Others
<1> QED BY <1>1, <1>2

LEMMA AppFollows == IInv => AppInv
<1> SUFFICES ASSUME IInv PROVE AppInv
  OBVIOUS
<1> USE DEF IInv
<1>1. TypeOK
  BY DEF Bones, BonesOK, Counters, Order, TypeOK
<1>2. UsesLive /\ TriggersFirst /\ ParkedUpToDate
  BY DEF Bones, Waiting
<1>3. WakesLive
  BY DEF Bones, Wired, WakesLive
<1>4. ASSUME pc = "exit" PROVE alive = {"guard"} /\ \A t \in Threads : ~Live(t)
  <2>1. \A k \in 1 .. 37 : Past(k)
    BY <1>4 DEF Past
  <2>2. Passed /\ "guard" \in alive /\ alive \subseteq Objects
    BY DEF Bones, Built
  <2>3. {"essviewer", "pairs", "download", "ess", "viewer", "unregister", "stream1", "stream2",
         "recorder", "source"} \cap alive = {}
    BY <2>1, <2>2 DEF Passed
  <2>4. alive = {"guard"}
    BY <2>2, <2>3 DEF Objects
  <2>5. \A t \in Threads : ~Live(t)
    BY <2>1, <2>2, Names DEF Passed
  <2> QED BY <2>4, <2>5
<1> QED BY <1>1, <1>2, <1>3, <1>4 DEF AppInv

LEMMA TailFollows == IInv => TailRecorded
<1> SUFFICES ASSUME IInv PROVE TailRecorded
  OBVIOUS
<1>1. ASSUME recorder = "closed", NEW s \in Streams, took[s] # 0
      PROVE  <<Raw(s), took[s]>> \in recorded
  <2>1. ~Live(Encoder[s])
    BY <1>1 DEF IInv, Order, NoFeeders
  <2> QED BY <1>1, <2>1 DEF IInv, Fed
<1> QED BY <1>1 DEF IInv, Fed, TailRecorded

LEMMA Inductive == Spec => []IInv
<1>1. IInv /\ [Next]_vars => IInv'
  BY NextKeeps
<1> QED BY AtFirst, <1>1, PTL DEF Spec

\* Whatever is configured, whatever the rig turns out to be and wherever the set-up throws:
\* a thread never outlives what it reaches through a pointer or a reference, the trigger
\* thread is joined before a source is told to stop, SIGINT's relay wakes no ring that is
\* gone, the loop goes to sleep only over what it has consumed, and main returns with
\* everything joined and destroyed.
THEOREM AppKeeps == Spec => []AppInv
BY Inductive, AppFollows, PTL

\* For every number of frames, in every interleaving of the encoders and the readback stage
\* with the way out: nothing is given to the recorder once it is closed, and by then what
\* an encoder took from its tap is in the file.
THEOREM TailKept == Spec => []TailRecorded
BY Inductive, TailFollows, PTL
=============================================================================
