------------------------------ MODULE GpuResults ------------------------------
(***************************************************************************)
(* The way of a frame over the device in its three parts: into the device   *)
(* ring (UploadPaths), through the engines of who looks at it (EngineUsers) *)
(* and, as a result, back to the host (DownloadStage with its mailbox,      *)
(* HostPull).  What joins them is what each relies on of the one before:    *)
(* that a slot's data_ready fires on the frame of its stamp, and that each  *)
(* copy out is queued right behind the inference it belongs to.  So they    *)
(* are explored one at a time, and which one is chosen at the start.        *)
(***************************************************************************)
EXTENDS HostPull, EngineUsers, UploadPaths

VARIABLES part    \* "upload", "engine" or "download"

resultVars == <<part, pullVars, usersVars, uploadPathVars>>

\* The parts that are not looked at stay in some state of their own.
ResultsInit ==
  /\ part \in {"upload", "engine", "download"} /\ PullInit /\ UsersInit /\ UploadPathsInit
  /\ part # "engine" => user = CHOOSE u \in Users : TRUE
  /\ part # "upload" => plan = CHOOSE p \in Plans : ~UploadRefuses(p)

OfUpload(step) == part = "upload" /\ step /\ UNCHANGED <<part, usersVars, pullVars>>
OfDownload(step) == part = "download" /\ step /\ UNCHANGED <<part, usersVars, uploadPathVars>>
OfEngine(step) == part = "engine" /\ step /\ UNCHANGED <<part, pullVars, uploadPathVars>>

ResultsNext == OfUpload(UploadPathsNext) \/ OfDownload(PullNext) \/ OfEngine(UsersNext)

\* The fairness of HostPull: threads go on with what they have begun and the device
\* completes what is queued.  Nothing is asked of the engine's users.
ResultsFairSpec ==
  /\ ResultsInit /\ [][ResultsNext]_resultVars
  /\ WF_resultVars(OfDownload(ProducerThread /\ producer # "idle"))
  /\ WF_resultVars(OfDownload(StreamRuns))
  /\ WF_resultVars(OfDownload(StageThread)) /\ WF_resultVars(OfDownload(Offered))
  /\ WF_resultVars(OfDownload(ReleaseDisplaced))

-----------------------------------------------------------------------------
\* What the device computes is of the frame it is said to be of: what a slot is published
\* with, and what an engine's user tells, draws or hands on.
DeviceTrue == EngineInv /\ UploadPathsTrue
=============================================================================
