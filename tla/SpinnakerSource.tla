--------------------------- MODULE SpinnakerSource ---------------------------
(***************************************************************************)
(* spinnaker/src/spinnaker_source.cpp: the thread that takes frames from a  *)
(* camera writing straight into the pinned slots of an External             *)
(* HostIngressRing, with UploadStage reading them on the other side.  A     *)
(* slot is kept from the camera by holding the vendor's handle for it,      *)
(* held_[slot], until the ring says the slot is consumed.  When the stream  *)
(* fails the source drains its handles and opens the camera again.          *)
(*                                                                         *)
(* RingFrameSink (app/include/ring_frame_sink.hpp) forwards commit and      *)
(* consumed; the tap it may feed on the way is HostFrameRing.  The camera   *)
(* and its driver are external: NewestOnly, as every config in the          *)
(* repository sets it, so that a completed image nobody fetched goes back   *)
(* to the pool.  Counters, backoff times and the trace are left out.        *)
(***************************************************************************)
EXTENDS HostIngressRing

CONSTANTS
  DrainMayTimeOut,    \* whether drain_held may give up on the reader
  ReconnectLimits,    \* the numbers config_.reconnect_attempts may have
  MaxFailures         \* bound: how many camera calls fail

Forever == -1         \* a reconnect_attempts below zero, as the repository's configs have it

ASSUME DrainAssumption == DrainMayTimeOut \in BOOLEAN
ASSUME ReconnectAssumption == ReconnectLimits \subseteq Nat /\ MaxFailures \in Nat

VARIABLES
  streaming,   \* the camera may write into the slots it has
  image,       \* the slot of the newest completed image
  spc,         \* the source's program counter
  held,        \* the slots whose handle is in held_
  fetched,     \* the slot of the image being committed
  next,        \* the loop index of reclaim()
  broken,      \* grab_loop returned a reason
  attempt,     \* attempt of run()
  failed,      \* failed_
  going,       \* running_ of the source
  limit,       \* config_.reconnect_attempts: 0 never, or Forever
  halted,      \* history: stop() was called
  timedOut,    \* history: a drain gave up on the reader
  failures     \* history: how many camera calls failed

cameraVars == <<streaming, image>>
sourceVars == <<spc, held, fetched, next, broken, attempt, failed, going, limit, halted, timedOut,
                failures>>
sysVars == <<vars, cameraVars, sourceVars>>
\* What a step of the source's thread that does not touch the ring leaves alone.
otherVars == <<vars, limit, halted, timedOut>>

SourceInit ==
  /\ Init
  /\ streaming = FALSE /\ image = NoSlot
  /\ spc = "open" /\ held = {} /\ fetched = NoSlot /\ next = 0
  /\ broken = FALSE /\ attempt = 0
  /\ failed = FALSE /\ going = TRUE /\ halted = FALSE /\ timedOut = FALSE /\ failures = 0
  /\ limit \in ReconnectLimits \cup {Forever}

-----------------------------------------------------------------------------
\* The camera writes a frame into a slot it has.  A write that is still going on
\* when the slot is read is a slot whose content is no longer the old frame.
CameraFill(s) ==
  /\ streaming /\ frames < MaxFrames
  /\ s \notin held /\ s # image
  /\ frames' = frames + 1
  /\ content' = [content EXCEPT ![s] = frames + 1]
  /\ image' = s
  /\ UNCHANGED <<ringVars, producerVars, uploadVars, gpuVars, streaming, sourceVars>>

\* A call into the camera fails.
Fails == failures < MaxFailures /\ failures' = failures + 1

-----------------------------------------------------------------------------
(* grab_loop(). *)

\* The top of the loop; a requested stop leaves it without a reason.
GrabLoop ==
  /\ spc = "loop"
  /\ spc' = IF going THEN "reclaim" ELSE "end"
  /\ next' = 0
  /\ UNCHANGED <<otherVars, cameraVars, held, fetched, broken, attempt, failed, going, failures>>

\* One iteration of reclaim(), which grab_loop and drain_held both run.
Reclaim ==
  /\ spc \in {"reclaim", "drain"} /\ next < SlotCount
  /\ next' = next + 1
  /\ \/ /\ next \in held /\ Consumed(next)
        /\ held' = held \ {next}
        /\ state' = [state EXCEPT ![next] = "Idle"]
     \/ /\ ~ (next \in held /\ Consumed(next))
        /\ UNCHANGED <<held, state>>
  /\ UNCHANGED <<ready, stamp, acquired, committed, released, running, content, frames,
                 producerVars, uploadVars, gpuVars, cameraVars, spc, fetched, broken, attempt,
                 failed, going, limit, halted, timedOut, failures>>

\* GetNextImage returns the newest image.
Grab ==
  /\ spc = "reclaim" /\ next = SlotCount /\ image # NoSlot
  /\ fetched' = image
  /\ held' = held \cup {image}
  /\ image' = NoSlot
  /\ spc' = "commit"
  /\ UNCHANGED <<otherVars, streaming, next, broken, attempt, failed, going, failures>>

\* It times out, or the image is incomplete or in no slot of ours and is released.
GrabNothing ==
  /\ spc = "reclaim" /\ next = SlotCount
  /\ image' = NoSlot
  /\ spc' = "loop"
  /\ UNCHANGED <<otherVars, streaming, held, fetched, next, broken, attempt, failed, going,
                 failures>>

GrabFails ==
  /\ spc = "reclaim" /\ next = SlotCount
  /\ Fails
  /\ broken' = TRUE
  /\ spc' = "end"
  /\ UNCHANGED <<otherVars, cameraVars, held, fetched, next, attempt, failed, going>>

CommitFrame ==
  /\ spc = "commit"
  /\ CommitExternal(fetched)
  /\ spc' = "loop"
  /\ UNCHANGED <<content, frames, producerVars, uploadVars, gpuVars, cameraVars, held, fetched,
                 next, broken, attempt, failed, going, limit, halted, timedOut, failures>>

\* commit_external throws "slot is still in flight", which ends the loop.
CommitThrows ==
  /\ spc = "commit"
  /\ state[fetched] # "Idle"
  /\ broken' = TRUE
  /\ spc' = "end"
  /\ UNCHANGED <<otherVars, cameraVars, held, fetched, next, attempt, failed, going, failures>>

-----------------------------------------------------------------------------
(* close_stream() and run(). *)

EndAcquisition ==
  /\ spc = "end"
  /\ streaming' = FALSE /\ image' = NoSlot
  /\ spc' = "drain" /\ next' = 0
  /\ UNCHANGED <<otherVars, held, fetched, broken, attempt, failed, going, failures>>

\* A pass of drain_held is over and handles are left: it sleeps and goes again.
DrainAgain ==
  /\ spc = "drain" /\ next = SlotCount /\ held # {}
  /\ next' = 0
  /\ UNCHANGED <<otherVars, cameraVars, spc, held, fetched, broken, attempt, failed, going,
                 failures>>

\* drain_held has every handle back.
DrainOver == held = {}

\* drain_held gives up on the reader after two seconds.
DrainTimesOut == DrainMayTimeOut /\ held # {}

\* fail(): the thread ends and says why.
Fail == going' = FALSE /\ failed' = TRUE /\ spc' = "done"

\* release_held, and what run() does with the reason.
Closed ==
  /\ spc = "drain" /\ next = SlotCount
  /\ \/ DrainOver /\ UNCHANGED timedOut
     \/ DrainTimesOut /\ timedOut' = TRUE
  /\ held' = {}
  /\ broken' = FALSE
  /\ \/ ~broken /\ spc' = "done" /\ going' = FALSE /\ UNCHANGED failed
     \/ broken /\ limit = 0 /\ Fail
     \/ broken /\ limit # 0 /\ spc' = "open" /\ UNCHANGED <<going, failed>>
  /\ UNCHANGED <<vars, limit, halted, cameraVars, fetched, next, attempt, failures>>

\* open_stream: every slot is the camera's.
Open ==
  /\ spc = "open" /\ going
  /\ streaming' = TRUE
  /\ attempt' = 0
  /\ spc' = "loop"
  /\ UNCHANGED <<otherVars, image, held, fetched, next, broken, failed, going, failures>>

OpenFails ==
  /\ spc = "open" /\ going
  /\ Fails
  /\ \/ limit = 0 /\ Fail /\ UNCHANGED attempt
     \/ /\ limit > 0 /\ attempt' = attempt + 1
        /\ IF attempt + 1 >= limit THEN Fail ELSE UNCHANGED <<going, failed, spc>>
     \/ limit < 0 /\ UNCHANGED <<attempt, going, failed, spc>>
  /\ UNCHANGED <<otherVars, cameraVars, held, fetched, next, broken>>

\* stop() came while the camera was away.
OpenStopped ==
  /\ spc = "open" /\ ~going
  /\ spc' = "done"
  /\ UNCHANGED <<otherVars, cameraVars, held, fetched, next, broken, attempt, failed, going,
                 failures>>

\* stop(), up to the join.
Halt ==
  /\ ~halted
  /\ halted' = TRUE
  /\ going' = FALSE
  /\ UNCHANGED <<vars, cameraVars, spc, held, fetched, next, broken, attempt, failed, limit, timedOut,
                 failures>>

-----------------------------------------------------------------------------
SourceStep ==
  \/ GrabLoop \/ Reclaim \/ Grab \/ GrabNothing \/ GrabFails
  \/ CommitFrame \/ CommitThrows
  \/ EndAcquisition \/ DrainAgain \/ Closed
  \/ Open \/ OpenFails \/ OpenStopped

\* The other side of the ring.
ReaderStep == (UploadStep \/ CopyEnds) /\ UNCHANGED <<cameraVars, sourceVars>>

SourceNext ==
  \/ SourceStep \/ Halt
  \/ \E s \in Slots : CameraFill(s)
  \/ ReaderStep
  \/ (StopUpload \/ Stop) /\ UNCHANGED <<cameraVars, sourceVars>>

SourceSpec == SourceInit /\ [][SourceNext]_sysVars

\* The two threads and the device run; the camera owes nobody a frame.
SourceFairSpec ==
  /\ SourceSpec
  /\ WF_sysVars(SourceStep)
  /\ WF_sysVars(UploadStep /\ UNCHANGED <<cameraVars, sourceVars>>)
  /\ WF_sysVars(CopyEnds /\ UNCHANGED <<cameraVars, sourceVars>>)

-----------------------------------------------------------------------------
(* Properties. *)

SourceTypes ==
  /\ streaming \in BOOLEAN
  /\ image \in Slots \cup {NoSlot}
  /\ spc \in {"open", "loop", "reclaim", "commit", "end", "drain", "done"}
  /\ held \in SUBSET Slots
  /\ fetched \in Slots \cup {NoSlot}
  /\ next \in 0 .. SlotCount
  /\ broken \in BOOLEAN /\ failed \in BOOLEAN /\ going \in BOOLEAN /\ halted \in BOOLEAN
  /\ timedOut \in BOOLEAN
  /\ limit \in ReconnectLimits \cup {Forever} /\ attempt \in Nat /\ failures \in Nat

SourceTypeOK == TypeOK /\ SourceTypes

\* "a slot handed to commit() is off limits to the transport until consumed() says
\* otherwise" (frame_sink.hpp): a slot that is queued, or that the device still has
\* to read, is never one the camera may write to, unless a drain gave up on it.
InFlight(s) == state[s] = "Committed" \/ \E i \in DOMAIN copies : copies[i].slot = s
CameraSpares == streaming => \A s \in Slots : InFlight(s) => s \in held

\* So commit_external never finds the transport refilling a slot that is in flight: its
\* throw has no other cause than a drain that gave up.
CommitFits == spc = "commit" => state[fetched] = "Idle"
OffLimits == timedOut \/ (CameraSpares /\ CommitFits)

\* A source that ended without being told to has said so (failed(), and through it
\* finished()): the owner is not left waiting for a frame.
EndIsReported == spc = "done" => halted \/ failed

\* A slot the reader has let go of goes back to the camera: no handle leaks, however
\* the copy, the next grab and a reconnect fall.
HandlesReturned == \A s \in Slots : state[s] = "Releasing" ~> s \notin held

\* What these rest on, as long as every drain ran to its end: a slot without a handle is
\* at rest, and the source's own variables agree with where it is.
HeldCovers == \A s \in Slots : s \notin held => state[s] = "Idle"

SourceSound ==
  /\ spc = "commit" => fetched \in held /\ state[fetched] = "Idle"
  /\ image \notin held
  /\ ~streaming => image = NoSlot
  /\ spc \in {"open", "done"} => ~streaming /\ held = {}
  /\ spc = "drain" => ~streaming

\* The source and its ring are well typed, nothing in flight is ever the camera's, an
\* end is reported, and handles, copies, the staged frame and the queue are where these say.
SourceInv ==
  /\ SourceTypeOK
  /\ EndIsReported
  /\ OffLimits
  /\ timedOut \/ (HeldCovers /\ CopiesCovered /\ StagedSound /\ QueueSound /\ SourceSound)
=============================================================================
