------------------------------- MODULE HostPull -------------------------------
(***************************************************************************)
(* A DownloadStage with a LatestFrame as its sink, as                        *)
(* tests/download_stage_test.cpp puts them together: every copy that retires *)
(* is offered to the mailbox on the stage's thread, and a consumer takes the *)
(* newest from its own.  What the stage sees kept is what the mailbox and    *)
(* its consumer pin.  Either part may be stopped at any time.                *)
(***************************************************************************)
EXTENDS DownloadStage, LatestFrame

\* The frames of the mailbox are slots of the stage's pool, and it is the one sink.
ASSUME PullAssumption == Frames = Slots /\ NoFrame = NoSlot /\ SinkCount = 1

pullVars == <<downloadVars, mailboxVars>>

PullInit == DownloadInit /\ MailboxInit

ProducerThread == ProducerStep /\ UNCHANGED mailboxVars

StreamRuns == StreamStep /\ UNCHANGED mailboxVars

\* The stage's thread, in its own code and in the sink.  A frame the mailbox let
\* go of is released before the sink returns to the stage.
StageThread == StageStep /\ displaced = NoFrame /\ UNCHANGED mailboxVars

Offered ==
  /\ SinkReturns
  /\ OfferFrame(ready) \/ OfferIgnored(ready)
  /\ kept' = Pinned'

ReleasesOnly ==
  /\ kept' = Pinned'
  /\ UNCHANGED <<stageVars, producerVars, gpuVars, listVars, leaked>>

ReleaseDisplaced == LetDisplacedGo /\ ReleasesOnly

ConsumerThread == ConsumerStep /\ ReleasesOnly

\* Whoever owns the stage and the mailbox.
Owner ==
  \/ (StartDownload \/ StopDownload \/ ClearInFlight) /\ UNCHANGED mailboxVars
  \/ StopMailbox /\ ReleasesOnly

PullNext ==
  \/ ProducerThread \/ StreamRuns
  \/ StageThread \/ Offered \/ ReleaseDisplaced
  \/ ConsumerThread \/ Owner

PullSpec == PullInit /\ [][PullNext]_pullVars

-----------------------------------------------------------------------------
MailboxTypeOK ==
  /\ latest \in Frames \cup {NoFrame} /\ displaced \in Frames \cup {NoFrame}
  /\ holding \in Frames \cup {NoFrame}
  /\ open \in BOOLEAN /\ gone \in BOOLEAN
  /\ kept = Pinned

\* How many frames the mailbox's sink has been given.
HandedOver == IF stage = "sinks" /\ sink = 0 THEN Len(published) - 1 ELSE Len(published)

\* The frame that waits is the newest that was handed to an open mailbox, and
\* a consumer that works on one is not ahead of it.
NewestWaits ==
  /\ latest # NoFrame => stamp[latest] = published[HandedOver]
  /\ latest # NoFrame /\ holding # NoFrame => stamp[holding] < stamp[latest]

\* The stage with this sink: slots and events have one use each, events vouch for the
\* right results, frames are published in the order of enqueue(), each once, refusals are
\* counted, and the mailbox keeps the newest.
PullInv ==
  MailboxTypeOK /\ DownloadInv /\ PublishedInOrder /\ RefusalsCounted /\ NewestWaits

\* enqueue() said true: the sink is given the frame whatever the consumer does,
\* unless the stage is stopped or its thread found no device.
AcceptedArePublished ==
  \A n \in 1 .. MaxFrames :
    (Len(enqueued) >= n) ~> (HandedOver >= n \/ ~on \/ stage = "exited" \/ starts > 1)
=============================================================================
