----------------------------- MODULE LatestFrame -----------------------------
(***************************************************************************)
(* pipeline/src/latest_frame.cpp: a sink that keeps the newest frame for one *)
(* consumer, which takes it away.  Every action is one region under mutex_,  *)
(* except that the frame a newer one displaces is let go after it.  The two  *)
(* counters of the health line are left out.                                 *)
(***************************************************************************)
EXTENDS Integers

CONSTANTS Frames, NoFrame

ASSUME NoFrameAssumption == NoFrame \notin Frames

VARIABLES
  latest,     \* latest_
  displaced,  \* the frame the sink is about to let go
  open,       \* running_
  holding,    \* the frame the consumer works on
  gone        \* acquire_latest() returned null

mailboxVars == <<latest, displaced, open, holding, gone>>

MailboxInit ==
  /\ latest = NoFrame /\ displaced = NoFrame /\ holding = NoFrame
  /\ open = TRUE /\ gone = FALSE

\* Seeded fault: a full mailbox makes the stage wait for its consumer.
OfferBlocking(f) ==
  /\ open /\ displaced = NoFrame /\ latest = NoFrame
  /\ latest' = f
  /\ UNCHANGED <<displaced, open, holding, gone>>

\* sink()
OfferFrame(f) ==
  /\ open /\ displaced = NoFrame
  /\ displaced' = latest /\ latest' = f
  /\ UNCHANGED <<open, holding, gone>>

OfferIgnored(f) == ~open /\ UNCHANGED mailboxVars

LetDisplacedGo ==
  /\ displaced # NoFrame /\ displaced' = NoFrame
  /\ UNCHANGED <<latest, open, holding, gone>>

\* acquire_latest(), or a take_latest() that finds a frame.
TakeFrame ==
  /\ ~gone /\ holding = NoFrame /\ open /\ latest # NoFrame
  /\ holding' = latest /\ latest' = NoFrame
  /\ UNCHANGED <<displaced, open, gone>>

\* The consumer drops the frame before it asks for the next.
LetGo ==
  /\ holding # NoFrame /\ holding' = NoFrame
  /\ UNCHANGED <<latest, displaced, open, gone>>

\* "Null once stop() has been called -- including when a frame was waiting".
Leave ==
  /\ ~gone /\ holding = NoFrame /\ ~open
  /\ gone' = TRUE
  /\ UNCHANGED <<latest, displaced, open, holding>>

StopMailbox ==
  /\ open /\ open' = FALSE
  /\ latest' = NoFrame
  /\ UNCHANGED <<displaced, holding, gone>>

ConsumerStep == TakeFrame \/ LetGo \/ Leave
-----------------------------------------------------------------------------
\* What the mailbox and its consumer keep from being refilled.
Pinned == {latest, displaced, holding} \ {NoFrame}
=============================================================================
