------------------------------- MODULE Replay -------------------------------
(***************************************************************************)
(* The two sources that replay a recording into an External                 *)
(* HostIngressRing: McapPlayer with one ImageReplaySource per image topic   *)
(* (recording/src/mcap_player.cpp, image_replay_source.cpp), and            *)
(* RecordingSource (recording_source.cpp), which plays one raw stream.  One *)
(* thread walks the recording, waits until each message is due, and for an  *)
(* image waits, for a while, for a slot the pipeline has given back.        *)
(*                                                                         *)
(* The first stream fills the ring of HostIngressRing; what reads the rings *)
(* of the others is left open, a held slot may come back at any time.  kind *)
(* says which source there is; "staged" is the ring without a replay, filled *)
(* by HostIngressRing's own producer.  Playback speed is 1.  A message is   *)
(* its topic, its two stamps and whether it is what its topic promises.     *)
(***************************************************************************)
EXTENDS HostIngressRing, SequencesExt

CONSTANTS
  Kinds,        \* a subset of {"staged", "mcap", "raw"}
  Recordings,   \* the files: [channels, messages, indexed, epoch]
  Configs,      \* McapPlayer::Config: [topics, exclude, images, start, duration, loop, rebase]
  MaxClock,     \* bound: the host's clock
  MaxReads      \* bound: how many messages are played

ASSUME KindsAssumption == Kinds \subseteq {"staged", "mcap", "raw"}
ASSUME BoundsAssumption == MaxClock \in Nat \ {0} /\ MaxReads \in Nat

VARIABLES
  kind,
  script,     \* the messages of one pass, in the order the reader hands them out
  streams,    \* image_topics_
  config,
  epoch,      \* epoch_log and epoch_stamp of a pass
  clock,      \* host_now_ns() and the steady clock
  bound,      \* the streams whose start() has come: pending_binds_ is the rest
  rpc,        \* the replay thread's program counter
  base,       \* origin and base of this pass
  pos,        \* the message it is at
  rheld,      \* held_, for every stream
  rslot,      \* the slot acquire_slot() returned
  rgoing,     \* running_
  finished,   \* finished_ and failed_
  reads, delivered, dropped,
  sent,       \* history: what each topic last delivered
  rhalted     \* history: stop() was called

playerVars == <<rpc, base, pos, rslot, finished>>
countVars == <<reads, delivered, dropped, sent>>
givenVars == <<kind, script, streams, config, epoch>>
replayVars == <<givenVars, clock, bound, playerVars, rheld, rgoing, countVars, rhalted>>
replaySysVars == <<vars, replayVars>>
\* What a step of the replay thread that touches no slot leaves alone.
besideVars == <<vars, givenVars, clock, bound, rheld, rgoing, rhalted>>

-----------------------------------------------------------------------------
(* McapPlayer's constructor: what is played, and as which streams. *)

ChannelsOf(r) == DOMAIN r.channels
Images(r) == {t \in ChannelsOf(r) : r.channels[t] = "image"}

\* topics, or everything; less exclude; and the listed images whatever they say.
Selected(r, c) ==
  ((IF c.topics = {} THEN ChannelsOf(r) ELSE c.topics) \ c.exclude) \cup ToSet(c.images)

InOrderOf(S) == SetToSortSeq(S, <)

\* The listed images, or every selected one by name.
Streams(r, c) ==
  IF c.images # <<>> THEN c.images ELSE InOrderOf(Selected(r, c) \cap Images(r))

\* Start and end of the window, in log time.
Earliest(r) == Min({m.log : m \in ToSet(r.messages)})
From(r, c) == Earliest(r) + c.start
Until(r, c) == IF c.duration > 0 THEN From(r, c) + c.duration ELSE MaxClock + Earliest(r) + 10
InWindow(r, c, m) == From(r, c) <= m.log /\ m.log < Until(r, c)

\* Log-time order where the file has an index, the order of writing where it has none.
ByLogTime(s) ==
  LET before(i, j) == s[i].log < s[j].log \/ (s[i].log = s[j].log /\ i < j)
      order == SetToSortSeq(DOMAIN s, before)
  IN [i \in DOMAIN s |-> s[order[i]]]

Script(r, c) ==
  LET played == SelectSeq(r.messages,
                          LAMBDA m : m.topic \in Selected(r, c) /\ InWindow(r, c, m))
  IN IF r.indexed THEN ByLogTime(played) ELSE played

\* The player, or an ImageReplaySource over it, throws: a name the file has not, a topic
\* both fed and dropped, nothing left, or an image stream without a readable first frame.
Refused(r, c) ==
  \/ ChannelsOf(r) = {} \/ Selected(r, c) = {} \/ ~ c.topics \subseteq ChannelsOf(r)
  \/ ~ ToSet(c.images) \subseteq Images(r) \ c.exclude
  \/ Streams(r, c) = <<>> \/ ~ IsInjective(Streams(r, c))
  \/ \E t \in ToSet(Streams(r, c)) :
       LET frames_ == SelectSeq(Script(r, c), LAMBDA m : m.topic = t)
       IN frames_ = <<>> \/ ~ Head(frames_).good

\* RecordingSource's constructor: one stream, measured from the manifest's epoch.
RawScript(r) == SelectSeq(r.messages, LAMBDA m : m.topic = r.messages[1].topic)

OpenMcap(r, c) ==
  /\ kind = "mcap" /\ ~Refused(r, c)
  /\ script = Script(r, c) /\ streams = Streams(r, c)
  /\ epoch = [log |-> Script(r, c)[1].log, stamp |-> Script(r, c)[1].stamp]

OpenRaw(r) ==
  /\ kind = "raw" /\ r.epoch > 0
  /\ script = RawScript(r) /\ streams = <<r.messages[1].topic>>
  /\ epoch = [log |-> r.epoch, stamp |-> r.epoch]

ReplayInit ==
  /\ Init
  /\ kind \in Kinds
  /\ \E r \in Recordings, c \in Configs :
       \/ OpenMcap(r, c) /\ config = [loop |-> c.loop, rebase |-> c.rebase, exclude |-> c.exclude]
       \/ OpenRaw(r) /\ config = [loop |-> c.loop, rebase |-> c.rebase, exclude |-> {}]
       \/ /\ kind = "staged" /\ config = [loop |-> FALSE, rebase |-> FALSE, exclude |-> {}]
          /\ script = <<>> /\ streams = <<>> /\ epoch = [log |-> 0, stamp |-> 0]
  /\ clock = 1 /\ bound = {}
  /\ rpc = "unbound" /\ base = 0 /\ pos = 1 /\ rslot = NoSlot /\ finished = "no"
  /\ rheld = [t \in ToSet(streams) |-> {}]
  /\ rgoing = FALSE /\ rhalted = FALSE
  /\ reads = 0
  /\ delivered = [t \in ToSet(streams) |-> 0] /\ dropped = [t \in ToSet(streams) |-> 0]
  /\ sent = [t \in ToSet(streams) |-> [pass |-> 0, stamp |-> 0, own |-> 0]]

-----------------------------------------------------------------------------
(* What the application calls. *)

\* Seeded fault: the first stream that binds starts the player.
AnyBind == TRUE

\* bind_done() brings pending_binds_ to zero.
LastBind == Cardinality(bound) + 1 = Len(streams)

\* ImageReplaySource::start and RecordingSource::start, in stream order.
StartStream ==
  /\ kind # "staged" /\ ~rhalted /\ Cardinality(bound) < Len(streams)
  /\ bound' = bound \cup {streams[Cardinality(bound) + 1]}
  /\ IF LastBind /\ rpc = "unbound"
       THEN rgoing' = TRUE /\ rpc' = "pass"
       ELSE UNCHANGED <<rgoing, rpc>>
  /\ UNCHANGED <<vars, givenVars, clock, base, pos, rslot, finished, rheld, countVars, rhalted>>

\* stop() of any of the sources, up to the join.
HaltReplay ==
  /\ kind # "staged" /\ ~rhalted
  /\ rhalted' = TRUE
  /\ rgoing' = FALSE
  /\ UNCHANGED <<vars, givenVars, clock, bound, playerVars, rheld, countVars>>

Tick ==
  /\ kind # "staged" /\ clock < MaxClock
  /\ clock' = clock + 1
  /\ UNCHANGED <<vars, givenVars, bound, playerVars, rheld, rgoing, countVars, rhalted>>

-----------------------------------------------------------------------------
(* run(). *)

Message == script[pos]
First == streams[1]

\* Seeded fault: one base for all the passes.
FirstBase == IF base = 0 THEN clock ELSE base

\* The origin of a pass.
PassBase == clock

BeginPass ==
  /\ rpc = "pass"
  /\ base' = PassBase
  /\ pos' = 1
  /\ rpc' = "message"
  /\ UNCHANGED <<besideVars, rslot, finished, countVars>>

Since(time, from) == IF time >= from THEN time - from ELSE 0

\* The pass is over.  A loop goes on unless it was told to stop meanwhile.
PassOver ==
  /\ rpc = "message" /\ pos > Len(script)
  /\ rpc' = IF config.loop /\ rgoing THEN "pass" ELSE "finish"
  /\ UNCHANGED <<besideVars, base, pos, rslot, finished, countVars>>

\* Seeded fault: a stop is noticed between two passes only.
NeverLeaves == FALSE

\* running_ is looked at with every message and all the while one is waited for.
Leaves == ~rgoing

Leave ==
  /\ rpc = "message" /\ pos <= Len(script)
  /\ Leaves
  /\ rpc' = "exited"
  /\ UNCHANGED <<besideVars, base, pos, rslot, finished, countVars>>

\* The message is due, and goes to its subscriber if it has one.
Due ==
  /\ rpc = "message" /\ pos <= Len(script) /\ rgoing
  /\ reads < MaxReads
  /\ clock >= base + Since(Message.log, epoch.log)
  /\ reads' = reads + 1
  /\ \/ /\ Message.topic \in ToSet(streams) /\ Message.good /\ Message.topic \in bound
        /\ rpc' = "slot" /\ UNCHANGED <<pos, dropped>>
     \/ /\ Message.topic \in ToSet(streams) /\ ~(Message.good /\ Message.topic \in bound)
        /\ pos' = pos + 1 /\ dropped' = [dropped EXCEPT ![Message.topic] = @ + 1]
        /\ UNCHANGED rpc
     \/ /\ Message.topic \notin ToSet(streams)
        /\ pos' = pos + 1 /\ UNCHANGED <<rpc, dropped>>
  /\ UNCHANGED <<besideVars, base, rslot, finished, delivered, sent>>

\* The slots reclaim() finds consumed.
Returned(t) == IF t = First THEN {{s \in rheld[t] : Consumed(s)}} ELSE SUBSET rheld[t]

\* reclaim(): slot_consumed leaves the first stream's slots Idle.
ReclaimSlots(t, S) ==
  /\ rheld' = [rheld EXCEPT ![t] = @ \ S]
  /\ state' = IF t = First THEN [s \in Slots |-> IF s \in S THEN "Idle" ELSE state[s]] ELSE state
  /\ UNCHANGED <<ready, stamp, acquired, committed, released, running, content, frames,
                 producerVars, uploadVars, gpuVars, givenVars, clock, bound, rgoing, rhalted>>

\* acquire_slot() finds a slot, the lowest free one.
TakeSlot ==
  /\ rpc = "slot"
  /\ \E S \in Returned(Message.topic) :
       LET free == Slots \ (rheld[Message.topic] \ S) IN
       /\ \E s \in free : (\A r \in free : s <= r) /\ rslot' = s
       /\ ReclaimSlots(Message.topic, S)
  /\ rpc' = "write"
  /\ UNCHANGED <<base, pos, finished, countVars>>

\* It has none, and gives up: on a stop, or when slot_wait_ms is over.  A stopped
\* RecordingSource returns at once; McapPlayer finds out with the next message.
GiveUp ==
  /\ rpc = "slot"
  /\ {} \in Returned(Message.topic) /\ rheld[Message.topic] = Slots
  /\ IF kind = "raw" /\ ~rgoing
       THEN rpc' = "exited" /\ UNCHANGED <<pos, dropped>>
       ELSE /\ dropped' = [dropped EXCEPT ![Message.topic] = @ + 1]
            /\ pos' = pos + 1 /\ rpc' = "message"
  /\ UNCHANGED <<besideVars, base, rslot, finished, reads, delivered, sent>>

\* The frame is copied, or read, into the slot.
Write ==
  /\ rpc = "write"
  /\ IF Message.topic = First
       THEN frames' = frames + 1 /\ content' = [content EXCEPT ![rslot] = frames + 1]
       ELSE UNCHANGED <<frames, content>>
  /\ rpc' = "commit"
  /\ UNCHANGED <<ringVars, producerVars, uploadVars, gpuVars, givenVars, clock, bound, rheld,
                 rgoing, rhalted, base, pos, rslot, finished, countVars>>

\* The stamp a message goes out with.
OutStamp ==
  IF config.rebase THEN base + Since(Message.stamp, epoch.stamp) ELSE Message.stamp

CommitSlot(t) ==
  IF t = First
    THEN CommitExternal(rslot) /\ UNCHANGED <<content, frames, producerVars, uploadVars, gpuVars>>
    ELSE UNCHANGED vars

CommitImage ==
  /\ rpc = "commit"
  /\ CommitSlot(Message.topic)
  /\ rheld' = [rheld EXCEPT ![Message.topic] = @ \cup {rslot}]
  /\ delivered' = [delivered EXCEPT ![Message.topic] = @ + 1]
  /\ sent' = [sent EXCEPT ![Message.topic] =
                [pass |-> base, stamp |-> OutStamp, own |-> Message.stamp]]
  /\ pos' = pos + 1 /\ rpc' = "message"
  /\ UNCHANGED <<givenVars, clock, bound, rgoing, rhalted, base, rslot, finished, reads, dropped>>

\* The read of the frame, the tap or the ring throws; that ends the playback.
PlaybackFails ==
  /\ rpc \in {"write", "commit"} /\ (MayThrow \/ (Message.topic = First /\ state[rslot] # "Idle"))
  /\ finished' = "failed"
  /\ rpc' = "exited"
  /\ UNCHANGED <<besideVars, base, pos, rslot, countVars>>

Finish ==
  /\ rpc = "finish"
  /\ finished' = "end"
  /\ rpc' = "exited"
  /\ UNCHANGED <<besideVars, base, pos, rslot, countVars>>

-----------------------------------------------------------------------------
ReplayStep ==
  \/ BeginPass \/ PassOver \/ Leave \/ Due
  \/ TakeSlot \/ GiveUp \/ Write \/ CommitImage \/ PlaybackFails
  \/ Finish

StagedStep == kind = "staged" /\ ProducerStep /\ UNCHANGED replayVars
PipelineStep == (UploadStep \/ CopyEnds) /\ UNCHANGED replayVars

ReplayNext ==
  \/ ReplayStep \/ StartStream \/ HaltReplay \/ Tick
  \/ StagedStep \/ PipelineStep
  \/ (StopUpload \/ Stop) /\ UNCHANGED replayVars

ReplaySpec == ReplayInit /\ [][ReplayNext]_replaySysVars

\* The threads and the device run.  Nobody promises that the pipeline gives a slot back.
ReplayFairSpec ==
  /\ ReplaySpec
  /\ WF_replaySysVars(ReplayStep) /\ WF_replaySysVars(StagedStep)
  /\ WF_replaySysVars(UploadStep /\ UNCHANGED replayVars)
  /\ WF_replaySysVars(CopyEnds /\ UNCHANGED replayVars)

-----------------------------------------------------------------------------
(* Properties. *)

ReplayTypeOK ==
  /\ rpc \in {"unbound", "pass", "message", "slot", "write", "commit", "finish", "exited"}
  /\ bound \subseteq ToSet(streams)
  /\ base \in 0 .. MaxClock /\ pos \in 1 .. Len(script) + 1 /\ rslot \in Slots \cup {NoSlot}
  /\ rheld \in [ToSet(streams) -> SUBSET Slots]
  /\ rgoing \in BOOLEAN /\ rhalted \in BOOLEAN /\ finished \in {"no", "end", "failed"}

\* "a slot handed to commit() is off limits ... until consumed()": every slot that is not
\* at rest, or that a copy still reads, is one the replay knows it may not write to.
ReplayCovers ==
  \A s \in Slots :
    state[s] # "Idle" \/ (\E i \in DOMAIN copies : copies[i].slot = s) => s \in rheld[First]

\* The frames the counters of a source count, one by one.
Counted ==
  {x \in ToSet(streams) \X (1 .. reads + 1) : x[2] <= delivered[x[1]] + dropped[x[1]]}

\* What the counters of a source say is what happened: a delivered frame is one the ring
\* got, and what was read is delivered, dropped or belongs to nobody.
CountersTrue ==
  /\ delivered[First] = committed
  /\ Cardinality(Counted) <= reads

\* No frame is refused because its stream has not been bound yet: "without this the first
\* stream to start would race the second past the frames it should have seen".
AllBound == rpc # "unbound" => bound = ToSet(streams)

\* The owner is never left waiting for a frame that is not coming: the thread ends
\* because it was told to or it says so, and then it says nothing more.
EndAnnounced ==
  /\ rpc = "exited" => rhalted \/ finished # "no"
  /\ finished # "no" => rpc = "exited"

\* What the filters promise: no stream is played twice, every stream has something to
\* play in every pass (so that a looping player never spins), and what was excluded is
\* not played.
ScriptSound ==
  /\ streams \in Seq(ToSet(streams)) /\ streams # <<>> /\ IsInjective(streams)
  /\ script \in Seq(ToSet(script))
  /\ \A t \in ToSet(streams) : \E i \in DOMAIN script : script[i].topic = t
  /\ kind = "mcap" => \A i \in DOMAIN script : script[i].topic \notin config.exclude

\* The ring, under either producer; the replay thread and what the two say of each other.
ReplayInv ==
  /\ IngressInv
  /\ kind = "staged" /\ MaxOutstanding <= 1 => StagedInv
  /\ kind # "staged" =>
       ReplayTypeOK /\ ReplayCovers /\ CountersTrue /\ AllBound /\ EndAnnounced /\ ScriptSound

\* "preserving every interval and every cross-topic relationship exactly": two frames of
\* one pass are as far apart as they were recorded, whatever they waited for.  (A
\* message stamped before the first is put at the first: OutStamp clamps it.)
IntervalsKept ==
  \A t, u \in DOMAIN sent :
    (sent[t].pass = sent[u].pass /\ sent[t].pass > 0 /\ sent[t].own >= epoch.stamp
     /\ sent[u].own >= epoch.stamp) =>
      sent[t].stamp - sent[u].stamp = sent[t].own - sent[u].own

\* Does the file's stamp order agree with its log order?
Ascending == \A i \in DOMAIN script : script[i].stamp = script[i].log

\* A stream's stamps never go back, from one pass to the next either: what looks a frame
\* up by its stamp downstream depends on it.
StampsAscend ==
  (config.rebase /\ Ascending) => \A t \in DOMAIN sent : sent'[t].stamp >= sent[t].stamp

StampsKept == [][IntervalsKept' /\ StampsAscend]_sent

\* stop() of the ring lets its producer and the upload thread out, and stop() of a source
\* its thread, whatever they wait for; nobody has to give a slot back for that.
AllReleased ==
  /\ ~running ~> (upc = "exited" /\ (kind = "staged" => ppc = "exited"))
  /\ rhalted ~> (rpc \in {"unbound", "exited"})
=============================================================================
