# A verification of perception_pipeline

perception_pipeline takes frames from one or two cameras (or from a recording),
uploads them to a GPU, transforms them, hands them to consumers (viewers,
inference, stereo, a recorder) and never lets a slow consumer hold up a camera.
Most of its own logic is hand-over protocol: who may write to a buffer, who may
read it, and how that is learnt across threads, CUDA streams and cameras. These
modules model that logic, and the programs around it from their configuration
file to their last join. Paths below are relative to `src/`.

## 1. Inventory

| part | state | operations | talks to | what is hard |
|---|---|---|---|---|
| `DeviceRingBuffer`, `ReadLease`, `WriteLease` (`pipeline/src/device_ring_buffer.cpp`, `ring_lease.cpp`) | per slot: seq (odd while written), reader count, time stamp, two kinds of CUDA event; `latest_`, `next_write_slot_`, `wait_seq_` | acquire (blocking, try), publish, abandon, lease latest, lease by time stamp, drop, wait for a publish, wake all | every stage and consumer | no lock at all: a Dekker-style exchange of seq and reader count; leases dropped while the GPU still reads |
| `HostIngressRing` (`host_ingress_ring.cpp`) | slot states, ready queue, three counters, an event per slot | acquire, commit, abandon; commit_external, slot_consumed; pop, release, stop | a source on one side, `UploadStage` on the other | waits outside the lock; slots identified by counters; an event that may describe an older copy |
| `UploadStage` (`upload_stage.cpp`) | worker thread, `StagedHold`, scratch buffers, a graph per output slot | run, process, stop | pops the ingress ring, writes a device ring | exceptions half-way; two ways to be told to stop; addresses baked into graphs |
| `HostFrameRing`, the host tap (`host_frame_ring.cpp`) | holds per slot, latest, sequence, gauge, cursor per consumer | publish, acquire_latest, release by deleter, stop | a source, the recorder's encoders | copy outside the lock; frames outlive calls; a gauge changed in five places |
| `SpinnakerSource` (`spinnaker/src/spinnaker_source.cpp`) | the camera's nodes; handles held, session, attempt, back-off, flags | configure, verify, grab loop, reclaim, drain, reconnect, fail, stop | camera SDK, `FrameSink` | the camera writes into our memory; failures anywhere; a camera that comes back with other settings |
| replay: `RecordingSource`, `ImageReplaySource`, `McapPlayer` (`recording/src`) | position, pass, pacing, sinks | start, run, stop, finish | a `FrameSink` per stream | stop while waiting for a slot or for time; stamps across passes; streams bound one by one |
| sinks (`app/include/ring_frame_sink.hpp`, `capture/src/heap_frame_sink.cpp`) | a queue of filled buffers | commit, consumed, pop | source and ring or reader | two threads and a running flag |
| `acquire` (`app/src/acquire_main.cpp`, `source_spinnaker.cpp`, `topic_graph.cpp`) | streams, topics, consumers, threads, the loop's last frame | set up, wait, peek, lease; triggers; relay of SIGINT; stop, join, destroy | everything | a condition tested and a counter read in two steps; joins in a fixed order; exceptions while threads run |
| `DownloadStage`, `HostFramePool`, `LatestFrame` (`pipeline/src`) | in-flight list, free events, free frames, mailbox | start, enqueue, run, stop; acquire and release; sink, acquire_latest, stop | the stereo callback, the recorder, a puller | pools at their limit; a copy that lands after the call; restart after stop |
| `RingPairConsumer`, `TransformStage` (`pipeline/src`) | last frame, skip counters | step, process, stop | two device rings | partner overwritten between two leases; exception after publish |
| engines (`tensorrt/src`) and viewers (`visualization/src`, `app/src/headless_yolo_consumer.cpp`) | one buffer per tensor, 8 timing slots, answers of earlier cycles | enqueue, report, draw; run, stop | device rings, OpenGL, the download stage | what is asked of an earlier cycle while later ones reuse its buffers |
| `McapRecorder`, `RecordingWriter`, `RecordingReader` (`recording/src`), CDR (`recording/include`) | bounded queues, spare buffers, writer threads, index; an octet buffer | add_topic, start, push, run, close; encode, decode | taps, download stage, files | close against push; buffers that must all come back; a crash between two writes; alignment |
| `LiveStereo`, `StereoPairer`, `frame_pairing.hpp`, `action_sync` | two queues, reader threads, checkers | push, try_pop, start, stop, arm | two cameras | time-outs, overruns, accounting, one clock for triggers |
| configuration (`*_config.cpp`, `stereo_calibration.cpp`) | documents | load, check against the rig | every program | faults in combination with a rig |
| tools `stereo_view`, `ptp_trigger_test`, `spin_acquire` | their main loops and counters | view, watch, burst, sweep, bring up | cameras | clocks; verdicts computed from counts |
| camera mathematics, CUDA kernels, scripts, smoke tests | none | pure | | floating point |

Correct means, part by part: a slot has one owner at a time and its content is
the frame its holder was told, on the host and on the device; no consumer is
given an older frame than it knows to exist; the counters and verdicts people
read are true; what was accepted is in the file, and what is in the file is read
back as it was written; waiting threads are released by a publish, by a release
and by stop; what runs is the rig the document describes; and every program
ends, on every way out, with its threads joined and its cameras given back.
`PROJECT.json` lists the hazards at their lines, with the properties that watch
them.

## 2. Modules

### The frame's way

* **`DeviceRingBuffer`** models the host side of the device ring: one producer,
  any number of consumers. There is no lock in the code, so one action is one
  access to shared memory: the seq bump, the look at the reader count, the stamp,
  `latest_`, the counters; the hold, the second look at the seq, its undoing. A
  read that nothing can change any more is taken with the access before it. The load
  of the count a blocking scan parks on is an access of its own (`ScanEnd`), after the
  one that found it non-zero.
  `policy` is `write_policy_`, a variable that keeps its initial
  value so that one run covers both; `Modes` the acquire calls in use. Accesses are
  sequentially consistent: the two that must be are `seq_cst` in the code, and
  what weaker orders of the others allow is not modelled. Frames are numbered by
  the acquire that made them, which also serves as their time stamp.
* **`DeviceRingStreams`** extends it with the GPU: one stream that writes and one
  per consumer that reads, each a queue; an event is the number of items still to
  complete before it fires; `memory` is the content of each slot, `Torn` while it
  is written. A write lease that is abandoned leaves its queued write behind with no
  event recorded (`Abandon`), and an acquire may throw between its bump and the hand-out.
* **`LatestWins`** states what a latest-wins hand-off promises, with no slots.
  **`HostFrameRing`** is the tap; each mutex section is one action and the copy
  outside the lock is its own. `KeepsPromise` is the refinement of the one by the
  other.
* **`HostIngressRing`** holds the ring's two fill modes and `UploadStage`'s thread.
  A mutex section is one action; the wait for the upload event, the record and the
  release are separate ones, because they are outside the lock.
* **`SpinnakerSource`** and **`Replay`** extend it with what fills the ring from
  outside. The first has the acquisition thread and the camera; back-off times are
  left out (a retry may come at any moment), and the reconnect limit is a variable
  that keeps its initial value, so that one run covers several. The second has the
  two replay sources: the constructors' checks and filters, a pass with its pacing,
  the wait for a slot, loops and failures. Its time is a counter, its slots those of
  the ring for the first stream and one that somebody may hold for the others.
* **`UploadPaths`** is `UploadStage::process()` on the device: the plain copy, copy
  and transform through a scratch buffer, and the graphs captured per output slot.
  A frame's calls only append to one stream, so they are one action, which may break
  off before any of them.
* **`RingPair`** has `RingPairConsumer` and `TransformStage` over rings reduced to
  what `DeviceRingBuffer` shows of them: a slot with a frame, holds, a newest.
* **`InferenceEngine`** is `TrtEngine` and the two engines on it: the order of calls
  of a cycle, the buffers and timing slots cycles share, the pictures a result was
  computed from. **`EngineUsers`** has the five threads that look at a ring's frame
  (four of them may have an engine): pair callback, disparity window, window with
  boxes, plain window, headless.
* **`DownloadStage`** is the stage with `HostFramePool`, **`LatestFrame`** the
  mailbox, **`HostPull`** the two put together as the tests do. **`GpuResults`** is
  the run's root for `UploadPaths`, `EngineUsers` and `HostPull`: they share no
  state and are explored one at a time.

### The programs

* **`TopicGraph`** declares and resolves topics. **`AcquireApp`** is `acquire_main`
  from its first line to its last. Objects in the order of their construction,
  their threads, what each thread uses; any step of the set-up may throw, and the
  unwinding then goes backwards through what exists. A ring is here its newest frame
  and who holds which, a tap its newest frame, and a message the recorder accepts is
  in the file: the detail has modules of its own. Which frames come, and what ends a
  run (a window, a source, a signal, a fault), is part of each configuration.
* **`AppConfig`** gives for a document the faults the loaders find and the
  configuration they return, **`CameraSetup`** what is written to a camera's nodes and
  verified, and **`BringUp`** the way of `acquire`, `stereo_view` and `spin_acquire`
  from the command line to the first trigger and back: cameras opened and refused,
  PTP, action keys, triggers and their acknowledgements, cameras lost and recovered.
* **`LiveStereo`** has two cameras, their heap sinks and reader threads;
  **`FramePairing`** the offline merge; **`StereoPairer`** the live pairing;
  **`StereoView`** the viewer's main and trigger threads with the scheduled start and
  its checker. A send takes as long as it takes (`SendTakes`: it waits for
  acknowledgements), the loop's report and the sends may throw, and an exception that
  meets the joinable trigger thread, or leaves its function, terminates the process;
  **`TriggerTest`** the bursts, the sweep and the verdict; **`PtpWatch`**
  the lock statistics and their report. **`StereoTools`** is their root: one of these
  programs, or `RingPair`, is chosen at the start.

### Recording

* **`McapRecorder`**: a push is the region of `take_spare`, the encoding and the
  region of `enqueue`; the writer takes, writes and gives back. A message is its topic
  and a number, and `spare` is how many buffers a topic has.
* **`RawRecording`**: `push` reserves, copies and publishes in three steps; a writer
  thread per stream writes payload and index record, and either may fail; close joins
  one writer after the other and writes the manifest. The reader's epoch, gaps and
  pairs are computed from what is in the files at any moment.
* **`CdrMessages`**: the octets of every message type, as `CdrWriter` puts them down
  and `CdrReader` and the image decoder take them up, with a buffer that is reused and
  messages that are cut short.
* **`Recordings`** is their root.

**`*Proofs`** hold the theorems, one module for each group of components (section 4).
**`MC*`** give those constants a value that a `.cfg` cannot write down; where there is
none, the run is of the module itself.

Definitions marked "seeded fault" are never used: each is one plausible mistake in
the definition after it, kept to show that a property would notice (`mutants` in
`PROJECT.json`).

## 3. Runs

| run | instance | what it shows |
|---|---|---|
| `ring_requests` | 2 slots, 2 consumers, both write policies, blocking, abandons, failing CUDA calls, requests by time stamp, 3 acquires, 2 attempts | `LeaseExclusion`, `RequestHonoured`, `HoldsCounted`, and the invariant the proofs use |
| `streams` | 2 slots, 1 consumer with 2 queued reads, ScanForFree, HostSync, blocking and try, abandons, failing CUDA calls, requests by time stamp, 4 acquires | reads see the frame that was leased (`ReadsIntact`), the newest is never claimed (`NewestSpared`), time goes forward (`NeverStale`), HostSync bounds the queued writes and something can always run (`StreamsInv`); a blocking acquire returns (`StreamsAcquireReturns`, from its first load on, the park included) |
| `find_lost_wakeup` | 2 slots, 1 consumer of the latest frame, blocking, nothing fails, 4 acquires | section 6 |
| `tap` | 3 slots, 2 consumers holding up to 2 frames, oversize frames, 5 frames | `HeldStable`, the exact gauge and skip counts (`IInv`), refinement of `LatestWins`, release on stop |
| `replay` | 2 slots, three recordings, seven configurations, both sources, and the ring's own producer; throwing stage, failing records and playbacks, 4 frames or reads, 3 ticks | uploads read what was written (`UploadIntact`); one owner per slot, frames in order, counters, filters and ends (`ReplayInv`); distances kept and stamps that never go back (`StampsKept`); everyone leaves on stop |
| `source` | 2 slots, failing sessions and stages, drains that time out, limits 0, -1 and 2, 2 frames | nothing in flight is armed, a commit fits, every end is reported (`SourceInv`); every handle returned |
| `app` | 8 configurations that run, 13 that main refuses; up to 3 frames a stream; any step of the set-up may throw | no thread outlives what it uses and none is left (`AppInv`); the tail of a run is recorded (`TailRecorded`); the loop sleeps through no frame; every way out is walked to its end |
| `bring_up` | documents with one fault or none, rigs of one to three cameras with nodes of their own, a stray camera; 2 polls of PTP, 2 lost connections | what runs is the rig and calibration of the document, the SDK goes last (`BringUpInv`); a trigger that is sent is taken, after a reconnection too (`TriggersReach`); a start ends |
| `recordings` | two topics with a thread each, failing writes, close at any moment, 3 pushes a thread; two raw streams of 5 and 2 frames, one failing write; every message type with frame_ids of 9 lengths, cut anywhere in its last 9 octets a field | no buffer lost (`RecorderInv`); `MessagesAccounted`; the index never points at anything but the whole frame it names (`RawRecordingInv`); what readers derive is true (`ReadersTrue`); `ClosesReturn` |
| `gpu_results` | upload: 2 staging slots, 2 or 3 output slots, 4 frames, 1 mishap; engines: 2 timing slots, 3 cycles, 1 fault; download: 2 slots, the mailbox as sink, stop and restart, 3 frames | the result published, told, drawn or handed on is of the frame it is said to be of (`DeviceTrue`, `FramesIntact`); one use per slot and event, refusals counted, the newest waits (`PullInv`); `EventsSuffice`; `AcceptedArePublished` |
| `stereo` | two cameras of 2 frames, one of which may give up; viewer in 3 modes, 2 commands, sends of 1 or 6 ticks in periods of 4 with a lead of 2; any call to a camera may throw; a watch of 7 samples; bursts and a sweep; 3-slot rings with one fault | drained, joined, verdicts true (`ToolsInv`); pairs belong together (`PairingTrue`); commands a lead ahead but for what sends overran (`ScheduledAhead`); every program ends, joined and with its cameras given back, or terminated (`ToolsProgress`) |
| `find_utc_triggers` | the bursts of `stereo` | section 6 |

**Bounds.** Two slots make the producer come back to a slot that is leased or read
after one frame; a scan of two slots passes over the newest, finds the other free,
read or leased, and parks. Three acquires over two slots reuse a slot and leave a time
stamp behind that a request may still match; the fourth lets a scan park on a lease of
an older frame, and with the streams makes the reuse of a reused slot wait for queued
work. Two consumers race each other for the counts of one slot; a third would repeat
what the second does, since consumers never read each other's state. One attempt shows
every path of a lease, and the second that a retry begins afresh. Four frames over two
ingress slots wrap the counters, and two camera frames may both use the same slot,
before and after a reconnection. Two failures are a failed reopening after a failed
session. The recordings of `replay` have a stream whose frames are stamped behind
another's, a file without index and out of order with a broken frame, and one whose
epoch another stream set; each is looped, filtered and cut, and a third tick makes a
pass begin late. In `recordings`, three pushes fill the deeper topic and drop on the
other, and a push that is encoding while close() begins, with messages queued behind it,
is reached with two threads; five frames have a gap when one is dropped, two in a row
too, and a second stream that starts first moves the epoch; nine lengths give each
alignment of what follows a name and one that outgrows its buffer's reserve. In
`gpu_results`, three output slots over two staging slots give the graphs more than one
round before they repeat, four uploads go round both, and one mishap is enough to make
the rings drift; two timing slots with three cycles reuse one (the code has eight, of
which nothing but the reuse matters); with two download slots three frames empty the
pool, reuse a slot and its event, and displace a frame from the mailbox; two starts show
what a stop leaves behind. In `app` three frames make the loop pass one over, and each
refused configuration differs from one that runs in one thing. In `bring_up` one fault a
document is enough because loaders stop at the first; two polls are one that waits and
one that gives up; a camera may be lost twice, or each of two once. Two frames and a
queue of one are a pair, a single, an overrun and an expired hold, according to who
comes first. A send of 6 ticks overruns its period of 4 by the whole lead, so that the
next command is late, and a start scheduled at one of two clocks against an offset of 1
gives the checker frames that pass and frames that fail. All of these (`MaxFrames`, `MaxAcquires`, `MaxAttempts`, `MaxHeld`,
`MaxOutstanding`, `StreamDepth`, `MaxFailures`, `MaxClock`, `MaxReads`, `MaxPushes`,
`MaxErrors`, `CutsPerRead`, `MaxStarts`, `MaxCycles`, `MaxFaults`, `MaxUploads`,
`MaxMishaps`, `MaxLost`, `MaxPairs`, `MaxCommands`, `Ticks`, `RetryAttempts`) appear only
as guards, except for those that are options of the programs, and the proofs hold for
every value of theirs.

Deadlock is not checked: each instance stops when its bound is used up, and the programs
end.

**Fairness.** Threads that have begun a call finish it (weak fairness of the thread's
steps), the GPU runs what can run, and a consumer drops what it leased, as every caller
in `src/` does once its work is queued. In `app` and `stereo` every thread of the
program, main included, runs whenever it can; in `recordings` the writers and the caller
of close do; in `bring_up` main and the trigger thread do. The scheduler resumes a parked
producer only when it gets to see the count moved: `StreamsAcquireReturns` does not claim
a return while somebody leases older frames by time stamp again and again. Nobody has to bring a frame,
ask for one, find a clock master, come back, close a window, interrupt, or fail. A push
that is encoding need never end. Spurious wake-ups and the fairness of the mutexes are
not needed.

## 4. Proofs

The theorems hold for every number of slots and consumers and every bound. Each follows
one pattern: an inductive invariant, a lemma that the initial states have it, one lemma
per action that it is kept, and one that it implies the property.

* **Device ring** (`DeviceRingProofs`). `HostInv` (types, `SlotsChosen`,
  `ScanSound`, `HoldsCounted`) is inductive whatever fails, and gives
  `TypeCorrect`, `ReadersCountHolds` and `NewestIsSpared`. Exclusion needs more:
  the parity of every seq (`OddIsFenced`) and that a consumer about to check has
  an even number not ahead of the slot's (`SeqsSound`). From these, when the check
  succeeds the slot is not fenced, so the producer has yet to bump and will then
  see the hold counted; `LeaseExcluded`, `ParityKept`, `RequestsHonoured` and the
  whole of `IInv` (`RingInvariantHolds`) follow, up to the first acquire that throws
  after its bump (`threw`; section 6 shows why). No theorem of the ring assumes that CUDA
  calls succeed or that nothing is abandoned. `LatestIsFresh` is the other half of the hand-off: a
  lease of the latest is never older than what its consumer knew to exist. Stamps only
  grow and the slot `latest_` names has one no smaller than the number of publishes
  (`StampsInOrder`), so what a consumer is after is not older than its call (`CallsFresh`);
  a slot abandoned while it is the newest has no stamp, and says so.
* **Streams** (`DeviceRingProofs`). `StreamsImplementRing`: each step of
  the ring with its GPU, abandoned writes and throwing acquires included, is a step or a stutter of the host protocol, so
  `StreamsExclude` comes for nothing. `ReadsStayIntact` needs what the events mean:
  `data_ready` of a slot fires on the frame its stamp is of, with no write to the slot
  behind it (`SlotsSettle`); `read_done` covers every read but those of a lease that lives
  (`ReadsCovered`); hence a read comes behind the write of its frame and before the next
  to its slot (`ReadsOrdered`); a write an abandoned lease left behind is in front of the
  next to its slot on the one stream there is, and nobody reads what has no stamp.
  `StreamsNeverStuck`: a write that waits for a read was
  enqueued after the write that read waits for (`NoCycle`), so the item enqueued first
  can always run.
* **Ingress ring** (`IngressProofs`, its first part). In Staged mode slots are taken by three
  counters, and everything rests on the fact that fewer than `SlotCount` numbers in a
  row have distinct remainders (`InARow`, proved from the division theorem).
  `StagedRingKeeps` is the invariant of it: the producer has the slot of its counter,
  the ready slots are the next ones behind the reader's, each pending copy finds its
  frame. `StagedUploadsIntact` and `StagedFramesInOrder` (all of `IngressInv`) follow.
  They assume `MaxOutstanding <= 1`: a producer that has one slot at a time, as every
  source in the tree does; section 6 has what happens otherwise. For External mode the
  module proves, source by source, what a step may do as long as nobody writes into a
  slot that is not at rest (`ExternalSound`).
* **Camera source** (`IngressProofs`). `SourceKeepsOff` proves `SourceInv`
  for every reconnect limit and however calls fail: the handles held cover whatever the
  ring has of a slot, so the camera is never armed with one in flight. The invariant
  adds that a source that ended was told to or has its reason. A drain that
  timed out is exempt, as in the property; `SourceUploadsIntact` says so in its statement.
* **Replay** (`IngressProofs`). `ReplayKeeps` proves `ReplayInv` and
  `ReplayUploadsIntact` the torn upload, over both sources and the ring's own producer;
  the invariant relates the ring's slots to the `held` set of the source, and the
  counters to the position in the script. What the constructor's filters leave is
  computed with `SelectSeq` and `SetToSortSeq`, which are recursive: `ScriptSound` (the
  streams are distinct, each has a message, none is excluded) is therefore a hypothesis
  about the initial state, and TLC checks it as a part of `ReplayInv`. `ReplayKeepsTime` is the action property `StampsKept`; its
  `TimesSound` says of a file that is in order what "in order" means, and is true of each
  file the run has.
* **Tap** (`HostFrameRingProofs`). The invariant `IInv` relates holds to the
  frames handed out and to the copy under way, the gauge to the busy slots, and
  says that a chosen slot is neither newest nor held. It gives `HeldFramesStable`,
  `InUseExact`, `NothingUnaccounted` and the refinement `RingKeepsPromise`.
  `SizingSuffices` proves the sizing rule of the header: with one frame held per
  consumer, two slots more than consumers never drop a frame.
* **MCAP recorder** (`RecordingsProofs`). `RecorderInv` counts each topic's buffers:
  spare, queued, in a pusher's hands, in the writer's hand, always depth + 1
  together (`BuffersNeverLost`). With one pusher a topic (`OnePusherPerTopic`, the
  contract of the header) a topic with room in its queue and nobody encoding has at
  most depth - 1 queued and one in the writer's hand, so one is spare:
  `NeverShortOfBuffers`. `DepthFitsBudget` is about `add_topic`'s arithmetic.
  `MessagesNeverLost`: the accepted messages are, in their order, those settled, the
  one in the writer's hand and those queued, and the i-th of the settled is in the file
  as many places earlier as writes failed before it.
* **Raw recorder** (`RecordingsProofs`). `RawRecordingKeeps` proves `RawRecordingInv`
  for any number of streams and staging buffers and any failures. Of its invariant
  `StreamSound`, `StagingSound` has the published buffers a piece of the ring from its
  head on, in the order of `rawAccepted`, with the reserved one right behind (so that
  the writer and the copy are apart, by the arithmetic of `BufferPlaces`);
  `FilesSound` has what the writer is through with in the index or lost, and what the
  index points to below `offset`, where nothing is written again; `ShutSound` has
  close() behind a writer that is through with what was accepted before. One without
  the other is not inductive: an index record is right only because the buffer it was
  written from still had the frame that was accepted.
  `RecordingsKeep` says all this of the specification the run checks.
* **Download stage** (`GpuResultsProofs`). `FramesIntact` needs to know what an
  event says: the invariant `CopiesLand` has it that event e fires with the last
  queued copy into its slot, that this copy takes the right result, and that
  nothing queued behind it touches the slot; that a copy takes the right result is
  `ResultsInOrder`, each copy right behind its inference on one stream. Slots and
  events with one use each (`OneUse`, `EventsAccounted`) keep all that from being
  disturbed. `NeverShortOfEvents` is a pigeonhole: distinct slots in flight and one
  reserved are no more than the pool has, and unless one was leaked every event that
  is not free is in flight. `FramesInOrder`: what is published, in flight and about to be
  enqueued is one ascending sequence, and refusals are counted.
* **Composition** (`GpuResultsProofs`). `PullImplementsDownload`: with a mailbox for
  its sink the stage does what a stage with sinks at large may do, so
  `PulledFramesIntact` follows with no new invariant. `NewestIsKept` (all of
  `PullInv`) adds that the mailbox's frame is the last one handed over.
* **Upload paths** (`GpuResultsProofs`). `UploadIInv` has three parts. `Handed`: a
  staging slot is the source's, or waits to be taken, or has its one release queued, and
  that is behind everything that reads it. `AllReady`: the calls of one frame reach the
  stream together, so what a slot is published with is read off the two or three calls
  before it as long as they are queued, and off the slot once they are done; to keep that
  when a call is done, the frame in the staging slot has to be the same still, which is
  `Handed`. `InStep`: slots are filled in turn and the output slots go round, so that the
  staging slot and the graph's agree as long as `out % Staging = 0`, by two lemmas about
  remainders of remainders (`Divides`, `OneRemainder`); an acquired slot without its
  frame is a failed frame.
* **Engines and their users** (`GpuResultsProofs`). The device's stream is read as a
  program: what a buffer holds when the k-th queued thing is done is what the last thing
  before it put there, or what is in it now if there is none (`Since`, and with it
  `InputsAre`, `OutputIs`, `DrawnIs`, `CopiedIs`). `WorkTrue` has every queued thing find
  what it is there for: a copy of a result its own, a frame that is shown its own picture
  and boxes. `NextTrue` says the same of what the thread is about to queue. The host only
  appends, so that what was true of the things before stays true (`ItemsGrow`), and the
  device takes the head, which moves what it did from the stream into the buffers.
  `PicturesKept`: no lease goes back before what reads its picture. For the timings
  `CyclesTrue` has the events of a recent cycle, and what was sampled in it, of that
  cycle's frame; older cycles have their slot used again. `SpreadGrows`: the cycle counted
  last is out of reach, or still the newest that is timed, so none is counted twice.
* **The three together** (`GpuResultsProofs`). `ResultsAreTrue` (`DeviceTrue`) and
  `ResultsArePulled` (`PullInv`, `FramesIntact`, `EventsSuffice`) are about the very
  specification the run checks.
* **Application** (`AcquireAppProofs`). `AppKeeps` (all of `AppInv`) holds for every
  configuration, rig and point of failure. Objects go in the reverse order of their
  construction, threads end in the order of `stop_helpers` or with their owner, and the
  two orders are not each other's reverse: `Built` says what there is at each place of
  main on the way up, `Passed` what is stopped and what is gone at each place of the way
  down, and `NobodyReaches` goes through the ten objects that are destroyed. Neither
  suffices for the relay, which no step of an unwinding waits for (`Wired`: what is
  registered is alive once all streams are added), nor for the loop's sleep (`Waiting`:
  a frame that is announced moves `wait_seq_` past what the loop has seen). `TailKept`
  (`TailRecorded`) adds when the recorder is open: from before the first frame until
  nothing feeds it (`Order`), which leaves a frame that an encoder took with the encoder
  or in the file (`Fed`).

* **Programs of a camera pair** (`StereoToolsProofs`). `FramesInFlight` (`LiveInv`, part of
  `ToolsInv`): the buffers that are not idle are the reader's and those queued, each once,
  and their frames ascend from the reader's hands on (`BuffersInLine`). `CommandsInTime`
  (`ScheduledAhead`): wherever the trigger thread is, the next target is at least `Lead`
  away less what the thread is behind, `behind' = max(0, behind + takes - Period)` with
  each send: the thread sleeps to a lead before the target, never longer, so that lateness
  is owed to sends longer than a period alone and is made up by the shorter ones after
  them. Nothing is assumed of the sends; when none outlasts its period, `behind` is 0. `TriggersOutlived` (`TriggersInside`, part of `ToolsInv`):
  the trigger thread is there only while main is in its loop or on its way out of it, and
  no source is torn down before main has stopped.

* **Pairing** (`PairingProofs`). `PairingStaysTrue` (all of `PairingTrue`) rests on what
  the offline merge computes, `OfflinePairs`: of streams whose frames are more than twice
  the tolerance apart it makes the pairs within the tolerance and no others. The merge is
  a recursive function over the pairs of indices; that such a function is equal to its
  closed form is shown from a least place where it is not, the order of the places being
  that of a number, so that no induction theorem is instantiated.
  *Device rings* (`RingTrue`): what a worker holds it found published, and a slot that is
  held is not written, so what a pair was made of is still there in the callback
  (`PairsStayIntact`); the references leased ascend and are one by one in a counter, in
  the worker's hand or lost to a throw (`ReferencesAddUp`). `TransformedOnce` needs stamps
  that ascend (`StampsAscend`): the stage knows a frame by its publish index, and the
  model tells by its stamp what it is through with.
  *Live readers* (`PairerTrue`): the frames of a stream go through its queue in their
  order (`StreamInOrder`), which takes `BuffersInLine` from the readers, because what is
  still to be pushed must be newer than everything pushed. `GivenUp` then has of a frame
  that came out alone, and not by its hold, that its partner is not queued and the stream
  it should come from is past it; so a partner that was pushed is among the dropped or
  the expired. The first half of this is what makes the second inductive.

Assumptions on constants are the ASSUMEs of the modules, and the runs evaluate
them. Only model-checked are:

* the liveness properties, because fairness and ENABLED are out of the prover's reach;
* what is computed by recursion over data: `ReadersTrue` (medians, gaps, the merge,
  the octets of a message), `BringUpInv`'s comparison of documents, the verdicts and
  `SelectSeq` in `ToolsInv`, and the filters of `ScriptSound`;
* `TriggersReach`, for which see the plan.

## 5. Plan

Done: every row of the inventory but the last, as `components` in `PROJECT.json` says,
and the proofs of section 4.

Left, in order:

1. `TriggersReach`, whose invariant goes over every phase of the program.
2. Violation runs for the differences of section 6 that have none.

**Not modelled.** Camera mathematics (`camera_model.hpp`, `rectification.cpp`) and CUDA
kernels are floating-point functions of their arguments; what networks compute is known
here only by its inputs. OpenGL drawing, what is printed, statistics of timing, the YAML
and MCAP libraries and the Spinnaker SDK appear as what the code in `src/` sees of them.
The smoke tests and scripts have no logic of their own.

Reductions that a reader should know of, beyond those of section 2:

* `AcquireApp`: the write policies of the rings are one; a frame in the loop is its
  number. `app_config` and the cameras come as given; `BringUp` has them.
* `Replay`: a failing release of a staging slot is `HostIngressRing`'s; playback speed
  is 1; how the bytes of a message become pixels is `CdrMessages`'.
* `SpinnakerSource`: the camera's settings are `BringUp`'s, and a camera's time is not kept.
* `EngineUsers`: explicit names of an engine's inputs, which no program sets, are left
  out; the reuse of `HeadlessYolo`'s output buffer has no reader in `src/`.
* `BringUp`: the epoch offset is taken once, as the code does at construction; what
  `stereo_view` triggers is `StereoView`'s.
* `CdrMessages`: stamps stay below 2^32 seconds, past which `stamp()` would wrap.

## 6. Where the code and its words differ

Shown by a run:

* `find_utc_triggers`. `ptp_trigger_test` takes the instants of its bursts from
  `host_now_ns()`, which is UTC, while the cameras compare them with their PTP time, which
  is TAI: every command is late by the 37 s `capture/include/frame_sink.hpp:38-41` warns of.

* `find_lost_wakeup`. `device_ring_buffer.cpp:204-205` says of the parked producer that
  "any release wakes us". The scan finds a slot leased (182), and the value to wait on is
  loaded after it (211): when the last hold goes in between, the wait is for zero to
  change, and the release that would have ended it is over. From then on neither the slot,
  free as it is, nor a release of another ends the park; only a lease of that slot does, and
  `lease_latest` gives none while another is the newest. `StreamsAcquireReturns` exempts
  exactly this state (`WakeLost`) and holds otherwise. Waiting on the value the scan saw
  would mend it.

Seen while modelling, and reproduced by changing the constants of a run or dropping an
exemption that is named in the property:

* A CUDA call that throws after the seq bump in `acquire_write_impl`
  (`device_ring_buffer.cpp:267-275`) leaves the slot odd for good; the next
  acquire makes it even while writing. `Exclusive`, which `LeaseExclusion` claims until
  an acquire has thrown, is violated by `ring_requests` with one consumer, no requests, no
  abandons, RoundRobin and `MaxAcquires = 5`. Hence `threw` in the properties and the theorems.
* An abandoned slot is "simply never the latest", says the design note; round robin may
  acquire the slot `latest_` names and abandon it, and `lease_latest` then returns a valid
  lease stamped `kNoTimestamp` over stale or half-written data. `NeverStale` and
  `ReadsIntact` exempt a lease that says so by its stamp.
* The thread of `--capture-hz` means to "schedule each trigger 100 ms ahead"
  (`stereo_view_main.cpp:515`), but a send waits for acknowledgements
  (`stereo_live.cpp:288-301`), and `ptp_trigger_test_main.cpp:383-386` measured ~126 ms for
  one that is missing. Sends longer than a period use up the lead, and then the targets are
  in the past; the thread never skips one. `ScheduledAhead` says that nothing else does
  this; without its `behind` the run `stereo` violates it.
* The report reads nodes of the cameras (`stereo_view_main.cpp:612`), and so may throw when
  one is lost. With `--capture-hz` main then unwinds past the joinable `trigger_thread`
  (501-529) and the process ends in `std::terminate`, cameras streaming; an exception of
  `SendActionCommand` in the thread's function (521) ends the same way. `ToolsProgress`
  admits this end (`Terminated`) and no other.
* The tap's sizing rule presumes that a consumer drops its frame before it takes
  the next. With `MaxHeld = 2`, one consumer and three slots, frames are dropped.
* `host_ingress_ring.cpp:90-92` says the test rejects a double commit. With two
  slots outstanding (`MaxOutstanding = 2` in `replay`) it does not. No source in the tree
  has two outstanding.
* A slot stranded by a failed record (`host_ingress_ring.cpp:201`) is counted as never
  released, yet the counters come round to it and its event is an old one: the producer
  refills it under the pending copy. `UploadIntact` exempts such slots.
* `drain_held` gives up after two seconds (`spinnaker_source.cpp:447`) and the next
  session arms buffers the pipeline is still reading, although the header says re-arming
  waits for the drain. `SourceInv` exempts a drain that timed out (`timedOut`).
* The main loop tests its condition before it reads `wait_seq` (`acquire_main.cpp:687`): a
  source that ends in between is noticed only if another frame comes. `LoopProgress` is
  stated with such a frame (`late`).
* An exception while streams are added destroys rings that are still in `g_rings`
  (`acquire_main.cpp:128-136,292,330-339`), which a signal's relay may wake meanwhile.
  `WakesLive` begins when the last stream has been added.
* `download_stage.cpp:77-81` calls running out of events unreachable, and
  `download_stage.hpp:101-103` says the pool "can never run short". An event is lost
  whenever `cudaMemcpyAsync` or `cudaEventRecord` throws (88-91), and whenever stop()
  clears a list that is not empty (64); after enough of either `enqueue` refuses frames at
  that branch and does not count them, although `download_stage.hpp:72-73` promises so.
  `EventsSuffice` and `RefusalsCounted` exempt leaked events.
* `take_spare`'s unreachable branch (`mcap_recorder.cpp:176`) is reached as soon as two
  threads push to one topic, which nothing enforces.
* After one exception between the pop of a staging slot and the acquire of a device slot
  (`upload_stage.cpp`, `process`) the two rings no longer move in step, and every later
  frame takes the fallback for ever: graphs are off and only a counter says so.

Seen in the source, and either kept in the model as it is or outside of it:

* *Pipeline.* `acquire_main.cpp:633-637,641-643` says that by the order of the shutdown
  "every frame already in flight still lands" and every frame that reached the tap is in
  the queue before the recorder closes. `DownloadStage::stop` drops what is in flight
  (`download_stage.cpp:59-64`), and a tap's `acquire_latest` returns null once stopped,
  also with a frame waiting (`host_frame_ring.cpp:142`).
* *Workers.* `RingPairConsumer`, `TransformStage` and `HeadlessYoloConsumer` clear
  `running_` when `cudaSetDevice` fails in their thread, and `stop()` then returns without
  a join. The skip count of `RingPairConsumer` is taken from a counter read after the lease
  and may count a frame that was not skipped; `PairingTrue` claims it only while they agree.
* *Viewers.* When its device or its window fails the window with boxes returns and says
  nothing, and the disparity window sets `closed` (`ess_viewer_consumer.cpp:64,91`) although
  "closed only ever means the window the user had open just went away"
  (`acquire_main.cpp:618-619`). The disparity window closes without waking the loop, which
  then ends at the next frame.
* *Recording.* `recording_writer.hpp:74-76` says the writer stops writing after an error;
  its thread looks at no error before it writes, so the frames behind a failed one are
  still written, and the failed ones are not counted. `--record` with
  `recording.enabled: false` skips the checks of `recording_config.cpp:63,87`; a topic
  listed twice then assigns a thread over a joinable one. The comment at
  `ros_messages.hpp` gives an IMU message 320 bytes of body; it has 296. `decode()`
  returns `ok()` without asking whether the message is exhausted.
* *Replay.* A message stamped before the pass's first is put at the first, although
  `mcap_player.hpp:98-100` says every interval is preserved (`StampsKept` compares the
  others). A source that has finished is not announced again after a restart.
* *Cameras.* A constructor of `SpinnakerSource` that throws leaves its camera initialised,
  one of `SpinnakerAcquireSource` or `LiveStereo` gives no SDK instance back. `LiveStereo`
  compares the serials of a document, not the cameras they select (`stereo_live.cpp:105-115`):
  a stream without a serial may share the other's camera; `OwnCameras` exempts it. A camera
  with an empty serial in its stream is not checked against the calibration's. Nodes a
  document does not list keep what the last program wrote.
* *Triggers.* An acknowledgement of a camera that is not in the rig counts, and may hide one
  that is missing; `TriggersReach` exempts it. SIGINT during the wait for PTP is noticed when
  that wait ends. `ptp_trigger_test --no-ack` reports every command as acknowledged, counts an interrupted
  burst that sent nothing as clean, and a late frame of one burst of a sweep hides a drop of
  the next.
