------------------------------ MODULE AppConfig ------------------------------
(***************************************************************************)
(* What the YAML loaders make of one document: app_config.cpp, which gives  *)
(* the application its AppConfig, and the loaders of the sections it shares *)
(* with the other programs (camera_config.cpp, stereo_config.cpp,           *)
(* recording_config.cpp, replay_config.cpp, stereo_calibration.cpp).        *)
(*                                                                         *)
(* A document is a function from its sections to functions from their keys  *)
(* to values.  A loader stops at the first fault it finds; here it returns  *)
(* all of them, and the document is refused when there is one.              *)
(***************************************************************************)
EXTENDS Integers, Sequences, FiniteSets

CONSTANT Bad    \* a value of the wrong type, or a word the key does not know

Section(doc, name) == IF name \in DOMAIN doc THEN doc[name] ELSE <<>>

\* read(): an absent key leaves the default, an unreadable one names itself.
Value(section, key, default) == IF key \in DOMAIN section THEN section[key] ELSE default
Unreadable(section) == {key \in DOMAIN section : section[key] = Bad}

\* The names of the checks of a record that fail.
Failing(checks) == {name \in DOMAIN checks : checks[name]}

\* The checks are only reached by a section that could be read.
Checked(section, faults) == IF Unreadable(section) = {} THEN faults ELSE Unreadable(section)

Named(topic) == topic # <<>>                  \* starts with '/'
Twice(topics) == Cardinality({topics[i] : i \in DOMAIN topics}) < Len(topics)
Misnamed(topics) == \E i \in DOMAIN topics : ~Named(topics[i])

-----------------------------------------------------------------------------
(* The camera and its synchronisation. *)

\* Each entry is a single 'Node: value' pair with a scalar value.
FeatureFaults(section, key) ==
  IF \E i \in DOMAIN Value(section, key, <<>>) : section[key][i] = Bad THEN {key} ELSE {}

CameraFaults(doc) ==
  LET c == Section(doc, "camera") IN
  Checked(c, FeatureFaults(c, "features") \cup FeatureFaults(c, "stream_features"))

Camera(doc) ==
  LET c == Section(doc, "camera") IN
  [serial |-> Value(c, "serial", ""), features |-> Value(c, "features", <<>>),
   streamFeatures |-> Value(c, "stream_features", <<>>)]

\* Presence is the switch; the rate of the triggers falls back on that of the frames.
\* Rates are in tenths of a hertz.
ActionSync(doc) ==
  LET a == Section(doc, "action_sync")
      hz == Value(a, "trigger_hz", 0) IN
  [enabled |-> "action_sync" \in DOMAIN doc /\ Value(a, "enabled", TRUE),
   keys |-> <<Value(a, "device_key", 1), Value(a, "group_key", 1), Value(a, "group_mask", 1)>>,
   perFrame |-> Value(a, "per_frame", FALSE),
   hz |-> IF hz <= 0 THEN Value(a, "expected_hz", 75) ELSE hz]

-----------------------------------------------------------------------------
(* Recording and replay. *)

\* The section is only checked when the document turns recording on.
RecordingFaults(doc) ==
  LET r == Section(doc, "recording")
      topics == Value(r, "topics", <<>>) IN
  Checked(r, IF ~Value(r, "enabled", FALSE) THEN {} ELSE Failing(
    [root |-> Value(r, "root", "recordings") = "",
     buffer_seconds |-> Value(r, "buffer_seconds", 2) \notin 1 .. 30,
     topic_memory_mb |-> Value(r, "topic_memory_mb", 16) = 0,
     chunk_mb |-> Value(r, "chunk_mb", 4) = 0,
     flush_seconds |-> Value(r, "flush_seconds", 2) < 0,
     topics |-> topics = <<>> \/ Misnamed(topics) \/ Twice(topics)]))

Recording(doc) ==
  LET r == Section(doc, "recording") IN
  [enabled |-> Value(r, "enabled", FALSE), topics |-> Value(r, "topics", <<>>),
   chunk |-> Value(r, "chunk_mb", 4)]

TopicFaults(section, key) ==
  LET topics == Value(section, key, <<>>) IN
  IF Misnamed(topics) \/ Twice(topics) THEN {key} ELSE {}

\* Read and checked in every build, the one with cameras included.
ReplayFaults(doc) ==
  LET s == Section(doc, "source") IN
  Checked(s, TopicFaults(s, "image_topics") \cup TopicFaults(s, "topics")
             \cup TopicFaults(s, "exclude") \cup Failing(
    [role |-> "role" \in DOMAIN s, topic |-> "topic" \in DOMAIN s,
     speed |-> Value(s, "speed", 1) <= 0,
     start_seconds |-> Value(s, "start_seconds", 0) < 0,
     duration_seconds |-> Value(s, "duration_seconds", 0) < 0]))

-----------------------------------------------------------------------------
(* Streams and the calibration of the pair. *)

Cam == <<"cam0", "cam1">>

\* No section means one stream with the camera's serial; a stream without a role is
\* named after its place.
Streams(doc) ==
  IF "streams" \notin DOMAIN doc THEN <<[role |-> Cam[1], serial |-> Camera(doc).serial]>>
  ELSE [i \in DOMAIN doc["streams"] |->
          [role |-> LET r == Value(doc["streams"][i], "role", "")
                    IN IF r = "" THEN Cam[i] ELSE r,
           serial |-> Value(doc["streams"][i], "serial", "")]]

StreamFaults(doc) ==
  IF "streams" \notin DOMAIN doc THEN {}
  ELSE IF doc["streams"] = Bad THEN {"streams"}
  ELSE IF Len(doc["streams"]) \notin 1 .. 2 THEN {"streams"}
  ELSE UNION {Unreadable(doc["streams"][i]) : i \in DOMAIN doc["streams"]}

\* stereo_view reads the same section as exactly two streams, with roles of its own.
PairFaults(doc) ==
  IF "streams" \notin DOMAIN doc THEN {}
  ELSE IF doc["streams"] = Bad THEN {"streams"}
  ELSE IF Len(doc["streams"]) \notin {0, 2} THEN {"streams"}
  ELSE UNION {Unreadable(doc["streams"][i]) : i \in DOMAIN doc["streams"]}

Eye == <<"left", "right">>
PairStreams(doc) ==
  IF "streams" \notin DOMAIN doc \/ doc["streams"] = <<>>
  THEN [i \in 1 .. 2 |-> [role |-> Eye[i], serial |-> ""]]
  ELSE [i \in 1 .. 2 |->
          [role |-> LET r == Value(doc["streams"][i], "role", "")
                    IN IF r = "" THEN Eye[i] ELSE r,
           serial |-> Value(doc["streams"][i], "serial", "")]]

StereoViewFaults(doc) ==
  IF doc = Bad THEN {"document"}
  ELSE Unreadable(Section(doc, "stereo")) \cup PairFaults(doc) \cup CameraFaults(doc)
       \cup Unreadable(Section(doc, "action_sync"))

\* A calibration: whose eyes, at what size, and whether the matrices are those of one
\* stereoRectify run (validate, validate_against).
TwoEyes(cal) == Len(cal.eyes) = 2
SameRole(cal) == cal.eyes[1].role = cal.eyes[2].role
ForeignModel(cal) == \E s \in 1 .. 2 : cal.eyes[s].model # "plumb_bob"
Sizeless(cal) == cal.size = 0
OneRun(cal) == cal.fits

CalibrationFaults(cal) ==
  IF cal = Bad THEN {"calibration"}
  ELSE IF ~TwoEyes(cal) THEN {"cameras"}
  ELSE Failing([image_size |-> Sizeless(cal), cameras |-> SameRole(cal),
                distortion |-> ForeignModel(cal), rectification |-> ~OneRun(cal)])

\* The calibration would be applied to the wrong eye, or to another camera.
WrongEye(cal, streams) ==
  \E s \in 1 .. 2 :
     \/ cal.eyes[s].role # streams[s].role
     \/ /\ cal.eyes[s].serial # "" /\ streams[s].serial # ""
        /\ cal.eyes[s].serial # streams[s].serial

StereoOf(doc) == Section(doc, "stereo")
StereoEnabled(doc) == Value(StereoOf(doc), "enabled", FALSE)
Calibrated(doc) == StereoEnabled(doc) /\ Value(StereoOf(doc), "calibration", <<>>) # <<>>
MaxConsumers(doc) == Value(Section(doc, "pipeline"), "max_consumers", 1)

StereoFaults(doc) ==
  LET s == StereoOf(doc) IN
  Checked(s, IF ~StereoEnabled(doc) THEN {} ELSE
    LET first == Failing(
          [enabled |-> Len(Streams(doc)) # 2,
           reference |-> ~Named(Value(s, "reference", <<"left", "image_color">>)),
           max_consumers |-> MaxConsumers(doc) < 3])
    IN IF first # {} \/ ~Calibrated(doc) THEN first
       ELSE IF CalibrationFaults(s["calibration"]) # {} THEN CalibrationFaults(s["calibration"])
       ELSE IF WrongEye(s["calibration"], Streams(doc)) THEN {"calibration"} ELSE {})

-----------------------------------------------------------------------------
(* The document as a whole. *)

EssEnabled(doc) == Value(Section(doc, "ess"), "enabled", FALSE)
ViewerMode(doc) == Value(doc, "viewer", "camera")

EssFaults(doc) ==
  LET e == Section(doc, "ess") IN
  Checked(e, IF ~EssEnabled(doc) THEN {} ELSE Failing(
    [enabled |-> ~StereoEnabled(doc) \/ ~Calibrated(doc),
     engine_path |-> Value(e, "engine_path", "") = "",
     plugin_path |-> Value(e, "plugin_path", "") = "",
     readback_slots |-> Value(e, "readback_slots", 4) = 0,
     display_max_disparity |->
       Value(e, "display_max_disparity", 64) <= Value(e, "display_min_disparity", 0)]))

Plain == {"pipeline", "upload", "display", "yolo", "action_sync"}

\* load_app_config, and whether the document could be loaded at all.
Faults(doc) ==
  IF doc = Bad THEN {"document"}
  ELSE LET sections == UNION {Unreadable(Section(doc, s)) : s \in Plain}
                       \cup CameraFaults(doc) \cup RecordingFaults(doc) \cup ReplayFaults(doc)
                       \cup StreamFaults(doc) \cup Unreadable(StereoOf(doc))
                       \cup Unreadable(Section(doc, "ess"))
                       \cup (IF ViewerMode(doc) = Bad THEN {"viewer"} ELSE {})
       IN IF sections # {} THEN sections
          ELSE StereoFaults(doc) \cup EssFaults(doc)
               \cup (IF ViewerMode(doc) = "ess" /\ ~EssEnabled(doc) THEN {"viewer"} ELSE {})

\* AppConfig, as much of it as the application's start looks at.
Loaded(doc) ==
  [camera |-> Camera(doc), streams |-> Streams(doc), action |-> ActionSync(doc),
   depth |-> Value(Section(doc, "pipeline"), "ingress_depth", 8),
   maxConsumers |-> MaxConsumers(doc), viewer |-> ViewerMode(doc),
   stereo |-> StereoEnabled(doc), ess |-> EssEnabled(doc),
   slots |-> Value(Section(doc, "ess"), "readback_slots", 4),
   calibration |-> IF Calibrated(doc) THEN StereoOf(doc)["calibration"] ELSE <<>>,
   recording |-> Recording(doc)]
=============================================================================
