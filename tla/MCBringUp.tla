------------------------------ MODULE MCBringUp ------------------------------
(* BringUp for TLC: what a document can say that its loaders or the rig refuse, and each *)
(* way of triggering on rigs of one, two and three cameras.                              *)
EXTENDS BringUp

Held(width, handling) ==
  [Width |-> width, Height |-> 2, PixelFormat |-> "BayerRG8",
   StreamBufferHandlingMode |-> handling, StreamBufferCountMode |-> "Auto",
   ActionDeviceKey |-> 0, ActionGroupKey |-> 0, ActionGroupMask |-> 0,
   AcquisitionFrameRateEnable |-> "true", TriggerSelector |-> "AcquisitionStart",
   TriggerMode |-> [s \in Selectors |-> "Off"], TriggerSource |-> [s \in Selectors |-> "Line0"]]

Node == [Width |-> {4, 5}, Height |-> {2}, PixelFormat |-> {"BayerRG8", "Mono16"},
  StreamBufferHandlingMode |-> {"OldestFirst", "NewestOnly"}, StreamBufferCountMode |-> {"Manual"},
  ActionDeviceKey |-> 0 .. 3, ActionGroupKey |-> 0 .. 3, ActionGroupMask |-> 0 .. 3,
  AcquisitionFrameRateEnable |-> {"true", "false"}, TriggerSelector |-> Selectors,
  TriggerMode |-> {"On", "Off"}, TriggerSource |-> {"Line0", "Action0"}]

A == [serial |-> "a", accepts |-> Node, deaf |-> {}, keys |-> "readable", padding |-> 0,
      left |-> Held(4, "OldestFirst"), powerOn |-> Held(5, "OldestFirst"), ptp |-> "Listening"]
B == [A EXCEPT !.serial = "b"]
C == [A EXCEPT !.serial = "c", !.left = [@ EXCEPT !.ActionDeviceKey = 1, !.ActionGroupKey = 1,
                                                   !.ActionGroupMask = 1]]
Without(camera, node) ==
  [camera EXCEPT !.accepts = [n \in DOMAIN Node \ {node} |-> Node[n]]]

Width == <<"Width", 4>>
Newest == <<"StreamBufferHandlingMode", "NewestOnly">>
Off == <<"TriggerMode", "Off">>
Settings == [features |-> <<Off, Width>>, stream_features |-> <<Newest>>]

Topic == <<"left", "image_raw">>
Both == <<[role |-> "left", serial |-> "a"], [role |-> "right", serial |-> "b"]>>
Eyes == <<[role |-> "left", serial |-> "a", model |-> "plumb_bob"],
          [role |-> "right", serial |-> "", model |-> "plumb_bob"]>>
Cal == [eyes |-> Eyes, size |-> 4, fits |-> TRUE]

Mono == [camera |-> Settings, pipeline |-> [max_consumers |-> 2]]
Set(doc, section, value) ==
  [s \in DOMAIN doc \cup {section} |-> IF s = section THEN value ELSE doc[s]]
Pair == Set(Set(Mono, "streams", Both), "pipeline", [max_consumers |-> 3])
Stereo(cal) == Set(Pair, "stereo", [enabled |-> TRUE, calibration |-> cal])
Ess == [enabled |-> TRUE, engine_path |-> "e", plugin_path |-> "p"]
Full == Set(Stereo(Cal), "ess", Ess)
PerFrame == [per_frame |-> TRUE]

Run(argv, doc, rig) ==
  [program |-> "acquire", argv |-> argv, doc |-> doc, rig |-> rig, tai |-> 1]
With(doc) == Run(<<"a.yaml">>, doc, <<A, B>>)
Few(key, value) == [k \in {key} |-> value]

Recorded(section) == With(Set(Mono, "recording", section))
On(topics) == [enabled |-> TRUE, topics |-> topics]

Documents == {
  With(Bad), With(Mono), With(Pair), With(Full), With(Stereo(<<>>)), With(Stereo(Bad)),
  With(Set(Mono, "streams", Bad)), With(Set(Mono, "streams", <<>>)),
  With(Set(Mono, "streams", <<[role |-> "l"], [role |-> "r"]>>)),
  With(Set(Mono, "streams", <<[serial |-> "b"]>>)),
  With(Set(Mono, "streams", <<[serial |-> "z"]>>)),
  With(Set(Mono, "viewer", "ess")), With(Set(Mono, "viewer", Bad)), With(Set(Full, "viewer", "ess")),
  With(Set(Mono, "pipeline", [max_consumers |-> 1])),
  With(Set(Stereo(Cal), "pipeline", [max_consumers |-> 2])),
  With(Set(Mono, "pipeline", [max_consumers |-> 2, ingress_depth |-> 2])),
  With(Set(Mono, "stereo", [enabled |-> TRUE])),
  With(Set(Pair, "stereo", [enabled |-> TRUE, reference |-> <<>>])),
  With(Stereo([Cal EXCEPT !.size = 5])), With(Stereo([Cal EXCEPT !.size = 0])),
  With(Stereo([Cal EXCEPT !.fits = FALSE])), With(Stereo([Cal EXCEPT !.eyes = <<@[1]>>])),
  With(Stereo([Cal EXCEPT !.eyes = <<@[2], @[1]>>])),
  With(Stereo([Cal EXCEPT !.eyes = <<@[1], [@[2] EXCEPT !.role = "left"]>>])),
  With(Stereo([Cal EXCEPT !.eyes = <<@[1], [@[2] EXCEPT !.serial = "z"]>>])),
  With(Stereo([Cal EXCEPT !.eyes = <<@[1], [@[2] EXCEPT !.model = "fisheye"]>>])),
  With(Set(Mono, "ess", Ess)), With(Set(Stereo(<<>>), "ess", Ess)),
  With(Set(Full, "ess", [Ess EXCEPT !.engine_path = ""])),
  With(Set(Full, "ess", Few("enabled", TRUE))), With(Set(Full, "ess", Few("enabled", Bad))),
  Recorded(On(<<Topic>>)), Recorded(On(<<>>)), Recorded(On(<<Topic, Topic>>)),
  Recorded(On(<<<<>>>>)), Recorded([enabled |-> TRUE, topics |-> <<Topic>>, chunk_mb |-> 0]),
  Recorded([enabled |-> TRUE, topics |-> <<Topic>>, buffer_seconds |-> 31]),
  Recorded(Few("topics", Bad)),
  [Recorded(Few("topics", <<Topic>>)) EXCEPT !.argv = <<"--record">>],
  [Recorded(Few("chunk_mb", 0)) EXCEPT !.argv = <<"--record">>],
  With(Set(Mono, "source", Few("role", "left"))), With(Set(Mono, "source", Few("speed", 0))),
  With(Set(Mono, "source", Few("topics", <<Topic, Topic>>))),
  With(Set(Mono, "camera", [serial |-> Bad])),
  With(Set(Mono, "camera", [features |-> <<Width, Bad>>])),
  With(Set(Mono, "camera", [features |-> <<Width, <<"Width", 9>>>>])),
  With(Set(Mono, "camera", [features |-> <<<<"PixelFormat", "Mono16">>>>]))}

Lines == {Run(argv, Mono, <<A>>) : argv \in
  {<<>>, <<"--help">>, <<"-x">>, <<"a.yaml", "b.yaml">>, <<"--record", "--help">>}}

Single == [program |-> "spin_acquire", argv |-> <<"a.yaml">>, doc |-> Mono, rig |-> <<A>>,
          tai |-> 0]
Spins == {Single, [Single EXCEPT !.doc = Bad], [Single EXCEPT !.rig = <<>>],
  [Single EXCEPT !.argv = <<"--record">>], [Single EXCEPT !.doc = Set(Mono, "standalone",
     [buffer_count |-> 2])],
  [Single EXCEPT !.doc = Set(Mono, "camera", [features |-> <<Width, Bad>>])],
  [Single EXCEPT !.rig = <<Without(A, "Width")>>]}

Pairs(features, rig) ==
  [program |-> "stereo_view", argv |-> <<>>, rig |-> rig, tai |-> 0,
   doc |-> [camera |-> [features |-> features, stream_features |-> <<Newest>>],
            streams |-> Both]]
TwoUp == Pairs(<<Width>>, <<A, B>>)
Views == {TwoUp, Pairs(<<Width>>, <<A>>), Pairs(<<<<"PixelFormat", "Mono16">>>>, <<A, B>>),
  Pairs(<<Width>>, <<A, [B EXCEPT !.padding = 3]>>), Pairs(<<Width>>, <<A, Without(B, "Width")>>),
  Pairs(<<Width>>, <<A, [B EXCEPT !.deaf = {"Width"}, !.left = [@ EXCEPT !.Width = 5]]>>),
  [TwoUp EXCEPT !.doc = Bad], [TwoUp EXCEPT !.doc = Mono], [TwoUp EXCEPT !.argv = <<"--help">>],
  [TwoUp EXCEPT !.doc = Set(@, "stereo", Few("buffer_count", 2))],
  [TwoUp EXCEPT !.doc = Set(@, "stereo", Few("buffer_count", Bad))],
  [TwoUp EXCEPT !.doc = Set(@, "streams", <<>>)], [TwoUp EXCEPT !.doc = Set(@, "streams", Bad)],
  [TwoUp EXCEPT !.doc = Set(@, "streams", <<[role |-> "l"]>>)],
  [TwoUp EXCEPT !.doc = Set(@, "streams", <<[role |-> "l"], [serial |-> "a"]>>)],
  [TwoUp EXCEPT !.doc = Set(@, "streams", <<[role |-> "l"], [serial |-> "z"]>>)]}

Rigs == {<<A, B>>, <<A, Without(B, "ActionGroupMask")>>, <<A, [B EXCEPT !.padding = 3]>>,
  <<A, [B EXCEPT !.deaf = {"ActionDeviceKey"}]>>, <<A, [B EXCEPT !.keys = "writeonly"]>>,
  <<A, [B EXCEPT !.ptp = ""]>>, <<A, [B EXCEPT !.keys = "absent"]>>, <<A, B, C>>, <<A>>,
  <<A, [B EXCEPT !.deaf = {"Width"}, !.left = [@ EXCEPT !.Width = 5]]>>,
  <<A, [B EXCEPT !.deaf = {"Width"}]>>}
Synced == {[With(Set(Pair, "action_sync", a)) EXCEPT !.rig = r] :
             a \in {PerFrame, Few("per_frame", FALSE)}, r \in Rigs}
          \cup {With(Set(Pair, "action_sync", a)) :
                  a \in {[per_frame |-> TRUE, group_mask |-> 0],
                         [per_frame |-> TRUE, group_mask |-> 2],
                         [per_frame |-> TRUE, expected_hz |-> 0],
                         [per_frame |-> TRUE, enabled |-> FALSE]}}

MCCases == Documents \cup Lines \cup Spins \cup Views \cup Synced
=============================================================================
