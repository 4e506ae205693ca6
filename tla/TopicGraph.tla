------------------------------ MODULE TopicGraph ------------------------------
(***************************************************************************)
(* app/src/topic_graph.cpp: every buffer of a run under its name.  A name   *)
(* has one producer; what is behind it (a host tap, a device ring, a plane  *)
(* read back from the device) is built when it is first asked for.          *)
(***************************************************************************)
EXTENDS Naturals, FiniteSets

CONSTANT NoStream    \* kNoStream

Kinds == {"tap", "ring", "plane"}

VARIABLES
  graph,    \* topics_: a function from the declared names to what they are
  built     \* the names resolved so far: Entry::tap, ring and plane

graphVars == <<graph, built>>

GraphInit == graph = <<>> /\ built = {}

Known(name) == name \in DOMAIN graph

\* declare: entries are added one by one, and the second of a name throws.
Entry(kind, stream) == [kind |-> kind, stream |-> stream]
Declared(g, name, entry) == [n \in DOMAIN g \cup {name} |-> IF n = name THEN entry ELSE g[n]]

Device(name) == graph[name].kind = "ring"
StreamOf(name) == graph[name].stream

\* host_tap, device_ring, download: of a declared name, and of the right kind.
Resolves(name, kind) == Known(name) /\ graph[name].kind = kind
=============================================================================
