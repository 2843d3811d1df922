---------------------------- MODULE MCEdgeConfig ----------------------------
(* Instances of EdgeConfig for TLC: configurations that differ from a sound *)
(* one in their budgets, their recordings, their cameras or their pipelines. *)
EXTENDS EdgeConfig, TLC

MCPadded == (" a" :> "a") @@ (" /s1" :> "/s1") @@ (" " :> "")
MCStableNames == {"a", "b"}
MCPaths == {"/s1", "/s2", "/media"}
MCAddress == ("127.0.0.1" :> 1) @@ ("::ffff:127.0.0.1" :> 1) @@ ("::1" :> 2)
MCDeviceFiles == {"/dev/video0", "/dev/video1"}

Sink == <<Text("host="), Placeholder("rtpHost")>>
Branch == <<Text("location="), Placeholder("snapshotDir"), SnapshotFile>>
Opens == <<Text("device="), Placeholder("device")>>

Commands == {<<>>, <<Sink>>, <<Opens, Sink>>, <<Sink, Branch>>, <<Opens, Branch>>, <<Sink, <<>>>>,
             <<Sink, <<Stray>>>>, <<Sink, <<Placeholder("snapshotDir")>>>>}
Declared == {<<>>,
  "device" :> [pattern |-> MCDeviceFiles, default |-> NoValue],
  "device" :> [pattern |-> MCDeviceFiles, default |-> "/dev/video0"],
  "device" :> [pattern |-> MCDeviceFiles, default |-> "sda"],
  "width" :> [pattern |-> {"1"}, default |-> "1"]}
Producers == {NoVector, <<>>, <<<<Text("pipe")>>>>}

Documents == [input : {Device, Stdin, "file"}, snapshot : BOOLEAN, parameters : Declared,
              command : Commands, producer : Producers \cup {<<Branch>>}]

Template(d, p) == [template |-> d, producer |-> p.producer, parameters |-> p.parameters]

Metadata(w, h, f) == [width |-> w, height |-> h, fps |-> f, frameId |-> "frame"]
Picture == Metadata(640, 480, 30 * MicroHz)

Camera(id, host, port, socket) ==
  [id |-> id, kind |-> "", listener |-> [host |-> host, port |-> port], socket |-> socket,
   instance |-> "", metadata |-> NoMetadata, pipeline |-> NoPipeline]

Pipeline(id, port, metadata, pipeline) ==
  [Camera(id, "127.0.0.1", port, "") EXCEPT !.kind = "pipeline", !.metadata = metadata,
                                           !.pipeline = pipeline]

Cameras ==
  {Camera(id, host, port, socket) :
     id \in {"a", " a", "b", "?"}, host \in DOMAIN MCAddress \cup {"localhost", "0.0.0.0"},
     port \in {0, 5004, 5006}, socket \in {"/s1", " /s1", "/s2", "rel"}}

Others == {Camera("b", "127.0.0.1", 5004, "/s2"), Camera("a", "localhost", 5006, "/s1"),
           Camera("b", "::1", 5006, "/s1")}

Shapes == {Metadata(w, h, f) : w \in {15, 640, 6689}, h \in {0, 16, 6689},
             f \in {0, MicroHz, MicroHz + 1, 240 * MicroHz, 241 * MicroHz}}

Fillings == [producer : Producers,
             parameters : {<<>>, "device" :> "/dev/video1", "device" :> "sda", "gain" :> "1"}]

Plain == [producer |-> NoVector, parameters |-> <<>>]

\* A document that is refused is tried with one source.
Options ==
  {Template(d, Plain) : d \in Documents \cup {NoDocument}}
  \cup {Template(d, p) : d \in {e \in Documents : ParsePipelineTemplate(e)}, p \in Fillings}

SourceLists ==
  {<<>>} \cup {<<s>> : s \in Cameras} \cup {<<s, t>> : s \in Cameras, t \in Others}
  \cup {<<[Camera("a", "localhost", 5004, "/s1") EXCEPT !.metadata = m]>> : m \in Shapes}
  \cup {<<[s EXCEPT !.kind = "file"]>> : s \in Others}
  \cup {<<Pipeline("a", 5004, Picture, p)>> : p \in Options}

\* Lists around one pipeline that is known to be sound.
SoundOption ==
  Template([input |-> Device, snapshot |-> FALSE, command |-> <<Opens, Sink>>, producer |-> NoVector,
            parameters |-> "device" :> [pattern |-> MCDeviceFiles, default |-> NoValue]],
           [Plain EXCEPT !.parameters = "device" :> "/dev/video1"])

SoundLists ==
  {<<Pipeline("a", 5004, m, SoundOption)>> : m \in Shapes}
  \cup {<<Pipeline("a", 5004, Picture, SoundOption), Pipeline("b", port, Picture, SoundOption)>> :
          port \in {5004, 5006}}
  \cup {<<Pipeline("a", 5004, Picture, SoundOption), t>> : t \in Others}

Base == [maxSessions |-> 0, maxOperations |-> 0, maxCaptureBytes |-> 0, maxRetainedBytes |-> 0,
         recording |-> NoRecording, origins |-> {}, sources |-> <<Camera("a", "::1", 5004, "/s1")>>]

Budgets ==
  {[Base EXCEPT !.maxSessions = m, !.maxOperations = o, !.maxCaptureBytes = c, !.maxRetainedBytes = r] :
     m \in {0, 1024, 1025}, o \in {0, 128, 129},
     c \in {0, KiB - 1, KiB, 160 * MiB, 160 * MiB + 1}, r \in {0, KiB, 160 * MiB, 1024 * MiB + 1}}

Record(root, kilobits, duration, free, factor) ==
  [root |-> root, kilobits |-> kilobits, segment |-> 0, duration |-> duration, finalize |-> 0,
   minimumFree |-> free, factor |-> factor]

Recordings ==
  {[Base EXCEPT !.recording = Record(root, k, d, free, f), !.sources = Append(@, Camera("b", "127.0.0.1", 5004, "/s2"))] :
     root \in {"", " ", "/media", "rel"}, k \in {0, 1, 10000001}, d \in {0, 2, 604801},
     free \in {0, 1, 200, 400}, f \in {0, 100, 1001}}

Origins ==
  {[Base EXCEPT !.origins = {o}] :
     o \in [scheme : {"http", "https", "ws"}, host : {"", "h"}, port : {0, 80, 443, 65536},
            more : BOOLEAN]}

MCInputs == Budgets \cup Recordings \cup Origins
            \cup {[Base EXCEPT !.sources = s] : s \in SourceLists \cup SoundLists}

MCDisks == [blocks : {0, 1, 126, 251, 326, 500}, size : {1, 2, 3}]
=============================================================================
