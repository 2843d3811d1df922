------------------------------ MODULE EdgeConfig ------------------------------
(***************************************************************************)
(* From the configuration of the edge to its started sources               *)
(* (internal/mediaedge/config.go, the description of sources in            *)
(* source_control.go, Render in internal/mediamtx/config.go, and the       *)
(* beginning of NewMediaMTX and Start).  A configuration is normalized or  *)
(* refused, rendered for MediaMTX or refused, and every pipeline describes *)
(* itself, which Start accepts or refuses.                                 *)
(*                                                                         *)
(* Texts are members of small sets.  What the code knows of their spelling *)
(* is given by the constants.  The edge's own addresses, public IPs, ICE   *)
(* servers, time limits and the sizes of HTTP messages are left out.       *)
(***************************************************************************)
EXTENDS PipelineTemplate, RecordingCapacity

CONSTANTS
  Padded,       \* texts with spaces around them, and what TrimSpace leaves
  StableNames,  \* what stableSourceID, and MediaMTX's pathName, match
  Paths,        \* canonical absolute paths, short enough for a socket
  Address,      \* the loopback address that a host's text parses to
  DeviceFiles,  \* texts that begin with /dev/
  Inputs,       \* the configurations that are tried
  Disks,        \* free blocks and block size of a filesystem
  Lengths       \* bound: seconds asked of a recording

NoPipeline == [template |-> "none"]      \* a Pipeline that is nil
NoDocument == [input |-> "none"]         \* a template that PipelineTemplatesDir does not hold

Texts == STRING

RecordingSettings ==
  [root : Texts, kilobits : Nat, segment : Int, duration : Int, finalize : Int,
   minimumFree : Nat, factor : Int]

Origin == [scheme : Texts, host : Texts, port : Int, more : BOOLEAN]

\* A source without its pipeline, and a configuration without its sources.
SourceTyped(s) ==
  s \in [id : Texts, kind : Texts, listener : [host : Texts, port : Int], socket : Texts,
         instance : Texts, metadata : [width : Int, height : Int, fps : Int, frameId : Texts],
         pipeline : {s.pipeline}]

ConfigTyped(c) ==
  c \in [maxSessions : Int, maxOperations : Int, maxCaptureBytes : Int, maxRetainedBytes : Int,
         recording : RecordingSettings, origins : SUBSET Origin, sources : {c.sources}]

\* The arguments of a command as they are written.
Arguments == Seq(Seq([placeholder : BOOLEAN, is : Texts]))

PipelineTyped(p) ==
  p # NoPipeline =>
    /\ p.producer \in Arguments
    /\ p.template # NoDocument => {p.template.command, p.template.producer} \subseteq Arguments

\* TrimSpace leaves no spaces, and nothing around what has none.
ASSUME TextAssumption ==
  /\ {"", "camera-source"} \subseteq Texts
  /\ \A t \in DOMAIN Padded : Padded[t] \in Texts /\ Padded[t] \notin DOMAIN Padded
  /\ {"", "camera-source"} \cap DOMAIN Padded = {}

\* What the decoder of the document makes of it, whatever it says.
ASSUME InputsAssumption ==
  \A c \in Inputs :
    /\ ConfigTyped(c)
    /\ Len(c.sources) \in Nat /\ DOMAIN c.sources = 1..Len(c.sources)
    /\ \A i \in DOMAIN c.sources : SourceTyped(c.sources[i]) /\ PipelineTyped(c.sources[i].pipeline)

\* statfs counts in words, and the length of a recording is not negative.
ASSUME RecordingAssumption ==
  /\ Disks \subseteq [blocks : Word, size : Word]
  /\ Lengths \subseteq Nat

VARIABLES
  config,   \* the configuration as it was given, then as it is normalized
  stage,    \* how far the edge has come
  disk,     \* external: the filesystem of the recordings
  admitted  \* the sizes of the recordings that were admitted to it

vars == <<config, stage, disk, admitted>>

KiB == 1024
MiB == 1048576
MaxRGB == 128 * MiB
Port == 1..65535
MicroHz == 1000000      \* frame rates are counted in millionths

NoMetadata == [width |-> 0, height |-> 0, fps |-> 0, frameId |-> ""]
NoRecording == [root |-> "", kilobits |-> 0, segment |-> 0, duration |-> 0, finalize |-> 0,
                minimumFree |-> 0, factor |-> 0]

TrimSpace(t) == IF t \in DOMAIN Padded THEN Padded[t] ELSE t
Default(value, default) == IF value = 0 THEN default ELSE value

IsPipeline(source) == source.kind = "pipeline"

-----------------------------------------------------------------------------
(* Normalization.                                                          *)

BudgetAccepted(c) ==
  /\ c.maxSessions \in 1..1024 /\ c.maxOperations \in 1..128
  /\ c.maxCaptureBytes >= KiB /\ c.maxCaptureBytes <= 32 * MiB + MaxRGB
  /\ c.maxRetainedBytes >= c.maxCaptureBytes /\ c.maxRetainedBytes <= 1024 * MiB

DefaultBudget == [maxSessions |-> 32, maxOperations |-> 16,
                  maxCaptureBytes |-> 64 * MiB, maxRetainedBytes |-> 128 * MiB]

\* Times are seconds and the factor is in hundredths.
DefaultRecording == [segment |-> 300, duration |-> 86400, finalize |-> 15,
                     minimumFree |-> 1024 * MiB, factor |-> 120]

\* RecordingConfig.normalized
NormalRecording(r) ==
  IF TrimSpace(r.root) = "" THEN [r EXCEPT !.root = ""]
  ELSE LET d == DefaultRecording IN
       [root |-> TrimSpace(r.root), kilobits |-> r.kilobits,
        segment |-> Default(r.segment, d.segment), duration |-> Default(r.duration, d.duration),
        finalize |-> Default(r.finalize, d.finalize),
        minimumFree |-> Default(r.minimumFree, d.minimumFree), factor |-> Default(r.factor, d.factor)]

WithinLimits(r) ==
  /\ r.kilobits > 0 /\ r.kilobits <= 10000000
  /\ r.segment > 0 /\ r.segment <= 3600 /\ r.duration > 0 /\ r.duration <= 604800
  /\ r.finalize > 0 /\ r.finalize <= 60
  /\ r.factor >= 100 /\ r.factor <= 1000

RecordingAccepted(r) == r = NoRecording \/ (r.root \in Paths /\ WithinLimits(r))

NormalKind(kind) == IF TrimSpace(kind) = "" THEN "camera-source" ELSE TrimSpace(kind)

NormalSource(s) ==
  [id |-> TrimSpace(s.id), kind |-> NormalKind(s.kind),
   listener |-> [host |-> TrimSpace(s.listener.host), port |-> s.listener.port],
   socket |-> TrimSpace(s.socket), instance |-> s.instance,
   metadata |-> [width |-> s.metadata.width, height |-> s.metadata.height, fps |-> s.metadata.fps,
                 frameId |-> TrimSpace(s.metadata.frameId)],
   pipeline |-> s.pipeline]

LoopbackHost(host) == host = "localhost" \/ host \in DOMAIN Address

HasExpectedMetadata(s) == s.metadata # NoMetadata

CameraAccepted(s) ==
  /\ s.kind = "camera-source"
  /\ s.pipeline = NoPipeline
  /\ s.socket \in Paths
  /\ HasExpectedMetadata(s) =>
       /\ s.metadata.width >= 16 /\ s.metadata.height >= 16
       /\ s.metadata.fps > 0 /\ s.metadata.fps <= 240 * MicroHz
       /\ s.metadata.frameId # ""

\* (A frame ID of more than 256 bytes is refused as well, here and in a description.)
PipelineAccepted(s) ==
  /\ IsPipeline(s)
  /\ s.socket = "" /\ s.instance = ""
  /\ s.pipeline # NoPipeline
  /\ s.listener.host \in DOMAIN Address
  /\ s.metadata.width >= 16 /\ s.metadata.height >= 16
  /\ s.metadata.fps >= MicroHz /\ s.metadata.fps <= 240 * MicroHz
  /\ s.metadata.fps % MicroHz = 0
  /\ s.metadata.frameId # ""

SourceAccepted(s) ==
  /\ s.id \in StableNames
  /\ LoopbackHost(s.listener.host) /\ s.listener.port \in Port
  /\ CameraAccepted(s) \/ PipelineAccepted(s)

\* resolvePipeline
TemplateAccepted(s) ==
  IsPipeline(s) =>
    /\ s.pipeline.template # NoDocument
    /\ ParsePipelineTemplate(s.pipeline.template)
    /\ ResolveAccepts(s.pipeline.template, s.pipeline)

Resolved(s) == Resolve(s.pipeline.template, s.pipeline)

\* Arguments of the command, not of the producer, that open a camera device.
Devices(s) ==
  IF ~IsPipeline(s) THEN {}
  ELSE {a \in PieceSet(Resolved(s).command) :
          Len(a) = 2 /\ a[1] = "device=" /\ a[2] \in DeviceFiles}

Mutant_NamesOnly(s, t) == s.id # t.id /\ Devices(s) \cap Devices(t) = {}
\* The loop over the sources: two of them share nothing.  It compares listeners as
\* they are spelled; a port, a number here, is its text in the code ("0554").
Distinct(s, t) ==
  /\ s.id # t.id
  /\ s.socket = t.socket => s.socket = ""
  /\ s.listener # t.listener
  /\ Devices(s) \cap Devices(t) = {}

\* normalizeHTTPOrigin: only the scheme, the host and a port that is not the
\* scheme's own are left of an origin.
OriginAccepted(o) ==
  o.scheme \in {"http", "https"} /\ o.host # "" /\ o.port \in Port \cup {0} /\ ~o.more

NormalOrigin(o) ==
  [o EXCEPT !.port = IF <<o.scheme, @>> \in {<<"http", 80>>, <<"https", 443>>} THEN 0 ELSE @]

\* Config.normalized
Normal(c) ==
  LET d == DefaultBudget IN
  [maxSessions |-> Default(c.maxSessions, d.maxSessions),
   maxOperations |-> Default(c.maxOperations, d.maxOperations),
   maxCaptureBytes |-> Default(c.maxCaptureBytes, d.maxCaptureBytes),
   maxRetainedBytes |-> Default(c.maxRetainedBytes, d.maxRetainedBytes),
   recording |-> NormalRecording(c.recording),
   origins |-> {NormalOrigin(o) : o \in c.origins},
   sources |-> [i \in DOMAIN c.sources |-> NormalSource(c.sources[i])]]

Accepted(c) ==
  LET n == Normal(c) IN
  /\ Len(c.sources) \in 1..16
  /\ BudgetAccepted(n)
  /\ RecordingAccepted(n.recording)
  /\ \A i \in DOMAIN n.sources : SourceAccepted(n.sources[i]) /\ TemplateAccepted(n.sources[i])
  /\ \A i, j \in DOMAIN n.sources : i < j => Distinct(n.sources[i], n.sources[j])
  /\ \A o \in c.origins : OriginAccepted(o)

-----------------------------------------------------------------------------
(* Rendering, and the descriptions of the sources.                         *)

\* Render: the paths of MediaMTX, one for each source.
RenderAccepts(c) ==
  /\ Len(c.sources) # 0
  /\ \A i \in DOMAIN c.sources : LET s == c.sources[i] IN
       /\ s.id \in StableNames
       /\ LoopbackHost(s.listener.host)
       /\ \A j \in 1..(i - 1) : c.sources[j].id # s.id
  /\ c.recording.root # "" => c.recording.root \in Paths

\* What pipelineControl says of itself.
Description(s) ==
  [sourceId |-> s.id, contract |-> TRUE, destination |-> s.listener, metadata |-> s.metadata,
   capabilities |-> {"start", "stop", "request-keyframe"} \cup
     (IF Resolved(s).snapshotDir THEN {"capture", "fresh-snapshot"} ELSE {}),
   keyframeRequestSupported |-> TRUE, keyframePolicy |-> "restart"]

Larger(a, b) == IF a > b THEN a ELSE b

\* nominalFrameRatesMatch, in millionths.
NominalFrameRatesMatch(actual, expected) ==
  LET tolerance == Larger(1, expected \div MicroHz)
  IN actual - expected \in -tolerance..tolerance

\* A name is not taken for the address that it may resolve to.
DestinationAccepted(listener, described) ==
  /\ LoopbackHost(described.host)
  /\ described.port = listener.port
  /\ \/ listener.host = described.host
     \/ /\ listener.host \in DOMAIN Address /\ described.host \in DOMAIN Address
        /\ Address[listener.host] = Address[described.host]

RequiredCapabilities(s) ==
  {"start", "stop"} \cup (IF IsPipeline(s) THEN {} ELSE {"capture", "fresh-snapshot"})

\* describeSourceWith: the replies that are accepted for a source.  "contract"
\* stands for the protocol version and the codec.
DescribeAccepts(s, reply) ==
  /\ reply.contract
  /\ reply.sourceId = s.id
  /\ DestinationAccepted(s.listener, reply.destination)
  /\ reply.metadata.width >= 16 /\ reply.metadata.height >= 16
  /\ reply.metadata.width <= (MaxRGB \div 3) \div reply.metadata.height
  /\ reply.metadata.fps > 0 /\ reply.metadata.fps <= 240 * MicroHz
  /\ reply.metadata.frameId # ""
  /\ RequiredCapabilities(s) \subseteq reply.capabilities
  /\ "capture" \in reply.capabilities <=> "fresh-snapshot" \in reply.capabilities
  /\ "request-keyframe" \in reply.capabilities <=> reply.keyframeRequestSupported
  /\ reply.keyframePolicy # ""
  /\ HasExpectedMetadata(s) =>
       /\ [reply.metadata EXCEPT !.fps = 0] = [s.metadata EXCEPT !.fps = 0]
       /\ NominalFrameRatesMatch(reply.metadata.fps, s.metadata.fps)

\* The source as Start and cameraPeer.connect know it from then on.
Described(s, reply) ==
  [source |-> [s EXCEPT !.metadata = reply.metadata],
   captureSupported |-> "capture" \in reply.capabilities,
   keyframeRequestSupported |-> reply.keyframeRequestSupported]

-----------------------------------------------------------------------------
(* NewMediaMTX and Start.                                                  *)

\* Only a recording looks at its disk.
Init ==
  /\ config \in Inputs
  /\ disk \in IF config.recording = NoRecording THEN {[blocks |-> 0, size |-> 1]} ELSE Disks
  /\ stage = "read" /\ admitted = <<>>

Normalize ==
  /\ stage = "read"
  /\ IF Accepted(config) THEN stage' = "normal" /\ config' = Normal(config)
     ELSE stage' = "refused" /\ UNCHANGED config
  /\ UNCHANGED <<disk, admitted>>

RenderPaths ==
  /\ stage = "normal"
  /\ stage' = IF RenderAccepts(config) THEN "rendered" ELSE "unrendered"
  /\ UNCHANGED <<config, disk, admitted>>

Pipelines == {config.sources[i] : i \in {j \in DOMAIN config.sources : IsPipeline(config.sources[j])}}

\* The cameras are described when they are first asked for.
DescribePipelines ==
  /\ stage = "rendered"
  /\ stage' = IF \A s \in Pipelines : DescribeAccepts(s, Description(s)) THEN "started" ELSE "failed"
  /\ UNCHANGED <<config, disk, admitted>>

\* A recording of a source that is not recorded yet; nothing has been written
\* for the others, and nothing is set aside for them.  A reserve beyond the
\* model's words is not tried.
AdmitRecording ==
  /\ stage = "started"
  /\ config.recording.root # "" /\ config.recording.minimumFree \in Word
  /\ Len(admitted) < Len(config.sources)
  /\ \E seconds \in Lengths :
       LET media == RequiredMedia(config.recording.kilobits, seconds, config.recording.factor) IN
       /\ seconds <= config.recording.duration
       /\ EnsureRecordingCapacity(disk.blocks, disk.size, media, config.recording.minimumFree)
       /\ admitted' = Append(admitted, media)
  /\ UNCHANGED <<config, stage, disk>>

Next == Normalize \/ RenderPaths \/ DescribePipelines \/ AdmitRecording

Spec == Init /\ [][Next]_vars

-----------------------------------------------------------------------------
(* Properties.                                                             *)

\* A configuration that is accepted is in normal form: normalizing it again, as
\* its own document would be, changes nothing and is accepted.  Its sources do
\* not get in each other's way, whatever spaces were around their names, one
\* capture fits the retained snapshots, and MediaMTX's configuration can be
\* rendered from it.
AcceptedIsSound ==
  stage \notin {"read", "refused"} =>
    /\ Normal(config) = config /\ Accepted(config)
    /\ \A i, j \in DOMAIN config.sources : i # j =>
         LET s == config.sources[i] t == config.sources[j] IN
         s.id # t.id /\ s.listener # t.listener /\ (s.socket # "" => s.socket # t.socket)
    /\ config.maxCaptureBytes <= config.maxRetainedBytes
    /\ stage # "unrendered"

\* A pipeline that was accepted can be served: no placeholder is left, or lost,
\* in its command, each parameter matches its pattern, it is said to support
\* capture exactly if its command writes the snapshots, and Start refuses it
\* only for pictures that no capture could hold.
PipelinesAreServable ==
  stage \notin {"read", "refused"} =>
    \A s \in Pipelines :
      LET template == s.pipeline.template
          values == Values(template, s.pipeline)
          reply == Description(s)
          captures == Described(s, reply).captureSupported
      IN /\ Names(template.command) \cup Names(Producer(template)) \subseteq DOMAIN values
         /\ \A n \in DOMAIN template.parameters : values[n] \in template.parameters[n].pattern
         /\ template.input = Stdin <=> Resolved(s).producer # <<>>
         /\ captures <=> WritesSnapshots(template)
         /\ DescribeAccepts(s, reply) \/ s.metadata.width * s.metadata.height > MaxRGB \div 3
         /\ stage = "started" => DescribeAccepts(Described(s, reply).source, reply)

\* A recording that is admitted has room for its media and leaves the reserve; a
\* sum that does not fit in a word counts as a full word, and never as the small
\* number it would wrap around to (ensureRecordingCapacity).
AdmittedFits ==
  \A i \in DOMAIN admitted :
    Fits(disk.blocks, disk.size, admitted[i], config.recording.minimumFree)

\* Two sources do not share an RTP listener.  It fails: listeners are compared
\* by their text, and one address has several.
NoSharedListener ==
  stage \notin {"read", "refused"} =>
    \A i, j \in DOMAIN config.sources : i # j =>
      LET s == config.sources[i].listener t == config.sources[j].listener IN
      {s.host, t.host} \subseteq DOMAIN Address /\ s.port = t.port =>
        Address[s.host] # Address[t.host]

\* The recordings that run at the same time leave the reserve together.  It
\* fails: each of them is admitted by the space that is free at that moment.
TogetherTheyFit ==
  Len(admitted) = 2 =>
    Fits(disk.blocks, disk.size, admitted[1] + admitted[2], config.recording.minimumFree)
=============================================================================
