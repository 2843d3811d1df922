--------------------------- MODULE PipelineTemplate ---------------------------
(***************************************************************************)
(* The template of a pipeline source and what a source makes of it         *)
(* (internal/mediaedge/pipeline_template.go).  An argument is a sequence   *)
(* of pieces, a text or a ${name} placeholder; an expanded argument is the *)
(* sequence of its texts.  The spelling of names and programs, and the     *)
(* limits on the number and the size of arguments, are left out.           *)
(***************************************************************************)
EXTENDS Integers, Sequences, FiniteSets

Text(t) == [placeholder |-> FALSE, is |-> t]
Placeholder(name) == [placeholder |-> TRUE, is |-> name]

Device == "device"    \* pipelineInputDevice
Stdin == "stdin"      \* pipelineInputStdin

NoValue == "no value"                     \* a parameter without default
NoVector == <<<<Text("no vector")>>>>       \* a Producer that is nil
SnapshotFile == Text("/snapshot-%05d.jpg")
Stray == Text("$")                        \* a $ that opens no placeholder

\* builtinPipelineParameters
BuiltinParameters == {"width", "height", "fps", "rtpHost", "rtpPort", "payloadType", "snapshotDir"}

PieceSet(s) == {s[i] : i \in DOMAIN s}

\* The names an argument vector refers to.
Names(vector) ==
  {p.is : p \in {q \in UNION {PieceSet(vector[i]) : i \in DOMAIN vector} : q.placeholder}}

Producer(template) == IF template.producer = NoVector THEN <<>> ELSE template.producer

Vectors(template) == {template.command, Producer(template)}

UsesSnapshot(template) == \E v \in Vectors(template) : "snapshotDir" \in Names(v)

\* An argument of the command has the branch write the numbered files that
\* the edge looks for.
WritesSnapshots(template) ==
  \E i \in DOMAIN template.command : LET a == template.command[i] IN
    \E k \in 1..(Len(a) - 1) : a[k] = Placeholder("snapshotDir") /\ a[k + 1] = SnapshotFile

Mutant_AnySnapshot(template) == template.snapshot => WritesSnapshots(template)
SnapshotDeclared(template) ==
  /\ UsesSnapshot(template) = template.snapshot
  /\ template.snapshot => WritesSnapshots(template)

\* parsePipelineTemplate: the documents that are accepted.
ParsePipelineTemplate(template) ==
  /\ template.input \in {Device, Stdin}
  /\ template.producer # NoVector => template.input = Stdin /\ template.producer # <<>>
  /\ \A name \in DOMAIN template.parameters : LET p == template.parameters[name] IN
       /\ name \notin BuiltinParameters
       /\ p.default \in p.pattern \cup {NoValue}
  /\ template.command # <<>>
  /\ \A v \in Vectors(template) :
       /\ \A i \in DOMAIN v : v[i] # <<>> /\ Stray \notin PieceSet(v[i])
       /\ Names(v) \subseteq BuiltinParameters \cup DOMAIN template.parameters
  /\ SnapshotDeclared(template)

\* The producer of a source, which may be nil, fits the template's input.
ProducerFits(template, producer) ==
  /\ ~(Producer(template) # <<>> /\ producer # NoVector)
  /\ ~(template.input = Stdin /\ Producer(template) = <<>> /\ producer \in {NoVector, <<>>})
  /\ ~(template.input # Stdin /\ producer \notin {NoVector, <<>>})

\* What the source gives, else the template's default.
Given(template, pipeline, name) ==
  IF name \in DOMAIN pipeline.parameters THEN pipeline.parameters[name]
  ELSE template.parameters[name].default

\* template.resolve: the sources that are accepted.
ResolveAccepts(template, pipeline) ==
  /\ ProducerFits(template, pipeline.producer)
  /\ DOMAIN pipeline.parameters \subseteq DOMAIN template.parameters
  /\ \A name \in DOMAIN template.parameters :
       Given(template, pipeline, name) \in template.parameters[name].pattern

\* The values of the placeholders.  The builtin ones stand for the source's own
\* settings, and snapshotDir exists only for a template that writes snapshots.
Values(template, pipeline) ==
  LET builtin == IF template.snapshot THEN BuiltinParameters
                 ELSE BuiltinParameters \ {"snapshotDir"}
  IN [name \in builtin \cup DOMAIN template.parameters |->
        IF name \in DOMAIN template.parameters THEN Given(template, pipeline, name)
        ELSE name]

\* A name without a value expands to the empty text.
Expand(vector, values) ==
  [i \in DOMAIN vector |-> [k \in DOMAIN vector[i] |-> LET p == vector[i][k] IN
     IF ~p.placeholder THEN p.is ELSE IF p.is \in DOMAIN values THEN values[p.is] ELSE ""]]

\* The producer of a source is not expanded.
AsWritten(vector) == [i \in DOMAIN vector |-> [k \in DOMAIN vector[i] |-> vector[i][k].is]]

\* resolved: the pipelineSpec.
Resolve(template, pipeline) ==
  LET values == Values(template, pipeline) IN
  [command |-> Expand(template.command, values),
   producer |-> IF Producer(template) # <<>> THEN Expand(template.producer, values)
                ELSE IF pipeline.producer = NoVector THEN <<>>
                ELSE AsWritten(pipeline.producer),
   snapshotDir |-> template.snapshot]
=============================================================================
