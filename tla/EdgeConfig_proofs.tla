---------------------------- MODULE EdgeConfig_proofs ----------------------------
(***************************************************************************)
(* What an accepted configuration is worth, and what the admission of a    *)
(* recording promises, for all configurations, disks and word sizes.       *)
(***************************************************************************)
EXTENDS EdgeConfig, TLAPS

-----------------------------------------------------------------------------
(* The saturating sums.                                                    *)

\* What \div computes.
LEMMA Quotient ==
  ASSUME NEW a \in Nat, NEW b \in Nat, b > 0
  PROVE  /\ a \div b \in Nat
         /\ b * (a \div b) <= a
         /\ a < b * (a \div b + 1)
BY SMT

\* A product grows with its second factor.
LEMMA ProductGrows ==
  ASSUME NEW a \in Nat, NEW b \in Nat, NEW c \in Nat, b <= c
  PROVE  a * b \in Nat /\ a * c \in Nat /\ a * b <= a * c
BY SMT

\* A word does not wrap around.
LEMMA WordKept ==
  ASSUME NEW n \in Word
  PROVE  Wrapped(n) = n
BY WordAssumption DEF Wrapped, Word

\* saturatingAdd is the sum, or a full word if the sum does not fit in one.
THEOREM AddSaturates ==
  ASSUME NEW left \in Word, NEW right \in Word
  PROVE  SaturatingAdd(left, right) = Saturated(left + right)
<1>1. CASE right > MaxUint64 - left
  BY <1>1, WordAssumption DEF SaturatingAdd, Saturated, Word
<1>2. CASE ~(right > MaxUint64 - left)
  <2>1. left + right \in Word /\ ~(left + right > MaxUint64)
    BY <1>2, WordAssumption DEF Word
  <2> QED
    BY <1>2, <2>1, WordKept DEF SaturatingAdd, Saturated
<1> QED
  BY <1>1, <1>2

\* saturatingMultiply is the product, or a full word if it does not fit in one:
\* the quotient it compares with misses no product that is too large, and takes
\* none that fits for too large.
THEOREM MultiplySaturates ==
  ASSUME NEW left \in Word, NEW right \in Word
  PROVE  SaturatingMultiply(left, right) = Saturated(left * right)
<1> DEFINE q == MaxUint64 \div left
<1>0. left \in Nat /\ right \in Nat /\ MaxUint64 \in Nat /\ 0 \in Word
  BY WordAssumption DEF Word
<1>1. CASE left = 0
  <2>1. left * right = 0
    BY <1>0, <1>1
  <2> QED
    BY <1>0, <1>1, <2>1, WordKept DEF SaturatingMultiply, Saturated
<1>2. CASE left # 0
  <2>1. q \in Nat /\ left * q <= MaxUint64 /\ MaxUint64 < left * (q + 1)
    BY <1>0, <1>2, Quotient
  <2>2. CASE right > q
    <3>1. left * (q + 1) <= left * right /\ left * right \in Nat
      BY <1>0, <2>1, <2>2, ProductGrows
    <3>2. left * (q + 1) \in Nat
      BY <1>0, <2>1
    <3>3. left * right > MaxUint64
      BY <1>0, <2>1, <3>1, <3>2
    <3> QED
      BY <1>2, <2>2, <3>3 DEF SaturatingMultiply, Saturated
  <2>3. CASE ~(right > q)
    <3>1. left * right <= left * q /\ left * right \in Nat
      BY <1>0, <2>1, <2>3, ProductGrows
    <3>2. left * q \in Nat
      BY <1>0, <2>1
    <3>3. left * right <= MaxUint64
      BY <1>0, <2>1, <3>1, <3>2
    <3>4. left * right \in Word /\ ~(left * right > MaxUint64)
      BY <1>0, <3>1, <3>3 DEF Word
    <3> QED
      BY <2>3, <3>4, WordKept DEF SaturatingMultiply, Saturated
  <2> QED
    BY <2>2, <2>3
<1> QED
  BY <1>1, <1>2

\* ensureRecordingCapacity admits exactly the estimates that are words and fit
\* in the free space together with the reserve, as far as a word can tell.
THEOREM AdmitsWhatFits ==
  ASSUME NEW blocks \in Word, NEW size \in Word, NEW media \in Nat, NEW reserve \in Word
  PROVE  EnsureRecordingCapacity(blocks, size, media, reserve)
           <=> media <= MaxUint64 /\ Fits(blocks, size, media, reserve)
<1>1. CASE ~(media <= MaxUint64)
  BY <1>1 DEF EnsureRecordingCapacity
<1>2. CASE media <= MaxUint64
  <2> DEFINE free == blocks * size
             wanted == media + reserve
  <2>1. media \in Word
    BY <1>2, WordAssumption DEF Word
  <2>2. /\ SaturatingMultiply(blocks, size) = Saturated(free)
        /\ SaturatingAdd(media, reserve) = Saturated(wanted)
    BY <2>1, AddSaturates, MultiplySaturates
  <2>3. free \in Nat
    <3>1. blocks \in Nat /\ size \in Nat
      BY WordAssumption DEF Word
    <3> QED
      BY <3>1, ProductGrows
  <2>4. wanted \in Nat /\ MaxUint64 \in Nat
    BY <2>1, WordAssumption DEF Word
  <2> HIDE DEF free, wanted
  <2>5. ~(Saturated(free) < Saturated(wanted)) <=> free >= Saturated(wanted)
    BY <2>3, <2>4 DEF Saturated
  <2>6. EnsureRecordingCapacity(blocks, size, media, reserve) <=> ~(Saturated(free) < Saturated(wanted))
    BY <1>2, <2>2 DEF EnsureRecordingCapacity
  <2> QED
    BY <1>2, <2>5, <2>6 DEF Fits, free, wanted
<1> QED
  BY <1>1, <1>2

-----------------------------------------------------------------------------
(* The normal form of a configuration.                                     *)

\* What is trimmed has no spaces left to trim.
LEMMA Trimmed ==
  /\ \A t \in Texts : TrimSpace(t) \in Texts /\ TrimSpace(TrimSpace(t)) = TrimSpace(t)
  /\ TrimSpace("") = "" /\ TrimSpace("camera-source") = "camera-source"
  /\ "" \in Texts /\ "camera-source" \in Texts
<1>1. "" \in Texts /\ "camera-source" \in Texts
  BY TextAssumption
<1>2. ASSUME NEW t \in Texts
      PROVE  TrimSpace(t) \in Texts /\ TrimSpace(TrimSpace(t)) = TrimSpace(t)
  <2>1. CASE t \in DOMAIN Padded
    BY <2>1, TextAssumption DEF TrimSpace
  <2>2. CASE t \notin DOMAIN Padded
    BY <2>2 DEF TrimSpace
  <2> QED
    BY <2>1, <2>2
<1>3. TrimSpace("") = "" /\ TrimSpace("camera-source") = "camera-source"
  BY TextAssumption DEF TrimSpace
<1> QED
  BY <1>1, <1>2, <1>3

\* A value that is given is no default.
LEMMA DefaultTwice ==
  ASSUME NEW v \in Int, NEW d \in Int, d # 0
  PROVE  Default(v, d) \in Int /\ Default(Default(v, d), d) = Default(v, d)
BY DEF Default

\* A kind that is given, and trimmed, is kept.
LEMMA NormalKindTwice ==
  ASSUME NEW kind \in Texts
  PROVE  NormalKind(kind) \in Texts /\ NormalKind(NormalKind(kind)) = NormalKind(kind)
<1> DEFINE k == NormalKind(kind)
<1>1. CASE TrimSpace(kind) = ""
  <2>1. k = "camera-source"
    BY <1>1, Zenon DEF NormalKind
  <2>2. "camera-source" # ""
    BY Zenon
  <2> QED
    BY <2>1, <2>2, Trimmed, Zenon DEF NormalKind
<1>2. CASE TrimSpace(kind) # ""
  <2>1. k = TrimSpace(kind)
    BY <1>2, Zenon DEF NormalKind
  <2> QED
    BY <1>2, <2>1, Trimmed, Zenon DEF NormalKind
<1> QED
  BY <1>1, <1>2

\* A normal source is a source in normal form.
LEMMA NormalSourceTwice ==
  ASSUME NEW s, SourceTyped(s)
  PROVE  SourceTyped(NormalSource(s)) /\ NormalSource(NormalSource(s)) = NormalSource(s)
<1> DEFINE n == NormalSource(s)
<1>0. /\ s.id \in Texts /\ s.kind \in Texts /\ s.listener.host \in Texts /\ s.socket \in Texts
      /\ s.metadata.frameId \in Texts /\ s.instance \in Texts
      /\ s.listener.port \in Int /\ s.metadata.width \in Int /\ s.metadata.height \in Int
      /\ s.metadata.fps \in Int
  BY DEF SourceTyped
<1>1. /\ TrimSpace(s.id) \in Texts /\ TrimSpace(s.listener.host) \in Texts
      /\ TrimSpace(s.socket) \in Texts /\ TrimSpace(s.metadata.frameId) \in Texts
      /\ s.instance \in Texts /\ NormalKind(s.kind) \in Texts /\ s.listener.port \in Int
      /\ s.metadata.width \in Int /\ s.metadata.height \in Int /\ s.metadata.fps \in Int
  BY <1>0, Trimmed, NormalKindTwice
<1>2. SourceTyped(n)
  BY <1>1 DEF SourceTyped, NormalSource
<1>3. /\ n.id = TrimSpace(s.id) /\ n.kind = NormalKind(s.kind) /\ n.socket = TrimSpace(s.socket)
      /\ n.instance = s.instance /\ n.pipeline = s.pipeline
      /\ n.listener = [host |-> TrimSpace(s.listener.host), port |-> s.listener.port]
      /\ n.metadata = [width |-> s.metadata.width, height |-> s.metadata.height,
                       fps |-> s.metadata.fps, frameId |-> TrimSpace(s.metadata.frameId)]
  BY DEF NormalSource
<1>4. /\ TrimSpace(n.id) = n.id /\ TrimSpace(n.socket) = n.socket
      /\ TrimSpace(n.listener.host) = n.listener.host /\ TrimSpace(n.metadata.frameId) = n.metadata.frameId
  <2>1. n.listener.host = TrimSpace(s.listener.host) /\ n.metadata.frameId = TrimSpace(s.metadata.frameId)
    BY <1>3
  <2> QED
    BY <1>0, <1>3, <2>1, Trimmed, Zenon
<1>5. NormalKind(n.kind) = n.kind
  BY <1>0, <1>3, NormalKindTwice
<1>6. NormalSource(n) =
        [id |-> n.id, kind |-> n.kind, listener |-> [host |-> n.listener.host, port |-> n.listener.port],
         socket |-> n.socket, instance |-> n.instance,
         metadata |-> [width |-> n.metadata.width, height |-> n.metadata.height,
                       fps |-> n.metadata.fps, frameId |-> n.metadata.frameId],
         pipeline |-> n.pipeline]
  BY <1>4, <1>5 DEF NormalSource
<1> HIDE DEF n
<1>7. NormalSource(n) = n
  BY <1>2, <1>6 DEF SourceTyped
<1> QED
  BY <1>2, <1>7 DEF n

\* The root of a recording is replaced.
LEMMA RootReplaced ==
  ASSUME NEW r \in RecordingSettings, NEW root \in Texts
  PROVE  /\ [r EXCEPT !.root = root] \in RecordingSettings
         /\ [r EXCEPT !.root = root].root = root
         /\ r.root = root => [r EXCEPT !.root = root] = r
BY DEF RecordingSettings

\* A normal recording is in normal form too.
LEMMA NormalRecordingTwice ==
  ASSUME NEW r \in RecordingSettings
  PROVE  /\ NormalRecording(r) \in RecordingSettings
         /\ NormalRecording(NormalRecording(r)) = NormalRecording(r)
<1> DEFINE n == NormalRecording(r)
<1>1. CASE TrimSpace(r.root) = ""
  <2>1. n = [r EXCEPT !.root = ""]
    BY <1>1, Zenon DEF NormalRecording
  <2>2. n \in RecordingSettings /\ n.root = ""
    <3>1. "" \in Texts
      BY Trimmed
    <3> QED
      BY <2>1, <3>1, RootReplaced, Zenon
  <2> HIDE DEF n
  <2>3. [n EXCEPT !.root = ""] = n
    BY <2>2, Trimmed, RootReplaced
  <2>4. NormalRecording(n) = n
    BY <2>2, <2>3, Trimmed, Zenon DEF NormalRecording
  <2> QED
    BY <2>2, <2>4 DEF n
<1>2. CASE TrimSpace(r.root) # ""
  <2> DEFINE d == DefaultRecording
  <2>1. /\ d.segment \in Int /\ d.segment # 0 /\ d.duration \in Int /\ d.duration # 0
        /\ d.finalize \in Int /\ d.finalize # 0 /\ d.factor \in Int /\ d.factor # 0
        /\ d.minimumFree \in Nat /\ d.minimumFree # 0
    BY SMT DEF DefaultRecording, MiB
  <2> HIDE DEF d
  <2>2. n = [root |-> TrimSpace(r.root), kilobits |-> r.kilobits,
             segment |-> Default(r.segment, d.segment), duration |-> Default(r.duration, d.duration),
             finalize |-> Default(r.finalize, d.finalize),
             minimumFree |-> Default(r.minimumFree, d.minimumFree),
             factor |-> Default(r.factor, d.factor)]
    BY <1>2, Zenon DEF NormalRecording, d
  <2>3. /\ r.root \in Texts /\ r.kilobits \in Nat /\ r.segment \in Int /\ r.duration \in Int
        /\ r.finalize \in Int /\ r.minimumFree \in Nat /\ r.factor \in Int
    BY DEF RecordingSettings
  <2>4. /\ Default(r.segment, d.segment) \in Int /\ Default(r.duration, d.duration) \in Int
        /\ Default(r.finalize, d.finalize) \in Int /\ Default(r.factor, d.factor) \in Int
        /\ TrimSpace(r.root) \in Texts
    BY <2>1, <2>3, DefaultTwice, Trimmed
  <2>5. Default(r.minimumFree, d.minimumFree) \in Nat
    BY <2>1, <2>3 DEF Default
  <2>6. n \in RecordingSettings
    BY <2>2, <2>3, <2>4, <2>5 DEF RecordingSettings
  <2>7. /\ n.root = TrimSpace(r.root) /\ n.segment = Default(r.segment, d.segment)
        /\ n.duration = Default(r.duration, d.duration) /\ n.finalize = Default(r.finalize, d.finalize)
        /\ n.minimumFree = Default(r.minimumFree, d.minimumFree) /\ n.factor = Default(r.factor, d.factor)
    BY <2>2
  <2> HIDE DEF n
  <2>8. TrimSpace(n.root) = n.root /\ n.root # ""
    BY <1>2, <2>3, <2>7, Trimmed, Zenon
  <2>9. /\ Default(n.segment, d.segment) = n.segment /\ Default(n.duration, d.duration) = n.duration
        /\ Default(n.finalize, d.finalize) = n.finalize /\ Default(n.factor, d.factor) = n.factor
        /\ Default(n.minimumFree, d.minimumFree) = n.minimumFree
    <3>1. ASSUME NEW v \in Int, NEW e \in Int, e # 0, NEW w, w = Default(v, e)
          PROVE  Default(w, e) = w
      BY <3>1, DefaultTwice, Zenon
    <3> QED
      BY <2>1, <2>3, <2>7, <3>1
  <2>10. NormalRecording(n) =
          [root |-> n.root, kilobits |-> n.kilobits, segment |-> n.segment, duration |-> n.duration,
           finalize |-> n.finalize, minimumFree |-> n.minimumFree, factor |-> n.factor]
    BY <2>8, <2>9, Zenon DEF NormalRecording, d
  <2>11. NormalRecording(n) = n
    BY <2>6, <2>10 DEF RecordingSettings
  <2> QED
    BY <2>6, <2>11 DEF n
<1> QED
  BY <1>1, <1>2

\* The port of a scheme is dropped once.
LEMMA NormalOriginTwice ==
  ASSUME NEW o \in Origin
  PROVE  /\ NormalOrigin(o) \in Origin /\ NormalOrigin(NormalOrigin(o)) = NormalOrigin(o)
         /\ OriginAccepted(o) => OriginAccepted(NormalOrigin(o))
<1> DEFINE n == NormalOrigin(o)
<1>1. CASE <<o.scheme, o.port>> \in {<<"http", 80>>, <<"https", 443>>}
  <2>1. n = [scheme |-> o.scheme, host |-> o.host, port |-> 0, more |-> o.more]
    BY <1>1 DEF NormalOrigin, Origin
  <2>2. n \in Origin /\ n.port = 0
    BY <2>1 DEF Origin
  <2>3. OriginAccepted(o) => OriginAccepted(n)
    <3>1. n.scheme = o.scheme /\ n.host = o.host /\ n.more = o.more
      BY <2>1
    <3>2. n.port = 0
      BY <2>2
    <3> HIDE DEF n
    <3> QED
      BY <3>1, <3>2, Zenon DEF OriginAccepted
  <2> HIDE DEF n
  <2>4. NormalOrigin(n) = n
    BY <2>2 DEF NormalOrigin, Origin
  <2> QED
    BY <2>2, <2>3, <2>4 DEF n
<1>2. CASE <<o.scheme, o.port>> \notin {<<"http", 80>>, <<"https", 443>>}
  <2>1. n = o
    BY <1>2 DEF NormalOrigin, Origin
  <2> QED
    BY <2>1
<1> QED
  BY <1>1, <1>2

\* What a normal configuration has of its own settings.
LEMMA NormalSettings ==
  ASSUME NEW c, ConfigTyped(c)
  PROVE  LET n == Normal(c) d == DefaultBudget IN
         /\ n.maxSessions = Default(c.maxSessions, d.maxSessions)
         /\ n.maxOperations = Default(c.maxOperations, d.maxOperations)
         /\ n.maxCaptureBytes = Default(c.maxCaptureBytes, d.maxCaptureBytes)
         /\ n.maxRetainedBytes = Default(c.maxRetainedBytes, d.maxRetainedBytes)
         /\ n.recording = NormalRecording(c.recording)
         /\ n.origins = {NormalOrigin(o) : o \in c.origins}
         /\ n.sources = [i \in DOMAIN c.sources |-> NormalSource(c.sources[i])]
BY DEF Normal

\* A configuration in normal form is its own normal form, and is accepted if
\* the one that it was made of is.
LEMMA NormalTwice ==
  ASSUME NEW c \in Inputs
  PROVE  /\ Normal(Normal(c)) = Normal(c)
         /\ Accepted(c) => Accepted(Normal(c))
<1> DEFINE n == Normal(c)
           d == DefaultBudget
<1>1. /\ ConfigTyped(c) /\ Len(c.sources) \in Nat /\ DOMAIN c.sources = 1..Len(c.sources)
      /\ \A i \in DOMAIN c.sources : SourceTyped(c.sources[i])
  BY InputsAssumption
<1>2. /\ d.maxSessions \in Int /\ d.maxSessions # 0 /\ d.maxOperations \in Int /\ d.maxOperations # 0
      /\ d.maxCaptureBytes \in Int /\ d.maxCaptureBytes # 0
      /\ d.maxRetainedBytes \in Int /\ d.maxRetainedBytes # 0
  BY SMT DEF DefaultBudget, MiB
<1> HIDE DEF d
<1>3. /\ c.maxSessions \in Int /\ c.maxOperations \in Int /\ c.maxCaptureBytes \in Int
      /\ c.maxRetainedBytes \in Int /\ c.recording \in RecordingSettings
      /\ c.origins \subseteq Origin
  BY <1>1 DEF ConfigTyped
<1>4. /\ n.maxSessions = Default(c.maxSessions, d.maxSessions)
      /\ n.maxOperations = Default(c.maxOperations, d.maxOperations)
      /\ n.maxCaptureBytes = Default(c.maxCaptureBytes, d.maxCaptureBytes)
      /\ n.maxRetainedBytes = Default(c.maxRetainedBytes, d.maxRetainedBytes)
      /\ n.recording = NormalRecording(c.recording)
      /\ n.origins = {NormalOrigin(o) : o \in c.origins}
      /\ n.sources = [i \in DOMAIN c.sources |-> NormalSource(c.sources[i])]
  BY <1>1, NormalSettings DEF d
<1> HIDE DEF n
<1>5. /\ Default(n.maxSessions, d.maxSessions) = n.maxSessions
      /\ Default(n.maxOperations, d.maxOperations) = n.maxOperations
      /\ Default(n.maxCaptureBytes, d.maxCaptureBytes) = n.maxCaptureBytes
      /\ Default(n.maxRetainedBytes, d.maxRetainedBytes) = n.maxRetainedBytes
  <2>1. ASSUME NEW v \in Int, NEW e \in Int, e # 0, NEW w, w = Default(v, e)
        PROVE  Default(w, e) = w
    BY <2>1, DefaultTwice, Zenon
  <2> QED
    BY <1>2, <1>3, <1>4, <2>1
<1>6. NormalRecording(n.recording) = n.recording
  BY <1>3, <1>4, NormalRecordingTwice, Zenon
<1>7. {NormalOrigin(o) : o \in n.origins} = n.origins
  <2>1. \A o \in n.origins : NormalOrigin(o) = o
    BY <1>3, <1>4, NormalOriginTwice, Zenon
  <2> QED
    BY <2>1, Zenon
<1>8. /\ DOMAIN n.sources = 1..Len(c.sources) /\ Len(n.sources) = Len(c.sources)
      /\ \A i \in DOMAIN n.sources : n.sources[i] = NormalSource(c.sources[i])
  BY <1>1, <1>4
<1>9. [i \in DOMAIN n.sources |-> NormalSource(n.sources[i])] = n.sources
  <2>1. \A i \in DOMAIN n.sources : NormalSource(n.sources[i]) = n.sources[i]
    BY <1>1, <1>8, NormalSourceTwice, Zenon
  <2> QED
    BY <1>4, <2>1, Zenon
<1>10. n = [maxSessions |-> n.maxSessions, maxOperations |-> n.maxOperations,
            maxCaptureBytes |-> n.maxCaptureBytes, maxRetainedBytes |-> n.maxRetainedBytes,
            recording |-> n.recording, origins |-> n.origins, sources |-> n.sources]
  BY DEF n, Normal
<1>11. Normal(n) = n
  <2>1. Normal(n) =
          [maxSessions |-> Default(n.maxSessions, d.maxSessions),
           maxOperations |-> Default(n.maxOperations, d.maxOperations),
           maxCaptureBytes |-> Default(n.maxCaptureBytes, d.maxCaptureBytes),
           maxRetainedBytes |-> Default(n.maxRetainedBytes, d.maxRetainedBytes),
           recording |-> NormalRecording(n.recording),
           origins |-> {NormalOrigin(o) : o \in n.origins},
           sources |-> [i \in DOMAIN n.sources |-> NormalSource(n.sources[i])]]
    BY Zenon DEF Normal, d
  <2> QED
    BY <1>5, <1>6, <1>7, <1>9, <1>10, <2>1, Zenon
<1>12. ASSUME Accepted(c)
       PROVE  Accepted(n)
  <2>1. /\ Len(c.sources) \in 1..16 /\ BudgetAccepted(n) /\ RecordingAccepted(n.recording)
        /\ \A i \in DOMAIN n.sources : SourceAccepted(n.sources[i]) /\ TemplateAccepted(n.sources[i])
        /\ \A i, j \in DOMAIN n.sources : i < j => Distinct(n.sources[i], n.sources[j])
        /\ \A o \in c.origins : OriginAccepted(o)
    BY <1>12, Zenon DEF Accepted, n
  <2>2. \A o \in n.origins : OriginAccepted(o)
    BY <1>3, <1>4, <2>1, NormalOriginTwice, Zenon
  <2> QED
    BY <1>8, <1>11, <2>1, <2>2, Zenon DEF Accepted
<1> QED
  BY <1>11, <1>12 DEF n

\* The sources do not get in each other's way, a capture fits the retained
\* snapshots, and the configuration of MediaMTX can be rendered.
Guarantees(n) ==
  /\ \A i, j \in DOMAIN n.sources : i # j =>
       LET s == n.sources[i] t == n.sources[j] IN
       s.id # t.id /\ s.listener # t.listener /\ (s.socket # "" => s.socket # t.socket)
  /\ n.maxCaptureBytes <= n.maxRetainedBytes
  /\ RenderAccepts(n)

\* What an accepted configuration guarantees, between its sources, of its
\* snapshots, and to the renderer of MediaMTX's configuration.
LEMMA AcceptedGuarantees ==
  ASSUME NEW n, Len(n.sources) \in Nat, DOMAIN n.sources = 1..Len(n.sources),
         Accepted(n), Normal(n) = n,
         n.maxCaptureBytes \in Int, n.maxRetainedBytes \in Int
  PROVE  Guarantees(n)
<1>1. /\ Len(n.sources) \in 1..16 /\ BudgetAccepted(n) /\ RecordingAccepted(n.recording)
      /\ \A i \in DOMAIN n.sources : SourceAccepted(n.sources[i])
      /\ \A i, j \in DOMAIN n.sources : i < j => Distinct(n.sources[i], n.sources[j])
  BY Zenon DEF Accepted
<1>2. ASSUME NEW i \in DOMAIN n.sources, NEW j \in DOMAIN n.sources, i # j
      PROVE  LET s == n.sources[i] t == n.sources[j] IN
             s.id # t.id /\ s.listener # t.listener /\ (s.socket # "" => s.socket # t.socket)
  <2>1. i < j \/ j < i
    BY <1>2
  <2>2. CASE i < j
    BY <1>1, <2>2, Zenon DEF Distinct
  <2>3. CASE j < i
    BY <1>1, <2>3, Zenon DEF Distinct
  <2> QED
    BY <2>1, <2>2, <2>3
<1>3. n.maxCaptureBytes <= n.maxRetainedBytes
  BY <1>1 DEF BudgetAccepted
<1>4. Len(n.sources) # 0
  <2> DEFINE k == Len(n.sources)
  <2>1. k \in 1..16
    BY <1>1, Zenon
  <2> HIDE DEF k
  <2>2. k # 0
    BY <2>1
  <2> QED
    BY <2>2 DEF k
<1>5. ASSUME NEW i \in DOMAIN n.sources
      PROVE  LET s == n.sources[i] IN
             /\ s.id \in StableNames /\ LoopbackHost(s.listener.host)
             /\ \A j \in 1..(i - 1) : n.sources[j].id # s.id
  <2>1. n.sources[i].id \in StableNames /\ LoopbackHost(n.sources[i].listener.host)
    BY <1>1, Zenon DEF SourceAccepted
  <2>2. ASSUME NEW j \in 1..(i - 1)
        PROVE  j \in DOMAIN n.sources /\ j # i
    BY <2>2
  <2> QED
    BY <1>2, <2>1, <2>2, Zenon
<1>6. n.recording.root # "" => n.recording.root \in Paths
  <2>1. NoRecording.root = ""
    BY Zenon DEF NoRecording
  <2> QED
    BY <1>1, <2>1, Zenon DEF RecordingAccepted
<1>7. RenderAccepts(n)
  BY <1>4, <1>5, <1>6, Zenon DEF RenderAccepts
<1> QED
  BY <1>2, <1>3, <1>7 DEF Guarantees

-----------------------------------------------------------------------------
(* The way of a configuration through the edge.                            *)

\* Until it is accepted the configuration is the one that was given; from then
\* on it is the normal form of one that was accepted, and it was rendered.
ConfigInv ==
  /\ stage \in {"read", "refused"} => config \in Inputs
  /\ stage \notin {"read", "refused"} =>
       (\E c \in Inputs : Accepted(c) /\ config = Normal(c))
  /\ stage # "unrendered"

\* The normal form of an accepted configuration has what was guaranteed of it.
LEMMA NormalGuarantees ==
  ASSUME NEW c \in Inputs, Accepted(c), NEW n, n = Normal(c)
  PROVE  /\ Normal(n) = n /\ Accepted(n)
         /\ Guarantees(n)
<1> DEFINE d == DefaultBudget
<1>1. /\ ConfigTyped(c) /\ Len(c.sources) \in Nat /\ DOMAIN c.sources = 1..Len(c.sources)
  BY InputsAssumption
<1>2. d.maxCaptureBytes \in Int /\ d.maxRetainedBytes \in Int
  BY SMT DEF DefaultBudget, MiB
<1> HIDE DEF d
<1>3. c.maxCaptureBytes \in Int /\ c.maxRetainedBytes \in Int
  BY <1>1 DEF ConfigTyped
<1>4. /\ n.maxCaptureBytes = Default(c.maxCaptureBytes, d.maxCaptureBytes)
      /\ n.maxRetainedBytes = Default(c.maxRetainedBytes, d.maxRetainedBytes)
      /\ n.sources = [i \in DOMAIN c.sources |-> NormalSource(c.sources[i])]
  BY <1>1, NormalSettings DEF d
<1>5. n.maxCaptureBytes \in Int /\ n.maxRetainedBytes \in Int
  BY <1>2, <1>3, <1>4 DEF Default
<1>6. Len(n.sources) \in Nat /\ DOMAIN n.sources = 1..Len(n.sources)
  BY <1>1, <1>4
<1>7. Normal(n) = n /\ Accepted(n)
  BY NormalTwice, Zenon
<1> QED
  BY <1>5, <1>6, <1>7, AcceptedGuarantees, Zenon

\* The configuration is what its stage says at the start.
LEMMA InitConfig == Init => ConfigInv
BY DEF Init, ConfigInv

\* Every step keeps what the stage says of the configuration.
LEMMA StepConfig == ConfigInv /\ [Next]_vars => ConfigInv'
<1> SUFFICES ASSUME ConfigInv, [Next]_vars
             PROVE  ConfigInv'
  OBVIOUS
<1>1. CASE Normalize
  <2>1. stage = "read" /\ config \in Inputs
    BY <1>1 DEF Normalize, ConfigInv
  <2>2. CASE Accepted(config)
    <3>1. stage' = "normal" /\ config' = Normal(config)
      BY <1>1, <2>2, Zenon DEF Normalize
    <3> QED
      BY <2>1, <2>2, <3>1 DEF ConfigInv
  <2>3. CASE ~Accepted(config)
    <3>1. stage' = "refused" /\ config' = config
      BY <1>1, <2>3, Zenon DEF Normalize
    <3> QED
      BY <2>1, <3>1 DEF ConfigInv
  <2> QED
    BY <2>2, <2>3
<1>2. CASE RenderPaths
  <2>1. stage = "normal" /\ config' = config /\ \E c \in Inputs : Accepted(c) /\ config = Normal(c)
    BY <1>2 DEF RenderPaths, ConfigInv
  <2>2. RenderAccepts(config)
    BY <2>1, NormalGuarantees, Zenon DEF Guarantees
  <2>3. stage' = "rendered"
    BY <1>2, <2>2, Zenon DEF RenderPaths
  <2> QED
    BY <2>1, <2>3 DEF ConfigInv
<1>3. CASE DescribePipelines
  <2>1. /\ stage = "rendered" /\ config' = config /\ stage' \in {"started", "failed"}
    BY <1>3, Zenon DEF DescribePipelines
  <2> QED
    BY <2>1 DEF ConfigInv
<1>4. CASE AdmitRecording
  BY <1>4 DEF AdmitRecording, ConfigInv
<1>5. CASE UNCHANGED vars
  BY <1>5 DEF vars, ConfigInv
<1> QED
  BY <1>1, <1>2, <1>3, <1>4, <1>5 DEF Next

\* The configuration is what its stage says, always.
LEMMA ConfigKept == Spec => []ConfigInv
  BY InitConfig, StepConfig, PTL DEF Spec

\* A configuration that is accepted is in normal form, accepted as such, fit to
\* be rendered, and its sources do not get in each other's way, for every
\* document and whatever the texts are (Config.normalized, Render).
THEOREM AcceptanceIsSound == Spec => []AcceptedIsSound
<1>1. ConfigInv => AcceptedIsSound
  <2> SUFFICES ASSUME ConfigInv, stage \notin {"read", "refused"}
               PROVE  /\ Normal(config) = config /\ Accepted(config) /\ Guarantees(config)
                      /\ stage # "unrendered"
    BY DEF AcceptedIsSound, Guarantees
  <2>1. PICK c \in Inputs : Accepted(c) /\ config = Normal(c)
    BY DEF ConfigInv
  <2>2. stage # "unrendered"
    BY DEF ConfigInv
  <2> QED
    BY <2>1, <2>2, NormalGuarantees, Zenon
<1> QED
  BY <1>1, ConfigKept, PTL

-----------------------------------------------------------------------------
(* The pipelines of an accepted configuration.                             *)

\* Every name that a parsed template refers to has a value, and the values of
\* its own parameters match their patterns.
LEMMA NamesHaveValues ==
  ASSUME NEW template, NEW pipeline,
         ParsePipelineTemplate(template), ResolveAccepts(template, pipeline)
  PROVE  LET values == Values(template, pipeline) IN
         /\ Names(template.command) \cup Names(Producer(template)) \subseteq DOMAIN values
         /\ \A n \in DOMAIN template.parameters : values[n] \in template.parameters[n].pattern
<1> DEFINE values == Values(template, pipeline)
           own == DOMAIN template.parameters
<1>1. ASSUME NEW v \in Vectors(template), NEW n \in Names(v)
      PROVE  n \in DOMAIN values
  <2>1. n \in BuiltinParameters \cup own
    BY <1>1, Zenon DEF ParsePipelineTemplate
  <2>2. n = "snapshotDir" => template.snapshot = TRUE
    <3>1. n = "snapshotDir" => UsesSnapshot(template) = TRUE
      BY <1>1, Zenon DEF UsesSnapshot
    <3>2. UsesSnapshot(template) = template.snapshot
      BY Zenon DEF ParsePipelineTemplate, SnapshotDeclared
    <3> QED
      BY <3>1, <3>2, Zenon
  <2> QED
    BY <2>1, <2>2, Zenon DEF Values
<1>2. Names(template.command) \subseteq DOMAIN values /\ Names(Producer(template)) \subseteq DOMAIN values
  BY <1>1, Zenon DEF Vectors
<1>3. ASSUME NEW n \in own
      PROVE  values[n] \in template.parameters[n].pattern
  <2>1. values[n] = Given(template, pipeline, n)
    BY <1>3, Zenon DEF Values
  <2> QED
    BY <1>3, <2>1, Zenon DEF ResolveAccepts
<1> QED
  BY <1>2, <1>3, Zenon

\* A vector of arguments is not lost when it is expanded or copied.
LEMMA ArgumentsKept ==
  ASSUME NEW vector \in Arguments, NEW values
  PROVE  /\ vector # <<>> => Expand(vector, values) # <<>>
         /\ AsWritten(vector) = <<>> <=> vector = <<>>
<1>1. vector = <<>> <=> DOMAIN vector = {}
  BY DEF Arguments
<1>2. DOMAIN <<>> = {}
  OBVIOUS
<1>3. DOMAIN Expand(vector, values) = DOMAIN vector /\ DOMAIN AsWritten(vector) = DOMAIN vector
  BY Zenon DEF Expand, AsWritten
<1>4. vector = <<>> => AsWritten(vector) = <<>>
  BY <1>1 DEF AsWritten
<1> QED
  BY <1>1, <1>2, <1>3, <1>4, Zenon

\* A branch reads its input from a producer exactly if its template says so.
LEMMA ProducerResolved ==
  ASSUME NEW template, NEW pipeline,
         ParsePipelineTemplate(template), ResolveAccepts(template, pipeline),
         template.producer \in Arguments, pipeline.producer \in Arguments
  PROVE  template.input = Stdin <=> Resolve(template, pipeline).producer # <<>>
<1> DEFINE values == Values(template, pipeline)
           producer == Resolve(template, pipeline).producer
<1>0. producer = IF Producer(template) # <<>> THEN Expand(template.producer, values)
                 ELSE IF pipeline.producer = NoVector THEN <<>> ELSE AsWritten(pipeline.producer)
  BY DEF Resolve
<1>1. /\ template.producer # NoVector => template.input = Stdin /\ template.producer # <<>>
      /\ ~(template.input = Stdin /\ Producer(template) = <<>> /\ pipeline.producer \in {NoVector, <<>>})
      /\ ~(template.input # Stdin /\ pipeline.producer \notin {NoVector, <<>>})
  BY Zenon DEF ParsePipelineTemplate, ResolveAccepts, ProducerFits
<1> HIDE DEF producer, values
<1>2. CASE Producer(template) # <<>>
  <2>1. template.producer # NoVector
    BY <1>2, Zenon DEF Producer
  <2>2. template.input = Stdin /\ template.producer # <<>>
    BY <1>1, <2>1, Zenon
  <2>3. producer # <<>>
    BY <1>0, <1>2, <2>2, ArgumentsKept, Zenon
  <2> QED
    BY <2>2, <2>3, Zenon DEF producer
<1>3. CASE Producer(template) = <<>> /\ pipeline.producer = NoVector
  <2>1. producer = <<>>
    BY <1>0, <1>3, Zenon
  <2> QED
    BY <1>1, <1>3, <2>1, Zenon DEF producer
<1>4. CASE Producer(template) = <<>> /\ pipeline.producer # NoVector
  <2>1. producer = AsWritten(pipeline.producer)
    BY <1>0, <1>4, Zenon
  <2>2. producer = <<>> <=> pipeline.producer = <<>>
    BY <2>1, ArgumentsKept, Zenon
  <2> QED
    BY <1>1, <1>4, <2>2, Zenon DEF producer
<1> QED
  BY <1>2, <1>3, <1>4

\* A number of pixels is within the limit exactly if each row is.
LEMMA PixelsFit ==
  ASSUME NEW width \in Nat, NEW height \in Nat, height > 0, NEW limit \in Nat
  PROVE  width <= limit \div height \/ width * height > limit
<1> DEFINE q == limit \div height
<1>1. q \in Nat /\ limit < height * (q + 1)
  BY Quotient
<1> HIDE DEF q
<1>2. CASE width <= q
  BY <1>2 DEF q
<1>3. CASE ~(width <= q)
  <2>1. q + 1 \in Nat /\ q + 1 <= width
    BY <1>1, <1>3
  <2>2. height * (q + 1) \in Nat /\ height * width \in Nat /\ height * (q + 1) <= height * width
    BY <2>1, ProductGrows
  <2>3. width * height = height * width
    OBVIOUS
  <2> HIDE DEF q
  <2> QED
    BY <1>1, <2>2, <2>3
<1> QED
  BY <1>2, <1>3

\* A frame rate matches itself.
LEMMA RateMatchesItself ==
  ASSUME NEW rate \in Int
  PROVE  NominalFrameRatesMatch(rate, rate)
<1> DEFINE tolerance == Larger(1, rate \div MicroHz)
<1>1. rate \div MicroHz \in Int
  BY SMT DEF MicroHz
<1>2. tolerance \in Int /\ tolerance >= 1
  BY <1>1 DEF Larger
<1> HIDE DEF tolerance
<1>3. rate - rate \in -tolerance..tolerance
  BY <1>2
<1> QED
  BY <1>3, Zenon DEF NominalFrameRatesMatch, tolerance

\* The picture of a pipeline's description is one that is accepted, unless no
\* capture could hold it.
Pictured(m) ==
  /\ m.width >= 16 /\ m.height >= 16
  /\ m.fps > 0 /\ m.fps <= 240 * MicroHz
  /\ m.frameId # ""

\* A pipeline that was accepted describes itself as Start expects it to, unless
\* no capture could hold its pictures.
LEMMA DescribesItself ==
  ASSUME NEW s, SourceTyped(s), PipelineAccepted(s)
  PROVE  LET reply == Description(s) IN
         /\ Described(s, reply).source = s
         /\ Described(s, reply).captureSupported <=> Resolved(s).snapshotDir = TRUE
         /\ DescribeAccepts(s, reply) \/ s.metadata.width * s.metadata.height > MaxRGB \div 3
<1> DEFINE reply == Description(s)
           m == s.metadata
<1>1. /\ reply.contract /\ reply.sourceId = s.id /\ reply.destination = s.listener
      /\ reply.metadata = m /\ reply.keyframeRequestSupported /\ reply.keyframePolicy = "restart"
      /\ reply.capabilities = {"start", "stop", "request-keyframe"} \cup
           (IF Resolved(s).snapshotDir THEN {"capture", "fresh-snapshot"} ELSE {})
  BY Zenon DEF Description
<1> HIDE DEF reply
<1>2. /\ m.width \in Int /\ m.height \in Int /\ m.fps \in Int
      /\ s = [s EXCEPT !.metadata = m]
  BY DEF SourceTyped
<1>3. Described(s, reply).source = s
  BY <1>1, <1>2, Zenon DEF Described
<1>4. Described(s, reply).captureSupported <=> Resolved(s).snapshotDir = TRUE
  <2>1. "capture" \in reply.capabilities <=> Resolved(s).snapshotDir = TRUE
    BY <1>1, Zenon
  <2> QED
    BY <2>1, Zenon DEF Described
<1>5. Pictured(m)
  <2>1. m.fps >= MicroHz /\ m.fps <= 240 * MicroHz /\ m.width >= 16 /\ m.height >= 16 /\ m.frameId # ""
    BY Zenon DEF PipelineAccepted
  <2>2. m.fps > 0
    <3>1. MicroHz \in Int /\ MicroHz > 0
      BY SMT DEF MicroHz
    <3>2. m.fps \in Int /\ m.fps >= MicroHz
      BY <1>2, <2>1, Zenon
    <3> QED
      BY <3>1, <3>2, SMT
  <2> QED
    BY <2>1, <2>2, Zenon DEF Pictured
<1>6. DestinationAccepted(s.listener, reply.destination)
  BY <1>1, Zenon DEF DestinationAccepted, PipelineAccepted, LoopbackHost
<1>7. /\ RequiredCapabilities(s) \subseteq reply.capabilities
      /\ "capture" \in reply.capabilities <=> "fresh-snapshot" \in reply.capabilities
      /\ "request-keyframe" \in reply.capabilities
  <2>1. RequiredCapabilities(s) = {"start", "stop"}
    BY Zenon DEF RequiredCapabilities, PipelineAccepted
  <2> QED
    BY <1>1, <2>1, Zenon
<1>8. NominalFrameRatesMatch(reply.metadata.fps, m.fps)
  BY <1>1, <1>2, RateMatchesItself, Zenon
<1> DEFINE limit == MaxRGB \div 3
<1>9. limit \in Nat
  BY SMT DEF MaxRGB, MiB
<1> HIDE DEF limit
<1>10. m.width <= limit \div m.height \/ m.width * m.height > limit
  <2>1. m.width \in Nat /\ m.height \in Nat /\ m.height > 0
    <3>1. m.width >= 16 /\ m.height >= 16
      BY <1>5, Zenon DEF Pictured
    <3> QED
      BY <1>2, <3>1
  <2> QED
    BY <1>9, <2>1, PixelsFit, Zenon
<1>11. ASSUME m.width <= limit \div m.height
       PROVE  DescribeAccepts(s, reply)
  <2>1. /\ reply.metadata.width >= 16 /\ reply.metadata.height >= 16
        /\ reply.metadata.width <= limit \div reply.metadata.height
        /\ reply.metadata.fps > 0 /\ reply.metadata.fps <= 240 * MicroHz
        /\ reply.metadata.frameId # ""
    BY <1>1, <1>5, <1>11, Zenon DEF Pictured
  <2>2. reply.keyframePolicy # ""
    BY <1>1, Zenon
  <2>3. [reply.metadata EXCEPT !.fps = 0] = [s.metadata EXCEPT !.fps = 0]
    BY <1>1, Zenon
  <2> QED
    BY <1>1, <1>6, <1>7, <1>8, <2>1, <2>2, <2>3, Zenon DEF DescribeAccepts, limit
<1> QED
  BY <1>3, <1>4, <1>10, <1>11, Zenon DEF reply, limit

\* What was accepted of a pipeline.
LEMMA PipelineAccepts ==
  ASSUME NEW c \in Inputs, Accepted(c), config = Normal(c), NEW s \in Pipelines
  PROVE  /\ SourceTyped(s) /\ PipelineAccepted(s)
         /\ ParsePipelineTemplate(s.pipeline.template)
         /\ ResolveAccepts(s.pipeline.template, s.pipeline)
         /\ s.pipeline.template.command \in Arguments
         /\ s.pipeline.template.producer \in Arguments /\ s.pipeline.producer \in Arguments
<1>1. PICK i \in DOMAIN config.sources : IsPipeline(config.sources[i]) /\ s = config.sources[i]
  BY Zenon DEF Pipelines
<1>2. /\ ConfigTyped(c) /\ DOMAIN c.sources = 1..Len(c.sources)
      /\ \A k \in DOMAIN c.sources : SourceTyped(c.sources[k]) /\ PipelineTyped(c.sources[k].pipeline)
  BY InputsAssumption, Zenon
<1>3. config.sources = [k \in DOMAIN c.sources |-> NormalSource(c.sources[k])]
  BY <1>2, NormalSettings, Zenon
<1>4. i \in DOMAIN c.sources /\ s = NormalSource(c.sources[i])
  BY <1>1, <1>3, Zenon
<1>5. SourceTyped(s) /\ s.pipeline = c.sources[i].pipeline
  BY <1>2, <1>4, NormalSourceTwice DEF NormalSource
<1>6. SourceAccepted(s) /\ TemplateAccepted(s)
  BY <1>1, Zenon DEF Accepted
<1>7. PipelineAccepted(s)
  <2>1. s.kind # "camera-source"
    BY <1>1, Zenon DEF IsPipeline
  <2> QED
    BY <1>6, <2>1, Zenon DEF SourceAccepted, CameraAccepted
<1>8. /\ s.pipeline.template # NoDocument /\ ParsePipelineTemplate(s.pipeline.template)
      /\ ResolveAccepts(s.pipeline.template, s.pipeline)
  BY <1>1, <1>6, Zenon DEF TemplateAccepted
<1>9. PipelineTyped(s.pipeline) /\ s.pipeline # NoPipeline
  BY <1>2, <1>4, <1>5, <1>7, Zenon DEF PipelineAccepted
<1> QED
  BY <1>5, <1>7, <1>8, <1>9, Zenon DEF PipelineTyped

\* A started edge has accepted what each of its pipelines said.
StartedInv == stage = "started" => \A s \in Pipelines : DescribeAccepts(s, Description(s))

\* Every step keeps what a started edge has accepted.
LEMMA StepStarted == StartedInv /\ [Next]_vars => StartedInv'
<1> SUFFICES ASSUME StartedInv, [Next]_vars, stage' = "started"
             PROVE  (\A s \in Pipelines : DescribeAccepts(s, Description(s)))'
  BY DEF StartedInv
<1>1. ASSUME config' = config, \A s \in Pipelines : DescribeAccepts(s, Description(s))
      PROVE  (\A s \in Pipelines : DescribeAccepts(s, Description(s)))'
  BY <1>1, Zenon DEF Pipelines
<1>2. ~Normalize /\ ~RenderPaths
  BY Zenon DEF Normalize, RenderPaths
<1>3. CASE DescribePipelines
  <2>1. config' = config
    BY <1>3, Zenon DEF DescribePipelines
  <2>2. \A s \in Pipelines : DescribeAccepts(s, Description(s))
    BY <1>3, Zenon DEF DescribePipelines
  <2> QED
    BY <1>1, <2>1, <2>2
<1>4. CASE AdmitRecording
  <2>1. config' = config /\ stage = "started"
    BY <1>4, Zenon DEF AdmitRecording
  <2> QED
    BY <1>1, <2>1, Zenon DEF StartedInv
<1>5. CASE UNCHANGED vars
  <2>1. config' = config /\ stage = "started"
    BY <1>5, Zenon DEF vars
  <2> QED
    BY <1>1, <2>1, Zenon DEF StartedInv
<1> QED
  BY <1>2, <1>3, <1>4, <1>5, Zenon DEF Next

\* A pipeline that was accepted can be served: its placeholders have values, its
\* parameters match their patterns, it has a producer exactly if its template
\* reads one, it captures exactly if its command writes snapshots, and Start
\* takes its description unless no capture could hold its pictures, whatever the
\* template and the source say (resolvePipeline, describeSourceWith).
THEOREM PipelinesServed == Spec => []PipelinesAreServable
<1>1. ConfigInv /\ StartedInv => PipelinesAreServable
  <2> SUFFICES ASSUME ConfigInv, StartedInv, stage \notin {"read", "refused"}, NEW s \in Pipelines
               PROVE  LET template == s.pipeline.template
                          values == Values(template, s.pipeline)
                          reply == Description(s)
                          captures == Described(s, reply).captureSupported
                      IN /\ Names(template.command) \cup Names(Producer(template)) \subseteq DOMAIN values
                         /\ \A n \in DOMAIN template.parameters : values[n] \in template.parameters[n].pattern
                         /\ template.input = Stdin <=> Resolved(s).producer # <<>>
                         /\ captures <=> WritesSnapshots(template)
                         /\ DescribeAccepts(s, reply) \/ s.metadata.width * s.metadata.height > MaxRGB \div 3
                         /\ stage = "started" => DescribeAccepts(Described(s, reply).source, reply)
    BY Zenon DEF PipelinesAreServable
  <2> DEFINE template == s.pipeline.template
             reply == Description(s)
  <2>1. PICK c \in Inputs : Accepted(c) /\ config = Normal(c)
    BY DEF ConfigInv
  <2>2. /\ SourceTyped(s) /\ PipelineAccepted(s)
        /\ ParsePipelineTemplate(template) /\ ResolveAccepts(template, s.pipeline)
        /\ template.command \in Arguments
        /\ template.producer \in Arguments /\ s.pipeline.producer \in Arguments
    BY <2>1, PipelineAccepts, Zenon
  <2>3. /\ Names(template.command) \cup Names(Producer(template)) \subseteq DOMAIN Values(template, s.pipeline)
        /\ \A n \in DOMAIN template.parameters :
             Values(template, s.pipeline)[n] \in template.parameters[n].pattern
    BY <2>2, NamesHaveValues, Zenon
  <2>4. template.input = Stdin <=> Resolved(s).producer # <<>>
    BY <2>2, ProducerResolved, Zenon DEF Resolved
  <2>5. /\ Described(s, reply).source = s
        /\ Described(s, reply).captureSupported <=> Resolved(s).snapshotDir = TRUE
        /\ DescribeAccepts(s, reply) \/ s.metadata.width * s.metadata.height > MaxRGB \div 3
    BY <2>2, DescribesItself, Zenon
  <2>6. Resolved(s).snapshotDir = template.snapshot
    BY DEF Resolved, Resolve
  <2>7. template.snapshot = TRUE <=> WritesSnapshots(template)
    <3>1. /\ UsesSnapshot(template) = template.snapshot
          /\ template.snapshot => WritesSnapshots(template)
      BY <2>2, Zenon DEF ParsePipelineTemplate, SnapshotDeclared
    <3>2. ASSUME WritesSnapshots(template)
          PROVE  UsesSnapshot(template) = TRUE
      <4>1. PICK i \in DOMAIN template.command :
              \E k \in 1..(Len(template.command[i]) - 1) :
                /\ template.command[i][k] = Placeholder("snapshotDir")
                /\ template.command[i][k + 1] = SnapshotFile
        BY <3>2, Zenon DEF WritesSnapshots
      <4>2. PICK k \in 1..(Len(template.command[i]) - 1) :
              template.command[i][k] = Placeholder("snapshotDir")
        BY <4>1, Zenon
      <4>3. k \in DOMAIN template.command[i]
        BY <2>2 DEF Arguments
      <4>4. Placeholder("snapshotDir") \in PieceSet(template.command[i])
        BY <4>2, <4>3, Zenon DEF PieceSet
      <4>5. Placeholder("snapshotDir").is = "snapshotDir" /\ Placeholder("snapshotDir").placeholder
        BY Zenon DEF Placeholder
      <4>6. "snapshotDir" \in Names(template.command)
        <5>1. Placeholder("snapshotDir") \in
                UNION {PieceSet(template.command[j]) : j \in DOMAIN template.command}
          BY <4>1, <4>4, Zenon
        <5>2. Placeholder("snapshotDir") \in
                {q \in UNION {PieceSet(template.command[j]) : j \in DOMAIN template.command} : q.placeholder}
          BY <4>5, <5>1, Zenon
        <5> QED
          BY <4>5, <5>2, Zenon DEF Names
      <4> QED
        BY <4>6, Zenon DEF UsesSnapshot, Vectors
    <3> QED
      BY <3>1, <3>2, Zenon
  <2>8. stage = "started" => DescribeAccepts(Described(s, reply).source, reply)
    BY <2>5, Zenon DEF StartedInv
  <2> QED
    BY <2>3, <2>4, <2>5, <2>6, <2>7, <2>8, Zenon
<1>2. Init => StartedInv
  BY Zenon DEF Init, StartedInv
<1> QED
  BY <1>1, <1>2, StepStarted, ConfigKept, PTL DEF Spec

-----------------------------------------------------------------------------
(* The admission of recordings.                                            *)

\* An estimate of a recording is a number of bytes, if its settings are sound.
LEMMA MediaIsNatural ==
  ASSUME NEW kilobits \in Nat, NEW seconds \in Nat, NEW factor \in Nat
  PROVE  RequiredMedia(kilobits, seconds, factor) \in Nat
<1>1. kilobits * seconds \in Nat
  BY ProductGrows
<1> DEFINE p == kilobits * seconds
<1> HIDE DEF p
<1>2. p * factor \in Nat
  BY <1>1, ProductGrows DEF p
<1> DEFINE q == p * factor
<1> HIDE DEF q
<1>3. q * 5 + 3 \in Nat
  BY <1>2 DEF q
<1>4. (q * 5 + 3) \div 4 \in Nat
  BY <1>3, Quotient
<1> QED
  BY <1>4 DEF RequiredMedia, q, p

\* Nothing is admitted before the edge is started, and what is admitted fits.
AdmittedInv ==
  /\ disk.blocks \in Word /\ disk.size \in Word
  /\ admitted \in Seq(Nat)
  /\ stage # "started" => admitted = <<>>
  /\ AdmittedFits

\* Nothing is admitted at the start.
LEMMA InitAdmitted == Init => AdmittedInv
<1> SUFFICES ASSUME Init
             PROVE  AdmittedInv
  OBVIOUS
<1>1. disk \in Disks \/ disk = [blocks |-> 0, size |-> 1]
  BY Zenon DEF Init
<1>2. disk.blocks \in Word /\ disk.size \in Word
  <2>1. CASE disk \in Disks
    BY <2>1, RecordingAssumption
  <2>2. CASE disk = [blocks |-> 0, size |-> 1]
    <3>1. 0 \in Word /\ 1 \in Word
      BY WordAssumption DEF Word
    <3> QED
      BY <2>2, <3>1
  <2> QED
    BY <1>1, <2>1, <2>2
<1>3. admitted = <<>> /\ admitted \in Seq(Nat) /\ DOMAIN admitted = {}
  BY DEF Init
<1> QED
  BY <1>2, <1>3 DEF AdmittedInv, AdmittedFits

\* Every step keeps it: the configuration, and with it the reserve, changes only
\* while nothing is admitted.
LEMMA StepAdmitted == ConfigInv /\ AdmittedInv /\ [Next]_vars => AdmittedInv'
<1> SUFFICES ASSUME ConfigInv, AdmittedInv, [Next]_vars
             PROVE  AdmittedInv'
  OBVIOUS
<1>1. ASSUME stage # "started", stage' # "started" \/ stage = "rendered", disk' = disk, admitted' = admitted
      PROVE  AdmittedInv'
  BY <1>1 DEF AdmittedInv, AdmittedFits
<1>2. CASE Normalize
  <2>1. stage = "read" /\ stage' \in {"normal", "refused"} /\ disk' = disk /\ admitted' = admitted
    BY <1>2, Zenon DEF Normalize
  <2> QED
    BY <1>1, <2>1
<1>3. CASE RenderPaths
  <2>1. stage = "normal" /\ stage' \in {"rendered", "unrendered"} /\ disk' = disk /\ admitted' = admitted
    BY <1>3, Zenon DEF RenderPaths
  <2> QED
    BY <1>1, <2>1
<1>4. CASE DescribePipelines
  <2>1. stage = "rendered" /\ disk' = disk /\ admitted' = admitted
    BY <1>4, Zenon DEF DescribePipelines
  <2> QED
    BY <1>1, <2>1
<1>5. CASE AdmitRecording
  <2>1. PICK seconds \in Lengths :
          LET media == RequiredMedia(config.recording.kilobits, seconds, config.recording.factor) IN
          /\ EnsureRecordingCapacity(disk.blocks, disk.size, media, config.recording.minimumFree)
          /\ admitted' = Append(admitted, media)
    BY <1>5, Zenon DEF AdmitRecording
  <2> DEFINE media == RequiredMedia(config.recording.kilobits, seconds, config.recording.factor)
             reserve == config.recording.minimumFree
  <2>2. /\ stage = "started" /\ config.recording.root # "" /\ reserve \in Word
        /\ config' = config /\ stage' = stage /\ disk' = disk
    BY <1>5, Zenon DEF AdmitRecording
  <2>3. media \in Nat
    <3>1. PICK c \in Inputs : Accepted(c) /\ config = Normal(c)
      BY <2>2 DEF ConfigInv
    <3>2. Accepted(config)
      BY <3>1, NormalGuarantees, Zenon
    <3>3. RecordingAccepted(config.recording)
      BY <3>1, NormalTwice, Zenon DEF Accepted
    <3>4. config.recording.kilobits > 0 /\ config.recording.factor >= 100
      <4>1. NoRecording.root = ""
        BY Zenon DEF NoRecording
      <4>2. config.recording # NoRecording
        BY <2>2, <4>1, Zenon
      <4>3. WithinLimits(config.recording)
        BY <3>3, <4>2, Zenon DEF RecordingAccepted
      <4> QED
        BY <4>3, SMT DEF WithinLimits
    <3>5. config.recording \in RecordingSettings
      <4>1. ConfigTyped(c)
        BY InputsAssumption
      <4>2. c.recording \in RecordingSettings /\ config.recording = NormalRecording(c.recording)
        BY <3>1, <4>1, NormalSettings DEF ConfigTyped
      <4> QED
        BY <4>2, NormalRecordingTwice, Zenon
    <3>6. config.recording.kilobits \in Nat /\ config.recording.factor \in Int
      BY <3>5 DEF RecordingSettings
    <3>7. seconds \in Nat /\ config.recording.factor \in Nat
      BY <3>4, <3>6, RecordingAssumption
    <3> QED
      BY <3>6, <3>7, MediaIsNatural, Zenon
  <2>4. Fits(disk.blocks, disk.size, media, reserve)
    BY <2>1, <2>2, <2>3, AdmitsWhatFits DEF AdmittedInv
  <2> HIDE DEF media, reserve
  <2>5. /\ admitted' = Append(admitted, media) /\ admitted \in Seq(Nat)
    BY <2>1 DEF AdmittedInv, media
  <2>6. /\ admitted' \in Seq(Nat)
        /\ \A i \in DOMAIN admitted' :
             \/ i \in DOMAIN admitted /\ admitted'[i] = admitted[i]
             \/ admitted'[i] = media
    BY <2>3, <2>5
  <2>7. \A i \in DOMAIN admitted : Fits(disk.blocks, disk.size, admitted[i], reserve)
    BY DEF AdmittedInv, AdmittedFits, reserve
  <2>8. \A i \in DOMAIN admitted' : Fits(disk.blocks, disk.size, admitted'[i], reserve)
    BY <2>4, <2>6, <2>7
  <2>9. AdmittedFits'
    BY <2>2, <2>8 DEF AdmittedFits, reserve
  <2> QED
    BY <2>2, <2>6, <2>9 DEF AdmittedInv
<1>6. CASE UNCHANGED vars
  BY <1>6 DEF vars, AdmittedInv, AdmittedFits
<1> QED
  BY <1>2, <1>3, <1>4, <1>5, <1>6 DEF Next

\* A recording that was admitted has room for its media and leaves the reserve,
\* for every size of a word, disk, bitrate and length (ensureRecordingCapacity).
THEOREM AdmissionsFit == Spec => []AdmittedFits
<1>1. AdmittedInv => AdmittedFits
  BY DEF AdmittedInv
<1> QED
  BY <1>1, InitAdmitted, StepAdmitted, ConfigKept, PTL DEF Spec
=============================================================================
