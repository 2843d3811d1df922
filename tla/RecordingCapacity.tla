-------------------------- MODULE RecordingCapacity --------------------------
(***************************************************************************)
(* The admission of a recording by the free space of its filesystem        *)
(* (internal/mediaedge/recording_contract.go).  The sums are done in       *)
(* unsigned words that wrap around, with a word size of the model's own.   *)
(***************************************************************************)
EXTENDS Integers

CONSTANT MaxUint64    \* the largest unsigned word

ASSUME WordAssumption == MaxUint64 \in Nat \ {0}

Word == 0..MaxUint64

Wrapped(n) == n % (MaxUint64 + 1)

SaturatingMultiply(left, right) ==
  IF left # 0 /\ right > MaxUint64 \div left THEN MaxUint64 ELSE Wrapped(left * right)

Mutant_Wraps(left, right) == Wrapped(left + right)
SaturatingAdd(left, right) ==
  IF right > MaxUint64 - left THEN MaxUint64 ELSE Wrapped(left + right)

\* Bytes that a recording may take, rounded up: kilobits per second at the peak,
\* seconds, and the safety factor in hundredths.  Exact, where the code multiplies
\* as float64: what the accepted limits allow stays below 2^53 bytes, where the
\* two are a few bytes apart at most.
RequiredMedia(kilobits, seconds, factor) == (kilobits * seconds * factor * 5 + 3) \div 4

\* The estimate is refused if it does not fit in a word, then compared with the
\* blocks that statfs counts.
EnsureRecordingCapacity(blocks, size, media, reserve) ==
  /\ media <= MaxUint64
  /\ ~(SaturatingMultiply(blocks, size) < SaturatingAdd(media, reserve))

Saturated(n) == IF n > MaxUint64 THEN MaxUint64 ELSE n

\* What an admission promises: there is room for the media and the reserve, as
\* far as a word can tell.
Fits(blocks, size, media, reserve) == blocks * size >= Saturated(media + reserve)
=============================================================================
