------------------------------ MODULE Buckets ------------------------------
(***************************************************************************)
(* The bucket arithmetic of store.rs, on u64s no larger than MaxTime: how  *)
(* many buckets a range of time needs, and the widths step_for_max_points  *)
(* tries, in the order it tries them.                                      *)
(***************************************************************************)
EXTENDS Naturals

CONSTANT MaxTime \* u64::MAX

ASSUME MaxTimeAssumption == MaxTime \in Nat

AtLeast(n, low) == IF n < low THEN low ELSE n

Saturated(n) == IF n > MaxTime THEN MaxTime ELSE n

DivCeil(n, d) == (n + d - 1) \div d

(* Mutant: the buckets are taken to start at `first`, not at the epoch.    *)
BucketCountUnaligned(first, last, step) ==
  ((last - first) \div step + 1) % (MaxTime + 1)

(* How many step-wide buckets, aligned to the epoch, cover first..last.    *)
(* The last addition wraps in a release build.                             *)
BucketCount(first, last, step) ==
  (((last - (last % step)) - (first - (first % step))) \div step + 1) % (MaxTime + 1)

(* step rounded up to a whole number of samples, at least one.             *)
WholeSamples(step, interval) ==
  AtLeast(Saturated(DivCeil(step, interval) * interval), interval)

(* The width tried first: what the span of the data alone suggests.        *)
FirstStep(first, last, points, interval) ==
  WholeSamples(DivCeil(Saturated(last - first + 1), points), interval)

(* Mutant: the width tried next is the one just tried.                     *)
WiderSame(step, interval) == WholeSamples(step, interval)

(* Mutant: the width tried next is not rounded to whole samples.           *)
WiderUnrounded(step, interval) == Saturated(step + DivCeil(step, 8))

(* The width tried after step: about an eighth more.                       *)
Wider(step, interval) ==
  WholeSamples(Saturated(step + DivCeil(step, 8)), interval)
=============================================================================
