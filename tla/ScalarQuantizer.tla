-------------------------- MODULE ScalarQuantizer --------------------------
(***************************************************************************)
(* core/quantization.py, for vectors of one component: an object as a      *)
(* record, its methods as operators.  Components are integers, so far      *)
(* apart that the width of a bucket does not tell them apart: decoding     *)
(* rounds to the nearest of them.  What is lost by clipping is lost here   *)
(* as well.  The fitted range is kept in tenths, because of the margin.    *)
(***************************************************************************)
EXTENDS Integers, FiniteSets, FiniteSetsExt

CONSTANT MinSamples   \* min_samples of should_refit

Codes == 0..255

(* a / b rounded as numpy does, halves to the even neighbor.               *)
Round(a, b) ==
  LET below == a \div b
      twice == 2 * (a % b)
  IN  IF twice < b \/ (twice = b /\ below % 2 = 0) THEN below ELSE below + 1

Unfitted == [fitted |-> FALSE, min |-> 0, max |-> 0, clipped |-> 0, total |-> 0]

(* Fault for the checks: the maximum gets no margin, and loses one.        *)
FitTooTight(sample) ==
  [Unfitted EXCEPT !.fitted = TRUE, !.min = 10 * Min(sample), !.max = 9 * Max(sample)]

(* fit(): a tenth of the sample's range is added on either side.           *)
Fit(sample) ==
  LET pad == Max(sample) - Min(sample)
  IN  [Unfitted EXCEPT !.fitted = TRUE,
                       !.min = 10 * Min(sample) - pad,
                       !.max = 10 * Max(sample) + pad]

(* The bucket of a component before clipping.  A range without width is    *)
(* taken for one of 1e-8, of which everything else is far outside.         *)
Bucket(q, v) ==
  IF q.max > q.min THEN Round((10 * v - q.min) * 255, q.max - q.min)
  ELSE IF 10 * v = q.min THEN 0 ELSE IF 10 * v < q.min THEN -1 ELSE 256

(* _track_clipping()                                                       *)
Tracked(q, v) ==
  [q EXCEPT !.total = @ + 1, !.clipped = IF Bucket(q, v) \in Codes THEN @ ELSE @ + 1]

(* Fault for the checks: no np.clip.                                       *)
Unclipped(q, v) == Bucket(q, v)

(* np.clip of the bucket, to uint8.                                        *)
Encode(q, v) == Max({0, Min({255, Bucket(q, v)})})

Decode(q, code) == Round(255 * q.min + code * (q.max - q.min), 2550)

(* should_refit(), with its threshold of 2%.                               *)
ShouldRefit(q) == q.total >= MinSamples /\ 50 * q.clipped > q.total
=============================================================================
