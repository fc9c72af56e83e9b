------------------------------ MODULE MCBackoff -----------------------------
(***************************************************************************)
(* Signed integers of five bits: the counter saturates at four, one less   *)
(* than the width, as 63 is one less than 64.  The pairs take in no base,  *)
(* no maximum, a base above the maximum and above the default, odd and     *)
(* even maxima, and a maximum at the end of the range.                     *)
(***************************************************************************)
EXTENDS Backoff

MCGiven == {0, 1, 3, 5, 12} \X {0, 5, 6, 8, 13, 15}

ASSUME TwoToIsPower == \A n \in 0..MaxFailures : TwoTo[n] = 2^n
=============================================================================
