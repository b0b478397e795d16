----------------------------- MODULE MCBackoff -----------------------------
(***************************************************************************)
(* Backoff on Durations of six bits, -32 .. 31, and floats of three bits,  *)
(* to which the minimum 9 and the maximum 31 do not belong.                *)
(***************************************************************************)
EXTENDS Backoff

SmallWaits  == {-3, 0, 1, 3, 9, 16, 31}
SomeSeconds == {-1, 0, 2, 11}
=============================================================================
