---------------------------- MODULE MCMultipart ----------------------------
(***************************************************************************)
(* Instances of Multipart for TLC: a field and two files; the ways that    *)
(* leave the buffer alone while it is read, and the one that does not.     *)
(***************************************************************************)
EXTENDS Multipart

Way(ex, retrying) == [ex |-> ex, retrying |-> retrying]

SafeWays == {Way(FALSE, FALSE), Way(FALSE, TRUE), Way(TRUE, TRUE)}
ExWithoutRetries == {Way(TRUE, FALSE)}
=============================================================================
