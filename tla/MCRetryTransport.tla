-------------------------- MODULE MCRetryTransport --------------------------
(***************************************************************************)
(* Instances of RetryTransport for TLC.  The .cfg files give the limit and *)
(* the callbacks; statuses and error kinds are those the policy tells      *)
(* apart.                                                                  *)
(***************************************************************************)
EXTENDS RetryTransport
=============================================================================
