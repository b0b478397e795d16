------------------------- MODULE RoundTripContract -------------------------
(***************************************************************************)
(* What the retry layer, under the default policy, promises http.Client of *)
(* one round trip: it sends the request a bounded number of times, at most *)
(* once more after the context has ended, gives one answer and sends       *)
(* nothing after it.  An answer is an error, or a response that follows a  *)
(* send and comes before the end of the context.  Both together come only  *)
(* after that end, or from the caller's hook, which may as well leave      *)
(* neither; the policy then dereferences nil.                              *)
(***************************************************************************)
EXTENDS Integers

CONSTANTS
    Limit,     \* how often a request may be sent
    HasHook    \* has the caller set a RetryErrorFunc?

VARIABLES
    sends,
    ended,     \* the context has ended
    late,      \* ... and the request has been sent since
    answer

vars == <<sends, ended, late, answer>>

Init ==
    /\ sends = 0
    /\ ended \in BOOLEAN
    /\ late = FALSE
    /\ answer = "none"

SendOnce ==
    /\ answer = "none"
    /\ sends < Limit
    /\ ~late
    /\ sends' = sends + 1
    /\ late' = ended
    /\ UNCHANGED <<ended, answer>>

EndContext ==
    /\ answer = "none"
    /\ ended' = TRUE
    /\ UNCHANGED <<sends, late, answer>>

\* Mutant: the policy reports a status it retries beside the response.
PairAlways == TRUE

PairAllowed == ended \/ HasHook

Answer ==
    /\ answer = "none"
    /\ \/ answer' = "error"
       \/ answer' = "response" /\ sends > 0 /\ ~ended
       \/ answer' = "both" /\ sends > 0 /\ PairAllowed
       \/ answer' = "panic" /\ sends > 0 /\ HasHook /\ ~ended
    /\ UNCHANGED <<sends, ended, late>>

Next == SendOnce \/ EndContext \/ Answer

Spec == Init /\ [][Next]_vars
=============================================================================
