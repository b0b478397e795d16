------------------------------ MODULE Exchange ------------------------------
(***************************************************************************)
(* HttpClient.Do from the finished request to the returned response        *)
(* (http_client.go): the debug dump, http.Client's redirects under the     *)
(* client's policy, one round trip per hop, GetLen behind it.  A round     *)
(* trip is what RoundTripContract promises, which RetryTransport           *)
(* implements; the deadline is one for all hops.                           *)
(***************************************************************************)
EXTENDS Integers

CONSTANTS
    Limit,        \* how often one round trip may send: the retry layer's limit
    HasHook,      \* has the retry layer a RetryErrorFunc?
    MaxRequests,  \* http.Client's own policy stops at this many, 10
    Policies,     \* OptRedirectPolicy: "default" when unset, "custom"
    Bodies        \* of "none", "replayable" (GetBody), "stream"

ASSUME ExchangeAssumption ==
    /\ Limit \in Nat \ {0} /\ MaxRequests \in Nat \ {0} /\ HasHook \in BOOLEAN
    /\ Policies \subseteq {"default", "custom"}
    /\ Bodies \subseteq {"none", "replayable", "stream"}

VARIABLES
    policy, body, debug, getLen,
    pc,
    hop,       \* redirects followed, as far as the bound goes
    carried,   \* what this hop's sendings carry
    consumed,  \* the stream has been read
    sends, ended, late, answer,   \* this hop's round trip
    status, open, err,            \* its response, its body, and the error of Do
    total, over, lateSends, left  \* history: sendings, sendings after the context
                                  \* ended, has a response been dropped unclosed?

callVars  == <<policy, body, debug, getLen>>
tripVars  == <<sends, ended, late, answer>>
respVars  == <<status, open, err>>
ghostVars == <<total, over, lateSends, left>>
vars == <<callVars, pc, hop, carried, consumed, tripVars, respVars, ghostVars>>

RoundTrip == INSTANCE RoundTripContract

\* Bounds: an endless chain of redirects is counted no further.
HopBound   == MaxRequests
TotalBound == Limit * MaxRequests + 1
Least(m, n) == IF m < n THEN m ELSE n

TypeOK ==
    /\ policy \in Policies /\ body \in Bodies
    /\ debug \in BOOLEAN /\ getLen \in BOOLEAN
    /\ pc \in {"dump", "hop", "answered", "finish", "returned"}
    /\ hop \in 0 .. HopBound
    /\ carried \in {"none", "part", "whole"}
    /\ consumed \in BOOLEAN
    /\ sends \in 0 .. Limit /\ ended \in BOOLEAN /\ late \in BOOLEAN
    /\ answer \in {"none", "response", "error", "both"}
    /\ status \in {"none", "final", "seeOther", "temporary"}
    /\ open \in BOOLEAN /\ err \in BOOLEAN
    /\ open => status # "none"
    /\ pc = "returned" => err \/ status # "none"   \* never nil, nil
    /\ total \in 0 .. TotalBound /\ over \in BOOLEAN /\ left \in BOOLEAN
    /\ lateSends \in 0 .. TotalBound

Init ==
    /\ policy \in Policies /\ body \in Bodies /\ debug \in BOOLEAN
    /\ getLen \in {g \in BOOLEAN : g => body = "none"}
    /\ pc = "dump"
    /\ hop = 0
    /\ carried = IF body = "none" THEN "none" ELSE "whole"
    /\ consumed = FALSE
    /\ RoundTrip!Init
    /\ status = "none" /\ open = FALSE /\ err = FALSE
    /\ total = 0 /\ over = ended /\ lateSends = 0 /\ left = FALSE
-----------------------------------------------------------------------------
\* Mutant: the dump reads the live body.
DumpReadsBody ==
    /\ pc = "dump"
    /\ pc' = "hop"
    /\ consumed' = (debug /\ body = "stream")
    /\ carried' = IF consumed' THEN "part" ELSE carried
    /\ UNCHANGED <<callVars, hop, tripVars, respVars, ghostVars>>

\* dumpDebugRequest reads a body of GetBody's, or none.
Dump ==
    /\ pc = "dump"
    /\ pc' = "hop"
    /\ UNCHANGED <<callVars, hop, carried, consumed, tripVars, respVars, ghostVars>>

\* The retry layer buffers a stream before it sends it, so that one round trip
\* reads it once.
SendOnce ==
    /\ pc = "hop"
    /\ RoundTrip!SendOnce
    /\ consumed' = (consumed \/ (body = "stream" /\ carried # "none"))
    /\ total' = Least(total + 1, TotalBound)
    /\ lateSends' = IF over THEN Least(lateSends + 1, TotalBound) ELSE lateSends
    /\ UNCHANGED <<callVars, pc, hop, carried, respVars, over, left>>

\* The context is cancelled, or http.Client's timeout is over.
EndContext ==
    /\ pc # "returned"
    /\ ~ended
    /\ ended' = TRUE
    /\ over' = TRUE
    /\ UNCHANGED <<callVars, pc, hop, carried, consumed, sends, late, answer, respVars,
                   total, lateSends, left>>

\* A response has a body to close, beside an error as well.  (A panic of the
\* policy, after a hook that leaves nothing, passes through Do to the caller.)
Answer ==
    /\ pc = "hop"
    /\ RoundTrip!Answer
    /\ answer' # "panic"
    /\ pc' = "answered"
    /\ IF answer' = "error"
       THEN UNCHANGED <<status, open>>
       ELSE status' \in {"final", "seeOther", "temporary"} /\ open' = TRUE
    /\ UNCHANGED <<callVars, hop, carried, consumed, err, ghostVars>>

\* http.Client drops a response that comes beside an error, and does not close
\* it: from here on nobody can.
TripFails ==
    /\ pc = "answered"
    /\ answer \in {"error", "both"}
    /\ err' = TRUE
    /\ left' = open
    /\ status' = "none" /\ open' = FALSE
    /\ pc' = "finish"
    /\ UNCHANGED <<callVars, hop, carried, consumed, tripVars, total, over, lateSends>>

\* Status 307 and 308 keep the body, if there is one that can be had again.
Redirects ==
    /\ pc = "answered" /\ answer = "response"
    /\ \/ status = "seeOther"
       \/ status = "temporary" /\ body # "stream"

\* The response is Do's: final, not to be redirected, without a Location, or the
\* policy's last (ErrUseLastResponse).
Accept ==
    /\ pc = "answered" /\ answer = "response"
    /\ pc' = "finish"
    /\ UNCHANGED <<callVars, hop, carried, consumed, tripVars, respVars, ghostVars>>

Refuses == policy = "custom" \/ hop + 1 >= MaxRequests

\* The policy refuses: Do returns the response, its body closed, and an error.
\* A Location that does not parse leaves the error alone.
Refuse ==
    /\ Redirects
    /\ \/ Refuses /\ UNCHANGED status
       \/ status' = "none"
    /\ open' = FALSE
    /\ err' = TRUE
    /\ pc' = "finish"
    /\ UNCHANGED <<callVars, hop, carried, consumed, tripVars, ghostVars>>

\* Mutants: no policy stands for one that always follows; every hop has a
\* deadline of its own.
FollowsAlways == TRUE

OwnDeadline == ended' = FALSE /\ UNCHANGED over

\* prepareRedirect: no policy of the client's is http.Client's own.
Follows == policy = "custom" \/ hop + 1 < MaxRequests

SameDeadline == UNCHANGED <<ended, over>>

\* The next hop: the last response's body is closed.
Follow ==
    /\ Redirects
    /\ Follows
    /\ hop' = Least(hop + 1, HopBound)
    /\ carried' = IF status = "seeOther" \/ carried = "none" THEN "none"
                  ELSE IF consumed THEN "part"
                  ELSE carried
    /\ sends' = 0 /\ late' = FALSE /\ answer' = "none"
    /\ SameDeadline
    /\ status' = "none" /\ open' = FALSE
    /\ pc' = "hop"
    /\ UNCHANGED <<callVars, consumed, err, total, lateSends, left>>

\* Mutant: GetLen closes the body when it has found a length.
CloseIfLength(found) == found

CloseBody(found) == TRUE

\* The warning's snapshot of the body (GetBody again), the response hook, and
\* the return; GetLen closes the body, whether or not it finds a length there.
Return ==
    /\ pc = "finish"
    /\ pc' = "returned"
    /\ \E found \in BOOLEAN :
          open' = IF getLen /\ CloseBody(found) THEN FALSE ELSE open
    /\ UNCHANGED <<callVars, hop, carried, consumed, tripVars, status, err, ghostVars>>

Terminated == pc = "returned" /\ UNCHANGED vars

ClientSteps == Dump \/ TripFails \/ Accept \/ Refuse \/ Follow \/ Return

Next == ClientSteps \/ SendOnce \/ Answer \/ EndContext \/ Terminated

Spec == Init /\ [][Next]_vars
-----------------------------------------------------------------------------
(***************************************************************************)
(* Properties.                                                             *)
(***************************************************************************)

\* Every sending of every hop carries the whole body or, after a 303, none:
\* neither the dump nor an earlier hop has read a stream before.
WholeBodyOrNone == carried # "part"

\* Once the context has ended the request goes out at most once more, whatever
\* the retry layer and the redirects do together, as long as the retry layer has
\* its default policy: a CheckRetryFunc of the caller's may ignore the context.
OneSendAfterEnd == lateSends <= 1

\* Without a policy, redirects and retries multiply, but no further than this.
SendsBounded == policy = "default" => total <= Limit * MaxRequests

\* An open body is in the hands of a caller who can close it: GetLen leaves none,
\* and a response that net/http drops because an error comes with it is dropped
\* only when the context has ended, which takes its connection down, or when the
\* caller's hook left the two together; a status the retry layer gives up on is
\* no such error.
NoBodyLeft ==
    /\ pc = "returned" /\ open => ~getLen
    /\ left => ended \/ HasHook

\* Every Do returns, under a policy that follows for ever and a server that
\* never answers as well.
DoReturns == <>(pc = "returned")
=============================================================================
