------------------------- MODULE ResponseReaderProofs -------------------------
(***************************************************************************)
(* Proofs about an exchange and the reading of its response, for every     *)
(* limit of the retry layer, bound of the redirects, set of policies and   *)
(* bodies, and length of the response.  The invariant has four parts:      *)
(* where the exchange is, its deadline, its sendings and the reader.       *)
(***************************************************************************)
EXTENDS ResponseReader, TLAPS

(***************************************************************************)
(* The exchange.                                                           *)
(***************************************************************************)
\* What is there at each point of Do.  A response whose body is open is in hand
\* and Do has no error to return; one that was dropped came in a pair; only a
\* stream is ever used up.
Place ==
    /\ pc \in {"dump", "hop"} => answer = "none" /\ status = "none" /\ ~err
    /\ pc = "dump" => sends = 0
    /\ pc = "answered" => answer # "none" /\ ~err
    /\ pc = "answered" => (answer \in {"response", "both"} <=> status # "none")
    /\ answer = "both" => ended \/ HasHook
    /\ pc \in {"finish", "returned"} => err \/ status # "none"
    /\ open => ~err
    /\ consumed => body = "stream"
    /\ carried # "part"
    /\ pc \notin {"finish", "returned"} => ~left
    /\ NoBodyLeft

ExchangeInv == TypeOK /\ Place

\* The whole exchange has one deadline, and what is sent after it is the last
\* sending: its round trip ends with an error.
Deadline ==
    /\ over = ended
    /\ lateSends = IF late THEN 1 ELSE 0
    /\ late => ended
    /\ late => answer # "response"

\* Without a policy every hop has its own Limit sendings.
Sendings ==
    policy = "default" => hop < MaxRequests /\ total <= hop * Limit + sends

LEMMA BoundFacts ==
    /\ Limit * MaxRequests \in Nat
    /\ TotalBound \in Nat /\ TotalBound >= 1
    /\ \A n \in Nat : Least(n, TotalBound) \in 0 .. TotalBound
    /\ \A n \in Nat : Least(n, HopBound) \in 0 .. HopBound
<1>1. Limit \in Nat /\ MaxRequests \in Nat
  BY ExchangeAssumption
<1>2. Limit * MaxRequests \in Nat
  BY <1>1
<1> QED
  BY <1>1, <1>2 DEF TotalBound, HopBound, Least

\* The hops of the default policy stay below MaxRequests, and their sendings
\* below the product.
LEMMA HopFacts ==
    ASSUME NEW h \in Nat, h < MaxRequests
    PROVE  /\ (h + 1) * Limit = h * Limit + Limit
           /\ h * Limit \in Nat
           /\ h * Limit + Limit <= Limit * MaxRequests
<1> DEFINE rest == MaxRequests - (h + 1)
<1>1. Limit \in Nat /\ MaxRequests \in Nat /\ rest \in Nat
  BY ExchangeAssumption
<1>2. (h + 1) * Limit = h * Limit + Limit /\ h * Limit \in Nat /\ rest * Limit \in Nat
  BY <1>1
<1>3. Limit * MaxRequests = (h + 1) * Limit + rest * Limit
  <2>1. MaxRequests = (h + 1) + rest
    BY <1>1
  <2> HIDE DEF rest
  <2> QED
    BY <1>1, <2>1
<1> QED
  BY <1>1, <1>2, <1>3

\* A step of the exchange, or what reading its response does to it.
ExchangeStep == [Next]_vars \/ EndWhileReading \/ Close

LEMMA ReaderStepIsExchangeStep == [ReaderNext]_allVars => ExchangeStep
BY DEF ReaderNext, ExchangeSteps, ExchangeStep, Next, ReaderSteps, ToBytes, Called, ReadChunk,
       OpenGzip, ReadAll, ReaderTerminated, allVars

LEMMA ExchangeInit == Init => ExchangeInv /\ Deadline /\ Sendings
<1> SUFFICES ASSUME Init PROVE ExchangeInv /\ Deadline /\ Sendings
  OBVIOUS
<1> USE ExchangeAssumption, BoundFacts DEF Init, RoundTrip!Init, NoBodyLeft
<1>1. TypeOK
  <2>1. hop \in 0 .. HopBound /\ sends \in 0 .. Limit
    BY DEF HopBound
  <2>2. total \in 0 .. TotalBound /\ lateSends \in 0 .. TotalBound
    OBVIOUS
  <2>3. late \in BOOLEAN /\ over \in BOOLEAN /\ ended \in BOOLEAN /\ left \in BOOLEAN
    OBVIOUS
  <2>4. debug \in BOOLEAN /\ getLen \in BOOLEAN /\ consumed \in BOOLEAN
    OBVIOUS
  <2>5. open \in BOOLEAN /\ err \in BOOLEAN /\ ~open /\ ~err
    OBVIOUS
  <2> QED
    BY <2>1, <2>2, <2>3, <2>4, <2>5 DEF TypeOK
<1>2. Place
  BY DEF Place
<1>3. Deadline /\ Sendings
  BY DEF Deadline, Sendings
<1> QED
  BY <1>1, <1>2, <1>3 DEF ExchangeInv

LEMMA ExchangeInvStep == ExchangeInv /\ ExchangeStep => ExchangeInv'
<1> SUFFICES ASSUME ExchangeInv, ExchangeStep PROVE ExchangeInv'
  OBVIOUS
<1> USE ExchangeAssumption, BoundFacts
        DEF ExchangeInv, TypeOK, Place, NoBodyLeft, callVars, tripVars, respVars, ghostVars
<1>1. CASE Dump
  BY <1>1 DEF Dump
<1>2. CASE SendOnce
  BY <1>2 DEF SendOnce, RoundTrip!SendOnce
<1>3. CASE EndContext
  BY <1>3 DEF EndContext
<1>4. CASE Answer
  <2>1. /\ pc = "hop" /\ pc' = "answered" /\ UNCHANGED <<sends, ended, late>>
        /\ UNCHANGED <<callVars, hop, carried, consumed, err, ghostVars>>
        /\ answer' \in {"error", "response", "both"}
        /\ answer' = "both" => ended \/ HasHook
    BY <1>4 DEF Answer, RoundTrip!Answer, RoundTrip!PairAllowed
  <2>2. IF answer' = "error"
        THEN status' = status /\ open' = open
        ELSE status' \in {"final", "seeOther", "temporary"} /\ open' = TRUE
    BY <1>4 DEF Answer
  <2>3. TypeOK'
    BY <2>1, <2>2
  <2>4. Place'
    BY <2>1, <2>2
  <2> QED
    BY <2>3, <2>4
<1>5. CASE TripFails
  <2>1. /\ pc = "answered" /\ pc' = "finish" /\ answer \in {"error", "both"}
        /\ err' = TRUE /\ left' = open /\ status' = "none" /\ open' = FALSE
        /\ UNCHANGED <<callVars, hop, carried, consumed, tripVars, total, over, lateSends>>
    BY <1>5 DEF TripFails
  <2>2. open => ended \/ HasHook
    BY <2>1
  <2>3. left' \in BOOLEAN /\ open' \in BOOLEAN /\ ~open' /\ (left' => ended \/ HasHook)
    BY <2>1, <2>2
  <2>4. TypeOK'
    BY <2>1, <2>3
  <2>5. Place'
    BY <2>1, <2>3
  <2> QED
    BY <2>4, <2>5
<1>6. CASE Accept
  BY <1>6 DEF Accept
<1>7. CASE Refuse
  BY <1>7 DEF Refuse, Redirects
<1>8. CASE Follow
  <2>1. /\ pc = "answered" /\ pc' = "hop"
        /\ UNCHANGED <<policy, body, debug, getLen, consumed, err, ended, over, total,
                       lateSends, left>>
        /\ sends' = 0 /\ late' = FALSE /\ answer' = "none"
        /\ status' = "none" /\ open' = FALSE
    BY <1>8 DEF Follow, Redirects, SameDeadline
  <2>2. hop' \in 0 .. HopBound
    BY <1>8 DEF Follow
  <2>3. carried' \in {"none", "whole"}
    BY <1>8 DEF Follow, Redirects
  <2>4. TypeOK'
    <3>1. late' \in BOOLEAN /\ open' \in BOOLEAN /\ ~open'
      BY <2>1
    <3> QED
      BY <2>1, <2>2, <2>3, <3>1
  <2>5. Place'
    BY <2>1, <2>3
  <2> QED
    BY <2>4, <2>5
<1>9. CASE Return
  <2>1. /\ pc = "finish" /\ pc' = "returned"
        /\ UNCHANGED <<callVars, hop, carried, consumed, tripVars, status, err, ghostVars>>
    BY <1>9 DEF Return
  <2>2. open' \in BOOLEAN /\ (open' => open /\ ~getLen)
    BY <1>9 DEF Return, CloseBody
  <2>3. TypeOK'
    BY <2>1, <2>2
  <2>4. Place'
    BY <2>1, <2>2
  <2> QED
    BY <2>3, <2>4
<1>10. CASE EndWhileReading
  BY <1>10 DEF EndWhileReading
<1>11. CASE Close
  <2>1. open' = FALSE /\ UNCHANGED exchangeRest
    BY <1>11 DEF Close
  <2>2. TypeOK'
    <3>1. open' \in BOOLEAN /\ ~open'
      BY <2>1
    <3> QED
      BY <2>1, <3>1 DEF exchangeRest
  <2>3. Place'
    BY <2>1 DEF exchangeRest
  <2> QED
    BY <2>2, <2>3
<1>12. CASE UNCHANGED vars
  BY <1>12 DEF vars
<1> QED
  BY <1>1, <1>2, <1>3, <1>4, <1>5, <1>6, <1>7, <1>8, <1>9, <1>10, <1>11, <1>12
     DEF ExchangeStep, Next, ClientSteps, Terminated

LEMMA DeadlineStep == ExchangeInv /\ Deadline /\ ExchangeStep => Deadline'
<1> SUFFICES ASSUME ExchangeInv, Deadline, ExchangeStep PROVE Deadline'
  OBVIOUS
<1> USE DEF Deadline, callVars, tripVars, respVars, ghostVars
<1>1. CASE SendOnce
  <2>1. Least(1, TotalBound) = 1
    BY BoundFacts DEF Least
  <2>2. ~late /\ late' = ended /\ ended' = ended /\ answer' = "none" /\ over' = over
    BY <1>1 DEF SendOnce, RoundTrip!SendOnce
  <2> QED
    BY <1>1, <2>1, <2>2 DEF SendOnce, ExchangeInv, TypeOK
<1>2. CASE Answer
  BY <1>2 DEF Answer, RoundTrip!Answer
<1>3. CASE Follow
  BY <1>3 DEF Follow, Redirects, SameDeadline
<1>4. CASE EndContext \/ EndWhileReading
  <2>1. UNCHANGED <<late, answer, lateSends>> /\ ended' = TRUE /\ over' = TRUE
    BY <1>4 DEF EndContext, EndWhileReading
  <2> QED
    BY <2>1
<1>5. CASE Dump \/ TripFails \/ Accept \/ Refuse \/ Return
  <2>1. UNCHANGED <<late, answer, lateSends, ended, over>>
    BY <1>5 DEF Dump, TripFails, Accept, Refuse, Return
  <2> QED
    BY <2>1
<1>6. CASE Close \/ UNCHANGED vars
  BY <1>6 DEF Close, exchangeRest, vars
<1> QED
  BY <1>1, <1>2, <1>3, <1>4, <1>5, <1>6 DEF ExchangeStep, Next, ClientSteps, Terminated

LEMMA SendingsStep == ExchangeInv /\ Sendings /\ ExchangeStep => Sendings'
<1> SUFFICES ASSUME ExchangeInv, Sendings, ExchangeStep, policy' = "default"
             PROVE  hop' < MaxRequests /\ total' <= hop' * Limit + sends'
  BY DEF Sendings
<1> USE DEF Sendings, callVars, tripVars, respVars, ghostVars
<1>0. policy' = policy
  BY DEF ExchangeStep, Next, ClientSteps, Dump, SendOnce, EndContext,
         Answer, TripFails, Accept, Refuse, Follow, Return, EndWhileReading, Close,
         exchangeRest, Terminated, vars
<1>1. /\ policy = "default"
      /\ hop \in Nat /\ sends \in 0 .. Limit /\ total \in Nat
  BY <1>0 DEF ExchangeInv, TypeOK
<1>2. /\ hop < MaxRequests /\ total <= hop * Limit + sends
      /\ hop * Limit \in Nat /\ Limit \in Nat /\ MaxRequests \in Nat
  BY <1>1, HopFacts, ExchangeAssumption
<1>3. CASE SendOnce
  <2>1. total' <= total + 1 /\ sends' = sends + 1 /\ hop' = hop
    BY <1>1, <1>3, BoundFacts DEF SendOnce, RoundTrip!SendOnce, Least
  <2>2. total' \in Nat
    BY <1>1, <1>3, BoundFacts DEF SendOnce
  <2> QED
    BY <1>1, <1>2, <2>1, <2>2
<1>4. CASE Follow
  <2>1. hop + 1 < MaxRequests /\ hop' = hop + 1 /\ sends' = 0 /\ total' = total
    BY <1>1, <1>2, <1>4 DEF Follow, Follows, Least, HopBound
  <2>2. hop' * Limit = hop * Limit + Limit /\ hop' * Limit \in Nat
    BY <1>1, <1>2, <2>1, HopFacts
  <2> QED
    BY <1>1, <1>2, <2>1, <2>2
<1>5. CASE UNCHANGED <<hop, total, sends>>
  BY <1>2, <1>5
<1> QED
  BY <1>3, <1>4, <1>5
     DEF ExchangeStep, Next, ClientSteps, Dump, EndContext, Answer, RoundTrip!Answer,
         TripFails, Accept, Refuse, Return, EndWhileReading, Close, exchangeRest,
         Terminated, vars
-----------------------------------------------------------------------------
(***************************************************************************)
(* The reader.  It runs when Do has returned; only a first call finds the  *)
(* body open, and finds it at its beginning.                               *)
(***************************************************************************)
Reading ==
    /\ reads > 0 => pc = "returned"
    /\ at # "idle" => reads > 0
    /\ reads = 0 => pos = 0 /\ start = 0 /\ result = "none"
    /\ open => start = 0
    /\ at = "idle" /\ reads > 0 => ~open
    /\ format \in FormatsOf[encoding]

ReaderInv == ReaderTypeOK /\ Reading /\ WholeOrError

LEMMA ReaderInvInit == ReaderInit => ReaderInv
<1> SUFFICES ASSUME ReaderInit PROVE ReaderInv
  OBVIOUS
<1>1. ReaderTypeOK
  <2>1. TypeOK
    BY ExchangeInit DEF ReaderInit, ExchangeInv
  <2>2. /\ cut \in 0 .. NumChunks /\ pos \in 0 .. cut /\ start \in 0 .. cut
        /\ reads \in 0 .. MaxReads
    BY ReaderAssumption DEF ReaderInit
  <2>3. silent \in BOOLEAN
    BY DEF ReaderInit
  <2> QED
    BY <2>1, <2>2, <2>3 DEF ReaderInit, ReaderTypeOK, Encodings, Formats
<1>2. Reading /\ WholeOrError
  BY DEF ReaderInit, Init, Reading, WholeOrError, FormatsOf
<1> QED
  BY <1>1, <1>2 DEF ReaderInv

LEMMA ReaderInvStep ==
    ExchangeInv /\ ExchangeInv' /\ ReaderInv /\ [ReaderNext]_allVars => ReaderInv'
<1> SUFFICES ASSUME ExchangeInv, ExchangeInv', ReaderInv, [ReaderNext]_allVars
             PROVE  ReaderInv'
  OBVIOUS
<1> USE ReaderAssumption DEF ReaderInv, ReaderTypeOK, readVars, wireBody
<1>1. CASE ExchangeSteps
  <2>1. pc # "returned" /\ UNCHANGED readVars
    BY <1>1 DEF ExchangeSteps, ClientSteps, Dump, SendOnce, EndContext, Answer, TripFails,
                Accept, Refuse, Redirects, Follow, Return
  <2>2. reads = 0 /\ at = "idle" /\ start = 0 /\ result = "none"
    BY <2>1 DEF Reading
  <2> QED
    BY <2>1, <2>2 DEF ExchangeInv, Reading, WholeOrError
<1>2. CASE EndWhileReading
  BY <1>2 DEF EndWhileReading, callVars, ghostVars, respVars, ExchangeInv, Reading,
              WholeOrError, Whole, Empty
<1>3. CASE ToBytes
  <2>1. /\ pc = "returned" /\ pc' = pc /\ open' = open /\ err' = err
        /\ at = "idle" /\ reads' = reads + 1 /\ start' = pos /\ pos' = pos
    BY <1>3 DEF ToBytes, Called, vars, respVars
  <2>2. /\ encoding' \in Encodings /\ format' \in Formats /\ format' \in FormatsOf[encoding']
        /\ cut' \in 0 .. NumChunks /\ silent' \in BOOLEAN
        /\ pos \in 0 .. cut'
    <3>1. CASE status # "none" /\ reads = 0
      BY <1>3, <3>1 DEF ToBytes, BodyArrives, Reading, Encodings, FormatsOf, Formats
    <3>2. CASE ~(status # "none" /\ reads = 0)
      BY <1>3, <3>2 DEF ToBytes, BodyArrives, Reading
    <3> QED
      BY <3>1, <3>2
  <2>3. /\ at' \in {"idle", "open", "read"} /\ result' \in {"none", "unavailable"}
        /\ at' = "idle" => status = "none"
    BY <1>3 DEF ToBytes
  <2>4. open => status # "none" /\ reads = 0
    BY <2>1 DEF ExchangeInv, TypeOK, Reading
  <2>5. reads' \in 0 .. MaxReads /\ reads' > 0
    BY <1>3 DEF ToBytes, Called
  <2> QED
    BY <2>1, <2>2, <2>3, <2>4, <2>5 DEF ExchangeInv, Reading, WholeOrError
<1>4. CASE OpenGzip
  BY <1>4 DEF OpenGzip, Give, Failure, vars, respVars, ExchangeInv, Reading, WholeOrError
<1>5. CASE ReadChunk
  BY <1>5 DEF ReadChunk, vars, respVars, ExchangeInv, Reading, WholeOrError
<1>6. CASE ReadAll
  <2>1. /\ UNCHANGED <<vars, wireBody, start, reads, pos>>
        /\ at = "read" /\ at' = "close"
        /\ result' \in {"bytes", "broken", "corrupt"}
        /\ result' = "bytes" => AtEnd
    BY <1>6 DEF ReadAll, Give, Failure
  <2>2. ASSUME AtEnd
        PROVE  /\ encoding = "gzip" => format = "gzip"
               /\ encoding = "deflate" => format = "raw"
               /\ pos = cut
               /\ \/ Empty
                  \/ ~err /\ start = 0 /\ (Whole \/ (silent /\ format \in {"plain", "other"}))
    BY <2>2 DEF AtEnd, Readable, Empty, Decodes, Compressed, Reading, Encodings, FormatsOf,
                ExchangeInv, Place
  <2> QED
    BY <2>1, <2>2 DEF vars, respVars, ExchangeInv, Reading, WholeOrError, Whole, Empty
<1>7. CASE Close
  BY <1>7 DEF Close, exchangeRest, ExchangeInv, Reading, WholeOrError, Whole, Empty
<1>8. CASE UNCHANGED allVars
  BY <1>8 DEF allVars, vars, respVars, ExchangeInv, Reading, WholeOrError, Whole, Empty
<1> QED
  BY <1>1, <1>2, <1>3, <1>4, <1>5, <1>6, <1>7, <1>8
     DEF ReaderNext, ReaderSteps, ReaderTerminated
-----------------------------------------------------------------------------
(***************************************************************************)
(* The theorems.                                                           *)
(***************************************************************************)
Safety == ReaderInit /\ [][ReaderNext]_allVars

LEMMA SafetyOfSpec == ReaderSpec => Safety
BY PTL DEF ReaderSpec, Safety

LEMMA ExchangeCorrect == ReaderSpec => [](ExchangeInv /\ Deadline /\ Sendings)
<1>1. ReaderInit => ExchangeInv /\ Deadline /\ Sendings
  BY ExchangeInit DEF ReaderInit
<1>2. /\ ExchangeInv /\ Deadline /\ Sendings
      /\ [ReaderNext]_allVars
      => (ExchangeInv /\ Deadline /\ Sendings)'
  BY ReaderStepIsExchangeStep, ExchangeInvStep, DeadlineStep, SendingsStep
<1> QED
  BY <1>1, <1>2, SafetyOfSpec, PTL DEF Safety

LEMMA ReaderCorrect == ReaderSpec => []ReaderInv
BY ReaderInvInit, ReaderInvStep, ExchangeCorrect, SafetyOfSpec, PTL DEF Safety

\* Every variable of an exchange and of its reader keeps its type.
THEOREM ReaderTypeCorrect == ReaderSpec => []ReaderTypeOK
BY ReaderCorrect, PTL DEF ReaderInv

\* No sending of any hop carries a body that has partly been read.
THEOREM BodyCorrect == ReaderSpec => []WholeBodyOrNone
<1>1. ExchangeInv => WholeBodyOrNone
  BY DEF ExchangeInv, Place, WholeBodyOrNone
<1> QED
  BY <1>1, ExchangeCorrect, PTL

\* Retries and redirects together send at most once after the context's end.
THEOREM DeadlineCorrect == ReaderSpec => []OneSendAfterEnd
<1>1. Deadline => OneSendAfterEnd
  BY DEF Deadline, OneSendAfterEnd
<1> QED
  BY <1>1, ExchangeCorrect, PTL

\* Without a policy no more than Limit times MaxRequests sendings go out.
THEOREM SendingsCorrect == ReaderSpec => []SendsBounded
<1>1. ExchangeInv /\ Sendings => SendsBounded
  <2> SUFFICES ASSUME ExchangeInv, Sendings, policy = "default"
               PROVE  total <= Limit * MaxRequests
    BY DEF SendsBounded
  <2>1. /\ hop \in Nat /\ sends \in 0 .. Limit /\ total \in Nat /\ hop < MaxRequests
        /\ total <= hop * Limit + sends
    BY DEF ExchangeInv, TypeOK, Sendings, HopBound
  <2>2. /\ hop * Limit + Limit <= Limit * MaxRequests
        /\ hop * Limit \in Nat /\ Limit * MaxRequests \in Nat /\ Limit \in Nat
    BY <2>1, HopFacts, BoundFacts, ExchangeAssumption
  <2> QED
    BY <2>1, <2>2
<1> QED
  BY <1>1, ExchangeCorrect, PTL

\* GetLen leaves no body open, and none is dropped open but for the end of the
\* context or the hook's doing.
THEOREM NoBodyCorrect == ReaderSpec => []NoBodyLeft
<1>1. ExchangeInv => NoBodyLeft
  BY DEF ExchangeInv, Place, NoBodyLeft
<1> QED
  BY <1>1, ExchangeCorrect, PTL

\* However ToBytes ends, it leaves the body closed.
THEOREM ClosedCorrect == ReaderSpec => []ClosedOnReturn
<1>1. ReaderInv => ClosedOnReturn
  BY DEF ReaderInv, Reading, ClosedOnReturn
<1> QED
  BY <1>1, ReaderCorrect, PTL

\* The bytes ToBytes returns are the whole body, decoded, of a response that
\* came without an error; or there are none in it.
THEOREM WholeCorrect == ReaderSpec => []WholeOrError
BY ReaderCorrect, PTL DEF ReaderInv
=============================================================================
