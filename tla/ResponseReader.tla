--------------------------- MODULE ResponseReader ---------------------------
(***************************************************************************)
(* Response.ToBytes and ToString (http_response.go) behind the exchange    *)
(* that gave the response: its body arrives in chunks, in the encoding the *)
(* server really used, under the deadline of the whole exchange, and may   *)
(* be cut short or broken off at any chunk; one caller reads it, and may   *)
(* ask again.                                                              *)
(***************************************************************************)
EXTENDS Exchange

CONSTANTS
    NumChunks,   \* of a body that is not empty: the first has the encoding's own header
    MaxReads     \* bound: calls of ToBytes

ASSUME ReaderAssumption == NumChunks \in Nat \ {0} /\ MaxReads \in Nat

VARIABLES
    encoding,  \* the response's Content-Encoding header
    format,    \* what its body is
    cut,       \* the chunk at which it ends; NumChunks when it is whole
    silent,    \* an end that looks like a proper one (no Content-Length)
    pos,
    at,        \* where ToBytes is
    start,     \* chunk at which it began to read
    result, reads

wireBody == <<encoding, format, cut, silent>>
readVars == <<wireBody, pos, at, start, result, reads>>
allVars  == <<vars, readVars>>

\* What of the exchange reading the body leaves alone: all but open.
exchangeRest == <<callVars, pc, hop, carried, consumed, tripVars, status, err, ghostVars>>

Encodings == {"none", "gzip", "deflate", "other"}
Formats   == {"empty", "plain", "gzip", "zlib", "raw", "other"}

\* What a server may send under a header; "deflate" is the zlib format
\* (RFC 9110), for which some servers send the raw one; "other" is any coding
\* ToBytes does not know, such as br.  Under any header the body may be empty:
\* it is then http.NoBody, which can be read, to its end, after Close as well.
FormatsOf == [none |-> {"empty", "plain"}, gzip |-> {"empty", "gzip", "plain"},
              deflate |-> {"empty", "zlib", "raw", "plain"}, other |-> {"empty", "other"}]

ReaderTypeOK ==
    /\ TypeOK
    /\ encoding \in Encodings /\ format \in Formats
    /\ cut \in 0 .. NumChunks /\ silent \in BOOLEAN
    /\ pos \in 0 .. cut /\ start \in 0 .. cut
    /\ at \in {"idle", "open", "read", "close"}
    /\ result \in {"none", "unavailable", "broken", "corrupt", "bytes"}
    /\ reads \in 0 .. MaxReads

ReaderInit ==
    /\ Init
    /\ encoding = "none" /\ format = "plain" /\ cut = NumChunks /\ silent = FALSE
    /\ pos = 0 /\ start = 0
    /\ at = "idle"
    /\ result = "none"
    /\ reads = 0
-----------------------------------------------------------------------------
Empty == format = "empty"

Whole == Empty \/ cut = NumChunks

\* What there is to read can be read.
Readable == open \/ Empty

\* gzip.NewReader and flate.NewReader; a body of another encoding is handed on
\* as it is.
Decodes == CASE encoding = "gzip"    -> format = "gzip"
             [] encoding = "deflate" -> format = "raw"
             [] OTHER                -> TRUE

Compressed == encoding \in {"gzip", "deflate"}

\* What the server sends is chosen when somebody looks at it.
BodyArrives ==
    IF status # "none" /\ reads = 0
    THEN /\ encoding' \in Encodings
         /\ format' \in FormatsOf[encoding']
         /\ cut' \in IF format' = "empty" THEN {0} ELSE 0 .. NumChunks
         /\ silent' \in {s \in BOOLEAN : s => format' # "empty" /\ cut' < NumChunks}
    ELSE UNCHANGED wireBody

Called ==
    /\ pc = "returned" /\ ~getLen
    /\ at = "idle"
    /\ reads < MaxReads
    /\ reads' = reads + 1
    /\ start' = pos
    /\ UNCHANGED <<vars, pos>>

\* Mutant: a nil Response, as Do returns it beside an error, is not told apart.
ToBytesUnguarded ==
    /\ Called
    /\ BodyArrives
    /\ at' = IF encoding' = "gzip" THEN "open" ELSE "read"
    /\ result' = IF status = "none" THEN "panic" ELSE "none"

\* http.Client gives every response a body.
ToBytes ==
    /\ Called
    /\ BodyArrives
    /\ IF status = "none"
       THEN at' = "idle" /\ result' = "unavailable"
       ELSE at' = (IF encoding' = "gzip" THEN "open" ELSE "read") /\ result' = "none"

Give(r) == result' = r /\ at' = "close" /\ UNCHANGED pos

\* The decoder's complaint, or the connection's: broken, closed, cut short.
Failure == IF open /\ pos < cut /\ ~Decodes THEN "corrupt" ELSE "broken"

\* Mutant: Close is deferred when the reader is there.
OpenBeforeDefer ==
    /\ at = "open"
    /\ IF ~open \/ pos = cut \/ ~Decodes
       THEN result' = Failure /\ at' = "idle" /\ UNCHANGED pos
       ELSE pos' = pos + 1 /\ at' = "read" /\ UNCHANGED result
    /\ UNCHANGED <<vars, wireBody, start, reads>>

\* gzip.NewReader reads the gzip header at once, and may fail.
OpenGzip ==
    /\ at = "open"
    /\ \/ (~open \/ pos = cut \/ ~Decodes) /\ Give(Failure)
       \/ ended /\ Give("broken")
       \/ /\ open /\ pos < cut /\ Decodes
          /\ pos' = pos + 1
          /\ at' = "read"
          /\ UNCHANGED result
    /\ UNCHANGED <<vars, wireBody, start, reads>>

ReadChunk ==
    /\ at = "read"
    /\ open /\ pos < cut /\ Decodes
    /\ pos' = pos + 1
    /\ UNCHANGED <<vars, wireBody, at, start, result, reads>>

\* A plain body is at its end when the transport says so; a compressed one when
\* its own end marker has been read.
AtEnd == Readable /\ pos = cut /\ (Whole \/ (silent /\ ~Compressed)) /\ Decodes

\* Nothing more comes that could be read.
NoMore == ~Readable \/ ~Decodes \/ (pos = cut /\ ~Whole)

\* Mutant: the deadline is Do's alone and does not reach the body.
ReadWithoutDeadline ==
    /\ at = "read"
    /\ \/ AtEnd /\ Give("bytes")
       \/ NoMore /\ Give(Failure)
    /\ UNCHANGED <<vars, wireBody, start, reads>>

\* Mutant: the error of io.ReadAll is dropped.
ReadLosingErrors ==
    /\ at = "read"
    /\ AtEnd \/ NoMore \/ ended
    /\ Give("bytes")
    /\ UNCHANGED <<vars, wireBody, start, reads>>

\* io.ReadAll: to the end, to an error of the decoder or of the connection, or,
\* where a connection is needed, until the context ends.
ReadAll ==
    /\ at = "read"
    /\ \/ AtEnd /\ Give("bytes")
       \/ NoMore /\ Give(Failure)
       \/ ended /\ ~Empty /\ Give("broken")
    /\ UNCHANGED <<vars, wireBody, start, reads>>

\* The deferred Close.
Close ==
    /\ at = "close"
    /\ open' = FALSE
    /\ at' = "idle"
    /\ UNCHANGED <<exchangeRest, wireBody, pos, start, result, reads>>

\* The timer of http.Client, and the caller's context, outlive Do as long as
\* the body is open.
EndWhileReading ==
    /\ pc = "returned" /\ open
    /\ ~ended
    /\ ended' = TRUE
    /\ over' = TRUE
    /\ UNCHANGED <<callVars, pc, hop, carried, consumed, sends, late, answer, respVars,
                   total, lateSends, left, readVars>>

ExchangeSteps ==
    /\ ClientSteps \/ SendOnce \/ Answer \/ EndContext
    /\ UNCHANGED readVars

ReaderSteps == OpenGzip \/ ReadAll \/ Close

ReaderTerminated == pc = "returned" /\ at = "idle" /\ UNCHANGED allVars

ReaderNext ==
    \/ ExchangeSteps \/ EndWhileReading
    \/ ToBytes \/ ReadChunk \/ ReaderSteps
    \/ ReaderTerminated

(***************************************************************************)
(* Fairness: http.Client goes on; the total timeout, 30 s unless the       *)
(* caller sets it to nothing, ends the context, under Do or under a read   *)
(* of the body; when it has ended a round trip does (RetryTransport's      *)
(* liveness), and what a read has to report is reported.  A server need    *)
(* never answer, and no chunk of a body need ever arrive.                  *)
(***************************************************************************)
ReaderSpec ==
    /\ ReaderInit /\ [][ReaderNext]_allVars
    /\ WF_allVars(ClientSteps /\ UNCHANGED readVars)
    /\ WF_allVars(EndContext /\ UNCHANGED readVars)
    /\ WF_allVars(ended /\ Answer /\ UNCHANGED readVars)
    /\ WF_allVars(EndWhileReading)
    /\ WF_allVars(ReaderSteps)
-----------------------------------------------------------------------------
(***************************************************************************)
(* Properties.                                                             *)
(***************************************************************************)

\* However ToBytes ends, the body is closed, so that its connection is free: a
\* gzip header that does not parse, a broken read, a second call, a response
\* that came beside an error.
ClosedOnReturn == at = "idle" /\ reads > 0 => ~open

\* Bytes are the whole body, from its beginning, decoded: never a part of it
\* without an error (but for a plain body whose end nothing tells), never the
\* rest an earlier call left, never what a gzip or deflate header says is
\* compressed, and never those of a response Do returned with an error.  (What is
\* in a coding ToBytes does not know, br or x-gzip, it hands on as it is.)  An
\* empty body without such a header is the exception: it reads as no bytes and no
\* error however often it is asked for, also where Do's error has closed it.
WholeOrError ==
    result = "bytes" =>
        /\ encoding = "gzip" => format = "gzip"
        /\ encoding = "deflate" => format = "raw"
        /\ pos = cut
        /\ \/ Empty
           \/ ~err /\ start = 0 /\ (Whole \/ (silent /\ format \in {"plain", "other"}))

\* OptTimeout is total: ToBytes returns although the server stalls in the
\* middle of the body, where Do has long returned.
ReadReturns == at # "idle" ~> at = "idle"
=============================================================================
