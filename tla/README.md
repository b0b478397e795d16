# thttp in TLA+

`thttp` (package `thttp`, 2 284 lines of Go, no tests of its own) wraps `net/http` in a client that
goroutines share and configure while it is in use, with a retry layer and a logging layer under
`http.Client`. This directory holds TLA+ models of the parts of it that are hard to test, TLC
configurations that check them on small instances, and TLAPS proofs about them.

Line numbers below are those of the repository's `.go` files.

## 1. The system

```
 caller goroutines
      |  Get / Post / PostJson / PostMultipart ...   WithOption(s), Defaults, WithHeader, Debug
      v                                                |
 +---------------- HttpClient (http_client.go) --------v--------------------+
 | RWMutex: options, headers, transport, cookieJar, transportErr, withDebug |
 | sync.Once: lazy transport and jar                                        |
 |   Do: snapshot -> merge RequestOption -> http.Client -> hooks -> Do      |
 +------------------------------|-------------------------------------------+
                                v
        http.Client (redirects, cookie jar, total timeout)            [net/http]
                                v
        retryTransport (http_retry_trans.go), when OptTransRetry is set
                                v
        logTransport  (http_log_trans.go, metric.go), once per attempt
                                v
        http.Transport, shared by all requests                        [net/http]
```

| component | state | operations | what is hard | what makes it correct |
|---|---|---|---|---|
| retry transport, `http_retry_trans.go` | nothing between calls; per call the attempt number, the buffered body, response and error | `RoundTrip`, the setters of `RetryTransOption` | write loops of earlier attempts still reading their bodies; context and timer racing; a hook between two verdicts; who closes which body | whole payload in every attempt; no body leaked; a bounded number of attempts; one clear outcome; cancellation ends it |
| retry policy, `http_retry_policy.go` | none | `DefaultRetryPolicy`, `baseRetryPolicy` | depends on which layer wraps errors how | permanent failures stop the loop; the context wins |
| backoff, `http_retry_policy.go`, `WithWaitTime` | the range in `RetryTransOption` | `DefaultBackoff`, `parseRetryAfter`, `LinearJitterBackoff` | int64 overflow, float64 infinities, platform-dependent conversion | a wait stays in the range, does not shrink, honours `Retry-After` |
| `HttpClient` configuration and `Do`, `http_client.go` | the fields above, and what they point at: transports, TLS configurations, retry options, jars | configuration calls, `lazyInitTransport`, `newClientSnapshot`, `Do`, hooks | configuration racing requests on shared pointers; batches applied key by key in map order; some keys failing; zero clients; hooks that configure their own client | atomic configuration, consistent snapshots, single initialisation, nobody stuck |
| `RequestOption` and the verb helpers, `http_request.go`, `http_client.go:922-1154` | options, headers and cookies under its own mutex | setters, `snapshot`, `send`, `sendJson`, `PostMultipart` | an object shared by goroutines is written by helpers before `Do` copies it | what a call asks for is what it sends |
| logging transport, `http_log_trans.go`, `metric.go` | none (counters of an external registry) | `RoundTrip`, `shouldEmitSlowLog` | it sits below the retry layer and sees every attempt | one observation per attempt, results handed on |
| one exchange, `http_client.go:812-1005` | per call: request body, hops, response | `client.Do` with dump, redirect policy, total timeout; `GetLen` | redirects and retries multiply; a stream can be read once; a response beside an error | whole bodies, bounded sendings, nothing left open, every `Do` returns |
| response reader, `http_response.go` | the response body | `ToBytes`, `ToString` | a failing gzip header; bodies cut short; a second call | body closed on every path, the whole or an error |
| multipart bodies, `http_client.go:1028-1106` | a buffer and its writer | `PostMultipart`, `PostMultipartEx` | a deferred `Close` that writes into the buffer a write loop reads; files that cannot be read | the bytes sent are a complete form |
| query and proxy-header helpers, `http_util.go` | none | `appendParams`, `GetRealIP`, ... | map order, malformed pairs, lists of hops | nothing of the URL is lost |
| package-level API, `http_default.go` | one `HttpClient` | one delegation per function | - | - |

## 2. The modules

| module | models | composed with |
|---|---|---|
| `RetryPolicy` | `baseRetryPolicy`, `DefaultRetryPolicy`; responses and errors as the policies tell them apart | |
| `RetryTransport` | one `retryTransport.RoundTrip`, the write loops and the context beside it, the layer below, the caller's callbacks | EXTENDS `RetryPolicy`; INSTANCEs `RoundTripContract` |
| `RoundTripContract` | abstract: what the retry layer promises `http.Client` of one round trip | |
| `Backoff` | `WithWaitTime`, `DefaultBackoff`, `parseRetryAfter`, `LinearJitterBackoff` on W-bit integers | |
| `ClientConfig` | vocabulary: option keys and values, configuration calls | |
| `AtomicClient` | abstract: a client whose operations are atomic and whose requests work from one configuration | EXTENDS `ClientConfig` |
| `HttpClient` | the RWMutex, the Once, configuration calls, `Do` and its hooks, the shared pointers | EXTENDS `ClientConfig`; INSTANCEs `AtomicClient` |
| `LogTransport` | `logTransport.RoundTrip` under the retry layer, a clock, the histogram | EXTENDS `RetryTransport`, whose step `TransportReturns` it refines; `Transparent` is `RetryTransport!Spec` |
| `Exchange` | `Do` from the finished request on: dump, hops, redirect policy, deadline, `GetLen` | INSTANCEs `RoundTripContract`: one per hop |
| `RequestOption` | `RequestOption`, the verbs that write to it, package-level functions, the merge in `Do` | |
| `Multipart` | the two multipart verbs, `loadFormFile`, the `bytes.Buffer` and its readers | |
| `ResponseReader` | `ToBytes` and the deadline while it reads | EXTENDS `Exchange`: a whole call, from `Do`'s finished request to the bytes |
| `RetryTransportProofs`, `LogTransportProofs`, `BackoffProofs`, `HttpClientProofs`, `RequestOptionProofs`, `MultipartProofs`, `ResponseReaderProofs` | theorems about the module each is named after, section 4 | each EXTENDS its module; `LogTransportProofs` also `RetryTransportProofs`; `ResponseReaderProofs` covers `Exchange` |
| `MCRetryTransport`, `MCBackoff`, `MCHttpClient`, `MCRequestOption`, `MCMultipart` | instances for TLC | |

Each module with properties also carries, under a comment that begins "Mutant", altered forms of
single definitions: a bug the code might plausibly have, in which the property named beside it in
`PROJECT.json` fails. No run uses them as they stand.

### 2.1 RetryTransport

`pc` names the place in `RoundTrip` (lines 115-196): `start` (up to 140), `attempt` (142-158),
`send` (160), `check` (162), `hook` (163-168), `drain` (179-182), `wait` (184-192), `done`, and
`panic` for the nil dereference of `baseRetryPolicy` when a hook leaves neither a response nor an
error.

| action | code |
|---|---|
| `SkipBuffering`, `BufferBody` | 124-140: without `GetBody` the body is read whole and closed, also when reading fails |
| `BeginAttempt` | 143-158: count, close the previous body, ask `GetBody` for the next (which may fail) or wrap the buffer anew |
| `TransportReturns` | 160: a response with an open body, or an error |
| `Check` | 162: the verdict; the hook if there is one and something to judge, else `Conclude` |
| `Hook` | 164-168: the hook, and the verdict on what it left |
| `Conclude` (operator) | 171-177, 195: return, or go on |
| `Drain` | 179-182 |
| `WaitTimer`, `WaitCancelled` | 186-192: both are enabled when both channels are ready, as in Go's `select` |
| `Cancel` | the context, at any moment before the return |
| `WriteChunk(a)`, `WriterCloses(a)` | the write loop of attempt a, which `http.Transport` may leave running after it has answered, and which it ends by closing the body |

Bodies are counted in chunks: `left[a]` still to be read, `sent[a]` on the wire. That is enough to
tell a body that is replayed whole from one that was begun by an earlier attempt. A response is
its origin, its attempt and its status. An error is its kind and whether a `*url.Error` surrounds it, the
only thing the policy looks at: `http.Transport` returns errors without one, `http.Client` adds it above
this layer.

The hook may leave any response (`HookLeaves`: the one it was given, one of its own with an open body, or none) and any error, the two
independently: also both together, or neither. A response it discards is its own to close, and one it hands on it may have closed
(`HookCloses`, `hookClosed`). If it leaves a pair and the policy gives up, line 195 returns the pair, with no cancellation; `http.Client` then
drops the response unclosed. `PairOnlyFromContextOrHook` says that there is no third reason, and the contract tells a retry layer with a
hook (`HasHook`) from one without.

### 2.2 Backoff

A state is one wait of one request. `time.Duration` is an integer of `W` bits that wraps around. A float64 has a mantissa of `Precision`
bits: `AsFloat` rounds an integer to the nearest of `Floats`, ties to even. So line 104 works from the rounded minimum, a product of it and a power of two is
exact until it leaves the integers, the largest integer rounds up (which is how `float64(sleep) != duration` finds saturation), and from
`InfiniteAt` on `math.Pow` is infinite. A minimum of more than 2^53 ns, 104 days, that is no float can therefore be undercut by the first wait, by at most half the distance of two
floats there; `ExponentialInRange` says what holds for every minimum and what up to 2^`Precision`. Converting a float too
large for an integer gives `MinInt` on amd64 and the nearest integer on arm64; `Converted` allows
both. The random factor of `LinearJitterBackoff` is any value of its range; the rounding of the range's width
is left out, since the largest random number is below one by more than that. The default range fits into a Duration
(`BackoffAssumption`), or `WithWaitTime` would fall back on nonsense; on 64 bits 30 s does by far.

### 2.3 HttpClient

A goroutine is in a configuration call or in `Do`.

| action | code |
|---|---|
| `Announce`, `Enter`, `RLock`, `Unlock` | `sync.RWMutex`: a writer that waits keeps new readers out |
| `CallConfig`, `StartBatch` | the head of `WithOption`, `WithOptions`, `Defaults`, `WithHeader`, `Debug`, which take the lock once each: one record says which options, headers and debug switch the call carries. `WithHeaders` (774-781) takes it once per header and is that many calls |
| `ApplyTransportOption` | one key of `OptTransports`: `resetTransport` (513-622): ensure, clone (with its TLS configuration), set, replace, or record the failure |
| `ApplyOption`, `ApplyHeader` | `cloneOptionValue` and the map writes; headers after options |
| `FinishBatch` | the failures of the batch into `transportErr`, the debug switch, `Unlock` |
| `CallDo`, `OnceEnter`, `OncePassed`, `InitTransport`, `OnceDone` | `lazyInitTransport` under `sync.Once` |
| `CopyMaps`, `CopyFields` | `newClientSnapshot` under the read lock, in two steps |
| `PrepareFails`, `Prepare` | 789-858: the early returns; cookies into the jar or onto the request |
| `HookReturns`, `HookConfigures` | the hooks, which may configure the client that runs them |
| `Send`, `Answered`, `DoReturns` | `client.Do`, the response hook, the return |
| `TransportReturns` | `Transport` (495-504): after the same initialisation, under the read lock |
| `Reuse` | the caller changes the `RetryTransOption` it passed, at any time but while a call copies it |

Pointers are explicit: `transports`, `cells` (TLS configurations and retry options) and `jars` are
sequences of objects and a field holds an address. The first `Templates` cells belong to the caller.
Keys the code treats alike are one key (`ClientConfig` says which). A nil `*tls.Config` is accepted (611-615) and
puts the zero configuration back (`Pointee`); a nil retry option is stored as an untyped nil, which is one of the `bad` values. Steps are as fine as the
locks make observable: each key of a batch is a step, each half of a snapshot is one, and what a goroutine does to
locals is one.

`AtomicClient` is what a user of the client may think: a configuration call (one lock, see above) changes `conf` at once
and wholly; a request copies `conf` when it begins and nothing changes its copy; it is sent only if
the copy holds no transport error. The order of Go's map iteration shows there too, as a choice
between two results when two keys of one call set one thing. The refinement maps `conf` to
`published`, the configuration when the last call was finished, and a request's copy to what its
snapshot means with the pointers followed *now*. So the refinement fails if a transport in use is
written to, if a caller's struct is kept instead of copied, if a snapshot sees half a batch, or if an
update is lost. `Defaults` is among the calls although its comment (http_client.go:412) says "It is not safe for concurrent use with
in-flight requests unless the caller synchronizes access": it takes the lock `WithOptions` takes and does what that does, and
for what the model has of both the refinement holds without any synchronisation by the caller.

### 2.4 LogTransport

The composition replaces one step of `RetryTransport`, the call of the layer below, by three:
`LogStart` (94-95), `BaseAnswers` (what `http.Transport` returns), `LogReturns` (96-140: observation, slow line,
access line, return). All other steps are those of `RetryTransport` (`RetrySteps`). `Tick` lets time
pass anywhere and keeps, beside the code's own measurement, how long each attempt was in `http.Transport` (`below`) and how long the retry layer
waited for it (`during`): `LatencyOfAttempt` has every latency between the two. That the composition still
behaves as `RetryTransport` over a bare transport is the property `Transparent`: the specification of
`RetryTransport` itself, which everything proved about it then carries over to.

### 2.5 RequestOption

An option or a client is a map from keys to values; a key is a header name in one of two spellings (lower case, which every setter uses,
or another, which a caller may write into the exported `Headers`). A typed option is a key with one spelling and is merged
like a header; "X" stands for both. A value remembers who set it. Which caller passes which option, or none, is chosen at the start (`optionOf`).

| action | code |
|---|---|
| `WithHeader(o)` | http_request.go 73-162: every setter of one key, under the option's mutex; `WithHeaders` is several |
| `WithCookies(o)` | 164-182 |
| `ConfigureClient("own")`, `PackageConfigures` | `HttpClient.WithHeader`, and the package-level setters, which reach `defaultClient` |
| `VerbCall`, `PackageCall` | the head of a verb; without an option the JSON and multipart verbs make one (944, 1050, 1094) |
| `BuildForm` | 1028-1048: may fail before the type is written |
| `WriteType` | 948, 1054, 1098 |
| `MarshalJson` | 950-968: may fail when the type has been written |
| `SnapshotClient`, `SnapshotOption` | 789 and 799: two locks, one after the other; the merge 801-807 |
| `Send` | `prepareRequest` (120-122): of two spellings of a name the one set last, in map order |

### 2.6 Multipart

A body is a sequence of cells, one per part and 0 for a closing boundary. `array` is the array behind the buffer, as
`GetBody`'s readers (made by `http.NewRequest`) see it; `unread` and `off` are the buffer's own view. `WriteField`, `OpenFile`, `CopyFile`
and `CloseForm` build the form; `Do` and `SendAgain` begin a sending; `WriteChunk(h)` and
`FinishWrite(h)` are the transport's write loop, which reads past `ContentLength` to see that nothing
follows. `Return` may come before it is done. `DeferredClose` is line 1074: `bytes.Buffer` writes the
boundary behind the contents if there is room, or after moving them to the front of the array or to a new one. The read and the write of a
buffer by two goroutines are a data race; the model takes each as one step, which is enough to show the harm.

### 2.7 Exchange

One `Do`: `Dump`, then per hop a round trip whose steps are those of `RoundTripContract` (`SendOnce`, `Answer`), then
what `http.Client` does with its answer: `TripFails`, `Accept`, `Refuse`, `Follow`; `Return` with `GetLen`'s close. `EndContext` may come at any moment and
is never undone: `http.Client` computes its deadline once. http.Client's part is external: a 303 (301, 302) drops the
body, a 307 or 308 needs a body that can be had again, a refusing policy gets the closed response beside its error,
`ErrUseLastResponse` an open one. A response has a body beside an error too (`Answer`); `http.Client` drops such a response and does not
close it (`TripFails`: `left`). A panic of the policy passes through `Do` to the caller and is left to `RetryTransport`.

### 2.8 ResponseReader

`ResponseReader` extends `Exchange`: the body that `Do` returned open is read, closed or never looked at, and the context that
ended or did not in `Do` is still the one that bounds the read (`EndWhileReading`: `http.Client`'s timer outlives `Do`). `encoding` is
what the header says and `format` what the body is; `cut` says where it ends and `silent` whether the connection tells. They are
chosen when `ToBytes` first looks (`BodyArrives`), since nobody looks before. An empty body (`Empty`: a `Content-Length` of 0, the answer to a
HEAD) is `http.NoBody`, which reads to its end however often, after `Close` as well. A coding `ToBytes` does not know (br, x-gzip) is `other`:
its body is handed on as it is.

| action | code |
|---|---|
| `ToBytes` | http_response.go 19-34: a nil response is refused, the encoding chosen |
| `OpenGzip` | 36-39: `gzip.NewReader` reads at once and may fail |
| `ReadChunk`, `ReadAll` | 50-53: to the end, to an error of the decoder or the connection, or until the context ends |
| `Close` | 29: the deferred `Close` |

## 3. The runs

All are checked with deadlock detection; a model that is at its end stutters by `Terminated`.

| run | instance | properties | shows |
|---|---|---|---|
| `RetryDefault` | 3 attempts, default policy, hook, statuses 200, 0, 503, 2 chunks, `FairSpec` | `PayloadIntact`, `CallerBodyClosed`, `NoResponseLeak`, `AtMostOneAttemptAfterCancel`, `TypeOK`, `ReturnedResponseReadable`, `PairOnlyFromContextOrHook`, `AlwaysAnAnswer`, `KeepsContract`, `CancelEndsRoundTrip` | replay is whole while old write loops run; nothing leaks; at most one attempt after the end of the context; a response beside an error comes from the context or the hook, never from the policy; the contract is kept with a hook that leaves any response and error; a round trip whose context ended returns |
| `RetryPermanent` | errors a retry cannot cure | `PermanentErrorsNotRetried`, violated | they are retried |
| `LogRetry` | 2 attempts, a policy that answers anything, hook, statuses 200, 404, a clock of 2 | `LogTypeOK`, `EveryAttemptObserved`, `LatencyOfAttempt`, `AttemptsWithinLimit`, `Transparent` | one observation per attempt, of the server's status or -1; a latency has neither a backoff nor another attempt in it; the limit does not depend on the policy; the retry layer does not notice the log layer |
| `BackoffRange` | 6-bit Durations, 3-bit floats, seven waits (all ranges of two), 9 attempts | `ExponentialInRange`, `ExponentialNeverShrinks`, `ExponentialReachesMaximum`, `LinearInRange`, `TypeOK` | the exponential wait survives rounding, overflow and infinity; the linear one is in its range as long as that range fits |
| `ClientBatch` | 2 goroutines, 2 calls each, constructed client: batches of TLS (a nil configuration too), pool, retry options and a header, of keys whose order matters, one that fails in part; `Debug`; requests with their own jar or an unusable URL; a caller that changes its retry options | `TypeOK`, `ImplementsAtomicClient` | nobody beside a writer, atomicity, isolation of snapshots |
| `ClientHooks` | 2 goroutines, 2 calls each, zero client: hooks that configure, jars switched off in a batch with a transport key, a value of a wrong type, `Transport`; `FairSpec` | `OneDefaultJar`, `ImplementsAtomicClient`, `EveryCallReturns` | lazy initialisation against first requests and configuration, a transport that either has made survives the other; no lock is held over a hook, no waiting for ever |
| `ClientCookies` | 2 goroutines, 1 call each | `CookiesArePerRequest`, violated | a cookie of one request is sent by another |
| `OptionMerge` | 2 callers who share an option or pass none, two clients, 2 settings, a header written by hand | `TypeOK`, `NoLeak`, `UndisturbedAsExpected` | calls do not leak into each other; keys stay in lower case; types left by other calls do not win; nothing set before is lost |
| `OptionTypeRace` | the same, no settings | `OwnContentType`, violated | the race on a shared option |
| `MultipartForm` | a field and two files, 2 sendings; all ways but the next | `TypeOK`, `BodyPassedAsIs`, `WholeFormOrNone` | whole forms; no file left open |
| `MultipartEx` | `PostMultipartEx` without retries | `BodyPassedAsIs`, violated | the deferred `Close` |
| `CallToBytes` | limit 2, no hook, 3 requests before the default policy stops, both policies, all bodies, 2 chunks or none, 2 calls of `ToBytes`, `ReaderSpec` | `ReaderTypeOK`, `WholeBodyOrNone`, `OneSendAfterEnd`, `SendsBounded`, `NoBodyLeft`, `ClosedOnReturn`, `WholeOrError`, `DoReturns`, `ReadReturns` | redirects and retries together; bodies closed on every path, none dropped but by the end of the context; the whole or an error; the one deadline ends an endless chain and a stalled body |

### Bounds

* `RetryMaxCount` 2 or 3: the first attempt, one with a predecessor whose body may still be written,
  and one that is neither first nor last. The limit itself is handled for every value by proof.
* `RetryDefault` has a hook, which may also do nothing, so that what can happen without one is among its behaviours; that without a hook
  `RoundTrip` neither panics nor returns a pair before the context has ended (`PairAllowed` in the contract) is shown by the theorem `ContractCorrect`, which holds for both.
  `CallToBytes` is above a retry layer without one, so that a dropped response can only be the context's.
* `PayloadLen` 1 or 2: with 2 a body can be half sent when the next attempt starts.
* `W` = 6, `Precision` = 3, 9 attempts, `InfiniteAt` = 8: every power below, at and beyond the width of a Duration,
  and infinity, occur within the attempts; waits include negative ones, zero, both ends and 9, which lies halfway between two floats and is rounded down. With
  `Second` = 3 a `Retry-After` of 11 is the smallest that overflows.
* Two goroutines are enough for a writer against a reader, for two batches, and for two first requests on a zero client;
  with a second call each, one also configures between them.
  `MaxCalls` (2 or 1) calls each; `MaxHookCalls` = 1 call from hooks. Symmetry over goroutines is used
  only in runs without liveness properties.
* `LogRetry`: a clock of 2 gives every attempt and the pause between them a latency of 0, 1 or 2; `SlowLatency` = 0 lies between.
* `OptionMerge`: one call each is enough for a call to meet what an earlier one left in a shared option, since the other caller's call may be over. The values two
  settings give are told apart, so that the later and the earlier are. `ByHand` says which names may stand in `Headers` in another case.
* `MultipartForm`: 2 sendings let one read the buffer and another its array; 3 parts let a reader stand inside.
* `CallToBytes`: two chunks are the encoding's header and the rest, so that a body can end before, between and behind; a second `ToBytes`
  meets a closed body. The default policy's 10 requests are 3 (a first, one that is redirected twice, a last). Chains under other policies are
  endless: hops and sendings are counted up to a bound beyond every limit and no further.
* `ReusedAs` bounds the values callers change their structs to.

### Fairness

`RetryTransport!FairSpec`: the goroutine's own steps happen (`GoSteps`). The layer below
and the draining of a response are only sure to end once the context has, which `http.Transport`
watches and closes connections on: `ContextEndsIO`. A timer may be further away than anybody waits
(a `Retry-After`), so `WaitTimer` has no fairness: cancelling must not rely on it.
`WF_vars(BufferBody)` is the assumption that the reader given as a body ends or fails; nothing in the code
sees to it (section 5). Write loops have none.

`HttpClient!FairSpec`: a goroutine that can go on does, including the return of the caller's hooks
and the end of an exchange, which `http.Client.Timeout` (30 s unless configured) sees to. Starting calls is never fair.
Weak fairness for `Announce` is enough because every writer's section ends and the number of calls is bounded;
with unbounded calls it would rest on the mutex being starvation-free, which Go's is.

`ResponseReader!ReaderSpec`: `http.Client`'s own steps happen; the context ends, in `Do` or while a body is read, because of the total timeout (30 s unless
the caller sets `OptTimeout` to 0, which takes this away); after its end a round trip answers, which is
`CancelEndsRoundTrip` of the layer below, and a read that has something to report reports it. No server is assumed to answer and no chunk to arrive.
`RequestOption`, `Multipart` and `LogTransport` state no liveness: they add nothing that waits.

## 4. What is proved

Every invariant and every safety property over steps that a run checks is also a theorem, for every value of the
constants that the modules' assumptions allow; so are the three refinements. Nothing bounds the number of attempts,
goroutines, callers, options, parts or chunks in a proof. The bounds that keep TLC's counters finite are constants like
any other there: any natural number.

| module | theorem | statement |
|---|---|---|
| `RetryTransportProofs` | `TypeCorrect`, `LimitCorrect`, `ReplayCorrect`, `CloseCorrect`, `LeakCorrect`, `ReadableCorrect` | `Spec =>` always `TypeOK`, `AttemptsWithinLimit`, `PayloadIntact`, `CallerBodyClosed`, `NoResponseLeak`, `ReturnedResponseReadable` |
| | `CancelCorrect`, `SingleOutcomeCorrect`, `AnswerCorrect` | with `CustomPolicy = FALSE`: `AtMostOneAttemptAfterCancel`, `PairOnlyFromContextOrHook`, `AlwaysAnAnswer` |
| | `ContractCorrect` | with `CustomPolicy = FALSE`: `Spec => KeepsContract`, every behaviour is one of `RoundTripContract` |
| `LogTransportProofs` | `TransparentCorrect` | `LogSpec => Transparent`: every behaviour is one of `RetryTransport` |
| | `ComposedCorrect`, `ComposedContractCorrect` | the theorems about the retry layer hold with the log layer under it |
| | `LogTypeCorrect`, `ObservedCorrect`, `LatencyCorrect` | `LogTypeOK`, `EveryAttemptObserved`, `LatencyOfAttempt` |
| `BackoffProofs` | `TypeCorrect`, `ExponentialCorrect`, `MaximumCorrect`, `LinearCorrect` | `TypeOK`, `ExponentialInRange`, `ExponentialReachesMaximum`, `LinearInRange` |
| | `NeverShrinksCorrect` | `Spec => ExponentialNeverShrinks`, about two consecutive waits |
| `HttpClientProofs` | `TypeCorrect`, `JarCorrect` | `TypeOK` (nobody beside a writer), `OneDefaultJar` |
| | `RefinementCorrect` | `Spec => ImplementsAtomicClient` |
| `RequestOptionProofs` | `TypeCorrect`, `NoLeakCorrect`, `ExpectedCorrect` | `TypeOK`, `NoLeak`, `UndisturbedAsExpected` |
| `MultipartProofs` | `TypeCorrect`, `WholeFormCorrect` | `TypeOK`, `WholeFormOrNone` |
| | `CarriedCorrect` | `Spec => [](Undisturbed => BodyPassedAsIs)` |
| `ResponseReaderProofs` | `ReaderTypeCorrect`, `BodyCorrect`, `DeadlineCorrect`, `SendingsCorrect`, `NoBodyCorrect`, `ClosedCorrect`, `WholeCorrect` | `ReaderTypeOK`, `WholeBodyOrNone`, `OneSendAfterEnd`, `SendsBounded`, `NoBodyLeft`, `ClosedOnReturn`, `WholeOrError` |

The conditions: `CustomPolicy = FALSE` is `DefaultRetryPolicy`; a policy of the caller's own may ask for any retry and return
an error beside a response. No theorem restricts the hook. `Undisturbed` is every way to send a form but `PostMultipartEx` without a retry layer, and for that one the
run `MultipartEx` shows the property violated, so the condition cannot be dropped.

The assumptions say what the code's types say (a limit is any integer, a status an integer, a length a natural number, retry options of
callers are objects of theirs). Two are not that. `BackoffAssumption` has the default range fit into a Duration and floats hold at least
`W` bits' worth of powers (1024 against 64 in Go). `PowerAssumption` says that 2^n is positive, doubles with n, grows beyond 2^W and that powers multiply as they should: arithmetic of which the
provers know nothing as soon as the exponent is a variable. TLC evaluates it, like the others, in `BackoffRange`.

### The arguments

None of the properties is inductive alone. In each module the induction is layered; a later part uses the earlier ones.

*RetryTransport.* `ControlInv`: `TypeOK` and at which `pc` which number of attempts is possible. The limit is
compared after an attempt and before the drain, so "fewer than the limit" must be
carried from `drain` through `wait` to the next `attempt`. `BodyInv`: `PayloadIntact` needs that the buffer, once filled, holds the payload
and that the body the request arrived with is untouched before; `CallerBodyClosed` needs that the body closed by attempt
a + 1 is that of attempt a. `ResponseInv`: which response the local variable names while it is judged (`Settled`), so that draining closes the
one that is open. `PolicyInv`: what a verdict of the default policy implies about the context, so that an attempt begun
after the end of the context is the last. `History` and the step lemma `ContractStep`: `cancelAt` against `attemptNum`, and then
each action maps to a step of the contract or to a stutter: `BeginAttempt` to `SendOnce` (or, when
`GetBody` fails, to the answer "error"), `Cancel` to `EndContext`, `Check`, `Hook`, `BufferBody` and
`WaitCancelled` to `Answer` when they return, the others to stutters.

*LogTransport.* `Below`: the log layer only runs inside the retry layer's `send`, and what it has in hand is an answer
`http.Transport` may give at that moment; without it `LogReturns` would not be a `TransportReturns`. That is all the refinement needs: `LogStart`,
`BaseAnswers` and `Tick` stutter. `Recorded`: the length of the histogram is the number of attempts, or one less
during `send`, and attempt a is its entry a. `Spans`: while an attempt is in hand, the time since `startedAt` covers
its `below` and is covered by its `during`; `below` of later attempts is zero, and both of earlier ones no longer change.

*Backoff.* `WaitInv`: the wait is one the backoff computes for the attempt before; the properties then are facts about
`DefaultBackoff` and `LinearJitterBackoff` (`ExponentialExact`, `LinearExact`: what is left of them when conversion, saturation and
wrap-around are worked out). `AsFloatExact` and `AsFloatUnique`: what is a float is its own conversion, and a tie has one winner; `ProductIsFloat`: a float times a power
of two is a float as long as it fits a Duration, so that the comparison of line 108 only fails where the product has left the integers. `PowerInv`: from attempt W on, 2^(i-1) is beyond every Duration; it must be carried from attempt to
attempt since the provers cannot compare powers.

*HttpClient.* `LockInv`: who holds the mutex, seen from where each goroutine is. `OnceInv`: one goroutine runs the
initialisation, and nobody is past it before it is done. `HeapInv`: nobody but its caller has a pointer to a caller's retry options. `SnapInv`: what
a snapshot shares with the client, half way through the copy and after it. `BatchInv` and `PublishedInv`: in the middle of a configuration call the
meaning of the client's fields is the published configuration with exactly those keys replaced that are no longer on the list (`Progress`, key by
key, with the two pairs of keys whose order matters as a choice); while nobody configures, it is the published one. The step map
of `RefinementCorrect`: `FinishBatch` is `Configure`, `CopyFields` is `Begin`, `Send` is `Send`, `PrepareFails` and `DoReturns` are `Finish`,
`Reuse` is `Reuse`, the rest stutters; the hard stutters are `ApplyTransportOption` (the fields change, yet neither
the configuration nor any snapshot does, since transports in use are never written to) and `Reuse` by a caller whose struct has been copied.

*RequestOption.* `Owned`: every setting in an option, a client, a merge or a request belongs to the struct that holds it or to a
call that shares it. `CallAsExpected`: at each point of a call, from where a name will come (`Coming`) has the value the
call expects, unless it has been disturbed.

*Multipart.* `FormInv`: what is written and what is left make up the parts, with their number. `SendInv`: only the first sending may read the buffer, which has enough in it.
`Carried`: the array begins with the form, what is unread of the buffer is what is missing on the wire, what is on the wire is a prefix of the form;
with a retry layer nobody reads from the
buffer itself, so the deferred `Close` writes behind the form, where no sending looks.

*Exchange and ResponseReader.* `Place`: what there is at each point of `Do`; only streams are used up, a body that is open comes
without an error, and a dropped one came in a pair. `Deadline`: a sending after the end of the context is answered by an error, alone or beside a response that is dropped, which ends the exchange. `Sendings`: before
the next hop at most `hop * Limit` requests plus those of this hop have gone out. `Reading`: while a body is open nobody has read of it, so that what is read starts at its
beginning; an empty body needs nobody to open it and has no beginning to miss. The fairness of `ReaderSpec` is not used (`SafetyOfSpec`).

### Only model-checked

* Liveness: `CancelEndsRoundTrip`, `EveryCallReturns`, `DoReturns`, `ReadReturns`. The proof system has no rules for fairness
  that its backends can use.
* The four violated properties are refuted by their runs; there is nothing to prove.
* The proofs, like the runs, are about the models: that a model says what the code does is a matter of reading both, with the lines
  `PROJECT.json` gives for each definition.

## 5. Findings

Shown by a run:

1. **Permanent failures are retried** (`RetryPermanent`). `baseRetryPolicy` recognises them only inside a
   `*url.Error` (http_retry_policy.go:33). That is what `http.Client.Do` returns; the retry layer sits *below*
   `http.Client` and gets the bare error of `http.Transport`, so an unsupported scheme or an untrusted certificate is
   tried as often as a broken connection.
2. **Cookies of one request are sent by others** (`ClientCookies`). http_client.go:853 stores the cookies of a
   `RequestOption` in the client's jar.
3. **A shared option mixes content types** (`OptionTypeRace`). `sendJson` and `PostMultipart` write the type into the caller's
   `RequestOption` (http_client.go:948, 1054, 1098) and copy it later; another call in between replaces it. The option has a mutex,
   so callers may well share it. The type also stays: a later `Post` with the same option sends it.
4. **`PostMultipartEx` changes its body while it is sent** (`MultipartEx`). The deferred `Close` of http_client.go:1074 writes another
   boundary into the buffer. Without a retry layer the write loop reads that very buffer, and an early answer lets `Do` return first: the
   connection breaks on a body longer than announced, or, after a redirect that keeps the body, the array is overwritten from its beginning.

Met while modelling, visible in the code without a run:

* The total timeout does not cover buffering: http_retry_trans.go:135 reads the body with `io.ReadAll`, which no context interrupts.
* A `Retry-After` of 9223372037 seconds or more overflows: http_retry_policy.go:126 multiplies Durations, and a negative wait is no wait.
* A name in another case, in the exported `Headers`, survives beside the client's default (http_client.go:805), and map order decides
  which is sent; the client's headers are documented as overridden per call (298).
* A `RetryErrorFunc` that returns a response and an error makes `RoundTrip` return both (http_retry_trans.go:165, 195) when the policy or the limit ends the loop:
  `http.Client` drops the response, and its body stays open, one per call, unless the hook has closed it. One that returns neither makes
  `DefaultRetryPolicy` dereference nil.
* A minimum wait above 2^53 ns is rounded by http_retry_policy.go:104 and may be undercut.
* `LinearJitterBackoff` neither looks for an overflow nor at the maximum wait (http_retry_policy.go:163).
* `Defaults` is documented as unsafe beside requests in flight (http_client.go:412); in the run `ClientBatch` it does what `WithOptions` does.
* An empty body under `Content-Encoding: gzip`, as in the answer to a HEAD, makes `ToBytes` fail (http_response.go:36); an empty body without one is
  read without an error also from the response that `Do` returned beside one.
* A body in a coding other than gzip and deflate is handed on as it is (http_response.go:42).
* `deflate` bodies are refused: http_response.go:41 expects raw DEFLATE, the coding is zlib.
* The limit of attempts is per hop, not "total" (http_retry_trans.go:57): every redirect is a new round trip. `SendsBounded` is what does hold.
* One access line per attempt, where http_log_trans.go:50 says per request; the latency ends with the header, where metric.go:11 says
  with the last byte.
* `appendParams` drops pairs that do not parse (http_util.go:25), and `GetRealIP` tests the first hop only (69).

## 6. What is not modelled

* `http.Transport`'s pools and connections: the model takes the transport to be a layer that answers, and a
  write loop that may outlive the answer.
* Cookies set by servers, the text of log lines and dumps: no state of this package is involved.
* Text: header values, URLs and error messages are kinds; a proxy URL that does not parse is a bad value.
* The panics of nil callbacks passed by a caller.
* A hook that replaces the transport of the `http.Client` it is given, or that turns an answer into a redirect of its own.
* `appendParams`, `GetRealIP`, `GetRealHost` and `GetRealPort`: sequential functions of their arguments, which unit tests reach. Constants and
  documentation files.

## 7. Plan

Modelled, in this order: `RetryPolicy`, `RetryTransport`, `RoundTripContract` and their proofs; `Backoff`;
`ClientConfig`, `AtomicClient`, `HttpClient`; `LogTransport`, `RequestOption`, `Multipart`, `Exchange`, `ResponseReader`.

Proved: `RetryTransport` and its contract; `LogTransport` and its refinement of `RetryTransport`; `Exchange` and `ResponseReader`;
`Multipart`; `RequestOption`; `HttpClient` and its refinement of `AtomicClient`; `Backoff` (section 4).

Left:

1. `Exchange` takes round trips from `RoundTripContract`, and `ContractCorrect` shows that `RetryTransport` implements it for one. That an exchange
   over `RetryTransport` itself implements `Exchange` would close the chain.
2. What a request carries is shown for `RequestOption` and `HttpClient` apart; one theorem about both would say that
   it is the merge of one configuration and one option.
