----------------------------- MODULE HttpClient -----------------------------
(***************************************************************************)
(* HttpClient (http_client.go) shared by goroutines: configuration calls   *)
(* under the client's RWMutex, lazy initialisation behind its sync.Once,   *)
(* and Do: a snapshot under the read lock, then hooks, cookies and the     *)
(* exchange with no lock held.  What pointers share is modelled: transport *)
(* objects, the structs they and the options point at, cookie jars.        *)
(***************************************************************************)
EXTENDS ClientConfig

CONSTANTS
    Procs,         \* goroutines
    Nobody,
    ReusedAs,      \* bound: what callers change retry options into
    Requests,      \* what Do is called with: is the URL one, and the options and
                   \* cookies RequestOption.snapshot copies; or a call of Transport
    Cookies,
    ZeroClient,    \* a zero HttpClient rather than NewHttpClient's
    MaxCalls,      \* bound: calls per goroutine
    MaxHookCalls   \* bound: configuration calls hooks make, per goroutine

ASSUME ClientAssumption ==
    /\ Nobody \notin Procs
    /\ ZeroClient \in BOOLEAN
    /\ ReusedAs \subseteq Nat
    /\ MaxCalls \in Nat
    /\ MaxHookCalls \in Nat
    /\ Requests \subseteq [opts : [PlainKeys -> OptionValues], cookies : SUBSET Cookies,
                           parses : BOOLEAN, wants : {"exchange", "transport"}]

VARIABLES
    client,      \* the HttpClient's fields
    transports,  \* *http.Transport objects, by address
    cells,       \* tls.Config and RetryTransOption structs, by address
    jars,        \* contents of the cookie jars, by address; 1 is a custom jar
    writer,      \* RWMutex: who holds or has announced the write lock
    readers,     \* ... and who holds read locks
    once,        \* sync.Once
    pc, call, todo, failed, ret, snap, request,
    own,         \* cookies added to the request itself
    wire,        \* cookies the request on the wire carries
    count, hookCount,
    published    \* history: the configuration when no call was being applied

lockVars  == <<writer, readers, once>>
heapVars  == <<transports, cells, jars>>
batchVars == <<call, todo, failed, ret>>
doVars    == <<snap, request, own, wire>>
countVars == <<count, hookCount>>
vars == <<client, published, pc, lockVars, heapVars, batchVars, doVars, countVars>>

NoTransport == 0
NoJar       == 0
CustomJar   == 1

TransportObjects == [pool : Nat, proxy : Proxies, tls : Nat]

NewTransport == [pool |-> DefaultPool, proxy |-> NoProxy, tls |-> 0]

Clients == [options   : [PlainKeys -> OptionValues],
            headers   : [HeaderNames -> OptionValues],
            transport : Nat,
            jar       : Nat,
            err       : SUBSET OptTransports,
            debug     : BOOLEAN]

\* The zero value of HttpClient (its nil maps are empty maps here: every write
\* to one is preceded by a make).
ZeroFields == [options   |-> [k \in PlainKeys |-> Unset],
               headers   |-> [h \in HeaderNames |-> Unset],
               transport |-> NoTransport,
               jar       |-> NoJar,
               err       |-> {},
               debug     |-> FALSE]

NewFields == [ZeroFields EXCEPT !.transport = 1, !.jar = 2]

NoRequest == [opts |-> [k \in PlainKeys |-> Unset], cookies |-> {}, parses |-> TRUE,
              wants |-> "exchange"]

TlsOf(t, heap) == Pointee(t.tls, heap)

\* The configuration a client's fields, or a snapshot of them, stand for.
Meaning(fields, objects, heap) ==
    LET t == IF fields.transport = NoTransport THEN NewTransport
                                               ELSE objects[fields.transport]
    IN [options |-> [k \in PlainKeys |->
                        IF fields.options[k].kind = "ptr"
                        THEN [kind |-> "ptr", v |-> heap[fields.options[k].v].rest]
                        ELSE fields.options[k]],
        headers |-> fields.headers,
        pool    |-> t.pool,
        proxy   |-> t.proxy,
        tls     |-> TlsOf(t, heap),
        err     |-> fields.err,
        debug   |-> fields.debug]

Locations ==
    {"idle", "once", "onceDone", "lock", "drain", "apply", "init", "rlock",
     "copyMaps", "copyFields", "prepare", "requestHook", "send", "inflight",
     "responseHook", "return"}

\* No pointer dangles.
Pointers(fields) ==
    /\ fields.transport \in 0 .. Len(transports)
    /\ fields.jar \in 0 .. Len(jars)
    /\ \A k \in PlainKeys :
          fields.options[k].kind = "ptr" => fields.options[k].v \in 1 .. Len(cells)

Types ==
    /\ client \in Clients /\ Pointers(client)
    /\ transports \in Seq(TransportObjects)
    /\ \A t \in 1 .. Len(transports) : transports[t].tls \in 0 .. Len(cells)
    /\ cells \in Seq(Cells)
    /\ jars \in Seq(SUBSET Cookies)
    /\ writer \in Procs \cup {Nobody}
    /\ readers \subseteq Procs
    /\ once \in {"idle", "running", "done"}
    /\ pc \in [Procs -> Locations]
    /\ call \in [Procs -> Calls]
    /\ todo \in [Procs -> SUBSET (Keys \cup HeaderNames)]
    /\ failed \in [Procs -> SUBSET OptTransports]
    /\ ret \in [Procs -> {"idle", "onceDone", "send", "return"}]
    /\ snap \in [Procs -> Clients] /\ \A p \in Procs : Pointers(snap[p])
    /\ request \in [Procs -> Requests \cup {NoRequest}]
    /\ own \in [Procs -> SUBSET Cookies]
    /\ wire \in [Procs -> SUBSET Cookies]
    /\ count \in [Procs -> 0 .. MaxCalls]
    /\ hookCount \in [Procs -> 0 .. MaxHookCalls]

\* The fields have their types, and whoever writes to them is alone with them.
TypeOK ==
    /\ Types
    /\ \A p \in Procs : pc[p] \in {"apply", "init"} => writer = p /\ readers = {}
-----------------------------------------------------------------------------
Init ==
    /\ client = IF ZeroClient THEN ZeroFields ELSE NewFields
    /\ transports = IF ZeroClient THEN <<>> ELSE <<NewTransport>>
    /\ cells = [c \in 1 .. Templates |-> [insecure |-> FALSE, rest |-> c]]
    /\ jars = IF ZeroClient THEN <<{}>> ELSE <<{}, {}>>
    /\ writer = Nobody
    /\ readers = {}
    /\ once = "idle"
    /\ pc = [p \in Procs |-> "idle"]
    /\ call = [p \in Procs |-> NoCall]
    /\ todo = [p \in Procs |-> {}]
    /\ failed = [p \in Procs |-> {}]
    /\ ret = [p \in Procs |-> "idle"]
    /\ snap = [p \in Procs |-> ZeroFields]
    /\ request = [p \in Procs |-> NoRequest]
    /\ own = [p \in Procs |-> {}]
    /\ wire = [p \in Procs |-> {}]
    /\ count = [p \in Procs |-> 0]
    /\ hookCount = [p \in Procs |-> 0]
    /\ published = Meaning(client, transports, cells)

Goto(p, l) == pc' = [pc EXCEPT ![p] = l]

(***************************************************************************)
(* sync.RWMutex: a writer that has announced itself keeps new readers out  *)
(* and enters when the readers inside have left.                           *)
(***************************************************************************)
Announce(p) ==
    /\ pc[p] = "lock"
    /\ writer = Nobody
    /\ writer' = p
    /\ Goto(p, "drain")
    /\ UNCHANGED <<client, published, readers, once, heapVars, batchVars, doVars, countVars>>

Enter(p) ==
    /\ pc[p] = "drain"
    /\ readers = {}
    /\ Goto(p, IF ret[p] = "onceDone" THEN "init" ELSE "apply")
    /\ UNCHANGED <<client, published, lockVars, heapVars, batchVars, doVars, countVars>>

Unlock(p) == writer = p /\ writer' = Nobody

\* Mutant: newClientSnapshot takes no lock.
RLockBesideWriter(p) ==
    /\ pc[p] = "rlock"
    /\ readers' = readers \cup {p}
    /\ Goto(p, "copyMaps")
    /\ UNCHANGED <<client, published, writer, once, heapVars, batchVars, doVars, countVars>>

RLock(p) ==
    /\ pc[p] = "rlock"
    /\ writer = Nobody
    /\ readers' = readers \cup {p}
    /\ Goto(p, "copyMaps")
    /\ UNCHANGED <<client, published, writer, once, heapVars, batchVars, doVars, countVars>>

(***************************************************************************)
(* Configuration: WithOption, WithOptions, Defaults, WithHeader, Debug.    *)
(***************************************************************************)
StartBatch(p, c, back) ==
    /\ call' = [call EXCEPT ![p] = c]
    /\ todo' = [todo EXCEPT ![p] = {k \in Keys : Given(c, k)}
                                     \cup {h \in HeaderNames : c.hdrs[h] # Unset}]
    /\ failed' = [failed EXCEPT ![p] = {}]
    /\ ret' = [ret EXCEPT ![p] = back]
    /\ Goto(p, "lock")

CallConfig(p) ==
    /\ pc[p] = "idle"
    /\ count[p] < MaxCalls
    /\ count' = [count EXCEPT ![p] = @ + 1]
    /\ \E c \in ConfigCalls : StartBatch(p, c, "idle")
    /\ UNCHANGED <<client, published, lockVars, heapVars, doVars, hookCount>>

\* ensureTransportLocked, then Transport.Clone, which copies the TLS
\* configuration as well.
Ensured == IF client.transport = NoTransport THEN Append(transports, NewTransport)
                                             ELSE transports
Current == IF client.transport = NoTransport THEN Len(Ensured) ELSE client.transport
Clone   == [Ensured[Current] EXCEPT !.tls = IF @ = 0 THEN 0 ELSE Len(cells) + 1]
CloneTls == TlsOf(Ensured[Current], cells)

\* The clone with the option set on it, and the struct its TLS pointer is to.
Updated(key, v) ==
    CASE key = "pool"      -> [Clone EXCEPT !.pool = v]
      [] key = "proxyUrl"  -> [Clone EXCEPT !.proxy = [kind |-> "url", v |-> v]]
      [] key = "proxyFunc" -> [Clone EXCEPT !.proxy = [kind |-> "func", v |-> v]]
      [] key = "unsafeTls" -> [Clone EXCEPT !.tls = Len(cells) + 1]
      [] key = "tlsConfig" -> [Clone EXCEPT !.tls = v]

CellsWith(key, v) ==
    IF key = "unsafeTls" THEN Append(cells, [CloneTls EXCEPT !.insecure = (v = 1)])
    ELSE IF key = "tlsConfig" \/ Clone.tls = 0 THEN cells
    ELSE Append(cells, CloneTls)

\* Mutant: the option is set on the transport requests are using.
SetInPlace(p, key) ==
    LET val == call[p].opts[key] IN
    IF val.kind = "bad"
    THEN /\ transports' = Ensured
         /\ client' = [client EXCEPT !.transport = Current]
         /\ failed' = [failed EXCEPT ![p] = @ \cup {key}]
         /\ UNCHANGED cells
    ELSE /\ transports' = [Ensured EXCEPT ![Current] = Updated(key, val.v)]
         /\ client' = [client EXCEPT !.transport = Current]
         /\ cells' = CellsWith(key, val.v)
         /\ UNCHANGED failed

ResetTransport(p, key) ==
    LET val == call[p].opts[key] IN
    IF val.kind = "bad"
    THEN /\ transports' = Ensured
         /\ client' = [client EXCEPT !.transport = Current]
         /\ failed' = [failed EXCEPT ![p] = @ \cup {key}]
         /\ UNCHANGED cells
    ELSE /\ transports' = Append(Ensured, Updated(key, val.v))
         /\ client' = [client EXCEPT !.transport = Len(Ensured) + 1]
         /\ cells' = CellsWith(key, val.v)
         /\ UNCHANGED failed

\* The options of one call, in the order Go's map iteration happens to take.
ApplyTransportOption(p) ==
    /\ pc[p] = "apply"
    /\ \E key \in todo[p] \cap OptTransports :
          /\ ResetTransport(p, key)
          /\ todo' = [todo EXCEPT ![p] = @ \ {key}]
    /\ UNCHANGED <<published, pc, lockVars, jars, call, ret, doVars, countVars>>

\* cloneOptionValue: a retry option is copied, any other value stored as it is.
ApplyOption(p) ==
    /\ pc[p] = "apply"
    /\ \E key \in todo[p] \cap PlainKeys :
          LET val == call[p].opts[key] IN
          /\ IF val.kind = "ptr"
             THEN /\ cells' = Append(cells, cells[val.v])
                  /\ client' = [client EXCEPT !.options[key] = Ptr(Len(cells) + 1)]
             ELSE /\ client' = [client EXCEPT !.options[key] = val]
                  /\ UNCHANGED cells
          /\ todo' = [todo EXCEPT ![p] = @ \ {key}]
    /\ UNCHANGED <<published, pc, lockVars, transports, jars, call, failed, ret, doVars, countVars>>

\* Defaults merges headers after the options.
ApplyHeader(p) ==
    /\ pc[p] = "apply"
    /\ todo[p] \cap Keys = {}
    /\ \E h \in todo[p] \cap HeaderNames :
          /\ client' = [client EXCEPT !.headers[h] = call[p].hdrs[h]]
          /\ todo' = [todo EXCEPT ![p] = @ \ {h}]
    /\ UNCHANGED <<published, pc, lockVars, heapVars, call, failed, ret, doVars, countVars>>

\* The failures replace those recorded before; success clears them.
FinishBatch(p) ==
    /\ pc[p] = "apply"
    /\ todo[p] = {}
    /\ client' = [client EXCEPT
          !.err = IF \A k \in OptTransports : ~Given(call[p], k) THEN @ ELSE failed[p],
          !.debug = DebugAfter(call[p], @)]
    /\ published' = Meaning(client', transports, cells)
    /\ Unlock(p)
    /\ Goto(p, ret[p])
    /\ call' = [call EXCEPT ![p] = NoCall]
    /\ failed' = [failed EXCEPT ![p] = {}]
    /\ ret' = [ret EXCEPT ![p] = "idle"]
    /\ UNCHANGED <<readers, once, todo, heapVars, doVars, countVars>>

(***************************************************************************)
(* lazyInitTransport.                                                      *)
(***************************************************************************)
CallDo(p) ==
    /\ pc[p] = "idle"
    /\ count[p] < MaxCalls
    /\ count' = [count EXCEPT ![p] = @ + 1]
    /\ request' \in {[request EXCEPT ![p] = r] : r \in Requests}
    /\ Goto(p, "once")
    /\ UNCHANGED <<client, published, lockVars, heapVars, batchVars, snap, own, wire, hookCount>>

\* Others that come while it runs wait; later ones go straight on.
OnceEnter(p) ==
    /\ pc[p] = "once"
    /\ once = "idle"
    /\ once' = "running"
    /\ ret' = [ret EXCEPT ![p] = "onceDone"]
    /\ Goto(p, "lock")
    /\ UNCHANGED <<client, published, writer, readers, heapVars, call, todo, failed,
                   doVars, countVars>>

\* Mutant: who comes second does not wait for the first to be done.
OncePassedEarly(p) ==
    /\ pc[p] = "once"
    /\ once # "idle"
    /\ Goto(p, "rlock")
    /\ UNCHANGED <<client, published, lockVars, heapVars, batchVars, doVars, countVars>>

OncePassed(p) ==
    /\ pc[p] = "once"
    /\ once = "done"
    /\ Goto(p, "rlock")
    /\ UNCHANGED <<client, published, lockVars, heapVars, batchVars, doVars, countVars>>

\* Mutant: a transport that is there already is replaced.
InitTransportAnew(p) ==
    /\ pc[p] = "init"
    /\ transports' = Append(transports, NewTransport)
    /\ jars' = IF client.jar = NoJar THEN Append(jars, {}) ELSE jars
    /\ client' = [client EXCEPT !.transport = Len(transports'),
                                !.jar = IF @ = NoJar THEN Len(jars') ELSE @]
    /\ Unlock(p)
    /\ Goto(p, "onceDone")
    /\ UNCHANGED <<published, readers, once, cells, batchVars, doVars, countVars>>

InitTransport(p) ==
    /\ pc[p] = "init"
    /\ transports' = Ensured
    /\ jars' = IF client.jar = NoJar THEN Append(jars, {}) ELSE jars
    /\ client' = [client EXCEPT !.transport = Current,
                                !.jar = IF @ = NoJar THEN Len(jars') ELSE @]
    /\ Unlock(p)
    /\ Goto(p, "onceDone")
    /\ UNCHANGED <<published, readers, once, cells, batchVars, doVars, countVars>>

OnceDone(p) ==
    /\ pc[p] = "onceDone"
    /\ once' = "done"
    /\ ret' = [ret EXCEPT ![p] = "idle"]
    /\ Goto(p, "rlock")
    /\ UNCHANGED <<client, published, writer, readers, heapVars, call, todo, failed,
                   doVars, countVars>>

(***************************************************************************)
(* Do.                                                                     *)
(***************************************************************************)
\* newClientSnapshot reads under the read lock, one field after another.
CopyMaps(p) ==
    /\ pc[p] = "copyMaps"
    /\ request[p].wants = "exchange"
    /\ snap' = [snap EXCEPT ![p].options = client.options, ![p].headers = client.headers]
    /\ Goto(p, "copyFields")
    /\ UNCHANGED <<client, published, lockVars, heapVars, batchVars, request, own, wire, countVars>>

\* Mutant: the read lock is kept while Do works, over its hooks too.
CopyFieldsKeepsLock(p) ==
    /\ pc[p] = "copyFields"
    /\ snap' = [snap EXCEPT ![p].transport = client.transport, ![p].jar = client.jar,
                            ![p].err = client.err, ![p].debug = client.debug]
    /\ Goto(p, "prepare")
    /\ UNCHANGED <<client, published, lockVars, heapVars, batchVars, request, own, wire, countVars>>

CopyFields(p) ==
    /\ pc[p] = "copyFields"
    /\ snap' = [snap EXCEPT ![p].transport = client.transport, ![p].jar = client.jar,
                            ![p].err = client.err, ![p].debug = client.debug]
    /\ readers' = readers \ {p}
    /\ Goto(p, "prepare")
    /\ UNCHANGED <<client, published, writer, once, heapVars, batchVars, request, own, wire, countVars>>

\* Per-request options win over the client's.
Option(p, key) ==
    IF request[p].opts[key].kind = "unset" THEN snap[p].options[key]
                                           ELSE request[p].opts[key]

\* prepareCookieJar, for values it accepts: false, true, or a jar.
JarOf(p) ==
    LET opt == Option(p, "jar")
    IN IF opt.kind = "unset" \/ opt.v = 1 THEN snap[p].jar
       ELSE IF opt.v = 0 THEN NoJar ELSE CustomJar

Return(p) ==
    /\ Goto(p, "idle")
    /\ snap' = [snap EXCEPT ![p] = ZeroFields]
    /\ request' = [request EXCEPT ![p] = NoRequest]
    /\ own' = [own EXCEPT ![p] = {}]
    /\ wire' = [wire EXCEPT ![p] = {}]

\* Transport gives the transport away, under the read lock.
TransportReturns(p) ==
    /\ pc[p] = "copyMaps"
    /\ request[p].wants = "transport"
    /\ readers' = readers \ {p}
    /\ Return(p)
    /\ UNCHANGED <<client, published, writer, once, heapVars, batchVars, countVars>>

\* A recorded transport error, a value of the wrong type (hooks aside) or a
\* URL that does not parse ends Do before anything is sent.
PrepareFails(p) ==
    /\ pc[p] = "prepare"
    /\ \/ snap[p].err # {}
       \/ \E key \in {"timeout", "jar", "retry"} : Option(p, key).kind = "bad"
       \/ ~request[p].parses
    /\ Return(p)
    /\ UNCHANGED <<client, published, lockVars, heapVars, batchVars, countVars>>

\* The http.Client and the request are built from locals; the cookies of the
\* request go into the jar, or onto the request when there is none.
Prepare(p) ==
    /\ pc[p] = "prepare"
    /\ snap[p].err = {}
    /\ \A key \in {"timeout", "jar", "retry"} : Option(p, key).kind # "bad"
    /\ request[p].parses
    /\ IF JarOf(p) = NoJar
       THEN own' = [own EXCEPT ![p] = request[p].cookies] /\ UNCHANGED jars
       ELSE jars' = [jars EXCEPT ![JarOf(p)] = @ \cup request[p].cookies] /\ UNCHANGED own
    /\ Goto(p, IF Option(p, "hook").kind = "val" THEN "requestHook" ELSE "send")
    /\ UNCHANGED <<client, published, lockVars, transports, cells, batchVars, snap,
                   request, wire, countVars>>

\* A hook runs the caller's code, which may configure the same client.
HookReturns(p) ==
    /\ \/ pc[p] = "requestHook" /\ Goto(p, "send")
       \/ pc[p] = "responseHook" /\ Goto(p, "return")
    /\ UNCHANGED <<client, published, lockVars, heapVars, batchVars, doVars, countVars>>

HookConfigures(p) ==
    /\ pc[p] \in {"requestHook", "responseHook"}
    /\ hookCount[p] < MaxHookCalls
    /\ hookCount' = [hookCount EXCEPT ![p] = @ + 1]
    /\ \E c \in ConfigCalls :
          StartBatch(p, c, IF pc[p] = "requestHook" THEN "send" ELSE "return")
    /\ UNCHANGED <<client, published, lockVars, heapVars, doVars, count>>

\* client.Do: http.Client takes the cookies from the jar, and the exchange
\* begins on the snapshot's transport.
Send(p) ==
    /\ pc[p] = "send"
    /\ wire' = [wire EXCEPT ![p] =
                   own[p] \cup (IF JarOf(p) = NoJar THEN {} ELSE jars[JarOf(p)])]
    /\ Goto(p, "inflight")
    /\ UNCHANGED <<client, published, lockVars, heapVars, batchVars, snap, request, own, countVars>>

Answered(p) ==
    /\ pc[p] = "inflight"
    /\ Goto(p, IF Option(p, "hook").kind = "val" THEN "responseHook" ELSE "return")
    /\ UNCHANGED <<client, published, lockVars, heapVars, batchVars, doVars, countVars>>

DoReturns(p) ==
    /\ pc[p] = "return"
    /\ Return(p)
    /\ UNCHANGED <<client, published, lockVars, heapVars, batchVars, countVars>>

(***************************************************************************)
(* A caller changes retry options it has handed over, but not while a call *)
(* is copying them.                                                        *)
(***************************************************************************)
Reuse(c) ==
    /\ \A p \in Procs : pc[p] # "apply"
    /\ \E n \in ReusedAs : cells' = [cells EXCEPT ![c].rest = n]
    /\ UNCHANGED <<client, published, pc, lockVars, transports, jars, batchVars, doVars, countVars>>

Terminated ==
    /\ \A p \in Procs : pc[p] = "idle" /\ count[p] = MaxCalls
    /\ UNCHANGED vars

LockSteps(p)   == Announce(p) \/ Enter(p) \/ RLock(p)
ConfigSteps(p) == ApplyTransportOption(p) \/ ApplyOption(p) \/ ApplyHeader(p) \/ FinishBatch(p)
InitSteps(p)   == OnceEnter(p) \/ OncePassed(p) \/ InitTransport(p) \/ OnceDone(p)
DoSteps(p)     == \/ CopyMaps(p) \/ CopyFields(p) \/ TransportReturns(p)
                  \/ PrepareFails(p) \/ Prepare(p)
                  \/ HookReturns(p) \/ Send(p) \/ Answered(p) \/ DoReturns(p)

Steps(p) == LockSteps(p) \/ ConfigSteps(p) \/ InitSteps(p) \/ DoSteps(p)

Next ==
    \/ \E p \in Procs : CallConfig(p) \/ CallDo(p) \/ HookConfigures(p) \/ Steps(p)
    \/ \E c \in RetryTemplates : Reuse(c)
    \/ Terminated

Spec == Init /\ [][Next]_vars

(***************************************************************************)
(* Fairness: a goroutine that can go on does.  Every exchange ends, as the *)
(* total timeout of http.Client sees to; hooks return.                     *)
(***************************************************************************)
FairSpec == Spec /\ \A p \in Procs : WF_vars(Steps(p))
-----------------------------------------------------------------------------
(***************************************************************************)
(* Properties.                                                             *)
(***************************************************************************)

\* Where a goroutine's request stands; a hook's configuration call is part of it.
Applying(p) == pc[p] \in {"lock", "drain", "apply"}

Begun(p) == \/ pc[p] \in {"prepare", "requestHook", "send"}
            \/ Applying(p) /\ ret[p] = "send"

Sent(p) == \/ pc[p] \in {"inflight", "responseHook", "return"}
           \/ Applying(p) /\ ret[p] = "return"

\* The refinement: what AtomicClient promises.  Configuration calls (those of the
\* run, each under one lock; Defaults among them, whose comment asks the caller
\* to synchronise it with requests in flight) are applied whole and none is
\* lost, a request works from the one configuration it began with although Do
\* holds no lock, and it is sent only when that configuration carries no
\* transport error; what a caller does to its retry options changes neither, and
\* no call writes to a tls.Config a caller handed over.
Atomic == INSTANCE AtomicClient WITH
    conf      <- published,
    templates <- [c \in 1 .. Templates |-> cells[c]],
    phase     <- [p \in Procs |-> IF Begun(p) THEN "begun"
                                  ELSE IF Sent(p) THEN "sent" ELSE "out"],
    seen      <- [p \in Procs |-> IF Begun(p) \/ Sent(p)
                                  THEN Meaning(snap[p], transports, cells)
                                  ELSE Meaning(ZeroFields, transports, cells)]

ImplementsAtomicClient == Atomic!Spec

\* Lazy initialisation happens once for everybody: whoever reads the client,
\* Transport too, finds it done, no request runs on a nil transport or without
\* a jar, and all share one default jar.
OneDefaultJar ==
    \A p, q \in Procs :
      /\ pc[p] = "copyMaps" => client.transport # NoTransport /\ client.jar # NoJar
      /\ (Begun(p) \/ Sent(p)) /\ (Begun(q) \/ Sent(q))
            => /\ snap[p].transport # NoTransport
               /\ snap[p].jar # NoJar
               /\ snap[p].jar = snap[q].jar

\* Nobody waits for ever: not a writer for readers, not the second request for
\* the first one's initialisation, not a hook that configures its own client.
EveryCallReturns == \A p \in Procs : pc[p] # "idle" ~> pc[p] = "idle"

\* RequestOption carries per-request cookies: a request sends no others (nothing
\* here sets cookies but requests).
CookiesArePerRequest == \A p \in Procs : wire[p] \subseteq request[p].cookies
=============================================================================
