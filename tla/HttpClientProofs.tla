--------------------------- MODULE HttpClientProofs ---------------------------
(***************************************************************************)
(* Proofs about HttpClient, for every set of goroutines, of configuration  *)
(* calls and of requests.  The invariant says who holds the lock and the   *)
(* Once, which structs nobody writes to, and how far a configuration call  *)
(* has got; from it follow the one default jar and, step by step, the      *)
(* refinement of AtomicClient.                                             *)
(***************************************************************************)
EXTENDS HttpClient, SequenceTheorems, TLAPS

\* Who holds the RWMutex.
LockInv ==
    /\ \A p \in Procs : writer = p <=> pc[p] \in {"drain", "apply", "init"}
    /\ \A p \in Procs : p \in readers <=> pc[p] \in {"copyMaps", "copyFields"}
    /\ \A p \in Procs : pc[p] \in {"apply", "init"} => readers = {}

\* Who runs the Once, and who is past it.
Past == {"rlock", "copyMaps", "copyFields", "prepare", "requestHook", "send", "inflight",
         "responseHook", "return"}

OnceInv ==
    /\ \A p \in Procs :
          /\ pc[p] \in {"init", "onceDone"} => ret[p] = "onceDone"
          /\ pc[p] = "apply" => ret[p] # "onceDone"
          /\ pc[p] \notin {"lock", "drain", "apply", "init", "onceDone"} => ret[p] = "idle"
          /\ ret[p] = "onceDone" => once = "running"
          /\ pc[p] \in Past \/ ret[p] \in {"send", "return"} => once = "done"
          /\ once = "done" \/ pc[p] = "onceDone" =>
                client.transport # NoTransport /\ client.jar # NoJar
    /\ \A p, q \in Procs : ret[p] = "onceDone" /\ ret[q] = "onceDone" => p = q

\* Nobody but their owner writes to the callers' retry options, and neither the
\* client, nor a snapshot, nor a transport has a pointer to one.
Kept(fields) ==
    \A k \in PlainKeys :
        fields.options[k].kind = "ptr" => fields.options[k].v \notin RetryTemplates

HeapInv ==
    /\ Templates <= Len(cells) /\ Len(jars) > 0
    /\ \A t \in 1 .. Len(transports) : transports[t].tls \notin RetryTemplates
    /\ Kept(client) /\ \A p \in Procs : Kept(snap[p])

\* What a snapshot has of the client.
SnapOf(p) ==
    /\ pc[p] = "copyFields" =>
          snap[p].options = client.options /\ snap[p].headers = client.headers
    /\ Begun(p) \/ Sent(p) =>
          snap[p].transport # NoTransport /\ snap[p].jar = client.jar
    /\ Begun(p) /\ pc[p] # "prepare" => snap[p].err = {}

SnapInv == \A p \in Procs : SnapOf(p)

\* How far a configuration call has got.
Asked(c) == {k \in Keys : Given(c, k)} \cup {h \in HeaderNames : c.hdrs[h] # Unset}

BatchOf(p) ==
    Applying(p) /\ ret[p] # "onceDone" =>
        /\ call[p] \in ConfigCalls
        /\ todo[p] \subseteq Asked(call[p])
        /\ pc[p] # "apply" => todo[p] = Asked(call[p]) /\ failed[p] = {}

BatchInv == \A p \in Procs : BatchOf(p)

Applied(p, k) == k \notin todo[p] /\ Good(call[p], k)

Now == Meaning(client, transports, cells)

\* What a pointer stands for: the contents of the struct.
Stands(v, heap) ==
    IF v.kind = "ptr" THEN [kind |-> "ptr", v |-> heap[v.v].rest] ELSE v

OptionsApplied(p) ==
    /\ \A k \in PlainKeys : Now.options[k] =
          IF Given(call[p], k) /\ k \notin todo[p] THEN Stands(call[p].opts[k], cells)
                                                   ELSE published.options[k]
    /\ \A h \in HeaderNames : client.headers[h] =
          IF call[p].hdrs[h] # Unset /\ h \notin todo[p] THEN call[p].hdrs[h]
                                                          ELSE published.headers[h]

To(key, v) == [kind |-> IF key = "proxyUrl" THEN "url" ELSE "func", v |-> v]

ProxyApplied(p) ==
    \/ /\ ~Applied(p, "proxyUrl") /\ ~Applied(p, "proxyFunc")
       /\ Now.proxy = published.proxy
    \/ \E key \in {"proxyUrl", "proxyFunc"} :
          Applied(p, key) /\ Now.proxy = To(key, call[p].opts[key].v)

TlsApplied(p) ==
    LET base == IF Applied(p, "tlsConfig") THEN Pointee(call[p].opts["tlsConfig"].v, cells)
                                           ELSE published.tls
    IN \/ /\ Applied(p, "unsafeTls") => Applied(p, "tlsConfig")
          /\ Now.tls = base
       \/ /\ Applied(p, "unsafeTls")
          /\ Now.tls = [base EXCEPT !.insecure = (call[p].opts["unsafeTls"].v = 1)]

Progress(p) ==
    /\ OptionsApplied(p)
    /\ Now.pool = IF Applied(p, "pool") THEN call[p].opts["pool"].v ELSE published.pool
    /\ ProxyApplied(p)
    /\ TlsApplied(p)
    /\ failed[p] = {k \in OptTransports : call[p].opts[k].kind = "bad" /\ k \notin todo[p]}
    /\ client.err = published.err /\ client.debug = published.debug

PublishedInv ==
    /\ (\A p \in Procs : pc[p] # "apply") => published = Now
    /\ \A p \in Procs : pc[p] = "apply" => Progress(p)
-----------------------------------------------------------------------------
(***************************************************************************)
(* The types.                                                              *)
(***************************************************************************)
LEMMA KeyFacts ==
    /\ OptTransports \subseteq Keys /\ PlainKeys \subseteq Keys
    /\ OptTransports \cap PlainKeys = {} /\ HeaderNames \cap Keys = {}
    /\ \A k \in Keys : k \in OptTransports \/ k \in PlainKeys
    /\ {"timeout", "jar", "retry", "hook"} \subseteq PlainKeys
    /\ "retry" \notin OptTransports
    /\ {"pool", "proxyUrl", "proxyFunc", "unsafeTls", "tlsConfig"} = OptTransports
BY ConfigAssumption DEF Keys, OptTransports, PlainKeys

LEMMA CallFacts ==
    ASSUME NEW c \in ConfigCalls
    PROVE  /\ c \in Calls /\ WellFormed(c)
           /\ \A k \in Keys : c.opts[k] \in OptionValues
           /\ \A h \in HeaderNames : c.hdrs[h] \in OptionValues
           /\ Asked(c) \in SUBSET (Keys \cup HeaderNames)
BY ConfigAssumption DEF Calls, Asked

LEMMA NoCallFacts == NoCall \in Calls /\ Unset \in OptionValues
BY DEF NoCall, Calls, Unset, OptionValues

LEMMA ZeroFacts ==
    /\ ZeroFields \in Clients /\ Pointers(ZeroFields) /\ Kept(ZeroFields)
    /\ ZeroFields.transport = NoTransport /\ ZeroFields.jar = NoJar /\ ZeroFields.err = {}
    /\ \A k \in PlainKeys : ZeroFields.options[k].kind = "unset"
<1>1. ZeroFields \in Clients
  BY NoCallFacts DEF ZeroFields, Clients, NoTransport, NoJar
<1>2. \A k \in PlainKeys : ZeroFields.options[k].kind = "unset"
  BY DEF ZeroFields, Unset
<1>3. /\ ZeroFields.transport = NoTransport /\ ZeroFields.jar = NoJar /\ ZeroFields.err = {}
  BY DEF ZeroFields
<1>4. Pointers(ZeroFields)
  BY <1>2, <1>3 DEF Pointers, NoTransport, NoJar
<1> QED
  BY <1>1, <1>2, <1>3, <1>4 DEF Kept

LEMMA GotoFacts ==
    ASSUME Types, NEW p \in Procs, NEW l \in Locations, Goto(p, l)
    PROVE  /\ pc' \in [Procs -> Locations] /\ pc'[p] = l
           /\ \A q \in Procs \ {p} : pc'[q] = pc[q]
BY DEF Types, Goto

Heap ==
    /\ transports \in Seq(TransportObjects)
    /\ \A t \in 1 .. Len(transports) : transports[t].tls \in 0 .. Len(cells)
    /\ cells \in Seq(Cells)
    /\ jars \in Seq(SUBSET Cookies)

\* The heap only grows: no pointer is left dangling.
Grown ==
    /\ Len(transports) <= Len(transports') /\ Len(jars) <= Len(jars')
    /\ Len(cells) <= Len(cells')

LEMMA PointersKept ==
    ASSUME Heap, Heap', Grown, NEW fields, Pointers(fields)
    PROVE  Pointers(fields)'
<1>1. /\ Len(transports) \in Nat /\ Len(jars) \in Nat /\ Len(cells) \in Nat
      /\ Len(transports') \in Nat /\ Len(jars') \in Nat /\ Len(cells') \in Nat
  BY DEF Heap
<1> QED
  BY <1>1 DEF Pointers, Grown

\* Steps that change who is where and who holds what, and no more.
Controls(p) ==
    \/ Announce(p) \/ Enter(p) \/ RLock(p) \/ OnceEnter(p) \/ OncePassed(p) \/ OnceDone(p)
    \/ HookReturns(p) \/ Answered(p)

LEMMA ControlType ==
    ASSUME Types, NEW p \in Procs, Controls(p)
    PROVE  /\ Types'
           /\ UNCHANGED <<client, published, heapVars, call, todo, failed, doVars, countVars>>
           /\ \A q \in Procs \ {p} : pc'[q] = pc[q] /\ ret'[q] = ret[q]
<1>1. UNCHANGED <<client, published, heapVars, call, todo, failed, doVars, countVars>>
  BY DEF Controls, Announce, Enter, RLock, OnceEnter, OncePassed, OnceDone, HookReturns,
         Answered, batchVars, heapVars, doVars, countVars
<1>2. \E l \in Locations : Goto(p, l)
  BY DEF Controls, Announce, Enter, RLock, OnceEnter, OncePassed, OnceDone, HookReturns,
         Answered, Locations
<1>3. pc' \in [Procs -> Locations] /\ \A q \in Procs \ {p} : pc'[q] = pc[q]
  BY <1>2, GotoFacts
<1>4. /\ ret' \in [Procs -> {"idle", "onceDone", "send", "return"}]
      /\ \A q \in Procs \ {p} : ret'[q] = ret[q]
  BY DEF Controls, Announce, Enter, RLock, OnceEnter, OncePassed, OnceDone, HookReturns,
         Answered, batchVars, Types
<1>5. /\ writer' \in Procs \cup {Nobody} /\ readers' \subseteq Procs
      /\ once' \in {"idle", "running", "done"}
  BY DEF Controls, Announce, Enter, RLock, OnceEnter, OncePassed, OnceDone, HookReturns,
         Answered, lockVars, Types
<1>6. Types'
  BY <1>1, <1>3, <1>4, <1>5 DEF Types, Pointers, heapVars, doVars, countVars
<1> QED
  BY <1>1, <1>3, <1>4, <1>6

\* A configuration call begins, by itself or in a hook.
Calling(p) == CallConfig(p) \/ HookConfigures(p)

LEMMA CallingFacts ==
    ASSUME Types, NEW p \in Procs, Calling(p)
    PROVE  /\ Types'
           /\ UNCHANGED <<client, published, lockVars, heapVars, doVars>>
           /\ call'[p] \in ConfigCalls /\ todo'[p] = Asked(call'[p]) /\ failed'[p] = {}
           /\ pc'[p] = "lock"
           /\ \/ pc[p] = "idle" /\ ret'[p] = "idle"
              \/ pc[p] = "requestHook" /\ ret'[p] = "send"
              \/ pc[p] = "responseHook" /\ ret'[p] = "return"
           /\ \A q \in Procs \ {p} :
                 /\ pc'[q] = pc[q] /\ ret'[q] = ret[q] /\ call'[q] = call[q]
                 /\ todo'[q] = todo[q] /\ failed'[q] = failed[q]
<1>1. PICK c \in ConfigCalls, back \in {"idle", "send", "return"} :
         /\ StartBatch(p, c, back)
         /\ \/ pc[p] = "idle" /\ back = "idle"
            \/ pc[p] = "requestHook" /\ back = "send"
            \/ pc[p] = "responseHook" /\ back = "return"
  BY DEF Calling, CallConfig, HookConfigures
<1>2. UNCHANGED <<client, published, lockVars, heapVars, doVars>>
  BY DEF Calling, CallConfig, HookConfigures
<1>3. /\ count' \in [Procs -> 0 .. MaxCalls] /\ hookCount' \in [Procs -> 0 .. MaxHookCalls]
  <2>1. CASE CallConfig(p)
    <3>1. count[p] + 1 \in 0 .. MaxCalls
      BY <2>1, ClientAssumption DEF CallConfig, Types
    <3> QED
      BY <2>1, <3>1 DEF CallConfig, Types
  <2>2. CASE HookConfigures(p)
    <3>1. hookCount[p] + 1 \in 0 .. MaxHookCalls
      BY <2>2, ClientAssumption DEF HookConfigures, Types
    <3> QED
      BY <2>2, <3>1 DEF HookConfigures, Types
  <2> QED
    BY <2>1, <2>2 DEF Calling
<1>4. /\ pc' \in [Procs -> Locations] /\ pc'[p] = "lock"
      /\ \A q \in Procs \ {p} : pc'[q] = pc[q]
  BY <1>1, GotoFacts DEF StartBatch, Locations
<1>5. Asked(c) \in SUBSET (Keys \cup HeaderNames) /\ c \in Calls
  BY CallFacts
<1>6. /\ call' \in [Procs -> Calls] /\ call'[p] = c
      /\ todo' \in [Procs -> SUBSET (Keys \cup HeaderNames)] /\ todo'[p] = Asked(c)
      /\ \A q \in Procs \ {p} : call'[q] = call[q] /\ todo'[q] = todo[q]
  <2>1. call' = [call EXCEPT ![p] = c] /\ todo' = [todo EXCEPT ![p] = Asked(c)]
    BY <1>1 DEF StartBatch, Asked
  <2> QED
    BY <1>5, <2>1 DEF Types
<1>7. /\ failed' \in [Procs -> SUBSET OptTransports] /\ failed'[p] = {}
      /\ ret' \in [Procs -> {"idle", "onceDone", "send", "return"}] /\ ret'[p] = back
      /\ \A q \in Procs \ {p} : failed'[q] = failed[q] /\ ret'[q] = ret[q]
  BY <1>1 DEF StartBatch, Types
<1>8. Types'
  BY <1>2, <1>3, <1>4, <1>6, <1>7 DEF Types, Pointers, lockVars, heapVars, doVars
<1> QED
  BY <1>1, <1>2, <1>4, <1>6, <1>7, <1>8

LEMMA CallDoFacts ==
    ASSUME Types, NEW p \in Procs, CallDo(p)
    PROVE  /\ Types' /\ pc[p] = "idle" /\ pc'[p] = "once"
           /\ UNCHANGED <<client, published, lockVars, heapVars, batchVars, snap, own, wire>>
           /\ \A q \in Procs \ {p} : pc'[q] = pc[q]
<1>1. UNCHANGED <<client, published, lockVars, heapVars, batchVars, snap, own, wire, hookCount>>
  BY DEF CallDo
<1>2. /\ pc' \in [Procs -> Locations] /\ pc[p] = "idle" /\ pc'[p] = "once"
      /\ \A q \in Procs \ {p} : pc'[q] = pc[q]
  BY GotoFacts DEF CallDo, Locations
<1>3. count' \in [Procs -> 0 .. MaxCalls] /\ request' \in [Procs -> Requests \cup {NoRequest}]
  <2>1. count[p] + 1 \in 0 .. MaxCalls
    BY ClientAssumption DEF CallDo, Types
  <2>2. count' \in [Procs -> 0 .. MaxCalls]
    BY <2>1 DEF CallDo, Types
  <2> QED
    BY <2>2 DEF CallDo, Types
<1>4. Types'
  BY <1>1, <1>2, <1>3 DEF Types, Pointers, lockVars, heapVars, batchVars
<1> QED
  BY <1>1, <1>2, <1>4

\* Do, or Transport, is over.
Ends(p) == TransportReturns(p) \/ PrepareFails(p) \/ DoReturns(p)

LEMMA EndsFacts ==
    ASSUME Types, NEW p \in Procs, Ends(p)
    PROVE  /\ Types' /\ pc[p] \in {"copyMaps", "prepare", "return"} /\ pc'[p] = "idle"
           /\ pc[p] = "copyMaps" => readers' = readers \ {p}
           /\ pc[p] # "copyMaps" => UNCHANGED readers
           /\ snap'[p] = ZeroFields
           /\ UNCHANGED <<client, published, writer, once, heapVars, batchVars, countVars>>
           /\ \A q \in Procs \ {p} : pc'[q] = pc[q] /\ snap'[q] = snap[q]
<1>1. /\ Return(p) /\ UNCHANGED <<client, published, writer, once, heapVars, batchVars, countVars>>
      /\ pc[p] \in {"copyMaps", "prepare", "return"}
      /\ pc[p] = "copyMaps" => readers' = readers \ {p}
      /\ pc[p] # "copyMaps" => UNCHANGED readers
  BY DEF Ends, TransportReturns, PrepareFails, DoReturns, lockVars
<1>2. /\ pc' \in [Procs -> Locations] /\ pc'[p] = "idle"
      /\ \A q \in Procs \ {p} : pc'[q] = pc[q]
  BY <1>1, GotoFacts DEF Return, Locations
<1>3. /\ snap' \in [Procs -> Clients] /\ snap'[p] = ZeroFields
      /\ \A q \in Procs \ {p} : snap'[q] = snap[q]
  BY <1>1, ZeroFacts DEF Return, Types
<1>4. /\ request' \in [Procs -> Requests \cup {NoRequest}]
      /\ own' \in [Procs -> SUBSET Cookies] /\ wire' \in [Procs -> SUBSET Cookies]
  BY <1>1 DEF Return, Types
<1>5. readers' \subseteq Procs
  BY <1>1 DEF Types
<1>6. \A q \in Procs : Pointers(snap'[q])
  BY <1>3, ZeroFacts DEF Types
<1>7. Types'
  BY <1>1, <1>2, <1>3, <1>4, <1>5, <1>6 DEF Types, Pointers, heapVars, batchVars, countVars
<1> QED
  BY <1>1, <1>2, <1>3, <1>7

\* The snapshot.
LEMMA CopyMapsFacts ==
    ASSUME Types, NEW p \in Procs, CopyMaps(p)
    PROVE  /\ Types' /\ pc[p] = "copyMaps" /\ pc'[p] = "copyFields"
           /\ snap'[p].options = client.options /\ snap'[p].headers = client.headers
           /\ UNCHANGED <<client, published, lockVars, heapVars, batchVars, request, own, wire>>
           /\ \A q \in Procs \ {p} : pc'[q] = pc[q] /\ snap'[q] = snap[q]
<1>1. /\ UNCHANGED <<client, published, lockVars, heapVars, batchVars, request, own, wire, countVars>>
      /\ pc[p] = "copyMaps"
  BY DEF CopyMaps
<1>2. /\ pc' \in [Procs -> Locations] /\ pc'[p] = "copyFields"
      /\ \A q \in Procs \ {p} : pc'[q] = pc[q]
  BY GotoFacts DEF CopyMaps, Locations
<1>3. snap[p] \in Clients /\ client \in Clients
  BY DEF Types
<1>4. /\ snap' \in [Procs -> Clients]
      /\ snap'[p].options = client.options /\ snap'[p].headers = client.headers
      /\ snap'[p].transport = snap[p].transport /\ snap'[p].jar = snap[p].jar
      /\ \A q \in Procs \ {p} : snap'[q] = snap[q]
  BY <1>3 DEF CopyMaps, Types, Clients
<1>5. \A q \in Procs : Pointers(snap'[q])
  BY <1>4 DEF Types, Pointers
<1>6. Types'
  BY <1>1, <1>2, <1>4, <1>5 DEF Types, Pointers, lockVars, heapVars, batchVars, countVars
<1> QED
  BY <1>1, <1>2, <1>4, <1>6

LEMMA CopyFieldsFacts ==
    ASSUME Types, NEW p \in Procs, CopyFields(p)
    PROVE  /\ Types' /\ pc[p] = "copyFields" /\ pc'[p] = "prepare" /\ readers' = readers \ {p}
           /\ snap'[p].options = snap[p].options /\ snap'[p].headers = snap[p].headers
           /\ snap'[p].transport = client.transport /\ snap'[p].jar = client.jar
           /\ snap'[p].err = client.err /\ snap'[p].debug = client.debug
           /\ UNCHANGED <<client, published, writer, once, heapVars, batchVars, request, own, wire>>
           /\ \A q \in Procs \ {p} : pc'[q] = pc[q] /\ snap'[q] = snap[q]
<1>1. /\ UNCHANGED <<client, published, writer, once, heapVars, batchVars, request, own, wire,
                     countVars>>
      /\ pc[p] = "copyFields" /\ readers' = readers \ {p} /\ readers' \subseteq Procs
  BY DEF CopyFields, Types
<1>2. /\ pc' \in [Procs -> Locations] /\ pc'[p] = "prepare"
      /\ \A q \in Procs \ {p} : pc'[q] = pc[q]
  BY GotoFacts DEF CopyFields, Locations
<1>3. snap[p] \in Clients /\ client \in Clients
  BY DEF Types
<1>4. /\ snap' \in [Procs -> Clients]
      /\ snap'[p].options = snap[p].options /\ snap'[p].headers = snap[p].headers
      /\ snap'[p].transport = client.transport /\ snap'[p].jar = client.jar
      /\ snap'[p].err = client.err /\ snap'[p].debug = client.debug
      /\ \A q \in Procs \ {p} : snap'[q] = snap[q]
  BY <1>3 DEF CopyFields, Types, Clients
<1>5. \A q \in Procs : Pointers(snap'[q])
  BY <1>4 DEF Types, Pointers
<1>6. Types'
  BY <1>1, <1>2, <1>4, <1>5 DEF Types, Pointers, heapVars, batchVars, countVars
<1> QED
  BY <1>1, <1>2, <1>4, <1>6

\* A jar that is used is there.
LEMMA JarRange ==
    ASSUME Types, Len(jars) > 0, NEW p \in Procs
    PROVE  JarOf(p) # NoJar => JarOf(p) \in 1 .. Len(jars)
<1>1. Len(jars) \in Nat /\ snap[p].jar \in 0 .. Len(jars)
  BY DEF Types, Pointers
<1>2. JarOf(p) \in {0, 1, snap[p].jar}
  BY DEF JarOf, NoJar, CustomJar
<1> QED
  BY <1>1, <1>2 DEF NoJar

LEMMA PrepareFacts ==
    ASSUME Types, Len(jars) > 0, NEW p \in Procs, Prepare(p)
    PROVE  /\ Types' /\ pc[p] = "prepare" /\ pc'[p] \in {"requestHook", "send"}
           /\ snap[p].err = {} /\ Len(jars') = Len(jars)
           /\ UNCHANGED <<client, published, lockVars, transports, cells, batchVars, snap>>
           /\ \A q \in Procs \ {p} : pc'[q] = pc[q]
<1>1. /\ UNCHANGED <<client, published, lockVars, transports, cells, batchVars, snap, request,
                     wire, countVars>>
      /\ pc[p] = "prepare" /\ snap[p].err = {}
  BY DEF Prepare
<1>2. /\ pc' \in [Procs -> Locations] /\ pc'[p] \in {"requestHook", "send"}
      /\ \A q \in Procs \ {p} : pc'[q] = pc[q]
  BY GotoFacts DEF Prepare, Locations
<1>3. request[p].cookies \in SUBSET Cookies
  <2>1. request[p] \in Requests \/ request[p] = NoRequest
    BY DEF Types
  <2>2. NoRequest.cookies = {}
    BY DEF NoRequest
  <2>3. \A r \in Requests : r.cookies \in SUBSET Cookies
    BY ClientAssumption
  <2> QED
    BY <2>1, <2>2, <2>3
<1>4. own' \in [Procs -> SUBSET Cookies]
  BY <1>3 DEF Prepare, Types
<1>5. jars' \in Seq(SUBSET Cookies) /\ Len(jars') = Len(jars)
  <2>1. CASE UNCHANGED jars
    BY <2>1 DEF Types
  <2>2. CASE JarOf(p) # NoJar
    <3> DEFINE j == JarOf(p)
               more == request[p].cookies
    <3>1. jars \in Seq(SUBSET Cookies) /\ more \in SUBSET Cookies
      BY <1>3 DEF Types
    <3>2. jars' = [jars EXCEPT ![j] = jars[j] \cup more]
      BY <2>2 DEF Prepare
    <3>3. j \in 1 .. Len(jars)
      BY <2>2, JarRange
    <3> HIDE DEF j, more
    <3>4. jars[j] \cup more \in SUBSET Cookies
      BY <3>1, <3>3
    <3> QED
      BY <3>1, <3>2, <3>3, <3>4, ExceptSeq
  <2> QED
    BY <2>1, <2>2 DEF Prepare
<1>6. Types'
  BY <1>1, <1>2, <1>4, <1>5 DEF Types, Pointers, lockVars, batchVars, countVars
<1> QED
  BY <1>1, <1>2, <1>5, <1>6

LEMMA SendFacts ==
    ASSUME Types, Len(jars) > 0, NEW p \in Procs, Send(p)
    PROVE  /\ Types' /\ pc[p] = "send" /\ pc'[p] = "inflight"
           /\ UNCHANGED <<client, published, lockVars, heapVars, batchVars, snap>>
           /\ \A q \in Procs \ {p} : pc'[q] = pc[q]
<1>1. /\ UNCHANGED <<client, published, lockVars, heapVars, batchVars, snap, request, own, countVars>>
      /\ pc[p] = "send"
  BY DEF Send
<1>2. /\ pc' \in [Procs -> Locations] /\ pc'[p] = "inflight"
      /\ \A q \in Procs \ {p} : pc'[q] = pc[q]
  BY GotoFacts DEF Send, Locations
<1>3. JarOf(p) # NoJar => JarOf(p) \in 1 .. Len(jars)
  BY JarRange
<1>4. JarOf(p) # NoJar => jars[JarOf(p)] \in SUBSET Cookies
  BY <1>3 DEF Types
<1>5. wire' \in [Procs -> SUBSET Cookies]
  BY <1>4 DEF Send, Types
<1>6. Types'
  BY <1>1, <1>2, <1>5 DEF Types, Pointers, lockVars, heapVars, batchVars, countVars
<1> QED
  BY <1>1, <1>2, <1>6

\* A caller changes a retry option of its own.
LEMMA ReuseFacts ==
    ASSUME Types, Templates <= Len(cells), NEW c \in RetryTemplates, Reuse(c)
    PROVE  /\ Types' /\ Len(cells') = Len(cells)
           /\ \A d \in 1 .. Len(cells) : d # c => cells'[d] = cells[d]
           /\ UNCHANGED <<client, published, pc, lockVars, transports, jars, batchVars, doVars>>
<1>1. UNCHANGED <<client, published, pc, lockVars, transports, jars, batchVars, doVars, countVars>>
  BY DEF Reuse
<1>2. c \in 1 .. Len(cells) /\ cells[c] \in Cells
  BY ConfigAssumption DEF Types
<1>3. PICK n \in ReusedAs : cells' = [cells EXCEPT ![c].rest = n]
  BY DEF Reuse
<1>4. n \in Nat /\ [cells[c] EXCEPT !.rest = n] \in Cells
  BY <1>2, ClientAssumption DEF Cells
<1>5. /\ cells' \in Seq(Cells) /\ Len(cells') = Len(cells)
      /\ \A d \in 1 .. Len(cells) : d # c => cells'[d] = cells[d]
  BY <1>2, <1>3, <1>4 DEF Types
<1>6. Types'
  BY <1>1, <1>5 DEF Types, Pointers, lockVars, batchVars, doVars, countVars
<1> QED
  BY <1>1, <1>5, <1>6
-----------------------------------------------------------------------------
(***************************************************************************)
(* What a transport option does to the heap.                               *)
(***************************************************************************)
TransportOf(fields, objects) ==
    IF fields.transport = NoTransport THEN NewTransport ELSE objects[fields.transport]

LEMMA NewTransportFacts ==
    /\ NewTransport \in TransportObjects /\ NewTransport.tls = 0
    /\ ZeroTls \in Cells /\ 0 \notin RetryTemplates
BY ConfigAssumption
   DEF NewTransport, TransportObjects, DefaultPool, NoProxy, Proxies, ZeroTls, Cells

\* Once it is ensured, the client's transport is the one it stood for before.
LEMMA EnsuredFacts ==
    ASSUME Types, HeapInv
    PROVE  /\ Ensured \in Seq(TransportObjects) /\ Len(transports) <= Len(Ensured)
           /\ Current \in 1 .. Len(Ensured) /\ Len(Ensured) \in Nat
           /\ Ensured[Current] = TransportOf(client, transports)
           /\ \A t \in 1 .. Len(transports) : Ensured[t] = transports[t]
           /\ \A t \in 1 .. Len(Ensured) :
                 Ensured[t].tls \in 0 .. Len(cells) /\ Ensured[t].tls \notin RetryTemplates
<1>1. /\ transports \in Seq(TransportObjects) /\ Len(cells) \in Nat /\ Len(transports) \in Nat
      /\ client.transport \in 0 .. Len(transports)
      /\ \A t \in 1 .. Len(transports) :
            transports[t].tls \in 0 .. Len(cells) /\ transports[t].tls \notin RetryTemplates
  BY DEF Types, Pointers, HeapInv
<1>2. CASE client.transport = NoTransport
  <2>1. Ensured = Append(transports, NewTransport) /\ Current = Len(Ensured)
    BY <1>2 DEF Ensured, Current
  <2>2. /\ Ensured \in Seq(TransportObjects) /\ Len(Ensured) = Len(transports) + 1
        /\ Ensured[Len(transports) + 1] = NewTransport
        /\ \A t \in 1 .. Len(transports) : Ensured[t] = transports[t]
    BY <1>1, <2>1, NewTransportFacts
  <2>3. \A t \in 1 .. Len(Ensured) : t \in 1 .. Len(transports) \/ t = Len(transports) + 1
    BY <1>1, <2>2
  <2>4. \A t \in 1 .. Len(Ensured) :
           Ensured[t].tls \in 0 .. Len(cells) /\ Ensured[t].tls \notin RetryTemplates
    BY <1>1, <2>2, <2>3, NewTransportFacts
  <2> QED
    BY <1>1, <1>2, <2>1, <2>2, <2>4 DEF TransportOf
<1>3. CASE client.transport # NoTransport
  BY <1>1, <1>3 DEF Ensured, Current, TransportOf, NoTransport
<1> QED
  BY <1>2, <1>3

LEMMA CloneFacts ==
    ASSUME Types, HeapInv
    PROVE  /\ Clone \in TransportObjects /\ Ensured[Current] \in TransportObjects
           /\ Clone.pool = Ensured[Current].pool /\ Clone.proxy = Ensured[Current].proxy
           /\ Clone.tls = IF Ensured[Current].tls = 0 THEN 0 ELSE Len(cells) + 1
           /\ CloneTls \in Cells
<1>1. /\ Ensured[Current] \in TransportObjects /\ Len(cells) \in Nat
      /\ Ensured[Current].tls \in 0 .. Len(cells)
  BY EnsuredFacts DEF Types
<1>2. /\ Clone \in TransportObjects
      /\ Clone.pool = Ensured[Current].pool /\ Clone.proxy = Ensured[Current].proxy
      /\ Clone.tls = IF Ensured[Current].tls = 0 THEN 0 ELSE Len(cells) + 1
  BY <1>1 DEF Clone, TransportObjects
<1>3. CloneTls \in Cells
  BY <1>1, NewTransportFacts DEF CloneTls, TlsOf, Pointee, Types
<1> QED
  BY <1>1, <1>2, <1>3

\* The values of a good transport option.
LEMMA GoodFacts ==
    ASSUME NEW c \in ConfigCalls, NEW key \in OptTransports, Good(c, key)
    PROVE  /\ c.opts[key].v \in Nat
           /\ key = "tlsConfig" => /\ c.opts[key].v \in 0 .. Templates
                                   /\ c.opts[key].v \notin RetryTemplates
<1>1. c.opts[key] \in OptionValues /\ c.opts[key].kind \in {"val", "ptr"} /\ key \in Keys
  BY CallFacts, KeyFacts DEF Good
<1>2. CASE key = "tlsConfig"
  <2>1. c.opts[key].kind = "ptr" \/ c.opts[key].v = 0
    BY <1>1, <1>2, CallFacts DEF WellFormed, PointerKeys
  <2>2. Templates \in Nat /\ RetryTemplates \subseteq 1 .. Templates
    BY ConfigAssumption
  <2>3. CASE c.opts[key].kind = "ptr"
    BY <1>1, <1>2, <2>2, <2>3, CallFacts DEF WellFormed, OptionValues
  <2>4. CASE c.opts[key].v = 0
    BY <1>2, <2>2, <2>4
  <2> QED
    BY <2>1, <2>3, <2>4
<1>3. CASE key # "tlsConfig"
  BY <1>1, <1>3 DEF OptionValues
<1> QED
  BY <1>2, <1>3

Unsafe(tls, v) == [tls EXCEPT !.insecure = (v = 1)]

LEMMA UnsafeFacts ==
    ASSUME NEW tls \in Cells, NEW v
    PROVE  Unsafe(tls, v) \in Cells
<1>1. (v = 1) \in BOOLEAN
  OBVIOUS
<1> QED
  BY <1>1 DEF Unsafe, Cells

\* The structs an option leaves, and the new ones.
LEMMA CellsWithFacts ==
    ASSUME Types, HeapInv, NEW key \in OptTransports, NEW v
    PROVE  /\ CellsWith(key, v) \in Seq(Cells)
           /\ Len(CellsWith(key, v)) \in Nat /\ Len(cells) <= Len(CellsWith(key, v))
           /\ \A d \in 1 .. Len(cells) : CellsWith(key, v)[d] = cells[d]
           /\ key = "unsafeTls" =>
                 /\ Len(CellsWith(key, v)) = Len(cells) + 1
                 /\ CellsWith(key, v)[Len(cells) + 1] = Unsafe(CloneTls, v)
           /\ key \notin {"unsafeTls", "tlsConfig"} /\ Clone.tls # 0 =>
                 /\ Len(CellsWith(key, v)) = Len(cells) + 1
                 /\ CellsWith(key, v)[Len(cells) + 1] = CloneTls
<1>1. cells \in Seq(Cells) /\ Len(cells) \in Nat /\ CloneTls \in Cells
  BY CloneFacts DEF Types
<1>2. CASE key = "unsafeTls"
  <2>1. CellsWith(key, v) = Append(cells, Unsafe(CloneTls, v)) /\ Unsafe(CloneTls, v) \in Cells
    BY <1>1, <1>2, UnsafeFacts DEF CellsWith, Unsafe
  <2> QED
    BY <1>1, <1>2, <2>1
<1>3. CASE key # "unsafeTls" /\ (key = "tlsConfig" \/ Clone.tls = 0)
  BY <1>1, <1>3 DEF CellsWith
<1>4. CASE key \notin {"unsafeTls", "tlsConfig"} /\ Clone.tls # 0
  <2>1. CellsWith(key, v) = Append(cells, CloneTls)
    BY <1>4 DEF CellsWith
  <2> QED
    BY <1>1, <1>4, <2>1
<1> QED
  BY <1>2, <1>3, <1>4

\* The transport with the option on it is a new object, with nothing else
\* changed, and its TLS configuration is a struct of its own or the caller's.
LEMMA UpdatedFacts ==
    ASSUME Types, HeapInv, NEW c \in ConfigCalls, NEW key \in OptTransports, Good(c, key),
           NEW v, v = c.opts[key].v
    PROVE  /\ Updated(key, v) \in TransportObjects
           /\ Updated(key, v).tls \in 0 .. Len(CellsWith(key, v))
           /\ Updated(key, v).tls \notin RetryTemplates
           /\ Updated(key, v).pool = IF key = "pool" THEN v ELSE Ensured[Current].pool
           /\ Updated(key, v).proxy = IF key \in {"proxyUrl", "proxyFunc"} THEN To(key, v)
                                      ELSE Ensured[Current].proxy
           /\ TlsOf(Updated(key, v), CellsWith(key, v)) =
                 CASE key = "tlsConfig" -> Pointee(v, cells)
                   [] key = "unsafeTls" -> Unsafe(CloneTls, v)
                   [] OTHER -> CloneTls
<1> USE GoodFacts, CloneFacts
<1>1. /\ v \in Nat /\ Len(cells) \in Nat /\ Templates \in Nat /\ Templates <= Len(cells)
      /\ RetryTemplates \subseteq 1 .. Templates
      /\ CellsWith(key, v) \in Seq(Cells) /\ Len(CellsWith(key, v)) \in Nat
  BY ConfigAssumption, CellsWithFacts DEF Types, HeapInv
<1>2. Len(cells) + 1 \notin RetryTemplates /\ 0 \notin RetryTemplates
  BY <1>1
<1>3. Clone.tls = 0 => Ensured[Current].tls = 0 /\ CloneTls = ZeroTls
  BY <1>1, EnsuredFacts DEF CloneTls, TlsOf, Pointee
<1>4. CASE key = "pool"
  <2>1. /\ Updated(key, v) \in TransportObjects
        /\ Updated(key, v).pool = v /\ Updated(key, v).proxy = Ensured[Current].proxy
        /\ Updated(key, v).tls = Clone.tls
    BY <1>1, <1>4 DEF Updated, TransportObjects
  <2> QED
    BY <1>1, <1>2, <1>3, <1>4, <2>1, CellsWithFacts DEF TlsOf, Pointee
<1>5. CASE key \in {"proxyUrl", "proxyFunc"}
  <2>1. To(key, v) \in Proxies
    BY <1>1 DEF To, Proxies
  <2>2. Updated(key, v) = [Clone EXCEPT !.proxy = To(key, v)]
    BY <1>5 DEF Updated, To
  <2>3. /\ Updated(key, v) \in TransportObjects
        /\ Updated(key, v).pool = Ensured[Current].pool /\ Updated(key, v).proxy = To(key, v)
        /\ Updated(key, v).tls = Clone.tls
    BY <2>1, <2>2 DEF TransportObjects
  <2> QED
    BY <1>1, <1>2, <1>3, <1>5, <2>3, CellsWithFacts DEF TlsOf, Pointee
<1>6. CASE key = "unsafeTls"
  <2>1. /\ Updated(key, v) \in TransportObjects
        /\ Updated(key, v).pool = Ensured[Current].pool
        /\ Updated(key, v).proxy = Ensured[Current].proxy
        /\ Updated(key, v).tls = Len(cells) + 1
    BY <1>1, <1>6 DEF Updated, TransportObjects
  <2> QED
    BY <1>1, <1>2, <1>6, <2>1, CellsWithFacts DEF TlsOf, Pointee
<1>7. CASE key = "tlsConfig"
  <2>1. /\ Updated(key, v) \in TransportObjects
        /\ Updated(key, v).pool = Ensured[Current].pool
        /\ Updated(key, v).proxy = Ensured[Current].proxy
        /\ Updated(key, v).tls = v
    BY <1>1, <1>7 DEF Updated, TransportObjects
  <2>2. v \in 0 .. Templates /\ v \notin RetryTemplates /\ CellsWith(key, v) = cells
    BY <1>7 DEF CellsWith
  <2> QED
    BY <1>1, <1>7, <2>1, <2>2 DEF TlsOf, Pointee
<1> QED
  BY <1>4, <1>5, <1>6, <1>7, KeyFacts

\* Whatever a step does, transports and structs that are there stay as they are,
\* apart from the callers' retry options.
Extends ==
    /\ Grown
    /\ \A t \in 1 .. Len(transports) : transports'[t] = transports[t]
    /\ \A d \in (1 .. Len(cells)) \ RetryTemplates : cells'[d] = cells[d]

\* The client's other fields.
SameFields ==
    /\ client'.options = client.options /\ client'.headers = client.headers
    /\ client'.jar = client.jar /\ client'.err = client.err /\ client'.debug = client.debug

LEMMA SnapsKept ==
    ASSUME Types, HeapInv, Heap', Grown, UNCHANGED snap
    PROVE  /\ snap' \in [Procs -> Clients] /\ \A p \in Procs : Pointers(snap[p])'
           /\ \A p \in Procs : Kept(snap[p])'
<1>1. Heap /\ \A p \in Procs : snap[p] \in Clients /\ Pointers(snap[p]) /\ Kept(snap[p])
  BY DEF Types, Heap, HeapInv
<1>2. \A p \in Procs : Pointers(snap[p])'
  BY <1>1, PointersKept
<1> QED
  BY <1>1, <1>2 DEF Types, Kept

LEMMA TransportSet ==
    ASSUME NEW c \in Clients, NEW n \in Nat, NEW d, d = [c EXCEPT !.transport = n]
    PROVE  /\ d \in Clients /\ d.transport = n
           /\ d.options = c.options /\ d.headers = c.headers /\ d.jar = c.jar
           /\ d.err = c.err /\ d.debug = c.debug
BY DEF Clients

LEMMA TransportOptionFacts ==
    ASSUME Types, HeapInv, NEW p \in Procs, call[p] \in ConfigCalls, todo[p] \subseteq Asked(call[p]),
           NEW key \in todo[p] \cap OptTransports, ResetTransport(p, key)
    PROVE  /\ transports' \in Seq(TransportObjects) /\ cells' \in Seq(Cells)
           /\ \A t \in 1 .. Len(transports') :
                 transports'[t].tls \in 0 .. Len(cells') /\ transports'[t].tls \notin RetryTemplates
           /\ Len(transports) <= Len(transports') /\ Len(cells) <= Len(cells')
           /\ \A t \in 1 .. Len(transports) : transports'[t] = transports[t]
           /\ \A d \in 1 .. Len(cells) : cells'[d] = cells[d]
           /\ client' \in Clients /\ SameFields
           /\ client'.transport \in 1 .. Len(transports')
           /\ call[p].opts[key].kind = "bad" =>
                 /\ TransportOf(client', transports') = TransportOf(client, transports)
                 /\ UNCHANGED cells /\ failed' = [failed EXCEPT ![p] = @ \cup {key}]
           /\ call[p].opts[key].kind # "bad" =>
                 /\ Good(call[p], key)
                 /\ TransportOf(client', transports') = Updated(key, call[p].opts[key].v)
                 /\ cells' = CellsWith(key, call[p].opts[key].v) /\ UNCHANGED failed
<1> DEFINE v == call[p].opts[key].v
<1>1. /\ client \in Clients /\ Ensured \in Seq(TransportObjects) /\ Len(Ensured) \in Nat
      /\ cells \in Seq(Cells) /\ Len(cells) \in Nat /\ Len(transports) \in Nat
      /\ key \in Keys /\ key \notin HeaderNames
  BY EnsuredFacts, KeyFacts DEF Types
<1>2. Given(call[p], key)
  BY <1>1 DEF Asked
<1>3. CASE call[p].opts[key].kind = "bad"
  <2>1. /\ transports' = Ensured /\ client' = [client EXCEPT !.transport = Current]
        /\ failed' = [failed EXCEPT ![p] = @ \cup {key}] /\ cells' = cells
    BY <1>3 DEF ResetTransport
  <2>2. /\ client' \in Clients /\ SameFields /\ client'.transport = Current
    <3>1. Current \in Nat
      BY EnsuredFacts
    <3> QED
      BY <1>1, <2>1, <3>1, TransportSet DEF SameFields
  <2>3. TransportOf(client', transports') = TransportOf(client, transports)
    BY <2>1, <2>2, EnsuredFacts DEF TransportOf, NoTransport
  <2> QED
    BY <1>1, <1>3, <2>1, <2>2, <2>3, EnsuredFacts
<1>4. CASE call[p].opts[key].kind # "bad"
  <2>1. Good(call[p], key)
    <3>1. call[p].opts[key].kind \in {"unset", "bad", "val", "ptr"}
      BY <1>1, CallFacts DEF OptionValues
    <3> QED
      BY <1>2, <1>4, <3>1 DEF Good, Given
  <2>2. /\ transports' = Append(Ensured, Updated(key, v))
        /\ client' = [client EXCEPT !.transport = Len(Ensured) + 1]
        /\ cells' = CellsWith(key, v) /\ UNCHANGED failed
    BY <1>4 DEF ResetTransport
  <2>3. /\ Updated(key, v) \in TransportObjects
        /\ Updated(key, v).tls \in 0 .. Len(CellsWith(key, v))
        /\ Updated(key, v).tls \notin RetryTemplates
    BY <2>1, UpdatedFacts
  <2>4. /\ transports' \in Seq(TransportObjects) /\ Len(transports') = Len(Ensured) + 1
        /\ transports'[Len(Ensured) + 1] = Updated(key, v)
        /\ \A t \in 1 .. Len(Ensured) : transports'[t] = Ensured[t]
    BY <1>1, <2>2, <2>3
  <2>5. /\ cells' \in Seq(Cells) /\ Len(cells') \in Nat /\ Len(cells) <= Len(cells')
        /\ \A d \in 1 .. Len(cells) : cells'[d] = cells[d]
    BY <2>2, CellsWithFacts
  <2>6. \A t \in 1 .. Len(transports') :
           transports'[t].tls \in 0 .. Len(cells') /\ transports'[t].tls \notin RetryTemplates
    <3>1. \A t \in 1 .. Len(transports') : t \in 1 .. Len(Ensured) \/ t = Len(Ensured) + 1
      BY <1>1, <2>4
    <3>2. \A t \in 1 .. Len(Ensured) :
             transports'[t].tls \in 0 .. Len(cells') /\ transports'[t].tls \notin RetryTemplates
      <4>1. \A t \in 1 .. Len(Ensured) :
               Ensured[t].tls \in 0 .. Len(cells) /\ Ensured[t].tls \notin RetryTemplates
        BY EnsuredFacts
      <4>2. \A n \in 0 .. Len(cells) : n \in 0 .. Len(cells')
        BY <1>1, <2>5
      <4> QED
        BY <2>4, <4>1, <4>2
    <3> QED
      BY <2>2, <2>3, <2>4, <3>1, <3>2
  <2>7. client' \in Clients /\ SameFields /\ client'.transport = Len(Ensured) + 1
    <3>1. Len(Ensured) + 1 \in Nat
      BY <1>1
    <3> QED
      BY <1>1, <2>2, <3>1, TransportSet DEF SameFields
  <2>8. TransportOf(client', transports') = Updated(key, v)
    BY <1>1, <2>4, <2>7 DEF TransportOf, NoTransport
  <2>9. /\ Len(transports) <= Len(transports')
        /\ \A t \in 1 .. Len(transports) : transports'[t] = transports[t]
    BY <1>1, <2>4, EnsuredFacts
  <2>10. client'.transport \in 1 .. Len(transports')
    BY <1>1, <2>4, <2>7
  <2> QED
    BY <1>4, <2>1, <2>2, <2>4, <2>5, <2>6, <2>7, <2>8, <2>9, <2>10
<1> QED
  BY <1>3, <1>4

\* The pieces from which a step that writes to the heap has its types.
LEMMA HeapStep ==
    ASSUME Types, HeapInv, Heap', Grown, \A t \in 1 .. Len(transports') :
              transports'[t].tls \notin RetryTemplates,
           client' \in Clients, Pointers(client)', Kept(client)', UNCHANGED snap
    PROVE  /\ HeapInv'
           /\ snap' \in [Procs -> Clients] /\ \A p \in Procs : Pointers(snap[p])'
<1>1. Templates <= Len(cells') /\ Len(jars') > 0
  BY ConfigAssumption DEF Types, Heap, HeapInv, Grown
<1> QED
  BY <1>1, SnapsKept DEF HeapInv

LEMMA ApplyTransportFacts ==
    ASSUME Types, HeapInv, BatchInv, OnceInv, NEW p \in Procs, ApplyTransportOption(p)
    PROVE  /\ Types' /\ HeapInv' /\ Extends /\ pc[p] = "apply" /\ call[p] \in ConfigCalls
           /\ UNCHANGED <<published, pc, lockVars, jars, call, ret, doVars>>
           /\ SameFields /\ client'.transport # NoTransport
           /\ \A d \in 1 .. Len(cells) : cells'[d] = cells[d]
           /\ \E key \in todo[p] \cap OptTransports :
                 /\ todo'[p] = todo[p] \ {key}
                 /\ call[p].opts[key].kind = "bad" =>
                       /\ TransportOf(client', transports') = TransportOf(client, transports)
                       /\ UNCHANGED cells /\ failed'[p] = failed[p] \cup {key}
                 /\ call[p].opts[key].kind # "bad" =>
                       /\ Good(call[p], key)
                       /\ TransportOf(client', transports') = Updated(key, call[p].opts[key].v)
                       /\ cells' = CellsWith(key, call[p].opts[key].v)
                       /\ failed'[p] = failed[p]
           /\ \A q \in Procs \ {p} : todo'[q] = todo[q] /\ failed'[q] = failed[q]
<1>1. PICK key \in todo[p] \cap OptTransports :
         ResetTransport(p, key) /\ todo' = [todo EXCEPT ![p] = @ \ {key}]
  BY DEF ApplyTransportOption
<1>2. /\ UNCHANGED <<published, pc, lockVars, jars, call, ret, doVars, countVars>>
      /\ pc[p] = "apply"
  BY DEF ApplyTransportOption
<1>3. call[p] \in ConfigCalls /\ todo[p] \subseteq Asked(call[p])
  BY <1>2 DEF BatchInv, BatchOf, OnceInv, Applying
<1>4. /\ Heap' /\ Grown /\ client' \in Clients /\ SameFields
      /\ client'.transport \in 1 .. Len(transports')
      /\ \A t \in 1 .. Len(transports') : transports'[t].tls \notin RetryTemplates
      /\ \A t \in 1 .. Len(transports) : transports'[t] = transports[t]
      /\ \A d \in 1 .. Len(cells) : cells'[d] = cells[d]
  <2>1. /\ transports' \in Seq(TransportObjects) /\ cells' \in Seq(Cells)
        /\ \A t \in 1 .. Len(transports') :
              transports'[t].tls \in 0 .. Len(cells') /\ transports'[t].tls \notin RetryTemplates
        /\ Len(transports) <= Len(transports') /\ Len(cells) <= Len(cells')
        /\ \A t \in 1 .. Len(transports) : transports'[t] = transports[t]
        /\ \A d \in 1 .. Len(cells) : cells'[d] = cells[d]
        /\ client' \in Clients /\ SameFields
        /\ client'.transport \in 1 .. Len(transports')
    BY <1>1, <1>3, TransportOptionFacts
  <2>2. jars' \in Seq(SUBSET Cookies) /\ Len(jars) <= Len(jars')
    BY <1>2 DEF Types
  <2> QED
    BY <2>1, <2>2 DEF Heap, Grown
<1>5. client'.transport # NoTransport /\ Pointers(client)'
  <2>1. Pointers(client) /\ Heap
    BY DEF Types, Heap
  <2>2. /\ client'.jar \in 0 .. Len(jars')
        /\ \A k \in PlainKeys : client'.options[k].kind = "ptr" =>
              client'.options[k].v \in 1 .. Len(cells')
    <3>1. Pointers(client) /\ Len(cells) \in Nat /\ Len(cells') \in Nat /\ Len(cells) <= Len(cells')
      BY <1>4, <2>1 DEF Heap, Grown
    <3> QED
      BY <1>2, <1>4, <3>1 DEF Pointers, SameFields
  <2> QED
    BY <1>4, <2>2 DEF Pointers, NoTransport
<1>6. Kept(client)'
  BY <1>4 DEF Kept, SameFields, HeapInv
<1>7. /\ HeapInv' /\ snap' \in [Procs -> Clients] /\ \A q \in Procs : Pointers(snap[q])'
  BY <1>2, <1>4, <1>5, <1>6, HeapStep DEF doVars
<1>8. /\ todo' \in [Procs -> SUBSET (Keys \cup HeaderNames)] /\ todo'[p] = todo[p] \ {key}
      /\ \A q \in Procs \ {p} : todo'[q] = todo[q]
  BY <1>1 DEF Types
<1>9. /\ failed' \in [Procs -> SUBSET OptTransports]
      /\ \A q \in Procs \ {p} : failed'[q] = failed[q]
      /\ call[p].opts[key].kind = "bad" => failed'[p] = failed[p] \cup {key}
      /\ call[p].opts[key].kind # "bad" => failed'[p] = failed[p]
  <2>1. failed' = [failed EXCEPT ![p] = @ \cup {key}] \/ UNCHANGED failed
    BY <1>1, <1>3, TransportOptionFacts
  <2>2. key \in OptTransports /\ failed \in [Procs -> SUBSET OptTransports]
    BY <1>1 DEF Types
  <2>3. /\ failed' \in [Procs -> SUBSET OptTransports]
        /\ \A q \in Procs \ {p} : failed'[q] = failed[q]
    BY <2>1, <2>2
  <2>4. call[p].opts[key].kind = "bad" => failed' = [failed EXCEPT ![p] = @ \cup {key}]
    BY <1>1, <1>3, TransportOptionFacts
  <2>5. call[p].opts[key].kind # "bad" => UNCHANGED failed
    BY <1>1, <1>3, TransportOptionFacts
  <2> QED
    BY <2>2, <2>3, <2>4, <2>5
<1>10. Types'
  BY <1>2, <1>4, <1>5, <1>7, <1>8, <1>9 DEF Types, Heap, lockVars, doVars, countVars
<1>11. Extends
  BY <1>4 DEF Extends
<1> QED
  BY <1>1, <1>2, <1>3, <1>4, <1>5, <1>7, <1>8, <1>9, <1>10, <1>11, TransportOptionFacts

\* A plain option is stored, a retry option copied.
LEMMA ApplyOptionFacts ==
    ASSUME Types, HeapInv, BatchInv, OnceInv, NEW p \in Procs, ApplyOption(p)
    PROVE  /\ Types' /\ HeapInv' /\ Extends /\ pc[p] = "apply" /\ call[p] \in ConfigCalls
           /\ UNCHANGED <<published, pc, lockVars, transports, jars, call, failed, ret, doVars>>
           /\ client'.headers = client.headers /\ client'.transport = client.transport
           /\ client'.jar = client.jar /\ client'.err = client.err
           /\ client'.debug = client.debug
           /\ \A d \in 1 .. Len(cells) : cells'[d] = cells[d]
           /\ \E key \in todo[p] \cap PlainKeys :
                 /\ todo'[p] = todo[p] \ {key}
                 /\ Given(call[p], key)
                 /\ \A k \in PlainKeys \ {key} : client'.options[k] = client.options[k]
                 /\ call[p].opts[key].kind # "ptr" => client'.options[key] = call[p].opts[key]
                 /\ call[p].opts[key].kind = "ptr" =>
                       /\ client'.options[key] = Ptr(Len(cells) + 1)
                       /\ call[p].opts[key].v \in 1 .. Templates
                       /\ cells'[Len(cells) + 1] = cells[call[p].opts[key].v]
           /\ \A q \in Procs \ {p} : todo'[q] = todo[q]
<1> DEFINE val(key) == call[p].opts[key]
<1>1. PICK key \in todo[p] \cap PlainKeys :
         /\ IF val(key).kind = "ptr"
            THEN /\ cells' = Append(cells, cells[val(key).v])
                 /\ client' = [client EXCEPT !.options[key] = Ptr(Len(cells) + 1)]
            ELSE /\ client' = [client EXCEPT !.options[key] = val(key)]
                 /\ UNCHANGED cells
         /\ todo' = [todo EXCEPT ![p] = @ \ {key}]
  BY DEF ApplyOption
<1>2. /\ UNCHANGED <<published, pc, lockVars, transports, jars, call, failed, ret, doVars, countVars>>
      /\ pc[p] = "apply"
  BY DEF ApplyOption
<1>3. call[p] \in ConfigCalls /\ todo[p] \subseteq Asked(call[p])
  BY <1>2 DEF BatchInv, BatchOf, OnceInv, Applying
<1>4. /\ cells \in Seq(Cells) /\ Len(cells) \in Nat /\ client \in Clients
      /\ Templates \in Nat /\ Templates <= Len(cells) /\ RetryTemplates \subseteq 1 .. Templates
      /\ key \in Keys /\ key \notin HeaderNames /\ key \in PlainKeys
  BY <1>1, ConfigAssumption, KeyFacts DEF Types, HeapInv
<1>5. Given(call[p], key) /\ val(key) \in OptionValues
  BY <1>1, <1>3, <1>4, CallFacts DEF Asked
<1>6. val(key).kind = "ptr" => val(key).v \in 1 .. Templates
  BY <1>3, <1>4, CallFacts DEF WellFormed
<1> DEFINE new == IF val(key).kind = "ptr" THEN Ptr(Len(cells) + 1) ELSE val(key)
<1>7. new \in OptionValues /\ Ptr(Len(cells) + 1) \in OptionValues
  <2>1. Ptr(Len(cells) + 1) \in OptionValues
    BY <1>4 DEF Ptr, OptionValues
  <2> QED
    BY <1>5, <2>1
<1>8. client' = [client EXCEPT !.options[key] = new]
  BY <1>1
<1>9. /\ client' \in Clients /\ client'.options[key] = new
      /\ \A k \in PlainKeys \ {key} : client'.options[k] = client.options[k]
      /\ client'.headers = client.headers /\ client'.transport = client.transport
      /\ client'.jar = client.jar /\ client'.err = client.err /\ client'.debug = client.debug
  <2> HIDE DEF new
  <2> QED
    BY <1>4, <1>7, <1>8 DEF Clients
<1>10. /\ cells' \in Seq(Cells) /\ Len(cells') \in Nat /\ Len(cells) <= Len(cells')
       /\ \A d \in 1 .. Len(cells) : cells'[d] = cells[d]
       /\ val(key).kind = "ptr" => /\ Len(cells') = Len(cells) + 1
                                   /\ cells'[Len(cells) + 1] = cells[val(key).v]
  <2>1. CASE val(key).kind = "ptr"
    <3>1. cells' = Append(cells, cells[val(key).v]) /\ cells[val(key).v] \in Cells
      BY <1>1, <1>4, <1>6, <2>1
    <3> QED
      BY <1>4, <3>1
  <2>2. CASE val(key).kind # "ptr"
    BY <1>1, <1>4, <2>2
  <2> QED
    BY <2>1, <2>2
<1>11. Heap' /\ Grown
  <2>1. \A n \in 0 .. Len(cells) : n \in 0 .. Len(cells')
    BY <1>4, <1>10
  <2>2. \A t \in 1 .. Len(transports') : transports'[t].tls \in 0 .. Len(cells')
    BY <1>2, <2>1 DEF Types
  <2> QED
    BY <1>2, <1>10, <2>2 DEF Heap, Grown, Types
<1>12. Ptr(Len(cells) + 1).kind = "ptr" /\ Ptr(Len(cells) + 1).v = Len(cells) + 1
  BY DEF Ptr
<1>13. Pointers(client)'
  <2>1. /\ client'.transport \in 0 .. Len(transports') /\ client'.jar \in 0 .. Len(jars')
    BY <1>2, <1>9 DEF Types, Pointers
  <2>2. ASSUME NEW k \in PlainKeys, client'.options[k].kind = "ptr"
        PROVE  client'.options[k].v \in 1 .. Len(cells')
    <3>1. CASE k = key
      BY <1>4, <1>9, <1>10, <1>12, <2>2, <3>1
    <3>2. CASE k # key
      <4>1. client'.options[k].v \in 1 .. Len(cells)
        BY <1>9, <2>2, <3>2 DEF Types, Pointers
      <4> QED
        BY <1>4, <1>10, <4>1
    <3> QED
      BY <3>1, <3>2
  <2> QED
    BY <2>1, <2>2 DEF Pointers
<1>14. Kept(client)'
  <2>1. Len(cells) + 1 \notin RetryTemplates
    BY <1>4
  <2>2. ASSUME NEW k \in PlainKeys, client'.options[k].kind = "ptr"
        PROVE  client'.options[k].v \notin RetryTemplates
    <3>1. CASE k = key
      BY <1>9, <1>12, <2>1, <2>2, <3>1
    <3>2. CASE k # key
      BY <1>9, <2>2, <3>2 DEF HeapInv, Kept
    <3> QED
      BY <3>1, <3>2
  <2> QED
    BY <2>2 DEF Kept
<1>15. /\ HeapInv' /\ snap' \in [Procs -> Clients] /\ \A q \in Procs : Pointers(snap[q])'
  <2>1. \A t \in 1 .. Len(transports') : transports'[t].tls \notin RetryTemplates
    BY <1>2 DEF HeapInv
  <2> QED
    BY <1>2, <1>9, <1>11, <1>13, <1>14, <2>1, HeapStep DEF doVars
<1>16. /\ todo' \in [Procs -> SUBSET (Keys \cup HeaderNames)] /\ todo'[p] = todo[p] \ {key}
       /\ \A q \in Procs \ {p} : todo'[q] = todo[q]
  BY <1>1 DEF Types
<1>17. Types'
  BY <1>2, <1>9, <1>11, <1>13, <1>15, <1>16 DEF Types, Heap, lockVars, doVars, countVars
<1>18. Extends
  BY <1>2, <1>10, <1>11 DEF Extends
<1> QED
  BY <1>2, <1>3, <1>5, <1>6, <1>9, <1>10, <1>15, <1>16, <1>17, <1>18

\* Steps that leave the structs, and the options the client has.
LEMMA SamePointers ==
    ASSUME Types, HeapInv, UNCHANGED <<transports, jars, cells>>,
           client'.options = client.options, client'.transport = client.transport,
           client'.jar = client.jar
    PROVE  Extends /\ Pointers(client)' /\ Kept(client)'
<1>1. Pointers(client)' /\ Kept(client)'
  BY DEF Types, Pointers, HeapInv, Kept
<1>2. Extends
  BY DEF Types, Extends, Grown
<1> QED
  BY <1>1, <1>2

LEMMA ApplyHeaderFacts ==
    ASSUME Types, HeapInv, BatchInv, OnceInv, NEW p \in Procs, ApplyHeader(p)
    PROVE  /\ Types' /\ HeapInv' /\ Extends /\ pc[p] = "apply" /\ call[p] \in ConfigCalls
           /\ UNCHANGED <<published, pc, lockVars, heapVars, call, failed, ret, doVars>>
           /\ client'.options = client.options /\ client'.transport = client.transport
           /\ client'.jar = client.jar /\ client'.err = client.err
           /\ client'.debug = client.debug
           /\ \E h \in todo[p] \cap HeaderNames :
                 /\ todo'[p] = todo[p] \ {h} /\ call[p].hdrs[h] # Unset
                 /\ client'.headers[h] = call[p].hdrs[h]
                 /\ \A g \in HeaderNames \ {h} : client'.headers[g] = client.headers[g]
           /\ \A q \in Procs \ {p} : todo'[q] = todo[q]
<1>1. PICK h \in todo[p] \cap HeaderNames :
         /\ client' = [client EXCEPT !.headers[h] = call[p].hdrs[h]]
         /\ todo' = [todo EXCEPT ![p] = @ \ {h}]
  BY DEF ApplyHeader
<1>2. /\ UNCHANGED <<published, pc, lockVars, heapVars, call, failed, ret, doVars, countVars>>
      /\ pc[p] = "apply"
  BY DEF ApplyHeader
<1>3. call[p] \in ConfigCalls /\ todo[p] \subseteq Asked(call[p])
  BY <1>2 DEF BatchInv, BatchOf, OnceInv, Applying
<1>4. /\ call[p].hdrs[h] # Unset /\ call[p].hdrs[h] \in OptionValues
      /\ h \in HeaderNames /\ h \notin Keys
  BY <1>1, <1>3, CallFacts, KeyFacts DEF Asked
<1>5. /\ client' \in Clients /\ client'.headers[h] = call[p].hdrs[h]
      /\ \A g \in HeaderNames \ {h} : client'.headers[g] = client.headers[g]
      /\ client'.options = client.options /\ client'.transport = client.transport
      /\ client'.jar = client.jar /\ client'.err = client.err /\ client'.debug = client.debug
  BY <1>1, <1>4 DEF Clients, Types
<1>6. Extends /\ Pointers(client)' /\ Kept(client)'
  BY <1>2, <1>5, SamePointers DEF heapVars
<1>7. HeapInv'
  BY <1>2, <1>6 DEF HeapInv, Kept, heapVars, doVars
<1>8. /\ todo' \in [Procs -> SUBSET (Keys \cup HeaderNames)] /\ todo'[p] = todo[p] \ {h}
      /\ \A q \in Procs \ {p} : todo'[q] = todo[q]
  BY <1>1 DEF Types
<1>9. Types'
  BY <1>2, <1>5, <1>6, <1>8 DEF Types, Pointers, heapVars, lockVars, doVars, countVars
<1> QED
  BY <1>1, <1>2, <1>3, <1>4, <1>5, <1>6, <1>7, <1>8, <1>9

LEMMA FinishBatchFacts ==
    ASSUME Types, HeapInv, OnceInv, NEW p \in Procs, FinishBatch(p)
    PROVE  /\ Types' /\ HeapInv' /\ Extends /\ pc[p] = "apply" /\ todo[p] = {}
           /\ UNCHANGED <<readers, once, todo, heapVars, doVars>>
           /\ published' = Now' /\ writer = p /\ writer' = Nobody
           /\ pc'[p] = ret[p] /\ ret'[p] = "idle" /\ ret[p] \in {"idle", "send", "return"}
           /\ client'.options = client.options /\ client'.headers = client.headers
           /\ client'.transport = client.transport /\ client'.jar = client.jar
           /\ client'.err = IF \A k \in OptTransports : ~Given(call[p], k) THEN client.err
                                                                            ELSE failed[p]
           /\ client'.debug = DebugAfter(call[p], client.debug)
           /\ \A q \in Procs \ {p} : /\ pc'[q] = pc[q] /\ ret'[q] = ret[q]
                                     /\ call'[q] = call[q] /\ failed'[q] = failed[q]
<1>1. /\ UNCHANGED <<readers, once, todo, heapVars, doVars, countVars>>
      /\ pc[p] = "apply" /\ todo[p] = {} /\ writer = p /\ writer' = Nobody
      /\ published' = Now'
  BY DEF FinishBatch, Unlock, Now, heapVars
<1>2. ret[p] \in {"idle", "send", "return"}
  BY <1>1 DEF OnceInv, Types
<1>3. /\ pc' \in [Procs -> Locations] /\ pc'[p] = ret[p]
      /\ \A q \in Procs \ {p} : pc'[q] = pc[q]
  BY <1>2, GotoFacts DEF FinishBatch, Locations
<1>4. /\ call' \in [Procs -> Calls] /\ failed' \in [Procs -> SUBSET OptTransports]
      /\ ret' \in [Procs -> {"idle", "onceDone", "send", "return"}] /\ ret'[p] = "idle"
      /\ \A q \in Procs \ {p} : /\ call'[q] = call[q] /\ failed'[q] = failed[q]
                                /\ ret'[q] = ret[q]
  BY NoCallFacts DEF FinishBatch, Types
<1>5. DebugAfter(call[p], client.debug) \in BOOLEAN
  BY DEF DebugAfter, Types, Clients
<1> DEFINE err == IF \A k \in OptTransports : ~Given(call[p], k) THEN client.err ELSE failed[p]
           debug == DebugAfter(call[p], client.debug)
<1>6. err \in SUBSET OptTransports
  BY DEF Types, Clients
<1>7. client' = [client EXCEPT !.err = err, !.debug = debug]
  BY DEF FinishBatch
<1>8. /\ client' \in Clients /\ client'.err = err /\ client'.debug = debug
      /\ client'.options = client.options /\ client'.headers = client.headers
      /\ client'.transport = client.transport /\ client'.jar = client.jar
  <2> HIDE DEF err, debug
  <2>1. debug \in BOOLEAN
    BY <1>5 DEF debug
  <2> QED
    BY <1>6, <1>7, <2>1 DEF Clients, Types
<1>9. Extends /\ Pointers(client)' /\ Kept(client)'
  BY <1>1, <1>8, SamePointers DEF heapVars
<1>10. HeapInv'
  BY <1>1, <1>9 DEF HeapInv, Kept, heapVars, doVars
<1>11. Types'
  BY <1>1, <1>3, <1>4, <1>8, <1>9 DEF Types, Pointers, heapVars, doVars, countVars
<1> QED
  BY <1>1, <1>2, <1>3, <1>4, <1>8, <1>9, <1>10, <1>11

LEMMA InitTransportFacts ==
    ASSUME Types, HeapInv, NEW p \in Procs, InitTransport(p)
    PROVE  /\ Types' /\ HeapInv' /\ Extends /\ pc[p] = "init" /\ pc'[p] = "onceDone"
           /\ UNCHANGED <<published, readers, once, cells, batchVars, doVars>>
           /\ writer = p /\ writer' = Nobody
           /\ client'.options = client.options /\ client'.headers = client.headers
           /\ client'.err = client.err /\ client'.debug = client.debug
           /\ client'.transport # NoTransport /\ client'.jar # NoJar
           /\ client.jar # NoJar => client'.jar = client.jar
           /\ TransportOf(client', transports') = TransportOf(client, transports)
           /\ \A q \in Procs \ {p} : pc'[q] = pc[q]
<1>1. /\ UNCHANGED <<published, readers, once, cells, batchVars, doVars, countVars>>
      /\ pc[p] = "init" /\ writer = p /\ writer' = Nobody /\ transports' = Ensured
  BY DEF InitTransport, Unlock
<1>2. /\ pc' \in [Procs -> Locations] /\ pc'[p] = "onceDone"
      /\ \A q \in Procs \ {p} : pc'[q] = pc[q]
  BY GotoFacts DEF InitTransport, Locations
<1>3. /\ client \in Clients /\ client.jar \in 0 .. Len(jars) /\ Len(jars) \in Nat
      /\ jars \in Seq(SUBSET Cookies)
  BY DEF Types, Pointers
<1>4. /\ jars' \in Seq(SUBSET Cookies) /\ Len(jars') \in Nat /\ Len(jars) <= Len(jars')
      /\ client.jar = NoJar => Len(jars') = Len(jars) + 1
  BY <1>3 DEF InitTransport
<1> DEFINE jar == IF client.jar = NoJar THEN Len(jars') ELSE client.jar
<1>5. /\ jar \in 0 .. Len(jars') /\ jar # NoJar
      /\ client.jar # NoJar => jar = client.jar
  BY <1>3, <1>4 DEF NoJar
<1>6. client' = [client EXCEPT !.transport = Current, !.jar = jar] /\ Current \in Nat
  BY EnsuredFacts DEF InitTransport
<1>7. /\ client' \in Clients /\ client'.transport = Current /\ client'.jar = jar
      /\ client'.options = client.options /\ client'.headers = client.headers
      /\ client'.err = client.err /\ client'.debug = client.debug
  <2>1. jar \in Nat
    BY <1>4, <1>5
  <2> HIDE DEF jar
  <2> QED
    BY <1>3, <1>6, <2>1 DEF Clients
<1>8. /\ client'.transport # NoTransport /\ client'.transport \in 0 .. Len(transports')
      /\ TransportOf(client', transports') = TransportOf(client, transports)
  BY <1>1, <1>7, EnsuredFacts DEF TransportOf, NoTransport
<1>9. /\ Heap' /\ Extends
  BY <1>1, <1>4, EnsuredFacts DEF Heap, Extends, Grown, Types
<1>10. Pointers(client)' /\ Kept(client)'
  BY <1>1, <1>5, <1>7, <1>8 DEF Types, Pointers, HeapInv, Kept
<1>11. /\ HeapInv' /\ snap' \in [Procs -> Clients] /\ \A q \in Procs : Pointers(snap[q])'
  <2>1. \A t \in 1 .. Len(transports') : transports'[t].tls \notin RetryTemplates
    BY <1>1, EnsuredFacts
  <2> QED
    BY <1>1, <1>7, <1>9, <1>10, <2>1, HeapStep DEF Extends, doVars
<1>12. Types'
  BY <1>1, <1>2, <1>7, <1>9, <1>10, <1>11 DEF Types, Heap, batchVars, doVars, countVars
<1> QED
  BY <1>1, <1>2, <1>5, <1>7, <1>8, <1>9, <1>11, <1>12
-----------------------------------------------------------------------------
(***************************************************************************)
(* The types, the heap and the lock, step by step.                         *)
(***************************************************************************)
Moves(p) ==
    \/ Calling(p) \/ CallDo(p) \/ Controls(p) \/ Ends(p)
    \/ CopyMaps(p) \/ CopyFields(p) \/ Prepare(p) \/ Send(p)
    \/ ApplyTransportOption(p) \/ ApplyOption(p) \/ ApplyHeader(p)
    \/ FinishBatch(p) \/ InitTransport(p)

LEMMA StepCases ==
    ASSUME [Next]_vars
    PROVE  (\E p \in Procs : Moves(p)) \/ (\E c \in RetryTemplates : Reuse(c)) \/ UNCHANGED vars
BY DEF Next, Steps, LockSteps, ConfigSteps, InitSteps, DoSteps, Moves, Calling, Controls, Ends,
       Terminated

LEMMA InitHeap ==
    ASSUME Init
    PROVE  Types /\ HeapInv
<1>1. NewFields \in Clients /\ NewFields.transport = 1 /\ NewFields.jar = 2
      /\ NewFields.options = ZeroFields.options
  BY ZeroFacts DEF NewFields, Clients
<1>2. /\ client \in {ZeroFields, NewFields} /\ client \in Clients
      /\ \A k \in PlainKeys : client.options[k].kind = "unset"
  BY <1>1, ZeroFacts DEF Init
<1>3. /\ transports \in Seq(TransportObjects) /\ \A t \in 1 .. Len(transports) : transports[t].tls = 0
      /\ jars \in Seq(SUBSET Cookies) /\ Len(jars) > 0
      /\ client.transport \in 0 .. Len(transports) /\ client.jar \in 0 .. Len(jars)
  <2>1. CASE ZeroClient
    <3>1. /\ transports = <<>> /\ jars = <<{}>> /\ client.transport = 0 /\ client.jar = 0
      BY <2>1, ZeroFacts DEF Init, NoTransport, NoJar
    <3> QED
      BY <3>1
  <2>2. CASE ~ZeroClient
    <3>1. /\ transports = <<NewTransport>> /\ jars = <<{}, {}>>
          /\ client.transport = 1 /\ client.jar = 2
      BY <1>1, <2>2 DEF Init
    <3> QED
      BY <3>1, NewTransportFacts
  <2> QED
    BY <2>1, <2>2
<1>4. cells \in Seq(Cells) /\ Len(cells) = Templates /\ Templates \in Nat
  BY ConfigAssumption DEF Init, Cells
<1>5. Pointers(client) /\ Kept(client)
  BY <1>2, <1>3 DEF Pointers, Kept
<1>6. \A p \in Procs : snap[p] = ZeroFields /\ Pointers(snap[p]) /\ Kept(snap[p])
  BY ZeroFacts DEF Init
<1>7. /\ pc \in [Procs -> Locations] /\ call \in [Procs -> Calls]
      /\ todo \in [Procs -> SUBSET (Keys \cup HeaderNames)]
      /\ failed \in [Procs -> SUBSET OptTransports]
      /\ ret \in [Procs -> {"idle", "onceDone", "send", "return"}]
      /\ snap \in [Procs -> Clients] /\ request \in [Procs -> Requests \cup {NoRequest}]
      /\ own \in [Procs -> SUBSET Cookies] /\ wire \in [Procs -> SUBSET Cookies]
  BY NoCallFacts, ZeroFacts DEF Init, Locations
<1>8. /\ count \in [Procs -> 0 .. MaxCalls] /\ hookCount \in [Procs -> 0 .. MaxHookCalls]
  BY ClientAssumption DEF Init
<1>9. Types
  <2>1. \A t \in 1 .. Len(transports) : transports[t].tls \in 0 .. Len(cells)
    BY <1>3, <1>4
  <2>2. writer = Nobody /\ readers = {} /\ once = "idle"
    BY DEF Init
  <2> QED
    BY <1>2, <1>3, <1>4, <1>5, <1>6, <1>7, <1>8, <2>1, <2>2 DEF Types
<1>10. HeapInv
  BY <1>3, <1>4, <1>5, <1>6, NewTransportFacts DEF HeapInv
<1> QED
  BY <1>9, <1>10

\* Steps that leave the client's and the other snapshots' pointers.
LEMMA SameHeap ==
    ASSUME Types, HeapInv, UNCHANGED <<client, transports, cells>>, Len(jars') = Len(jars),
           \A q \in Procs : Kept(snap'[q])
    PROVE  HeapInv' /\ Extends
<1>1. Kept(client)'
  BY DEF Kept, HeapInv
<1>2. HeapInv'
  BY <1>1 DEF HeapInv, Kept
<1>3. Extends
  BY DEF Extends, Grown, Types
<1> QED
  BY <1>2, <1>3

LEMMA HeapStepCorrect ==
    ASSUME Types, HeapInv, BatchInv, OnceInv, SnapInv, LockInv, [Next]_vars
    PROVE  Types' /\ HeapInv' /\ Extends
<1>0. \A q \in Procs : Kept(snap[q])
  BY DEF HeapInv
<1>1. ASSUME NEW p \in Procs, Calling(p) PROVE Types' /\ HeapInv' /\ Extends
  BY <1>0, <1>1, CallingFacts, SameHeap DEF heapVars, doVars
<1>2. ASSUME NEW p \in Procs, CallDo(p) PROVE Types' /\ HeapInv' /\ Extends
  BY <1>0, <1>2, CallDoFacts, SameHeap DEF heapVars
<1>3. ASSUME NEW p \in Procs, Controls(p) PROVE Types' /\ HeapInv' /\ Extends
  BY <1>0, <1>3, ControlType, SameHeap DEF heapVars, doVars
<1>4. ASSUME NEW p \in Procs, Ends(p) PROVE Types' /\ HeapInv' /\ Extends
  <2>1. \A q \in Procs : Kept(snap'[q])
    BY <1>0, <1>4, EndsFacts, ZeroFacts
  <2> QED
    BY <1>4, <2>1, EndsFacts, SameHeap DEF heapVars
<1>5. ASSUME NEW p \in Procs, CopyMaps(p) PROVE Types' /\ HeapInv' /\ Extends
  <2>1. Kept(snap'[p])
    BY <1>5, CopyMapsFacts DEF Kept, HeapInv
  <2> QED
    BY <1>0, <1>5, <2>1, CopyMapsFacts, SameHeap DEF heapVars
<1>6. ASSUME NEW p \in Procs, CopyFields(p) PROVE Types' /\ HeapInv' /\ Extends
  <2>1. Kept(snap'[p])
    BY <1>6, CopyFieldsFacts DEF Kept, HeapInv
  <2> QED
    BY <1>0, <1>6, <2>1, CopyFieldsFacts, SameHeap DEF heapVars
<1>7. ASSUME NEW p \in Procs, Prepare(p) PROVE Types' /\ HeapInv' /\ Extends
  <2>1. Len(jars) > 0
    BY DEF HeapInv
  <2> QED
    BY <1>0, <1>7, <2>1, PrepareFacts, SameHeap
<1>8. ASSUME NEW p \in Procs, Send(p) PROVE Types' /\ HeapInv' /\ Extends
  <2>1. Len(jars) > 0
    BY DEF HeapInv
  <2> QED
    BY <1>0, <1>8, <2>1, SendFacts, SameHeap DEF heapVars
<1>9. ASSUME NEW p \in Procs, ApplyTransportOption(p) PROVE Types' /\ HeapInv' /\ Extends
  BY <1>9, ApplyTransportFacts
<1>10. ASSUME NEW p \in Procs, ApplyOption(p) PROVE Types' /\ HeapInv' /\ Extends
  BY <1>10, ApplyOptionFacts
<1>11. ASSUME NEW p \in Procs, ApplyHeader(p) PROVE Types' /\ HeapInv' /\ Extends
  BY <1>11, ApplyHeaderFacts
<1>12. ASSUME NEW p \in Procs, FinishBatch(p) PROVE Types' /\ HeapInv' /\ Extends
  BY <1>12, FinishBatchFacts
<1>13. ASSUME NEW p \in Procs, InitTransport(p) PROVE Types' /\ HeapInv' /\ Extends
  BY <1>13, InitTransportFacts
<1>14. ASSUME NEW c \in RetryTemplates, Reuse(c) PROVE Types' /\ HeapInv' /\ Extends
  <2>1. Templates <= Len(cells)
    BY DEF HeapInv
  <2>2. /\ Types' /\ Len(cells') = Len(cells)
        /\ \A d \in 1 .. Len(cells) : d # c => cells'[d] = cells[d]
        /\ UNCHANGED <<client, transports, jars, snap>>
    BY <1>14, <2>1, ReuseFacts DEF doVars
  <2>3. HeapInv'
    BY <2>2 DEF HeapInv, Kept
  <2>4. Extends
    BY <2>2 DEF Extends, Grown, Types
  <2> QED
    BY <2>2, <2>3, <2>4
<1>15. CASE UNCHANGED vars
  <2>1. Types'
    BY <1>15 DEF vars, lockVars, heapVars, batchVars, doVars, countVars, Types, Pointers
  <2> QED
    BY <1>0, <1>15, <2>1, SameHeap DEF vars, heapVars, doVars
<1> QED
  BY <1>1, <1>2, <1>3, <1>4, <1>5, <1>6, <1>7, <1>8, <1>9, <1>10, <1>11, <1>12, <1>13, <1>14,
     <1>15, StepCases DEF Moves

LEMMA LockStep ==
    ASSUME Types, LockInv, OnceInv, HeapInv, BatchInv, [Next]_vars
    PROVE  LockInv'
<1> USE ClientAssumption
<1>0. pc \in [Procs -> Locations] /\ Len(jars) > 0
  BY DEF Types, HeapInv
<1>1. ASSUME NEW p \in Procs, UNCHANGED <<writer, readers>>,
             \A q \in Procs \ {p} : pc'[q] = pc[q],
             pc[p] \notin {"drain", "apply", "init", "copyMaps", "copyFields"},
             pc'[p] \notin {"drain", "apply", "init", "copyMaps", "copyFields"}
      PROVE  LockInv'
  BY <1>1 DEF LockInv
<1>2. ASSUME NEW p \in Procs, Calling(p) \/ CallDo(p) PROVE LockInv'
  <2>1. CASE Calling(p)
    BY <1>1, <2>1, CallingFacts DEF lockVars
  <2>2. CASE CallDo(p)
    BY <1>1, <2>2, CallDoFacts DEF lockVars
  <2> QED
    BY <1>2, <2>1, <2>2
<1>3. ASSUME NEW p \in Procs, Announce(p) PROVE LockInv'
  <2>1. /\ writer = Nobody /\ writer' = p /\ UNCHANGED readers
        /\ pc[p] = "lock" /\ pc'[p] = "drain"
        /\ \A q \in Procs \ {p} : pc'[q] = pc[q]
    BY <1>3, <1>0 DEF Announce, Goto
  <2> QED
    BY <2>1 DEF LockInv
<1>4. ASSUME NEW p \in Procs, Enter(p) PROVE LockInv'
  <2>1. /\ UNCHANGED <<writer, readers>> /\ readers = {}
        /\ pc[p] = "drain" /\ pc'[p] \in {"init", "apply"}
        /\ \A q \in Procs \ {p} : pc'[q] = pc[q]
    BY <1>4, <1>0 DEF Enter, Goto, lockVars
  <2> QED
    BY <2>1 DEF LockInv
<1>5. ASSUME NEW p \in Procs, RLock(p) PROVE LockInv'
  <2>1. /\ UNCHANGED writer /\ readers' = readers \cup {p} /\ writer = Nobody
        /\ pc[p] = "rlock" /\ pc'[p] = "copyMaps"
        /\ \A q \in Procs \ {p} : pc'[q] = pc[q]
    BY <1>5, <1>0 DEF RLock, Goto
  <2>2. \A q \in Procs : pc'[q] \notin {"apply", "init"}
    BY <2>1 DEF LockInv
  <2> QED
    BY <2>1, <2>2 DEF LockInv
<1>6. ASSUME NEW p \in Procs, OnceEnter(p) \/ OncePassed(p) \/ OnceDone(p) PROVE LockInv'
  <2>1. /\ UNCHANGED <<writer, readers>>
        /\ pc[p] \in {"once", "onceDone"} /\ pc'[p] \in {"lock", "rlock"}
        /\ \A q \in Procs \ {p} : pc'[q] = pc[q]
    BY <1>6, <1>0 DEF OnceEnter, OncePassed, OnceDone, Goto, lockVars
  <2> QED
    BY <1>1, <2>1
<1>7. ASSUME NEW p \in Procs, HookReturns(p) \/ Answered(p) PROVE LockInv'
  <2>1. /\ UNCHANGED <<writer, readers>>
        /\ pc[p] \in {"requestHook", "responseHook", "inflight"}
        /\ pc'[p] \in {"send", "return", "responseHook"}
        /\ \A q \in Procs \ {p} : pc'[q] = pc[q]
    BY <1>7, <1>0 DEF HookReturns, Answered, Goto, lockVars
  <2> QED
    BY <1>1, <2>1
<1>8. ASSUME NEW p \in Procs, Ends(p) PROVE LockInv'
  BY <1>8, EndsFacts DEF LockInv
<1>9. ASSUME NEW p \in Procs, CopyMaps(p) PROVE LockInv'
  BY <1>9, CopyMapsFacts DEF LockInv, lockVars
<1>10. ASSUME NEW p \in Procs, CopyFields(p) PROVE LockInv'
  BY <1>10, CopyFieldsFacts DEF LockInv
<1>11. ASSUME NEW p \in Procs, Prepare(p) PROVE LockInv'
  BY <1>0, <1>1, <1>11, PrepareFacts DEF lockVars
<1>12. ASSUME NEW p \in Procs, Send(p) PROVE LockInv'
  BY <1>0, <1>1, <1>12, SendFacts DEF lockVars
<1>13. ASSUME NEW p \in Procs,
              ApplyTransportOption(p) \/ ApplyOption(p) \/ ApplyHeader(p) PROVE LockInv'
  <2>1. UNCHANGED <<pc, writer, readers>>
    BY <1>13 DEF ApplyTransportOption, ApplyOption, ApplyHeader, lockVars
  <2> QED
    BY <2>1 DEF LockInv
<1>14. ASSUME NEW p \in Procs, FinishBatch(p) PROVE LockInv'
  BY <1>14, FinishBatchFacts DEF LockInv
<1>15. ASSUME NEW p \in Procs, InitTransport(p) PROVE LockInv'
  BY <1>15, InitTransportFacts DEF LockInv
<1>16. ASSUME NEW c \in RetryTemplates, Reuse(c) PROVE LockInv'
  BY <1>16 DEF Reuse, lockVars, LockInv
<1>17. CASE UNCHANGED vars
  BY <1>17 DEF vars, lockVars, LockInv
<1> QED
  BY <1>2, <1>3, <1>4, <1>5, <1>6, <1>7, <1>8, <1>9, <1>10, <1>11, <1>12, <1>13, <1>14, <1>15,
     <1>16, <1>17, StepCases DEF Moves, Controls

\* Only one goroutine runs the Once, and what it has set stays set.
LEMMA OnceStep ==
    ASSUME Types, LockInv, OnceInv, HeapInv, BatchInv, [Next]_vars
    PROVE  OnceInv'
<1>0. /\ pc \in [Procs -> Locations] /\ Len(jars) > 0
      /\ ret \in [Procs -> {"idle", "onceDone", "send", "return"}]
  BY DEF Types, HeapInv
<1>2. ASSUME NEW p \in Procs, Calling(p) PROVE OnceInv'
  <2>1. /\ UNCHANGED <<client, once>> /\ pc'[p] = "lock"
        /\ \/ pc[p] = "idle" /\ ret'[p] = "idle"
           \/ pc[p] = "requestHook" /\ ret'[p] = "send"
           \/ pc[p] = "responseHook" /\ ret'[p] = "return"
        /\ \A q \in Procs \ {p} : pc'[q] = pc[q] /\ ret'[q] = ret[q]
    BY <1>2, CallingFacts DEF lockVars
  <2> QED
    BY <2>1 DEF OnceInv, Past
<1>3. ASSUME NEW p \in Procs, CallDo(p) PROVE OnceInv'
  <2>1. /\ UNCHANGED <<client, once, ret>> /\ pc[p] = "idle" /\ pc'[p] = "once"
        /\ \A q \in Procs \ {p} : pc'[q] = pc[q]
    BY <1>3, CallDoFacts DEF lockVars, batchVars
  <2> QED
    BY <2>1 DEF OnceInv, Past
<1>4. ASSUME NEW p \in Procs, Announce(p) \/ Enter(p) PROVE OnceInv'
  <2>1. /\ UNCHANGED <<client, once, ret>>
        /\ \/ pc[p] = "lock" /\ pc'[p] = "drain"
           \/ pc[p] = "drain" /\ pc'[p] = IF ret[p] = "onceDone" THEN "init" ELSE "apply"
        /\ \A q \in Procs \ {p} : pc'[q] = pc[q]
    BY <1>4, <1>0 DEF Announce, Enter, Goto, lockVars, batchVars
  <2> QED
    BY <2>1 DEF OnceInv, Past
<1>5. ASSUME NEW p \in Procs, RLock(p) \/ OncePassed(p) PROVE OnceInv'
  <2>1. /\ UNCHANGED <<client, once, ret>>
        /\ \/ pc[p] = "rlock" /\ pc'[p] = "copyMaps"
           \/ pc[p] = "once" /\ pc'[p] = "rlock" /\ once = "done"
        /\ \A q \in Procs \ {p} : pc'[q] = pc[q]
    BY <1>5, <1>0 DEF RLock, OncePassed, Goto, lockVars, batchVars
  <2> QED
    BY <2>1 DEF OnceInv, Past
<1>6. ASSUME NEW p \in Procs, OnceEnter(p) PROVE OnceInv'
  <2>1. /\ UNCHANGED client /\ once = "idle" /\ once' = "running"
        /\ pc[p] = "once" /\ pc'[p] = "lock" /\ ret'[p] = "onceDone"
        /\ \A q \in Procs \ {p} : pc'[q] = pc[q] /\ ret'[q] = ret[q]
    BY <1>6, <1>0 DEF OnceEnter, Goto
  <2> QED
    BY <2>1 DEF OnceInv, Past
<1>7. ASSUME NEW p \in Procs, OnceDone(p) PROVE OnceInv'
  <2>1. /\ UNCHANGED client /\ once' = "done"
        /\ pc[p] = "onceDone" /\ pc'[p] = "rlock" /\ ret'[p] = "idle"
        /\ \A q \in Procs \ {p} : pc'[q] = pc[q] /\ ret'[q] = ret[q]
    BY <1>7, <1>0 DEF OnceDone, Goto
  <2>2. \A q \in Procs \ {p} : ret[q] # "onceDone"
    BY <2>1 DEF OnceInv
  <2> QED
    BY <2>1, <2>2 DEF OnceInv
<1>8. ASSUME NEW p \in Procs, HookReturns(p) \/ Answered(p) PROVE OnceInv'
  <2>1. /\ UNCHANGED <<client, once, ret>>
        /\ pc[p] \in {"requestHook", "responseHook", "inflight"}
        /\ pc'[p] \in {"send", "return", "responseHook"}
        /\ \A q \in Procs \ {p} : pc'[q] = pc[q]
    BY <1>8, <1>0 DEF HookReturns, Answered, Goto, lockVars, batchVars
  <2> QED
    BY <2>1 DEF OnceInv, Past
<1>9. ASSUME NEW p \in Procs, Ends(p) PROVE OnceInv'
  <2>1. /\ UNCHANGED <<client, once, ret>> /\ pc'[p] = "idle"
        /\ pc[p] \in {"copyMaps", "prepare", "return"}
        /\ \A q \in Procs \ {p} : pc'[q] = pc[q]
    BY <1>9, EndsFacts DEF batchVars
  <2> QED
    BY <2>1 DEF OnceInv, Past
<1>10. ASSUME NEW p \in Procs, CopyMaps(p) \/ CopyFields(p) \/ Prepare(p) \/ Send(p)
       PROVE  OnceInv'
  <2>1. /\ UNCHANGED <<client, once, ret>>
        /\ pc[p] \in {"copyMaps", "copyFields", "prepare", "send"}
        /\ pc'[p] \in {"copyFields", "prepare", "requestHook", "send", "inflight"}
        /\ \A q \in Procs \ {p} : pc'[q] = pc[q]
    BY <1>0, <1>10, CopyMapsFacts, CopyFieldsFacts, PrepareFacts, SendFacts
       DEF lockVars, batchVars
  <2> QED
    BY <2>1 DEF OnceInv, Past
<1>11. ASSUME NEW p \in Procs,
              ApplyTransportOption(p) \/ ApplyOption(p) \/ ApplyHeader(p) PROVE OnceInv'
  <2>1. UNCHANGED <<pc, ret, once>> /\ client'.jar = client.jar
    BY <1>11, ApplyTransportFacts, ApplyOptionFacts, ApplyHeaderFacts DEF lockVars, SameFields
  <2>2. client'.transport = client.transport \/ client'.transport # NoTransport
    BY <1>11, ApplyTransportFacts, ApplyOptionFacts, ApplyHeaderFacts
  <2> QED
    BY <2>1, <2>2 DEF OnceInv
<1>12. ASSUME NEW p \in Procs, FinishBatch(p) PROVE OnceInv'
  <2>1. /\ UNCHANGED once /\ client'.jar = client.jar /\ client'.transport = client.transport
        /\ pc[p] = "apply" /\ pc'[p] = ret[p] /\ ret'[p] = "idle"
        /\ ret[p] \in {"idle", "send", "return"}
        /\ \A q \in Procs \ {p} : pc'[q] = pc[q] /\ ret'[q] = ret[q]
    BY <1>12, FinishBatchFacts
  <2> QED
    BY <2>1 DEF OnceInv, Past
<1>13. ASSUME NEW p \in Procs, InitTransport(p) PROVE OnceInv'
  <2>1. /\ UNCHANGED <<once, ret>> /\ client'.jar # NoJar /\ client'.transport # NoTransport
        /\ pc[p] = "init" /\ pc'[p] = "onceDone"
        /\ \A q \in Procs \ {p} : pc'[q] = pc[q]
    BY <1>13, InitTransportFacts DEF batchVars
  <2> QED
    BY <2>1 DEF OnceInv, Past
<1>14. ASSUME NEW c \in RetryTemplates, Reuse(c) PROVE OnceInv'
  BY <1>14 DEF Reuse, lockVars, batchVars, OnceInv
<1>15. CASE UNCHANGED vars
  BY <1>15 DEF vars, lockVars, batchVars, OnceInv
<1> QED
  BY <1>2, <1>3, <1>4, <1>5, <1>6, <1>7, <1>8, <1>9, <1>10, <1>11, <1>12, <1>13, <1>14, <1>15,
     StepCases DEF Moves, Controls

\* While somebody copies a snapshot nobody writes to the client, and a client
\* that a request has seen keeps its jar.
LEMMA ClientKept ==
    ASSUME Types, LockInv, OnceInv, HeapInv, BatchInv, [Next]_vars, NEW q \in Procs
    PROVE  /\ pc[q] = "copyFields" =>
                 client'.options = client.options /\ client'.headers = client.headers
           /\ Begun(q) \/ Sent(q) => client'.jar = client.jar
<1>0. Len(jars) > 0
  BY DEF HeapInv
<1>1. ASSUME NEW p \in Procs, Moves(p), pc[p] \notin {"apply", "init"} PROVE UNCHANGED client
  BY <1>0, <1>1, CallingFacts, CallDoFacts, ControlType, EndsFacts, CopyMapsFacts,
     CopyFieldsFacts, PrepareFacts, SendFacts
     DEF Moves, ApplyTransportOption, ApplyOption, ApplyHeader, FinishBatch, InitTransport
<1>2. ASSUME NEW p \in Procs, Moves(p), pc[p] = "apply" PROVE client'.jar = client.jar
  <2>1. \/ ApplyTransportOption(p) \/ ApplyOption(p) \/ ApplyHeader(p) \/ FinishBatch(p)
        \/ UNCHANGED client
    BY <1>0, <1>2, CallingFacts, CallDoFacts, ControlType, EndsFacts, CopyMapsFacts,
       CopyFieldsFacts, PrepareFacts, SendFacts, InitTransportFacts DEF Moves
  <2> QED
    BY <2>1, ApplyTransportFacts, ApplyOptionFacts, ApplyHeaderFacts, FinishBatchFacts
       DEF SameFields
<1>3. ASSUME NEW p \in Procs, Moves(p), pc[p] = "init"
      PROVE  client.jar # NoJar => client'.jar = client.jar
  <2>1. InitTransport(p) \/ UNCHANGED client
    BY <1>0, <1>3, CallingFacts, CallDoFacts, ControlType, EndsFacts, CopyMapsFacts,
       CopyFieldsFacts, PrepareFacts, SendFacts, ApplyTransportFacts, ApplyOptionFacts,
       ApplyHeaderFacts, FinishBatchFacts DEF Moves
  <2> QED
    BY <2>1, InitTransportFacts
<1>4. ASSUME NEW p \in Procs, pc[p] \in {"apply", "init"} PROVE pc[q] # "copyFields"
  BY <1>4 DEF LockInv
<1>5. Begun(q) \/ Sent(q) => client.jar # NoJar
  BY DEF Begun, Sent, Past, OnceInv
<1>6. (\E c \in RetryTemplates : Reuse(c)) \/ UNCHANGED vars => UNCHANGED client
  BY DEF Reuse, vars
<1> QED
  BY <1>1, <1>2, <1>3, <1>4, <1>5, <1>6, StepCases

LEMMA SnapStep ==
    ASSUME Types, LockInv, OnceInv, HeapInv, BatchInv, SnapInv, [Next]_vars
    PROVE  SnapInv'
<1>0. Len(jars) > 0
  BY DEF HeapInv
<1>1. ASSUME NEW q \in Procs, pc'[q] = pc[q], ret'[q] = ret[q], snap'[q] = snap[q]
      PROVE  SnapOf(q)'
  <2>1. (Begun(q)' <=> Begun(q)) /\ (Sent(q)' <=> Sent(q))
    BY <1>1 DEF Begun, Sent, Applying
  <2> QED
    BY <1>1, <2>1, ClientKept DEF SnapInv, SnapOf
<1>2. ASSUME NEW p \in Procs, \A q \in Procs \ {p} : pc'[q] = pc[q] /\ ret'[q] = ret[q]
                                                       /\ snap'[q] = snap[q], SnapOf(p)'
      PROVE  SnapInv'
  BY <1>1, <1>2 DEF SnapInv
\* A goroutine that only moves.
<1>3. ASSUME NEW p \in Procs, snap'[p] = snap[p], pc'[p] # "copyFields",
             Begun(p)' => Begun(p) /\ pc[p] # "prepare", Sent(p)' => Begun(p) \/ Sent(p)
      PROVE  SnapOf(p)'
  BY <1>3, ClientKept DEF SnapInv, SnapOf
<1>4. ASSUME NEW p \in Procs, Calling(p) PROVE SnapInv'
  <2>1. snap' = snap /\ pc'[p] = "lock"
        /\ \/ pc[p] = "idle" /\ ret'[p] = "idle"
           \/ pc[p] = "requestHook" /\ ret'[p] = "send"
           \/ pc[p] = "responseHook" /\ ret'[p] = "return"
        /\ \A q \in Procs \ {p} : pc'[q] = pc[q] /\ ret'[q] = ret[q]
    BY <1>4, CallingFacts DEF doVars
  <2>2. SnapOf(p)'
    BY <1>3, <2>1 DEF Begun, Sent, Applying
  <2> QED
    BY <1>2, <2>1, <2>2
<1>5. ASSUME NEW p \in Procs, CallDo(p) PROVE SnapInv'
  <2>1. snap' = snap /\ ret' = ret /\ pc'[p] = "once"
        /\ \A q \in Procs \ {p} : pc'[q] = pc[q]
    BY <1>5, CallDoFacts DEF batchVars
  <2>2. SnapOf(p)'
    BY <1>3, <2>1 DEF Begun, Sent, Applying
  <2> QED
    BY <1>2, <2>1, <2>2
<1>6. ASSUME NEW p \in Procs, Controls(p) PROVE SnapInv'
  <2>1. snap' = snap /\ \A q \in Procs \ {p} : pc'[q] = pc[q] /\ ret'[q] = ret[q]
    BY <1>6, ControlType DEF doVars
  <2>2. \/ /\ pc[p] = "lock" /\ pc'[p] = "drain" /\ ret'[p] = ret[p]
        \/ /\ pc[p] = "drain" /\ pc'[p] = (IF ret[p] = "onceDone" THEN "init" ELSE "apply")
           /\ ret'[p] = ret[p]
        \/ pc'[p] \in {"copyMaps", "rlock"}
        \/ pc'[p] = "lock" /\ ret'[p] = "onceDone"
        \/ pc[p] = "requestHook" /\ pc'[p] = "send"
        \/ pc[p] = "responseHook" /\ pc'[p] = "return"
        \/ pc[p] = "inflight" /\ pc'[p] \in {"responseHook", "return"}
    BY <1>6 DEF Controls, Announce, Enter, RLock, OnceEnter, OncePassed, OnceDone, HookReturns,
       Answered, Goto, Types, batchVars
  <2>3. SnapOf(p)'
    BY <1>3, <2>1, <2>2 DEF Begun, Sent, Applying
  <2> QED
    BY <1>2, <2>1, <2>3
<1>7. ASSUME NEW p \in Procs, Ends(p) PROVE SnapInv'
  <2>1. ret' = ret /\ pc'[p] = "idle"
        /\ \A q \in Procs \ {p} : pc'[q] = pc[q] /\ snap'[q] = snap[q]
    BY <1>7, EndsFacts DEF batchVars
  <2>2. SnapOf(p)'
    BY <2>1 DEF SnapOf, Begun, Sent, Applying
  <2> QED
    BY <1>2, <2>1, <2>2
<1>8. ASSUME NEW p \in Procs, CopyMaps(p) PROVE SnapInv'
  <2>1. /\ ret' = ret /\ client' = client /\ pc'[p] = "copyFields"
        /\ snap'[p].options = client.options /\ snap'[p].headers = client.headers
        /\ \A q \in Procs \ {p} : pc'[q] = pc[q] /\ snap'[q] = snap[q]
    BY <1>8, CopyMapsFacts DEF batchVars
  <2>2. SnapOf(p)'
    BY <2>1 DEF SnapOf, Begun, Sent, Applying
  <2> QED
    BY <1>2, <2>1, <2>2
<1>9. ASSUME NEW p \in Procs, CopyFields(p) PROVE SnapInv'
  <2>1. /\ ret' = ret /\ client' = client /\ pc[p] = "copyFields" /\ pc'[p] = "prepare"
        /\ snap'[p].transport = client.transport /\ snap'[p].jar = client.jar
        /\ \A q \in Procs \ {p} : pc'[q] = pc[q] /\ snap'[q] = snap[q]
    BY <1>9, CopyFieldsFacts DEF batchVars
  <2>2. client.transport # NoTransport
    BY <2>1 DEF OnceInv, Past
  <2>3. SnapOf(p)'
    BY <2>1, <2>2 DEF SnapOf, Begun, Sent, Applying
  <2> QED
    BY <1>2, <2>1, <2>3
<1>10. ASSUME NEW p \in Procs, Prepare(p) PROVE SnapInv'
  <2>1. /\ UNCHANGED <<snap, ret, client>> /\ pc[p] = "prepare"
        /\ pc'[p] \in {"requestHook", "send"} /\ snap[p].err = {}
        /\ \A q \in Procs \ {p} : pc'[q] = pc[q]
    BY <1>0, <1>10, PrepareFacts DEF batchVars
  <2>2. SnapOf(p)'
    BY <2>1 DEF SnapInv, SnapOf, Begun, Sent, Applying
  <2> QED
    BY <1>2, <2>1, <2>2
<1>11. ASSUME NEW p \in Procs, Send(p) PROVE SnapInv'
  <2>1. /\ UNCHANGED <<snap, ret>> /\ pc[p] = "send" /\ pc'[p] = "inflight"
        /\ \A q \in Procs \ {p} : pc'[q] = pc[q]
    BY <1>0, <1>11, SendFacts DEF batchVars
  <2>2. SnapOf(p)'
    BY <1>3, <2>1 DEF Begun, Sent, Applying
  <2> QED
    BY <1>2, <2>1, <2>2
<1>12. ASSUME NEW p \in Procs,
              ApplyTransportOption(p) \/ ApplyOption(p) \/ ApplyHeader(p) PROVE SnapInv'
  <2>1. UNCHANGED <<pc, ret, snap>>
    BY <1>12 DEF ApplyTransportOption, ApplyOption, ApplyHeader, doVars
  <2> QED
    BY <1>1, <2>1 DEF SnapInv
<1>13. ASSUME NEW p \in Procs, FinishBatch(p) PROVE SnapInv'
  <2>1. /\ snap' = snap /\ pc[p] = "apply" /\ pc'[p] = ret[p]
        /\ ret[p] \in {"idle", "send", "return"} /\ ret'[p] = "idle"
        /\ \A q \in Procs \ {p} : pc'[q] = pc[q] /\ ret'[q] = ret[q]
    BY <1>13, FinishBatchFacts DEF doVars
  <2>2. SnapOf(p)'
    BY <1>3, <2>1 DEF Begun, Sent, Applying
  <2> QED
    BY <1>2, <2>1, <2>2
<1>14. ASSUME NEW p \in Procs, InitTransport(p) PROVE SnapInv'
  <2>1. /\ UNCHANGED <<snap, ret>> /\ pc[p] = "init" /\ pc'[p] = "onceDone"
        /\ \A q \in Procs \ {p} : pc'[q] = pc[q]
    BY <1>14, InitTransportFacts DEF doVars, batchVars
  <2>2. SnapOf(p)'
    BY <2>1 DEF SnapOf, Begun, Sent, Applying
  <2> QED
    BY <1>2, <2>1, <2>2
<1>15. ASSUME NEW c \in RetryTemplates, Reuse(c) PROVE SnapInv'
  BY <1>1, <1>15 DEF Reuse, batchVars, doVars, SnapInv
<1>16. CASE UNCHANGED vars
  BY <1>1, <1>16 DEF vars, batchVars, doVars, SnapInv
<1> QED
  BY <1>4, <1>5, <1>6, <1>7, <1>8, <1>9, <1>10, <1>11, <1>12, <1>13, <1>14, <1>15, <1>16,
     StepCases DEF Moves

LEMMA BatchStep ==
    ASSUME Types, LockInv, OnceInv, HeapInv, BatchInv, [Next]_vars
    PROVE  BatchInv'
<1>0. Len(jars) > 0
  BY DEF HeapInv
<1>1. ASSUME NEW q \in Procs, pc'[q] = pc[q], ret'[q] = ret[q], call'[q] = call[q],
             todo'[q] = todo[q], failed'[q] = failed[q]
      PROVE  BatchOf(q)'
  BY <1>1 DEF BatchInv, BatchOf, Applying
<1>2. ASSUME NEW p \in Procs, UNCHANGED batchVars, \A q \in Procs \ {p} : pc'[q] = pc[q],
             pc'[p] \notin {"lock", "drain", "apply"}
      PROVE  BatchInv'
  BY <1>1, <1>2 DEF BatchInv, BatchOf, Applying, batchVars
<1>3. ASSUME NEW p \in Procs, Calling(p) PROVE BatchInv'
  <2>1. BatchOf(p)'
    BY <1>3, CallingFacts DEF BatchOf
  <2> QED
    BY <1>1, <1>3, <2>1, CallingFacts DEF BatchInv
<1>4. ASSUME NEW p \in Procs, CallDo(p) PROVE BatchInv'
  BY <1>2, <1>4, CallDoFacts
<1>5. ASSUME NEW p \in Procs, Controls(p) PROVE BatchInv'
  <2>1. /\ UNCHANGED <<call, todo, failed>>
        /\ \A q \in Procs \ {p} : pc'[q] = pc[q] /\ ret'[q] = ret[q]
    BY <1>5, ControlType
  <2>2. \/ /\ pc[p] = "lock" /\ pc'[p] = "drain" /\ ret'[p] = ret[p]
        \/ /\ pc[p] = "drain" /\ pc'[p] \in {"init", "apply"} /\ ret'[p] = ret[p]
        \/ pc'[p] \in {"copyMaps", "rlock", "send", "return", "responseHook"}
        \/ pc'[p] = "lock" /\ ret'[p] = "onceDone"
    BY <1>5 DEF Controls, Announce, Enter, RLock, OnceEnter, OncePassed, OnceDone, HookReturns,
       Answered, Goto, Types, batchVars
  <2>3. BatchOf(p)'
    BY <2>1, <2>2 DEF BatchInv, BatchOf, Applying
  <2> QED
    BY <1>1, <2>1, <2>3 DEF BatchInv
<1>6. ASSUME NEW p \in Procs, Ends(p) PROVE BatchInv'
  BY <1>2, <1>6, EndsFacts
<1>7. ASSUME NEW p \in Procs, CopyMaps(p) \/ CopyFields(p) PROVE BatchInv'
  BY <1>2, <1>7, CopyMapsFacts, CopyFieldsFacts
<1>8. ASSUME NEW p \in Procs, Prepare(p) \/ Send(p) PROVE BatchInv'
  <2>1. /\ UNCHANGED batchVars /\ pc'[p] \in {"requestHook", "send", "inflight"}
        /\ \A q \in Procs \ {p} : pc'[q] = pc[q]
    BY <1>0, <1>8, PrepareFacts, SendFacts
  <2> QED
    BY <1>2, <2>1
<1>9. ASSUME NEW p \in Procs,
             ApplyTransportOption(p) \/ ApplyOption(p) \/ ApplyHeader(p) PROVE BatchInv'
  <2>1. /\ UNCHANGED <<pc, ret, call>> /\ pc[p] = "apply" /\ todo'[p] \subseteq todo[p]
        /\ \A q \in Procs \ {p} : todo'[q] = todo[q] /\ failed'[q] = failed[q]
    <3>1. CASE ApplyTransportOption(p)
      BY <3>1, ApplyTransportFacts
    <3>2. CASE ApplyOption(p)
      BY <3>2, ApplyOptionFacts
    <3>3. CASE ApplyHeader(p)
      BY <3>3, ApplyHeaderFacts
    <3> QED
      BY <1>9, <3>1, <3>2, <3>3
  <2>2. BatchOf(p)'
    BY <2>1 DEF BatchInv, BatchOf, Applying
  <2> QED
    BY <1>1, <2>1, <2>2 DEF BatchInv
<1>10. ASSUME NEW p \in Procs, FinishBatch(p) PROVE BatchInv'
  <2>1. BatchOf(p)'
    BY <1>10, FinishBatchFacts DEF BatchOf, Applying
  <2> QED
    BY <1>1, <1>10, <2>1, FinishBatchFacts DEF BatchInv
<1>11. ASSUME NEW p \in Procs, InitTransport(p) PROVE BatchInv'
  BY <1>2, <1>11, InitTransportFacts
<1>12. ASSUME NEW c \in RetryTemplates, Reuse(c) PROVE BatchInv'
  BY <1>1, <1>12 DEF Reuse, batchVars, BatchInv
<1>13. CASE UNCHANGED vars
  BY <1>1, <1>13 DEF vars, batchVars, BatchInv
<1> QED
  BY <1>3, <1>4, <1>5, <1>6, <1>7, <1>8, <1>9, <1>10, <1>11, <1>12, <1>13, StepCases DEF Moves
-----------------------------------------------------------------------------
(***************************************************************************)
(* What a configuration means, and how a call changes it.                  *)
(***************************************************************************)
LEMMA MeaningFacts ==
    ASSUME NEW fields, NEW objects, NEW heap
    PROVE  Meaning(fields, objects, heap) =
              [options |-> [k \in PlainKeys |-> Stands(fields.options[k], heap)],
               headers |-> fields.headers,
               pool    |-> TransportOf(fields, objects).pool,
               proxy   |-> TransportOf(fields, objects).proxy,
               tls     |-> TlsOf(TransportOf(fields, objects), heap),
               err     |-> fields.err,
               debug   |-> fields.debug]
BY DEF Meaning, Stands, TransportOf

LEMMA NowFacts ==
    /\ \A k \in PlainKeys : Now.options[k] = Stands(client.options[k], cells)
    /\ Now.headers = client.headers
    /\ Now.pool = TransportOf(client, transports).pool
    /\ Now.proxy = TransportOf(client, transports).proxy
    /\ Now.tls = TlsOf(TransportOf(client, transports), cells)
    /\ Now.err = client.err /\ Now.debug = client.debug
BY MeaningFacts DEF Now

LEMMA NowNextFacts ==
    /\ \A k \in PlainKeys : Now'.options[k] = Stands(client'.options[k], cells')
    /\ Now'.headers = client'.headers
    /\ Now'.pool = TransportOf(client', transports').pool
    /\ Now'.proxy = TransportOf(client', transports').proxy
    /\ Now'.tls = TlsOf(TransportOf(client', transports'), cells')
    /\ Now'.err = client'.err /\ Now'.debug = client'.debug
BY MeaningFacts DEF Now

\* No step changes what a configuration means to those who hold it.
LEMMA TransportStable ==
    ASSUME Types, HeapInv, Extends, NEW fields, Pointers(fields)
    PROVE  /\ TransportOf(fields, transports') = TransportOf(fields, transports)
           /\ TlsOf(TransportOf(fields, transports), cells') =
                 TlsOf(TransportOf(fields, transports), cells)
<1> DEFINE t == TransportOf(fields, transports)
<1>1. /\ Len(transports) \in Nat /\ Len(cells) \in Nat
      /\ fields.transport \in 0 .. Len(transports)
      /\ \A i \in 1 .. Len(transports) :
            transports[i].tls \in 0 .. Len(cells) /\ transports[i].tls \notin RetryTemplates
  BY DEF Types, HeapInv, Pointers
<1>2. TransportOf(fields, transports') = t
  BY <1>1 DEF TransportOf, Extends, NoTransport
<1>3. t.tls \in 0 .. Len(cells) /\ t.tls \notin RetryTemplates
  BY <1>1, NewTransportFacts DEF TransportOf, NoTransport
<1>4. t.tls # 0 => cells'[t.tls] = cells[t.tls]
  BY <1>1, <1>3 DEF Extends
<1> HIDE DEF t
<1>5. TlsOf(t, cells') = TlsOf(t, cells)
  BY <1>4 DEF TlsOf, Pointee
<1> QED
  BY <1>2, <1>5 DEF t

LEMMA StandsStable ==
    ASSUME Types, Extends, NEW fields, Pointers(fields), Kept(fields), NEW k \in PlainKeys
    PROVE  Stands(fields.options[k], cells') = Stands(fields.options[k], cells)
BY DEF Types, Extends, Pointers, Kept, Stands

LEMMA MeaningStable ==
    ASSUME Types, HeapInv, Extends, NEW fields, Pointers(fields), Kept(fields)
    PROVE  Meaning(fields, transports', cells') = Meaning(fields, transports, cells)
<1>1. \A k \in PlainKeys :
         Stands(fields.options[k], cells') = Stands(fields.options[k], cells)
  BY StandsStable
<1>2. [k \in PlainKeys |-> Stands(fields.options[k], cells')] =
         [k \in PlainKeys |-> Stands(fields.options[k], cells)]
  BY <1>1
<1> QED
  BY <1>2, MeaningFacts, TransportStable

\* What AtomicClient has the options of a call stand for.
LEMMA ResolvedFacts ==
    ASSUME NEW v \in OptionValues, v.kind = "ptr" => v.v \in 1 .. Templates
    PROVE  Atomic!Resolved(v) = Stands(v, cells)
<1>1. CASE v.kind = "ptr"
  <2>1. Atomic!Resolved(v) = [v EXCEPT !.v = cells[v.v].rest]
    BY <1>1 DEF Atomic!Resolved
  <2>2. v = [kind |-> "ptr", v |-> v.v]
    BY <1>1 DEF OptionValues
  <2>3. [v EXCEPT !.v = cells[v.v].rest] = [kind |-> "ptr", v |-> cells[v.v].rest]
    BY <1>1 DEF OptionValues
  <2> QED
    BY <1>1, <2>1, <2>3 DEF Stands
<1>2. CASE v.kind # "ptr"
  BY <1>2 DEF Atomic!Resolved, Stands
<1> QED
  BY <1>1, <1>2

LEMMA OneWriter ==
    ASSUME LockInv, NEW p \in Procs, NEW q \in Procs,
           pc[p] \in {"drain", "apply", "init"}, pc[q] \in {"drain", "apply", "init"}
    PROVE  p = q
BY DEF LockInv

LEMMA CallStable ==
    ASSUME Types, HeapInv, NEW c \in ConfigCalls,
           \A d \in 1 .. Len(cells) : cells'[d] = cells[d]
    PROVE  /\ \A k \in PlainKeys : Stands(c.opts[k], cells') = Stands(c.opts[k], cells)
           /\ Good(c, "tlsConfig") =>
                 Pointee(c.opts["tlsConfig"].v, cells') = Pointee(c.opts["tlsConfig"].v, cells)
<1>1. Len(cells) \in Nat /\ Templates \in Nat /\ Templates <= Len(cells)
  BY ConfigAssumption DEF Types, HeapInv
<1>2. \A k \in PlainKeys : c.opts[k].kind = "ptr" => c.opts[k].v \in 1 .. Templates
  BY CallFacts, KeyFacts DEF WellFormed
<1>3. Good(c, "tlsConfig") => c.opts["tlsConfig"].v \in 0 .. Templates
  BY GoodFacts, KeyFacts
<1> QED
  BY <1>1, <1>2, <1>3 DEF Stands, Pointee

\* A call that has not begun has changed nothing.
LEMMA ProgressBegins ==
    ASSUME Types, NEW p \in Procs, call[p] \in ConfigCalls, todo[p] = Asked(call[p]),
           failed[p] = {}, published = Now
    PROVE  Progress(p)
<1>1. \A k \in Keys : Given(call[p], k) => k \in todo[p]
  BY DEF Asked
<1>2. \A h \in HeaderNames : call[p].hdrs[h] # Unset => h \in todo[p]
  BY DEF Asked
<1>3. \A k \in OptTransports : ~Applied(p, k)
  BY <1>1, KeyFacts DEF Applied, Good, Given
<1>4. OptionsApplied(p)
  BY <1>1, <1>2, KeyFacts, NowFacts DEF OptionsApplied
<1>5. ProxyApplied(p) /\ TlsApplied(p)
  BY <1>3, KeyFacts DEF ProxyApplied, TlsApplied
<1>6. failed[p] = {k \in OptTransports : call[p].opts[k].kind = "bad" /\ k \notin todo[p]}
  BY <1>1, KeyFacts DEF Given
<1> QED
  BY <1>3, <1>4, <1>5, <1>6, KeyFacts, NowFacts DEF Progress

LEMMA TransportOptionProgress ==
    ASSUME Types, HeapInv, BatchInv, OnceInv, NEW p \in Procs, Progress(p),
           ApplyTransportOption(p)
    PROVE  Progress(p)'
<1> DEFINE c == call[p]
<1>1. PICK key \in todo[p] \cap OptTransports :
         /\ todo'[p] = todo[p] \ {key}
         /\ c.opts[key].kind = "bad" =>
               /\ TransportOf(client', transports') = TransportOf(client, transports)
               /\ UNCHANGED cells /\ failed'[p] = failed[p] \cup {key}
         /\ c.opts[key].kind # "bad" =>
               /\ Good(c, key)
               /\ TransportOf(client', transports') = Updated(key, c.opts[key].v)
               /\ cells' = CellsWith(key, c.opts[key].v)
               /\ failed'[p] = failed[p]
  BY ApplyTransportFacts
<1>2. /\ c \in ConfigCalls /\ UNCHANGED <<published, call>>
      /\ SameFields /\ Extends
      /\ \A d \in 1 .. Len(cells) : cells'[d] = cells[d]
  BY ApplyTransportFacts
<1>3. key \in todo[p] /\ key \in OptTransports
  BY <1>1
<1>4. \A k \in PlainKeys \cup HeaderNames : k \in todo'[p] <=> k \in todo[p]
  BY <1>1, <1>3, KeyFacts
<1>5. OptionsApplied(p)'
  <2>1. \A k \in PlainKeys :
           /\ Stands(client'.options[k], cells') = Stands(client.options[k], cells)
           /\ Stands(c.opts[k], cells') = Stands(c.opts[k], cells)
    <3>1. Pointers(client) /\ Kept(client)
      BY DEF Types, HeapInv
    <3> QED
      BY <1>2, <3>1, StandsStable, CallStable DEF SameFields
  <2>2. OptionsApplied(p)
    BY DEF Progress
  <2>3. ASSUME NEW k \in PlainKeys
        PROVE  Now'.options[k] =
                  IF Given(call'[p], k) /\ k \notin todo'[p] THEN Stands(call'[p].opts[k], cells')
                                                             ELSE published'.options[k]
    BY <1>2, <1>4, <2>1, <2>2, NowFacts, NowNextFacts DEF OptionsApplied, SameFields
  <2>4. ASSUME NEW h \in HeaderNames
        PROVE  client'.headers[h] =
                  IF call'[p].hdrs[h] # Unset /\ h \notin todo'[p] THEN call'[p].hdrs[h]
                                                                   ELSE published'.headers[h]
    BY <1>2, <1>4, <2>2 DEF OptionsApplied, SameFields
  <2> QED
    BY <2>3, <2>4 DEF OptionsApplied
<1>6. client'.err = published'.err /\ client'.debug = published'.debug
  BY <1>2 DEF Progress, SameFields
<1>7. ASSUME Good(c, "tlsConfig") PROVE Pointee(c.opts["tlsConfig"].v, cells') = Pointee(c.opts["tlsConfig"].v, cells)
  BY <1>2, <1>7, CallStable
<1>8. CASE c.opts[key].kind = "bad"
  <2>1. \A k \in OptTransports : Applied(p, k)' <=> Applied(p, k)
    BY <1>1, <1>2, <1>8 DEF Applied, Good
  <2>2. /\ Now'.pool = Now.pool /\ Now'.proxy = Now.proxy /\ Now'.tls = Now.tls
    BY <1>1, <1>8, NowFacts, NowNextFacts
  <2>3. ProxyApplied(p)'
    BY <1>2, <2>1, <2>2, KeyFacts DEF Progress, ProxyApplied
  <2>4. TlsApplied(p)'
    BY <1>1, <1>2, <1>8, <2>1, <2>2, KeyFacts DEF Progress, TlsApplied
  <2>5. Now'.pool = IF Applied(p, "pool")' THEN call'[p].opts["pool"].v ELSE published'.pool
    BY <1>2, <2>1, <2>2, KeyFacts DEF Progress
  <2>6. failed'[p] = {k \in OptTransports : call'[p].opts[k].kind = "bad" /\ k \notin todo'[p]}
    BY <1>1, <1>2, <1>8 DEF Progress
  <2> QED
    BY <1>5, <1>6, <2>3, <2>4, <2>5, <2>6 DEF Progress
<1>9. CASE c.opts[key].kind # "bad"
  <2> DEFINE v == c.opts[key].v
  <2>1. Good(c, key)
    BY <1>1, <1>9
  <2>2. /\ Now'.pool = IF key = "pool" THEN v ELSE Now.pool
        /\ Now'.proxy = IF key \in {"proxyUrl", "proxyFunc"} THEN To(key, v) ELSE Now.proxy
        /\ Now'.tls = CASE key = "tlsConfig" -> Pointee(v, cells)
                        [] key = "unsafeTls" -> Unsafe(Now.tls, v)
                        [] OTHER -> Now.tls
    <3>1. /\ TransportOf(client', transports') = Updated(key, v) /\ cells' = CellsWith(key, v)
          /\ Ensured[Current] = TransportOf(client, transports) /\ CloneTls = Now.tls
      BY <1>1, <1>9, EnsuredFacts, NowFacts DEF CloneTls
    <3>2. /\ Updated(key, v).pool = IF key = "pool" THEN v ELSE Ensured[Current].pool
          /\ Updated(key, v).proxy = IF key \in {"proxyUrl", "proxyFunc"} THEN To(key, v)
                                     ELSE Ensured[Current].proxy
          /\ TlsOf(Updated(key, v), CellsWith(key, v)) =
                 CASE key = "tlsConfig" -> Pointee(v, cells)
                   [] key = "unsafeTls" -> Unsafe(CloneTls, v)
                   [] OTHER -> CloneTls
      BY <1>2, <1>3, <2>1, UpdatedFacts
    <3> QED
      BY <3>1, <3>2, NowFacts, NowNextFacts
  <2>3. /\ ~Applied(p, key) /\ Applied(p, key)'
        /\ \A k \in OptTransports \ {key} : Applied(p, k)' <=> Applied(p, k)
    BY <1>1, <1>2, <1>3, <2>1 DEF Applied
  <2>4. ProxyApplied(p)'
    <3>1. CASE key \in {"proxyUrl", "proxyFunc"}
      BY <1>2, <2>2, <2>3, <3>1 DEF ProxyApplied
    <3>2. CASE key \notin {"proxyUrl", "proxyFunc"}
      BY <1>2, <2>2, <2>3, <3>2, KeyFacts DEF Progress, ProxyApplied
    <3> QED
      BY <3>1, <3>2
  <2>5. TlsApplied(p)'
    <3>1. CASE key = "tlsConfig"
      BY <1>2, <1>7, <2>1, <2>2, <2>3, <3>1 DEF TlsApplied
    <3>2. CASE key = "unsafeTls"
      <4>1. Applied(p, "tlsConfig")' <=> Applied(p, "tlsConfig")
        BY <2>3, <3>2, KeyFacts
      <4>2. ~Applied(p, "unsafeTls") /\ Applied(p, "unsafeTls")'
        BY <2>3, <3>2
      <4>3. Now'.tls = Unsafe(Now.tls, c.opts["unsafeTls"].v)
        BY <2>2, <3>2
      <4>4. Now.tls = IF Applied(p, "tlsConfig") THEN Pointee(c.opts["tlsConfig"].v, cells)
                                                 ELSE published.tls
        BY <4>2 DEF Progress, TlsApplied
      <4>5. Now.tls = IF Applied(p, "tlsConfig")' THEN Pointee(call'[p].opts["tlsConfig"].v, cells')
                                                  ELSE published'.tls
        BY <1>2, <1>7, <4>1, <4>4 DEF Applied
      <4> QED
        BY <1>2, <4>2, <4>3, <4>5 DEF TlsApplied, Unsafe
    <3>3. CASE key \notin {"tlsConfig", "unsafeTls"}
      <4>1. /\ Applied(p, "tlsConfig")' <=> Applied(p, "tlsConfig")
            /\ Applied(p, "unsafeTls")' <=> Applied(p, "unsafeTls")
        BY <2>3, <3>3, KeyFacts
      <4>2. Now'.tls = Now.tls
        BY <2>2, <3>3
      <4>3. (IF Applied(p, "tlsConfig")' THEN Pointee(call'[p].opts["tlsConfig"].v, cells')
                                         ELSE published'.tls)
              = IF Applied(p, "tlsConfig") THEN Pointee(c.opts["tlsConfig"].v, cells) ELSE published.tls
        BY <1>2, <1>7, <4>1 DEF Applied
      <4> QED
        BY <1>2, <4>1, <4>2, <4>3 DEF Progress, TlsApplied
    <3> QED
      BY <3>1, <3>2, <3>3
  <2>6. Now'.pool = IF Applied(p, "pool")' THEN call'[p].opts["pool"].v ELSE published'.pool
    <3>1. CASE key = "pool"
      BY <1>2, <2>2, <2>3, <3>1
    <3>2. CASE key # "pool"
      BY <1>2, <2>2, <2>3, <3>2, KeyFacts DEF Progress
    <3> QED
      BY <3>1, <3>2
  <2>7. failed'[p] = {k \in OptTransports : call'[p].opts[k].kind = "bad" /\ k \notin todo'[p]}
    BY <1>1, <1>2, <1>9 DEF Progress
  <2> QED
    BY <1>5, <1>6, <2>4, <2>5, <2>6, <2>7 DEF Progress
<1> QED
  BY <1>8, <1>9

\* Options and headers leave the transport's part of the configuration alone.
LEMMA PlainProgress ==
    ASSUME Types, HeapInv, Extends, NEW p \in Procs, Progress(p), call[p] \in ConfigCalls,
           UNCHANGED <<published, transports, call, failed>>,
           client'.transport = client.transport, client'.err = client.err,
           client'.debug = client.debug,
           \A d \in 1 .. Len(cells) : cells'[d] = cells[d],
           \A k \in OptTransports : k \in todo'[p] <=> k \in todo[p],
           OptionsApplied(p)'
    PROVE  Progress(p)'
<1>1. /\ Now'.pool = Now.pool /\ Now'.proxy = Now.proxy /\ Now'.tls = Now.tls
  <2>1. Pointers(client)
    BY DEF Types
  <2>2. TransportOf(client', transports') = TransportOf(client, transports)
    BY DEF TransportOf
  <2> QED
    BY <2>1, <2>2, TransportStable, NowFacts, NowNextFacts
<1>2. \A k \in OptTransports : Applied(p, k)' <=> Applied(p, k)
  BY DEF Applied
<1>3. ProxyApplied(p)'
  BY <1>1, <1>2, KeyFacts DEF Progress, ProxyApplied
<1>4. TlsApplied(p)'
  <2>1. Good(call[p], "tlsConfig") =>
           Pointee(call[p].opts["tlsConfig"].v, cells') = Pointee(call[p].opts["tlsConfig"].v, cells)
    BY CallStable
  <2>2. /\ Applied(p, "tlsConfig")' <=> Applied(p, "tlsConfig")
        /\ Applied(p, "unsafeTls")' <=> Applied(p, "unsafeTls")
    BY <1>2, KeyFacts
  <2>3. (IF Applied(p, "tlsConfig")' THEN Pointee(call'[p].opts["tlsConfig"].v, cells')
                                     ELSE published'.tls)
          = IF Applied(p, "tlsConfig") THEN Pointee(call[p].opts["tlsConfig"].v, cells) ELSE published.tls
    BY <2>1, <2>2 DEF Applied
  <2> QED
    BY <1>1, <2>2, <2>3 DEF Progress, TlsApplied
<1>5. Now'.pool = IF Applied(p, "pool")' THEN call'[p].opts["pool"].v ELSE published'.pool
  BY <1>1, <1>2, KeyFacts DEF Progress
<1>6. failed'[p] = {k \in OptTransports : call'[p].opts[k].kind = "bad" /\ k \notin todo'[p]}
  BY DEF Progress
<1>7. client'.err = published'.err /\ client'.debug = published'.debug
  BY DEF Progress
<1> QED
  BY <1>3, <1>4, <1>5, <1>6, <1>7 DEF Progress

LEMMA OptionProgress ==
    ASSUME Types, HeapInv, BatchInv, OnceInv, NEW p \in Procs, Progress(p), ApplyOption(p)
    PROVE  Progress(p)'
<1> DEFINE c == call[p]
<1>1. PICK key \in todo[p] \cap PlainKeys :
         /\ todo'[p] = todo[p] \ {key}
         /\ Given(c, key)
         /\ \A k \in PlainKeys \ {key} : client'.options[k] = client.options[k]
         /\ c.opts[key].kind # "ptr" => client'.options[key] = c.opts[key]
         /\ c.opts[key].kind = "ptr" =>
               /\ client'.options[key] = Ptr(Len(cells) + 1)
               /\ c.opts[key].v \in 1 .. Templates
               /\ cells'[Len(cells) + 1] = cells[c.opts[key].v]
  BY ApplyOptionFacts
<1>2. /\ c \in ConfigCalls /\ UNCHANGED <<published, call, transports, failed>> /\ Extends
      /\ client'.headers = client.headers /\ client'.transport = client.transport
      /\ client'.err = client.err /\ client'.debug = client.debug
      /\ \A d \in 1 .. Len(cells) : cells'[d] = cells[d]
  BY ApplyOptionFacts
<1>3. \A h \in HeaderNames \cup OptTransports : h \in todo'[p] <=> h \in todo[p]
  BY <1>1, KeyFacts
<1>4. \A k \in PlainKeys : Stands(c.opts[k], cells') = Stands(c.opts[k], cells)
  BY <1>2, CallStable
<1>5. OptionsApplied(p)
  BY DEF Progress
<1>6. ASSUME NEW k \in PlainKeys
      PROVE  Now'.options[k] =
                IF Given(call'[p], k) /\ k \notin todo'[p] THEN Stands(call'[p].opts[k], cells')
                                                           ELSE published'.options[k]
  <2>1. CASE k = key
    <3>1. Stands(client'.options[k], cells') = Stands(c.opts[k], cells)
      BY <1>1, <1>4, <2>1 DEF Ptr, Stands
    <3>2. Given(call'[p], k) /\ k \notin todo'[p]
      BY <1>1, <1>2, <2>1
    <3> QED
      BY <1>2, <1>4, <3>1, <3>2, NowNextFacts
  <2>2. CASE k # key
    <3>1. Stands(client'.options[k], cells') = Stands(client.options[k], cells)
      <4>1. Pointers(client) /\ Kept(client)
        BY DEF Types, HeapInv
      <4> QED
        BY <1>1, <1>2, <2>2, <4>1, StandsStable
    <3>2. k \in todo'[p] <=> k \in todo[p]
      BY <1>1, <2>2
    <3> QED
      BY <1>2, <1>4, <1>5, <3>1, <3>2, NowFacts, NowNextFacts DEF OptionsApplied
  <2> QED
    BY <2>1, <2>2
<1>7. OptionsApplied(p)'
  <2>1. ASSUME NEW h \in HeaderNames
        PROVE  client'.headers[h] =
                  IF call'[p].hdrs[h] # Unset /\ h \notin todo'[p] THEN call'[p].hdrs[h]
                                                                   ELSE published'.headers[h]
    BY <1>2, <1>3, <1>5 DEF OptionsApplied
  <2> QED
    BY <1>6, <2>1 DEF OptionsApplied
<1> QED
  BY <1>2, <1>3, <1>7, PlainProgress

LEMMA HeaderProgress ==
    ASSUME Types, HeapInv, BatchInv, OnceInv, NEW p \in Procs, Progress(p), ApplyHeader(p)
    PROVE  Progress(p)'
<1> DEFINE c == call[p]
<1>1. PICK h \in todo[p] \cap HeaderNames :
         /\ todo'[p] = todo[p] \ {h} /\ c.hdrs[h] # Unset
         /\ client'.headers[h] = c.hdrs[h]
         /\ \A g \in HeaderNames \ {h} : client'.headers[g] = client.headers[g]
  BY ApplyHeaderFacts
<1>2. /\ c \in ConfigCalls /\ UNCHANGED <<published, call, transports, cells, failed>> /\ Extends
      /\ client'.options = client.options /\ client'.transport = client.transport
      /\ client'.err = client.err /\ client'.debug = client.debug
  BY ApplyHeaderFacts DEF heapVars
<1>3. \A k \in PlainKeys \cup OptTransports : k \in todo'[p] <=> k \in todo[p]
  BY <1>1, KeyFacts
<1>4. OptionsApplied(p)
  BY DEF Progress
<1>5. OptionsApplied(p)'
  <2>1. ASSUME NEW k \in PlainKeys
        PROVE  Now'.options[k] =
                  IF Given(call'[p], k) /\ k \notin todo'[p] THEN Stands(call'[p].opts[k], cells')
                                                             ELSE published'.options[k]
    BY <1>2, <1>3, <1>4, NowFacts, NowNextFacts DEF OptionsApplied
  <2>2. ASSUME NEW g \in HeaderNames
        PROVE  client'.headers[g] =
                  IF call'[p].hdrs[g] # Unset /\ g \notin todo'[p] THEN call'[p].hdrs[g]
                                                                   ELSE published'.headers[g]
    BY <1>1, <1>2, <1>4 DEF OptionsApplied
  <2> QED
    BY <2>1, <2>2 DEF OptionsApplied
<1> QED
  BY <1>2, <1>3, <1>5, PlainProgress

\* Steps that write to nothing a configuration is made of.
Quiet(p) ==
    \/ Calling(p) \/ CallDo(p) \/ Controls(p) \/ Ends(p)
    \/ CopyMaps(p) \/ CopyFields(p) \/ Prepare(p) \/ Send(p)

LEMMA QuietFacts ==
    ASSUME Types, Len(jars) > 0, NEW p \in Procs, Quiet(p)
    PROVE  /\ UNCHANGED <<client, published, transports, cells>> /\ Now' = Now
           /\ pc[p] # "apply" /\ pc[p] # "init"
           /\ \A q \in Procs \ {p} : /\ pc'[q] = pc[q] /\ call'[q] = call[q]
                                     /\ todo'[q] = todo[q] /\ failed'[q] = failed[q]
           /\ pc'[p] = "apply" => /\ pc[p] = "drain" /\ ret[p] # "onceDone"
                                  /\ UNCHANGED batchVars
<1>1. /\ UNCHANGED <<client, published, transports, cells>>
      /\ \A q \in Procs \ {p} : /\ pc'[q] = pc[q] /\ call'[q] = call[q]
                                /\ todo'[q] = todo[q] /\ failed'[q] = failed[q]
  BY CallingFacts, CallDoFacts, ControlType, EndsFacts, CopyMapsFacts, CopyFieldsFacts,
     PrepareFacts, SendFacts DEF Quiet, heapVars, batchVars
<1>2. /\ pc[p] # "apply" /\ pc[p] # "init"
      /\ pc'[p] = "apply" => Enter(p)
  <2>1. CASE Controls(p)
    BY <2>1 DEF Controls, Announce, Enter, RLock, OnceEnter, OncePassed, OnceDone, HookReturns,
       Answered, Goto, Types
  <2>2. CASE ~Controls(p)
    BY <2>2, CallingFacts, CallDoFacts, EndsFacts, CopyMapsFacts, CopyFieldsFacts,
       PrepareFacts, SendFacts DEF Quiet
  <2> QED
    BY <2>1, <2>2
<1>3. Enter(p) /\ pc'[p] = "apply" => pc[p] = "drain" /\ ret[p] # "onceDone" /\ UNCHANGED batchVars
  BY DEF Enter, Goto, Types
<1>4. Now' = Now
  BY <1>1 DEF Now
<1> QED
  BY <1>1, <1>2, <1>3, <1>4

LEMMA PublishedStep ==
    ASSUME Types, LockInv, OnceInv, HeapInv, SnapInv, BatchInv, PublishedInv, [Next]_vars
    PROVE  PublishedInv'
<1>0. Len(jars) > 0 /\ Extends /\ Pointers(client) /\ Kept(client) /\ pc \in [Procs -> Locations]
  BY HeapStepCorrect DEF HeapInv, Types
<1>1. ASSUME NEW p \in Procs, Quiet(p) PROVE PublishedInv'
  <2>1. /\ UNCHANGED <<client, published, transports, cells>> /\ Now' = Now
        /\ pc[p] # "apply" /\ pc[p] # "init"
        /\ \A q \in Procs \ {p} : /\ pc'[q] = pc[q] /\ call'[q] = call[q]
                                  /\ todo'[q] = todo[q] /\ failed'[q] = failed[q]
    BY <1>0, <1>1, QuietFacts
  <2>2. ASSUME NEW q \in Procs, q # p, pc'[q] = "apply" PROVE Progress(q)'
    <3>1. Progress(q) /\ call'[q] = call[q] /\ todo'[q] = todo[q] /\ failed'[q] = failed[q]
      BY <2>1, <2>2 DEF PublishedInv
    <3>2. \A k : Applied(q, k)' <=> Applied(q, k)
      BY <3>1 DEF Applied
    <3>3. OptionsApplied(q)'
      BY <2>1, <3>1 DEF Progress, OptionsApplied
    <3>4. ProxyApplied(q)' /\ TlsApplied(q)'
      BY <2>1, <3>1, <3>2 DEF Progress, ProxyApplied, TlsApplied
    <3> QED
      BY <2>1, <3>1, <3>2, <3>3, <3>4 DEF Progress
  <2>3. ASSUME pc'[p] = "apply" PROVE Progress(p)'
    <3>1. pc[p] = "drain" /\ ret[p] # "onceDone" /\ UNCHANGED batchVars
      BY <1>0, <1>1, <2>3, QuietFacts
    <3>2. call[p] \in ConfigCalls /\ todo[p] = Asked(call[p]) /\ failed[p] = {}
      BY <3>1 DEF BatchInv, BatchOf, Applying
    <3>3. \A q \in Procs : pc[q] # "apply"
      BY <2>1, <3>1, OneWriter
    <3>4. Progress(p)
      BY <3>2, <3>3, ProgressBegins DEF PublishedInv
    <3>5. \A k : Applied(p, k)' <=> Applied(p, k)
      BY <3>1 DEF Applied, batchVars
    <3> QED
      BY <2>1, <3>1, <3>4, <3>5 DEF Progress, OptionsApplied, ProxyApplied, TlsApplied, batchVars
  <2>4. (\A q \in Procs : pc'[q] # "apply") => published' = Now'
    BY <2>1 DEF PublishedInv
  <2> QED
    BY <2>2, <2>3, <2>4 DEF PublishedInv
<1>2. ASSUME NEW p \in Procs,
             ApplyTransportOption(p) \/ ApplyOption(p) \/ ApplyHeader(p) PROVE PublishedInv'
  <2>1. pc[p] = "apply" /\ pc' = pc
    BY <1>2 DEF ApplyTransportOption, ApplyOption, ApplyHeader
  <2>2. Progress(p)'
    BY <1>2, <2>1, TransportOptionProgress, OptionProgress, HeaderProgress DEF PublishedInv
  <2>3. \A q \in Procs : pc[q] = "apply" => q = p
    BY <2>1, OneWriter
  <2> QED
    BY <2>1, <2>2, <2>3 DEF PublishedInv
<1>3. ASSUME NEW p \in Procs, FinishBatch(p) PROVE PublishedInv'
  <2>1. /\ published' = Now' /\ pc[p] = "apply" /\ pc'[p] # "apply"
        /\ \A q \in Procs \ {p} : pc'[q] = pc[q]
    BY <1>3, FinishBatchFacts
  <2>2. \A q \in Procs : pc'[q] # "apply"
    BY <2>1, OneWriter
  <2> QED
    BY <2>1, <2>2 DEF PublishedInv
<1>4. ASSUME NEW p \in Procs, InitTransport(p) PROVE PublishedInv'
  <2>1. /\ pc[p] = "init" /\ pc'[p] = "onceDone" /\ UNCHANGED <<published, cells>>
        /\ client'.options = client.options /\ client'.headers = client.headers
        /\ client'.err = client.err /\ client'.debug = client.debug
        /\ TransportOf(client', transports') = TransportOf(client, transports)
        /\ \A q \in Procs \ {p} : pc'[q] = pc[q]
    BY <1>4, InitTransportFacts
  <2>2. \A q \in Procs : pc[q] # "apply" /\ pc'[q] # "apply"
    BY <2>1, OneWriter
  <2>3. Now' = Now
    BY <2>1, MeaningFacts DEF Now
  <2> QED
    BY <2>1, <2>2, <2>3 DEF PublishedInv
<1>5. ASSUME NEW c \in RetryTemplates, Reuse(c) PROVE PublishedInv'
  <2>1. UNCHANGED <<client, published, pc, transports>>
    BY <1>5 DEF Reuse
  <2>2. \A q \in Procs : pc[q] # "apply"
    BY <1>5 DEF Reuse
  <2>3. Now' = Now
    BY <1>0, <2>1, MeaningStable DEF Now
  <2> QED
    BY <2>1, <2>2, <2>3 DEF PublishedInv
<1>6. CASE UNCHANGED vars
  <2>1. UNCHANGED <<client, published, pc, transports, cells, call, todo, failed>>
    BY <1>6 DEF vars, heapVars, batchVars
  <2> QED
    BY <2>1 DEF PublishedInv, Progress, OptionsApplied, ProxyApplied, TlsApplied, Applied, Now
<1> QED
  BY <1>1, <1>2, <1>3, <1>4, <1>5, <1>6, StepCases DEF Moves, Quiet
-----------------------------------------------------------------------------
(***************************************************************************)
(* The invariant, and what follows from it.                                *)
(***************************************************************************)
IInv ==
    /\ Types /\ LockInv /\ OnceInv /\ HeapInv /\ SnapInv /\ BatchInv /\ PublishedInv

LEMMA InitInv ==
    ASSUME Init
    PROVE  IInv
<1>1. /\ \A p \in Procs : pc[p] = "idle" /\ ret[p] = "idle"
      /\ writer = Nobody /\ readers = {} /\ once = "idle" /\ published = Now
  BY DEF Init, Now
<1>2. Types /\ HeapInv
  BY InitHeap
<1>3. LockInv /\ OnceInv
  BY <1>1, ClientAssumption DEF LockInv, OnceInv, Past
<1>4. SnapInv /\ BatchInv
  BY <1>1 DEF SnapInv, SnapOf, BatchInv, BatchOf, Begun, Sent, Applying
<1>5. PublishedInv
  BY <1>1 DEF PublishedInv
<1> QED
  BY <1>2, <1>3, <1>4, <1>5 DEF IInv

LEMMA StepInv ==
    ASSUME IInv, [Next]_vars
    PROVE  IInv' /\ Extends
<1> USE DEF IInv
<1>1. Types' /\ HeapInv' /\ Extends
  BY HeapStepCorrect
<1>2. LockInv' /\ OnceInv'
  BY LockStep, OnceStep
<1>3. SnapInv' /\ BatchInv'
  BY SnapStep, BatchStep
<1>4. PublishedInv'
  BY PublishedStep
<1> QED
  BY <1>1, <1>2, <1>3, <1>4

\* The invariant holds in every state of every behaviour.
LEMMA InvCorrect == Spec => []IInv
<1>1. IInv /\ [Next]_vars => IInv'
  BY StepInv
<1> QED
  BY InitInv, <1>1, PTL DEF Spec

\* The fields, the heap and the snapshots have their types, whatever options
\* calls give and in whatever order they are applied, and a goroutine that
\* writes to the client is alone with it.
THEOREM TypeCorrect == Spec => []TypeOK
<1>1. IInv => TypeOK
  BY DEF IInv, TypeOK, LockInv
<1> QED
  BY InvCorrect, <1>1, PTL

\* lazyInitTransport runs once for every goroutine, before any of them reads
\* the client, and all requests share the one jar it left.
THEOREM JarCorrect == Spec => []OneDefaultJar
<1>1. ASSUME IInv PROVE OneDefaultJar
  <2>1. ASSUME NEW p \in Procs, pc[p] = "copyMaps"
        PROVE  client.transport # NoTransport /\ client.jar # NoJar
    BY <1>1, <2>1 DEF IInv, OnceInv, Past
  <2>2. ASSUME NEW p \in Procs, Begun(p) \/ Sent(p)
        PROVE  /\ snap[p].transport # NoTransport /\ snap[p].jar = client.jar
               /\ client.jar # NoJar
    <3>1. once = "done"
      BY <1>1, <2>2 DEF IInv, OnceInv, Past, Begun, Sent
    <3> QED
      BY <1>1, <2>2, <3>1 DEF IInv, OnceInv, SnapInv, SnapOf
  <2> QED
    BY <2>1, <2>2 DEF OneDefaultJar
<1> QED
  BY InvCorrect, <1>1, PTL
-----------------------------------------------------------------------------
(***************************************************************************)
(* The refinement of AtomicClient.                                         *)
(***************************************************************************)
\* AtomicClient speaks of configuration in the same words.
LEMMA AtomicWords ==
    /\ Atomic!Cells = Cells /\ Atomic!Unset = Unset /\ Atomic!PlainKeys = PlainKeys
    /\ Atomic!DefaultPool = DefaultPool /\ Atomic!NoProxy = NoProxy /\ Atomic!ZeroTls = ZeroTls
    /\ Atomic!OptTransports = OptTransports
    /\ \A c, k : Atomic!Given(c, k) = Given(c, k) /\ Atomic!Good(c, k) = Good(c, k)
    /\ \A c, debug : Atomic!DebugAfter(c, debug) = DebugAfter(c, debug)
BY DEF Atomic!Cells, Cells, Atomic!Unset, Unset, Atomic!PlainKeys, PlainKeys,
       Atomic!DefaultPool, DefaultPool, Atomic!NoProxy, NoProxy, Atomic!ZeroTls, ZeroTls,
       Atomic!OptTransports, OptTransports, Atomic!Given, Given, Atomic!Good, Good,
       Atomic!DebugAfter, DebugAfter

LEMMA BlankFacts ==
    ASSUME NEW objects, NEW heap
    PROVE  Meaning(ZeroFields, objects, heap) = Atomic!Blank
<1>1. ZeroFields = [options |-> [k \in PlainKeys |-> Unset],
                    headers |-> [h \in HeaderNames |-> Unset],
                    transport |-> 0, jar |-> 0, err |-> {}, debug |-> FALSE]
  BY DEF ZeroFields, NoTransport, NoJar
<1>2. TransportOf(ZeroFields, objects) = NewTransport
  BY <1>1 DEF TransportOf, NoTransport
<1>3. TlsOf(NewTransport, heap) = ZeroTls
  BY NewTransportFacts DEF TlsOf, Pointee
<1>4. [k \in PlainKeys |-> Stands(ZeroFields.options[k], heap)] = [k \in PlainKeys |-> Unset]
  BY <1>1 DEF Stands, Unset
<1>5. /\ NewTransport.pool = DefaultPool /\ NewTransport.proxy = NoProxy
      /\ ZeroFields.headers = [h \in HeaderNames |-> Unset]
      /\ ZeroFields.err = {} /\ ZeroFields.debug = FALSE
  BY <1>1 DEF NewTransport
<1> QED
  BY <1>2, <1>3, <1>4, <1>5, MeaningFacts, AtomicWords DEF Atomic!Blank

Phase(p) == IF Begun(p) THEN "begun" ELSE IF Sent(p) THEN "sent" ELSE "out"

Seen(p) == IF Begun(p) \/ Sent(p) THEN Meaning(snap[p], transports, cells)
                                  ELSE Meaning(ZeroFields, transports, cells)

LEMMA RefinementInit ==
    ASSUME Init
    PROVE  Atomic!Init
<1>1. /\ client.options = ZeroFields.options /\ client.headers = ZeroFields.headers
      /\ client.err = ZeroFields.err /\ client.debug = ZeroFields.debug
  BY DEF Init, NewFields, ZeroFields
<1>2. TransportOf(client, transports) = TransportOf(ZeroFields, transports)
  <2>1. CASE ZeroClient
    BY <2>1 DEF Init
  <2>2. CASE ~ZeroClient
    <3>1. client.transport = 1 /\ transports = <<NewTransport>>
      BY <2>2 DEF Init, NewFields, ZeroFields
    <3> QED
      BY <3>1, ZeroFacts DEF TransportOf, NoTransport
  <2> QED
    BY <2>1, <2>2
<1>3. published = Atomic!Blank
  <2>1. published = Meaning(ZeroFields, transports, cells)
    BY <1>1, <1>2, MeaningFacts DEF Init
  <2> QED
    BY <2>1, BlankFacts
<1>4. \A p \in Procs : ~Begun(p) /\ ~Sent(p)
  BY DEF Init, Begun, Sent, Applying
<1>5. cells \in Seq(Cells) /\ Len(cells) = Templates /\ Templates \in Nat
  BY ConfigAssumption DEF Init, Cells
<1>6. [c \in 1 .. Templates |-> cells[c]] \in [1 .. Templates -> Cells]
  BY <1>5
<1>7. \A p \in Procs : Phase(p) = "out" /\ Seen(p) = Atomic!Blank
  BY <1>4, BlankFacts DEF Phase, Seen
<1>8. [p \in Procs |-> Phase(p)] = [p \in Procs |-> "out"]
  BY <1>7
<1>9. [p \in Procs |-> Seen(p)] = [p \in Procs |-> Atomic!Blank]
  BY <1>7
<1> QED
  BY <1>3, <1>6, <1>8, <1>9, AtomicWords DEF Atomic!Init, Phase, Seen

\* The callers' structs, which AtomicClient has too.
LEMMA TemplatesKept ==
    ASSUME Types, HeapInv, \A d \in 1 .. Len(cells) : cells'[d] = cells[d]
    PROVE  [c \in 1 .. Templates |-> cells'[c]] = [c \in 1 .. Templates |-> cells[c]]
<1>1. Len(cells) \in Nat /\ Templates \in Nat /\ Templates <= Len(cells)
  BY ConfigAssumption DEF Types, HeapInv
<1> QED
  BY <1>1

LEMMA SeenFacts ==
    ASSUME IInv, Extends, NEW p \in Procs
    PROVE  /\ ~Begun(p)' /\ ~Sent(p)' => Seen(p)' = Atomic!Blank /\ Phase(p)' = "out"
           /\ (Begun(p) <=> Begun(p)') /\ (Sent(p) <=> Sent(p)')
              /\ (Begun(p) \/ Sent(p) => snap'[p] = snap[p])
                 => Seen(p)' = Seen(p) /\ Phase(p)' = Phase(p)
<1>1. Pointers(snap[p]) /\ Kept(snap[p])
  BY DEF IInv, Types, HeapInv
<1>2. Meaning(snap[p], transports', cells') = Meaning(snap[p], transports, cells)
  BY <1>1, MeaningStable DEF IInv
<1>3. /\ Meaning(ZeroFields, transports', cells') = Atomic!Blank
      /\ Meaning(ZeroFields, transports, cells) = Atomic!Blank
  BY BlankFacts
<1> QED
  BY <1>2, <1>3 DEF Seen, Phase

\* A step of a goroutine that AtomicClient does not see.
LEMMA Stutter ==
    ASSUME IInv, Extends, UNCHANGED published, \A d \in 1 .. Len(cells) : cells'[d] = cells[d],
           \A q \in Procs : Seen(q)' = Seen(q) /\ Phase(q)' = Phase(q)
    PROVE  UNCHANGED Atomic!vars
<1>1. [c \in 1 .. Templates |-> cells'[c]] = [c \in 1 .. Templates |-> cells[c]]
  BY TemplatesKept DEF IInv
<1>2. [q \in Procs |-> Phase(q)'] = [q \in Procs |-> Phase(q)]
  OBVIOUS
<1>3. [q \in Procs |-> Seen(q)'] = [q \in Procs |-> Seen(q)]
  OBVIOUS
<1> QED
  BY <1>1, <1>2, <1>3 DEF Atomic!vars, Phase, Seen

\* A configuration call that has been applied, in whatever order its options
\* came, has done what the atomic one does.
LEMMA ConfigureStep ==
    ASSUME IInv, NEW p \in Procs, FinishBatch(p)
    PROVE  call[p] \in ConfigCalls /\ Atomic!Configure(call[p])
<1> DEFINE c == call[p]
<1> USE AtomicWords
<1>1. /\ pc[p] = "apply" /\ todo[p] = {} /\ published' = Now' /\ UNCHANGED heapVars
      /\ pc'[p] = ret[p] /\ ret'[p] = "idle" /\ ret[p] \in {"idle", "send", "return"}
      /\ client'.options = client.options /\ client'.headers = client.headers
      /\ client'.transport = client.transport
      /\ client'.err = IF \A k \in OptTransports : ~Given(c, k) THEN client.err ELSE failed[p]
      /\ client'.debug = DebugAfter(c, client.debug)
      /\ snap' = snap /\ \A q \in Procs \ {p} : pc'[q] = pc[q] /\ ret'[q] = ret[q]
  BY FinishBatchFacts DEF IInv, doVars
<1>2. UNCHANGED <<transports, cells, jars>>
  BY <1>1 DEF heapVars
<1>3. c \in ConfigCalls /\ Progress(p)
  BY <1>1 DEF IInv, OnceInv, BatchInv, BatchOf, Applying, PublishedInv
<1>4. /\ \A k \in PlainKeys : Now'.options[k] = Now.options[k]
      /\ Now'.pool = Now.pool /\ Now'.proxy = Now.proxy /\ Now'.tls = Now.tls
      /\ TransportOf(client', transports') = TransportOf(client, transports)
  BY <1>1, <1>2, NowFacts, NowNextFacts DEF TransportOf
<1>5. \A k \in OptTransports : Applied(p, k) <=> Good(c, k)
  BY <1>1 DEF Applied
<1>6. \A k \in PlainKeys : Atomic!Resolved(c.opts[k]) = Stands(c.opts[k], cells)
  <2>1. \A k \in PlainKeys : /\ c.opts[k] \in OptionValues
                             /\ c.opts[k].kind = "ptr" => c.opts[k].v \in 1 .. Templates
    BY <1>3, CallFacts, KeyFacts DEF WellFormed
  <2> QED
    BY <2>1, ResolvedFacts
<1> DEFINE options == [k \in PlainKeys |-> Stands(client'.options[k], cells')]
<1>7. options = [k \in PlainKeys |-> IF Given(c, k) THEN Atomic!Resolved(c.opts[k])
                                                    ELSE published.options[k]]
  <2>1. \A k \in PlainKeys : Stands(client'.options[k], cells') =
           IF Given(c, k) THEN Atomic!Resolved(c.opts[k]) ELSE published.options[k]
    BY <1>1, <1>3, <1>4, <1>6, NowFacts, NowNextFacts DEF Progress, OptionsApplied
  <2> QED
    BY <2>1
<1>8. client'.headers = [h \in HeaderNames |-> IF c.hdrs[h] = Unset THEN published.headers[h]
                                                                    ELSE c.hdrs[h]]
  <2>1. client.headers \in [HeaderNames -> OptionValues]
    BY DEF IInv, Types, Clients
  <2>2. \A h \in HeaderNames : client.headers[h] =
           IF c.hdrs[h] = Unset THEN published.headers[h] ELSE c.hdrs[h]
    BY <1>1, <1>3 DEF Progress, OptionsApplied
  <2> QED
    BY <1>1, <2>1, <2>2
<1>9. Now'.pool = IF Good(c, "pool") THEN c.opts["pool"].v ELSE published.pool
  BY <1>3, <1>4, <1>5, KeyFacts DEF Progress
<1>10. Now'.proxy \in Atomic!ProxyOutcomes(c)
  <2>1. CASE ~Good(c, "proxyUrl") /\ ~Good(c, "proxyFunc")
    <3>1. Now'.proxy = published.proxy
      BY <1>3, <1>4, <1>5, <2>1, KeyFacts DEF Progress, ProxyApplied
    <3>2. {k \in {"proxyUrl", "proxyFunc"} : Atomic!Good(c, k)} = {}
      BY <2>1
    <3> QED
      BY <3>1, <3>2 DEF Atomic!ProxyOutcomes
  <2>2. CASE Good(c, "proxyUrl") \/ Good(c, "proxyFunc")
    <3>1. PICK key \in {"proxyUrl", "proxyFunc"} :
             Good(c, key) /\ Now'.proxy = To(key, c.opts[key].v)
      BY <1>3, <1>4, <1>5, <2>2, KeyFacts DEF Progress, ProxyApplied
    <3>2. key \in {k \in {"proxyUrl", "proxyFunc"} : Atomic!Good(c, k)}
      BY <3>1
    <3> QED
      BY <3>1, <3>2 DEF Atomic!ProxyOutcomes, To
  <2> QED
    BY <2>1, <2>2
<1>11. Now'.tls \in Atomic!TlsOutcomes(c)
  <2> DEFINE base == IF Good(c, "tlsConfig") THEN Pointee(c.opts["tlsConfig"].v, cells)
                                             ELSE published.tls
             set == [base EXCEPT !.insecure = (c.opts["unsafeTls"].v = 1)]
  <2>1. \/ (Good(c, "unsafeTls") => Good(c, "tlsConfig")) /\ Now'.tls = base
        \/ Good(c, "unsafeTls") /\ Now'.tls = set
    <3>1. /\ Applied(p, "tlsConfig") <=> Good(c, "tlsConfig")
          /\ Applied(p, "unsafeTls") <=> Good(c, "unsafeTls")
      BY <1>5, KeyFacts
    <3>2. base = IF Applied(p, "tlsConfig") THEN Pointee(c.opts["tlsConfig"].v, cells) ELSE published.tls
      BY <3>1
    <3>3. \/ (Applied(p, "unsafeTls") => Applied(p, "tlsConfig")) /\ Now.tls = base
          \/ Applied(p, "unsafeTls") /\ Now.tls = set
      BY <1>3, <3>2 DEF Progress, TlsApplied
    <3> QED
      BY <1>4, <3>1, <3>3
  <2>2. base = IF Good(c, "tlsConfig")
               THEN Atomic!Pointee(c.opts["tlsConfig"].v, [d \in 1 .. Templates |-> cells[d]])
               ELSE published.tls
    <3>1. Good(c, "tlsConfig") => c.opts["tlsConfig"].v \in 0 .. Templates /\ Templates \in Nat
      BY <1>3, GoodFacts, KeyFacts, ConfigAssumption
    <3> QED
      BY <3>1, AtomicWords DEF Pointee, Atomic!Pointee
  <2>3. Atomic!TlsOutcomes(c) =
           IF ~Good(c, "unsafeTls") THEN {base}
           ELSE IF Good(c, "tlsConfig") THEN {base, set} ELSE {set}
    BY <2>2 DEF Atomic!TlsOutcomes
  <2> HIDE DEF base, set
  <2> QED
    BY <2>1, <2>3
<1>12. client'.err = Atomic!ErrAfter(c)
  <2>1. failed[p] = {k \in OptTransports : c.opts[k].kind = "bad"}
    BY <1>1, <1>3 DEF Progress
  <2>2. client.err = published.err
    BY <1>3 DEF Progress
  <2>3. (\A k \in OptTransports : ~Given(c, k)) => failed[p] = {}
    BY <2>1 DEF Given
  <2> QED
    BY <1>1, <2>1, <2>2, <2>3 DEF Atomic!ErrAfter
<1>13. client'.debug = Atomic!DebugAfter(c, published.debug)
  BY <1>1, <1>3 DEF Progress
<1>14. published' = [options |-> options, headers |-> client'.headers, pool |-> Now'.pool,
                     proxy |-> Now'.proxy, tls |-> Now'.tls, err |-> client'.err,
                     debug |-> client'.debug]
  <2>1. Now' = [options |-> options, headers |-> client'.headers,
                pool |-> TransportOf(client', transports').pool,
                proxy |-> TransportOf(client', transports').proxy,
                tls |-> TlsOf(TransportOf(client', transports'), cells'),
                err |-> client'.err, debug |-> client'.debug]
    BY MeaningFacts DEF Now
  <2> QED
    BY <1>1, <2>1, NowNextFacts
<1>15. published' \in
          [options : {[k \in PlainKeys |-> IF Given(c, k) THEN Atomic!Resolved(c.opts[k])
                                                          ELSE published.options[k]]},
           headers : {[h \in HeaderNames |-> IF c.hdrs[h] = Unset THEN published.headers[h]
                                                                  ELSE c.hdrs[h]]},
           pool    : {IF Good(c, "pool") THEN c.opts["pool"].v ELSE published.pool},
           proxy   : Atomic!ProxyOutcomes(c),
           tls     : Atomic!TlsOutcomes(c),
           err     : {Atomic!ErrAfter(c)},
           debug   : {Atomic!DebugAfter(c, published.debug)}]
  <2> HIDE DEF options
  <2> QED
    BY <1>7, <1>8, <1>9, <1>10, <1>11, <1>12, <1>13, <1>14
<1>16. \A q \in Procs : Phase(q)' = Phase(q) /\ Seen(q)' = Seen(q)
  <2>1. \A q \in Procs : (Begun(q)' <=> Begun(q)) /\ (Sent(q)' <=> Sent(q))
    BY <1>1 DEF Begun, Sent, Applying
  <2> QED
    BY <1>1, <1>2, <2>1 DEF Phase, Seen
<1>17. /\ [q \in Procs |-> Phase(q)'] = [q \in Procs |-> Phase(q)]
       /\ [q \in Procs |-> Seen(q)'] = [q \in Procs |-> Seen(q)]
  BY <1>16
<1> QED
  BY <1>2, <1>3, <1>15, <1>17 DEF Atomic!Configure, Phase, Seen

\* The others' requests stay where they are when one goroutine moves.
LEMMA OthersStay ==
    ASSUME IInv, Extends, NEW p \in Procs,
           \A q \in Procs \ {p} : pc'[q] = pc[q] /\ ret'[q] = ret[q] /\ snap'[q] = snap[q]
    PROVE  /\ \A q \in Procs \ {p} : Phase(q)' = Phase(q) /\ Seen(q)' = Seen(q)
           /\ [q \in Procs |-> Phase(q)'] = [[q \in Procs |-> Phase(q)] EXCEPT ![p] = Phase(p)']
           /\ [q \in Procs |-> Seen(q)'] = [[q \in Procs |-> Seen(q)] EXCEPT ![p] = Seen(p)']
<1>1. ASSUME NEW q \in Procs \ {p} PROVE Phase(q)' = Phase(q) /\ Seen(q)' = Seen(q)
  <2>1. (Begun(q) <=> Begun(q)') /\ (Sent(q) <=> Sent(q)')
    BY <1>1 DEF Begun, Sent, Applying
  <2> QED
    BY <1>1, <2>1, SeenFacts
<1> QED
  BY <1>1

\* A goroutine whose request stays where it is.
LEMMA StaysOut ==
    ASSUME IInv, Extends, NEW p \in Procs,
           UNCHANGED published, \A d \in 1 .. Len(cells) : cells'[d] = cells[d],
           \A q \in Procs \ {p} : pc'[q] = pc[q] /\ ret'[q] = ret[q] /\ snap'[q] = snap[q],
           Begun(p) <=> Begun(p)', Sent(p) <=> Sent(p)',
           Begun(p) \/ Sent(p) => snap'[p] = snap[p]
    PROVE  UNCHANGED Atomic!vars
<1>1. Phase(p)' = Phase(p) /\ Seen(p)' = Seen(p)
  BY SeenFacts
<1>2. \A q \in Procs : Seen(q)' = Seen(q) /\ Phase(q)' = Phase(q)
  BY <1>1, OthersStay
<1> QED
  BY <1>2, Stutter

LEMMA BeginStep ==
    ASSUME IInv, Extends, NEW p \in Procs, CopyFields(p)
    PROVE  Atomic!Begin(p)
<1>1. /\ pc[p] = "copyFields" /\ pc'[p] = "prepare"
      /\ snap'[p].options = snap[p].options /\ snap'[p].headers = snap[p].headers
      /\ snap'[p].transport = client.transport
      /\ snap'[p].err = client.err /\ snap'[p].debug = client.debug
      /\ UNCHANGED <<client, published, transports, cells, ret>>
      /\ \A q \in Procs \ {p} : pc'[q] = pc[q] /\ ret'[q] = ret[q] /\ snap'[q] = snap[q]
  BY CopyFieldsFacts DEF IInv, heapVars, batchVars
<1>2. snap[p].options = client.options /\ snap[p].headers = client.headers
  BY <1>1 DEF IInv, SnapInv, SnapOf
<1>3. published = Now
  <2>1. \A q \in Procs : pc[q] # "apply"
    BY <1>1 DEF IInv, LockInv
  <2> QED
    BY <2>1 DEF IInv, PublishedInv
<1>4. Phase(p) = "out" /\ Phase(p)' = "begun" /\ Begun(p)'
  BY <1>1 DEF Phase, Begun, Sent, Applying
<1>5. Seen(p)' = published
  <2>1. Meaning(snap'[p], transports', cells') = Meaning(client, transports, cells)
    BY <1>1, <1>2, MeaningFacts DEF TransportOf
  <2> QED
    BY <1>3, <1>4, <2>1 DEF Seen, Now
<1>6. /\ [q \in Procs |-> Phase(q)'] = [[q \in Procs |-> Phase(q)] EXCEPT ![p] = "begun"]
      /\ [q \in Procs |-> Seen(q)'] = [[q \in Procs |-> Seen(q)] EXCEPT ![p] = published]
  BY <1>1, <1>4, <1>5, OthersStay
<1> QED
  BY <1>1, <1>4, <1>6 DEF Atomic!Begin, Phase, Seen

LEMMA SendStep ==
    ASSUME IInv, Extends, NEW p \in Procs, Send(p)
    PROVE  Atomic!Send(p)
<1>1. /\ pc[p] = "send" /\ pc'[p] = "inflight"
      /\ UNCHANGED <<client, published, transports, cells, ret, snap>>
      /\ \A q \in Procs \ {p} : pc'[q] = pc[q]
  BY SendFacts DEF IInv, HeapInv, heapVars, batchVars
<1>2. Begun(p) /\ Sent(p)' /\ Phase(p) = "begun" /\ Phase(p)' = "sent"
  BY <1>1 DEF Phase, Begun, Sent, Applying
<1>3. snap[p].err = {}
  BY <1>1, <1>2 DEF IInv, SnapInv, SnapOf
<1>4. Seen(p).err = {}
  BY <1>2, <1>3, MeaningFacts DEF Seen
<1>5. Seen(p)' = Seen(p)
  BY <1>1, <1>2 DEF Seen
<1>6. [q \in Procs |-> Phase(q)'] = [[q \in Procs |-> Phase(q)] EXCEPT ![p] = "sent"]
  BY <1>1, <1>2, OthersStay
<1>7. [q \in Procs |-> Seen(q)'] = [q \in Procs |-> Seen(q)]
  <2>1. \A q \in Procs : Seen(q)' = Seen(q)
    BY <1>1, <1>5, OthersStay
  <2> QED
    BY <2>1
<1>8. [q \in Procs |-> Seen(q)][p].err = {} /\ [q \in Procs |-> Phase(q)][p] = "begun"
  BY <1>2, <1>4
<1> QED
  BY <1>1, <1>6, <1>7, <1>8 DEF Atomic!Send, Phase, Seen

LEMMA FinishStep ==
    ASSUME IInv, Extends, NEW p \in Procs, PrepareFails(p) \/ DoReturns(p)
    PROVE  Atomic!Finish(p)
<1>1. Ends(p) /\ pc[p] \in {"prepare", "return"}
  BY DEF Ends, PrepareFails, DoReturns
<1>2. /\ pc'[p] = "idle" /\ UNCHANGED <<client, published, transports, cells, ret>>
      /\ \A q \in Procs \ {p} : pc'[q] = pc[q] /\ snap'[q] = snap[q]
  BY <1>1, EndsFacts DEF IInv, heapVars, batchVars
<1>3. Phase(p) \in {"begun", "sent"} /\ ~Begun(p)' /\ ~Sent(p)'
  BY <1>1, <1>2 DEF Phase, Begun, Sent, Applying
<1>4. Phase(p)' = "out" /\ Seen(p)' = Atomic!Blank
  BY <1>3, SeenFacts
<1>5. /\ [q \in Procs |-> Phase(q)'] = [[q \in Procs |-> Phase(q)] EXCEPT ![p] = "out"]
      /\ [q \in Procs |-> Seen(q)'] = [[q \in Procs |-> Seen(q)] EXCEPT ![p] = Atomic!Blank]
  BY <1>2, <1>4, OthersStay
<1> QED
  BY <1>2, <1>3, <1>5 DEF Atomic!Finish, Phase, Seen

LEMMA ReuseStep ==
    ASSUME IInv, IInv', Extends, NEW c \in RetryTemplates, Reuse(c)
    PROVE  Atomic!Reuse(c)
<1>1. /\ Len(cells') = Len(cells)
      /\ \A d \in 1 .. Len(cells) : d # c => cells'[d] = cells[d]
      /\ UNCHANGED <<published, pc, ret, snap>>
  BY ReuseFacts DEF IInv, HeapInv, batchVars, doVars
<1>2. /\ cells' \in Seq(Cells) /\ Len(cells) \in Nat /\ Templates \in Nat
      /\ Templates <= Len(cells)
  BY ConfigAssumption DEF IInv, Types, HeapInv
<1>3. [d \in 1 .. Templates |-> cells'[d]] \in [1 .. Templates -> Cells]
  BY <1>1, <1>2
<1>4. \A d \in 1 .. Templates \ {c} :
         [e \in 1 .. Templates |-> cells'[e]][d] = [e \in 1 .. Templates |-> cells[e]][d]
  BY <1>1, <1>2
<1>5. \A q \in Procs : Phase(q)' = Phase(q) /\ Seen(q)' = Seen(q)
  <2>1. \A q \in Procs : (Begun(q) <=> Begun(q)') /\ (Sent(q) <=> Sent(q)')
    BY <1>1 DEF Begun, Sent, Applying
  <2> QED
    BY <1>1, <2>1, SeenFacts
<1>6. /\ [q \in Procs |-> Phase(q)'] = [q \in Procs |-> Phase(q)]
      /\ [q \in Procs |-> Seen(q)'] = [q \in Procs |-> Seen(q)]
  BY <1>5
<1> QED
  BY <1>1, <1>3, <1>4, <1>6, AtomicWords DEF Atomic!Reuse, Phase, Seen

LEMMA RefinementStep ==
    ASSUME IInv, IInv', Extends, [Next]_vars
    PROVE  [Atomic!Next]_(Atomic!vars)
<1>0. Len(jars) > 0
  BY DEF IInv, HeapInv
<1>1. ASSUME NEW p \in Procs, Calling(p) PROVE UNCHANGED Atomic!vars
  <2>1. /\ UNCHANGED <<published, cells, snap>> /\ pc'[p] = "lock"
        /\ \/ pc[p] = "idle" /\ ret'[p] = "idle"
           \/ pc[p] = "requestHook" /\ ret'[p] = "send"
           \/ pc[p] = "responseHook" /\ ret'[p] = "return"
        /\ \A q \in Procs \ {p} : pc'[q] = pc[q] /\ ret'[q] = ret[q]
    BY <1>1, CallingFacts DEF IInv, heapVars, doVars
  <2>2. (Begun(p) <=> Begun(p)') /\ (Sent(p) <=> Sent(p)')
    BY <2>1 DEF Begun, Sent, Applying
  <2> QED
    BY <2>1, <2>2, StaysOut
<1>2. ASSUME NEW p \in Procs, CallDo(p) PROVE UNCHANGED Atomic!vars
  <2>1. /\ UNCHANGED <<published, cells, snap, ret>> /\ pc[p] = "idle" /\ pc'[p] = "once"
        /\ \A q \in Procs \ {p} : pc'[q] = pc[q]
    BY <1>2, CallDoFacts DEF IInv, heapVars, batchVars
  <2>2. (Begun(p) <=> Begun(p)') /\ (Sent(p) <=> Sent(p)')
    BY <2>1 DEF Begun, Sent, Applying
  <2> QED
    BY <2>1, <2>2, StaysOut
<1>3. ASSUME NEW p \in Procs, Controls(p) PROVE UNCHANGED Atomic!vars
  <2>1. /\ UNCHANGED <<published, cells, snap>>
        /\ \A q \in Procs \ {p} : pc'[q] = pc[q] /\ ret'[q] = ret[q]
    BY <1>3, ControlType DEF IInv, heapVars, doVars
  <2>2. \/ /\ pc[p] = "lock" /\ pc'[p] = "drain" /\ ret'[p] = ret[p]
        \/ /\ pc[p] = "drain" /\ pc'[p] = (IF ret[p] = "onceDone" THEN "init" ELSE "apply")
           /\ ret'[p] = ret[p]
        \/ pc[p] \in {"rlock", "once", "onceDone"} /\ pc'[p] \in {"copyMaps", "rlock"}
        \/ pc[p] = "once" /\ pc'[p] = "lock" /\ ret'[p] = "onceDone"
        \/ pc[p] = "requestHook" /\ pc'[p] = "send"
        \/ pc[p] = "responseHook" /\ pc'[p] = "return"
        \/ pc[p] = "inflight" /\ pc'[p] \in {"responseHook", "return"}
    BY <1>3 DEF Controls, Announce, Enter, RLock, OnceEnter, OncePassed, OnceDone, HookReturns,
       Answered, Goto, IInv, Types, batchVars
  <2>3. (Begun(p) <=> Begun(p)') /\ (Sent(p) <=> Sent(p)')
    BY <2>2 DEF Begun, Sent, Applying
  <2> QED
    BY <2>1, <2>3, StaysOut
<1>4. ASSUME NEW p \in Procs, Ends(p) PROVE Atomic!Finish(p) \/ UNCHANGED Atomic!vars
  <2>1. CASE TransportReturns(p)
    <3>1. /\ UNCHANGED <<published, cells, ret>> /\ pc[p] = "copyMaps" /\ pc'[p] = "idle"
          /\ \A q \in Procs \ {p} : pc'[q] = pc[q] /\ snap'[q] = snap[q]
      BY <1>4, <2>1, EndsFacts DEF IInv, heapVars, batchVars, TransportReturns
    <3>2. ~Begun(p) /\ ~Begun(p)' /\ ~Sent(p) /\ ~Sent(p)'
      BY <3>1 DEF Begun, Sent, Applying
    <3> QED
      BY <3>1, <3>2, StaysOut
  <2>2. CASE PrepareFails(p) \/ DoReturns(p)
    BY <2>2, FinishStep
  <2> QED
    BY <1>4, <2>1, <2>2 DEF Ends
<1>5. ASSUME NEW p \in Procs, CopyMaps(p) PROVE UNCHANGED Atomic!vars
  <2>1. /\ UNCHANGED <<published, cells, ret>> /\ pc[p] = "copyMaps" /\ pc'[p] = "copyFields"
        /\ \A q \in Procs \ {p} : pc'[q] = pc[q] /\ snap'[q] = snap[q]
    BY <1>5, CopyMapsFacts DEF IInv, heapVars, batchVars
  <2>2. ~Begun(p) /\ ~Begun(p)' /\ ~Sent(p) /\ ~Sent(p)'
    BY <2>1 DEF Begun, Sent, Applying
  <2> QED
    BY <2>1, <2>2, StaysOut
<1>6. ASSUME NEW p \in Procs, CopyFields(p) PROVE Atomic!Begin(p)
  BY <1>6, BeginStep
<1>7. ASSUME NEW p \in Procs, Prepare(p) PROVE UNCHANGED Atomic!vars
  <2>1. /\ UNCHANGED <<published, cells, snap, ret>> /\ pc[p] = "prepare"
        /\ pc'[p] \in {"requestHook", "send"}
        /\ \A q \in Procs \ {p} : pc'[q] = pc[q]
    BY <1>0, <1>7, PrepareFacts DEF IInv, batchVars
  <2>2. (Begun(p) <=> Begun(p)') /\ (Sent(p) <=> Sent(p)')
    BY <2>1 DEF Begun, Sent, Applying
  <2> QED
    BY <2>1, <2>2, StaysOut
<1>8. ASSUME NEW p \in Procs, Send(p) PROVE Atomic!Send(p)
  BY <1>8, SendStep
<1>9. ASSUME NEW p \in Procs,
             ApplyTransportOption(p) \/ ApplyOption(p) \/ ApplyHeader(p)
      PROVE  UNCHANGED Atomic!vars
  <2>1. UNCHANGED <<published, pc, ret, snap>>
    BY <1>9 DEF ApplyTransportOption, ApplyOption, ApplyHeader, doVars
  <2>2. \A d \in 1 .. Len(cells) : cells'[d] = cells[d]
    BY <1>9, ApplyTransportFacts, ApplyOptionFacts, ApplyHeaderFacts DEF IInv, heapVars
  <2>3. (Begun(p) <=> Begun(p)') /\ (Sent(p) <=> Sent(p)')
    BY <2>1 DEF Begun, Sent, Applying
  <2> QED
    BY <2>1, <2>2, <2>3, StaysOut
<1>10. ASSUME NEW p \in Procs, FinishBatch(p)
       PROVE  call[p] \in ConfigCalls /\ Atomic!Configure(call[p])
  BY <1>10, ConfigureStep
<1>11. ASSUME NEW p \in Procs, InitTransport(p) PROVE UNCHANGED Atomic!vars
  <2>1. /\ UNCHANGED <<published, cells, ret, snap>> /\ pc[p] = "init" /\ pc'[p] = "onceDone"
        /\ \A q \in Procs \ {p} : pc'[q] = pc[q]
    BY <1>11, InitTransportFacts DEF IInv, batchVars, doVars
  <2>2. ~Begun(p) /\ ~Begun(p)' /\ ~Sent(p) /\ ~Sent(p)'
    BY <2>1 DEF Begun, Sent, Applying
  <2> QED
    BY <2>1, <2>2, StaysOut
<1>12. ASSUME NEW c \in RetryTemplates, Reuse(c) PROVE Atomic!Reuse(c)
  BY <1>12, ReuseStep
<1>13. CASE UNCHANGED vars
  <2>1. UNCHANGED <<published, pc, ret, snap, transports, cells>>
    BY <1>13 DEF vars, heapVars, batchVars, doVars
  <2>2. \A q \in Procs : Phase(q)' = Phase(q) /\ Seen(q)' = Seen(q)
    BY <2>1 DEF Phase, Seen, Begun, Sent, Applying
  <2> QED
    BY <2>1, <2>2, Stutter
<1>14. CASE \E p \in Procs : Moves(p)
  BY <1>1, <1>2, <1>3, <1>4, <1>5, <1>6, <1>7, <1>8, <1>9, <1>10, <1>11, <1>14
     DEF Moves, Atomic!Next
<1>15. CASE \E c \in RetryTemplates : Reuse(c)
  BY <1>12, <1>15 DEF Atomic!Next
<1> QED
  BY <1>13, <1>14, <1>15, StepCases

\* HttpClient implements AtomicClient: however configuration calls, requests and
\* the callers' own changes interleave, every call takes effect whole and none
\* is lost, and a request works from the one configuration it began with.
THEOREM RefinementCorrect == Spec => ImplementsAtomicClient
<1>1. Init => Atomic!Init
  BY RefinementInit
<1>2. IInv /\ IInv' /\ [Next]_vars => [Atomic!Next]_(Atomic!vars)
  BY StepInv, RefinementStep
<1> QED
  BY InvCorrect, <1>1, <1>2, PTL DEF Spec, ImplementsAtomicClient, Atomic!Spec
=============================================================================
