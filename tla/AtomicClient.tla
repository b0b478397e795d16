---------------------------- MODULE AtomicClient ----------------------------
(***************************************************************************)
(* What HttpClient promises goroutines that share a client: every call     *)
(* that takes the lock takes effect at once and as a whole, none is lost,  *)
(* and a request works from one configuration, the one of the moment it    *)
(* began, whatever is configured or done to the caller's structs           *)
(* meanwhile.                                                              *)
(***************************************************************************)
EXTENDS ClientConfig

CONSTANT Procs

VARIABLES
    conf,       \* the configuration
    templates,  \* contents of the structs the callers own
    phase,      \* what each goroutine's request is doing
    seen        \* the configuration it works from

vars == <<conf, templates, phase, seen>>

\* NewHttpClient and the zero HttpClient configure the same thing.
Blank == [options |-> [k \in PlainKeys |-> Unset],
          headers |-> [h \in HeaderNames |-> Unset],
          pool    |-> DefaultPool,
          proxy   |-> NoProxy,
          tls     |-> ZeroTls,
          err     |-> {},
          debug   |-> FALSE]

Init ==
    /\ conf = Blank
    /\ templates \in [1 .. Templates -> Cells]
    /\ phase = [p \in Procs |-> "out"]
    /\ seen = [p \in Procs |-> Blank]

\* A stored pointer stands for what it pointed at when it was stored.
Resolved(v) ==
    IF v.kind = "ptr" THEN [v EXCEPT !.v = templates[v.v].rest] ELSE v

\* The options of a call are applied in an order Go does not define, so two
\* of them that set one thing may leave either.
ProxyOutcomes(call) ==
    LET given == {k \in {"proxyUrl", "proxyFunc"} : Good(call, k)}
        To(k) == [kind |-> IF k = "proxyUrl" THEN "url" ELSE "func", v |-> call.opts[k].v]
    IN IF given = {} THEN {conf.proxy} ELSE {To(k) : k \in given}

TlsOutcomes(call) ==
    LET base == IF Good(call, "tlsConfig") THEN Pointee(call.opts["tlsConfig"].v, templates)
                                           ELSE conf.tls
        set  == [base EXCEPT !.insecure = (call.opts["unsafeTls"].v = 1)]
    IN IF ~Good(call, "unsafeTls") THEN {base}
       ELSE IF Good(call, "tlsConfig") THEN {base, set} ELSE {set}

\* Options that do not apply are reported to every request until a later call
\* applies transport options without failing.
ErrAfter(call) ==
    LET bad == {k \in OptTransports : call.opts[k].kind = "bad"}
    IN IF bad = {} /\ \A k \in OptTransports : ~Given(call, k) THEN conf.err ELSE bad

Configure(call) ==
    /\ conf' \in
         [options : {[k \in PlainKeys |-> IF Given(call, k) THEN Resolved(call.opts[k])
                                                            ELSE conf.options[k]]},
          headers : {[h \in HeaderNames |-> IF call.hdrs[h] = Unset THEN conf.headers[h]
                                                                    ELSE call.hdrs[h]]},
          pool    : {IF Good(call, "pool") THEN call.opts["pool"].v ELSE conf.pool},
          proxy   : ProxyOutcomes(call),
          tls     : TlsOutcomes(call),
          err     : {ErrAfter(call)},
          debug   : {DebugAfter(call, conf.debug)}]
    /\ UNCHANGED <<templates, phase, seen>>

Begin(p) ==
    /\ phase[p] = "out"
    /\ phase' = [phase EXCEPT ![p] = "begun"]
    /\ seen' = [seen EXCEPT ![p] = conf]
    /\ UNCHANGED <<conf, templates>>

Send(p) ==
    /\ phase[p] = "begun"
    /\ seen[p].err = {}
    /\ phase' = [phase EXCEPT ![p] = "sent"]
    /\ UNCHANGED <<conf, templates, seen>>

Finish(p) ==
    /\ phase[p] \in {"begun", "sent"}
    /\ phase' = [phase EXCEPT ![p] = "out"]
    /\ seen' = [seen EXCEPT ![p] = Blank]
    /\ UNCHANGED <<conf, templates>>

\* A caller goes on using retry options it has handed over.  (A tls.Config in
\* use must not be changed: crypto/tls.)
Reuse(c) ==
    /\ templates' \in [1 .. Templates -> Cells]
    /\ \A d \in 1 .. Templates \ {c} : templates'[d] = templates[d]
    /\ UNCHANGED <<conf, phase, seen>>

Next ==
    \/ \E call \in ConfigCalls : Configure(call)
    \/ \E p \in Procs : Begin(p) \/ Send(p) \/ Finish(p)
    \/ \E c \in RetryTemplates : Reuse(c)

Spec == Init /\ [][Next]_vars
=============================================================================
