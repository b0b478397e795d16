---------------------------- MODULE ClientConfig ----------------------------
(***************************************************************************)
(* The vocabulary of HttpClient's configuration: option keys, option       *)
(* values, configuration calls, and the structs callers hand over by       *)
(* pointer.  Keys the code treats alike are one key here: "pool" is any of *)
(* the three connection limits; "timeout" is a plain value Do checks       *)
(* (timeout, redirect policy), "hook" a plain value Do ignores when it has *)
(* another type (both hooks), "retry" a pointer to a struct that           *)
(* cloneOptionValue copies (retry and log options), "jar" OptCookieJar.    *)
(***************************************************************************)
EXTENDS Integers, Sequences, FiniteSets

CONSTANTS
    HeaderNames,   \* default headers, lower case
    Values,        \* what plain options and headers are set to
    Templates,     \* structs the callers own: cells 1 .. Templates
    RetryTemplates, \* ... those of them that are retry (or log) options
    ConfigCalls    \* the configuration calls the goroutines make

OptTransports == {"pool", "proxyUrl", "proxyFunc", "unsafeTls", "tlsConfig"}
PlainKeys     == {"timeout", "jar", "hook", "retry"}
Keys          == OptTransports \cup PlainKeys

\* An option value: absent, of another type than documented (or a proxy URL
\* that does not parse, or a nil retry option, which is stored as an untyped
\* nil), a plain value, or a pointer. A nil *tls.Config is the plain value 0.
OptionValues == [kind : {"unset", "bad", "val", "ptr"}, v : Nat]

Unset   == [kind |-> "unset", v |-> 0]
Bad     == [kind |-> "bad", v |-> 0]
Val(n)  == [kind |-> "val", v |-> n]
Ptr(n)  == [kind |-> "ptr", v |-> n]

\* A tls.Config or a RetryTransOption: InsecureSkipVerify, and all the rest.
Cells   == [insecure : BOOLEAN, rest : Nat]
ZeroTls == [insecure |-> FALSE, rest |-> 0]

\* What a *tls.Config stands for; nil is the zero configuration.
Pointee(tls, heap) == IF tls = 0 THEN ZeroTls ELSE heap[tls]

\* One call of WithOption, WithOptions, Defaults, WithHeader or Debug, each of
\* which takes the lock once. (WithHeaders is a sequence of WithHeader calls.)
Calls == [opts : [Keys -> OptionValues],
          hdrs : [HeaderNames -> OptionValues],
          debug : {"keep", "on", "off"}]

NoCall == [opts  |-> [k \in Keys |-> Unset],
           hdrs  |-> [h \in HeaderNames |-> Unset],
           debug |-> "keep"]

Given(call, k) == call.opts[k].kind # "unset"
Good(call, k)  == call.opts[k].kind \in {"val", "ptr"}

\* Pointers are what tlsConfig and retry hold, and only they.
PointerKeys == {"retry", "tlsConfig"}

WellFormed(call) ==
    /\ \A k \in Keys :
          /\ call.opts[k].kind = "ptr" =>
                /\ k \in PointerKeys
                /\ call.opts[k].v \in 1 .. Templates
                /\ (k = "retry") <=> (call.opts[k].v \in RetryTemplates)
          /\ call.opts[k].kind = "val" =>
                \/ k \notin PointerKeys /\ call.opts[k].v \in Values
                \/ k = "tlsConfig" /\ call.opts[k].v = 0
    /\ \A h \in HeaderNames :
          call.hdrs[h].kind = "unset" \/ call.hdrs[h] \in {Val(n) : n \in Values}

ASSUME ConfigAssumption ==
    /\ Values \subseteq Nat
    /\ Templates \in Nat
    /\ RetryTemplates \subseteq 1 .. Templates
    /\ ConfigCalls \subseteq Calls
    /\ \A call \in ConfigCalls : WellFormed(call)
    /\ HeaderNames \cap Keys = {}

DebugAfter(call, debug) == IF call.debug = "keep" THEN debug ELSE call.debug = "on"

\* newDefaultTransport, as far as the options can change it.
NoProxy == [kind |-> "none", v |-> 0]
Proxies == [kind : {"none", "url", "func"}, v : Nat]
DefaultPool == 100
=============================================================================
