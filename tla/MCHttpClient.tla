---------------------------- MODULE MCHttpClient ----------------------------
(***************************************************************************)
(* Instances of HttpClient for TLC: small sets of configuration calls and  *)
(* of per-request options that meet every branch.                          *)
(***************************************************************************)
EXTENDS HttpClient, TLC

TlsTemplate   == 1
RetryTemplate == 2

Opts(given) == [k \in Keys |-> IF k \in DOMAIN given THEN given[k] ELSE Unset]

CallWith(given) == [NoCall EXCEPT !.opts = Opts(given)]

\* Defaults with transport options, a copied option and a header.
BigBatch ==
    [CallWith("tlsConfig" :> Ptr(TlsTemplate) @@ "pool" :> Val(1)
                @@ "retry" :> Ptr(RetryTemplate))
        EXCEPT !.hdrs["x"] = Val(1)]

TlsBatch == CallWith("tlsConfig" :> Ptr(TlsTemplate) @@ "unsafeTls" :> Val(1))

\* A nil *tls.Config is accepted, and puts the zero configuration back.
NilTls == CallWith("tlsConfig" :> Val(0))

ProxyBatch == CallWith("proxyUrl" :> Val(1) @@ "proxyFunc" :> Val(0))

HalfBad == CallWith("pool" :> Val(0) @@ "proxyUrl" :> Bad @@ "hook" :> Val(1))

Hooked   == CallWith("hook" :> Val(1))
BadRetry == CallWith("retry" :> Bad)
NoJars   == CallWith("jar" :> Val(0) @@ "pool" :> Val(1))

DebugOn == [NoCall EXCEPT !.debug = "on"]

Plain     == NoRequest
NoUrl     == [NoRequest EXCEPT !.parses = FALSE]
OwnJar    == [NoRequest EXCEPT !.opts["jar"] = Val(2), !.cookies = {"a"}]
Cookie    == [NoRequest EXCEPT !.cookies = {"a"}]
Transport == [NoRequest EXCEPT !.wants = "transport"]
WithHook  == [NoRequest EXCEPT !.opts["hook"] = Val(1)]

BatchCalls == {BigBatch, TlsBatch, NilTls, HalfBad, ProxyBatch, DebugOn}
HookCalls  == {Hooked, NoJars, BadRetry}
OneCall    == {Hooked}

BatchRequests  == {OwnJar, NoUrl}
HookRequests   == {WithHook, Transport}
CookieRequests == {Cookie, Plain}

Symmetry == Permutations(Procs)
=============================================================================
