--------------------------- MODULE RequestOption ---------------------------
(***************************************************************************)
(* RequestOption (http_request.go), the verbs of HttpClient that write to  *)
(* it (send, sendJson, PostMultipart), their package-level forms           *)
(* (http_default.go) and Do's merge of an option with a client's defaults. *)
(* Goroutines may share an option and a client; each has a lock, and a     *)
(* call takes both, one after the other and more than once.                *)
(***************************************************************************)
EXTENDS Integers, FiniteSets

CONSTANTS
    Callers,
    Options,     \* RequestOptions the program made with NewRequestOption
    Nil,         \* a call without one
    Verbs,       \* of "raw" (Get, Post, Put, ...), "json", "form" (PostMultipart(Ex))
    Cookies,
    ByHand,      \* bound: names the exported Headers map may hold in another case
    MaxSets,     \* bound: settings made
    MaxCalls     \* bound: calls per caller

ASSUME OptionAssumption ==
    /\ Nil \notin Options /\ Options \cap Callers = {}
    /\ Verbs \subseteq {"raw", "json", "form"}
    /\ ByHand \subseteq {"Content-Type", "X"}
    /\ MaxSets \in Nat /\ MaxCalls \in Nat

VARIABLES
    optionOf,   \* what each caller passes
    defaults,   \* headers and options of the two clients
    settings,   \* Headers and options of each RequestOption
    cookies,    \* Cookies of each RequestOption
    pc, verb, target,
    merged,     \* Do's headers and options
    attached,   \* Do's cookies
    sent,       \* what goes out
    sets, calls,
    disturbed,  \* history: names others have set since the call began
    expected,   \* history: what the call would send if nobody did
    given       \* history: cookies of the option when the call began

configVars == <<optionOf, defaults, settings, cookies, sets>>
callVars   == <<pc, verb, target, merged, attached, sent, calls>>
ghostVars  == <<disturbed, expected, given>>
vars == <<configVars, callVars, ghostVars>>

Clients == {"defaultClient", "own"}

\* "X" in lower case stands for the typed options as well.
Names == {"Content-Type", "X"}
Lower(n) == <<n, "lower">>
Mixed(n) == <<n, "mixed">>
Keys == {Lower(n) : n \in Names} \cup {Mixed(n) : n \in Names}

Unset    == [kind |-> "unset", of |-> Nil]
Type(p)  == [kind |-> verb[p], of |-> p]
Setting(kind, of) == [kind |-> kind, of |-> of]
SettingValues == {Unset}
    \cup [kind : {"set1", "set2"}, of : Clients \cup Options]
    \cup [kind : {"byHand"}, of : Options]
    \cup [kind : {"json", "form"}, of : Callers]

\* sendJson and the multipart verbs replace a nil option by a fresh one: the
\* caller's own.
Option(p) == IF optionOf[p] = Nil THEN p ELSE optionOf[p]

Empty   == [k \in Keys |-> Unset]
Nothing == [n \in Names |-> Unset]

TypeOK ==
    /\ optionOf \in [Callers -> Options \cup {Nil}]
    /\ defaults \in [Clients -> [Keys -> SettingValues]]
    /\ settings \in [Options \cup Callers -> [Keys -> SettingValues]]
    /\ \A n \in Names :   \* WithHeader keeps keys in lower case
          /\ \A c \in Clients : defaults[c][Mixed(n)] = Unset
          /\ \A o \in Options \cup Callers :
                settings[o][Mixed(n)] \in {Unset, Setting("byHand", o)}
    /\ cookies \in [Options \cup Callers -> SUBSET Cookies]
    /\ pc \in [Callers -> {"idle", "build", "type", "marshal", "client", "option",
                           "send", "inflight"}]
    /\ verb \in [Callers -> {"raw", "json", "form"}]
    /\ target \in [Callers -> Clients]
    /\ merged \in [Callers -> [Keys -> SettingValues]]
    /\ attached \in [Callers -> SUBSET Cookies]
    /\ sent \in [Callers -> [Names -> SettingValues]]
    /\ sets \in 0 .. MaxSets /\ calls \in [Callers -> 0 .. MaxCalls]
    /\ disturbed \in [Callers -> SUBSET Names]
    /\ expected \in [Callers -> [Names -> SettingValues]]
    /\ given \in [Callers -> SUBSET Cookies]
-----------------------------------------------------------------------------
\* The exported Headers map may have been filled by hand, in another case.
Init ==
    /\ optionOf \in [Callers -> Options \cup {Nil}]
    /\ defaults = [c \in Clients |-> Empty]
    /\ settings \in
          [Options \cup Callers ->
             {Empty} \cup {[Empty EXCEPT ![Mixed(n)] = Setting("byHand", o)] :
                              n \in ByHand, o \in Options}]
    /\ \A o \in Options \cup Callers : \A n \in Names :
          settings[o][Mixed(n)] # Unset => settings[o][Mixed(n)].of = o
    /\ cookies = [o \in Options \cup Callers |-> {}]
    /\ pc = [p \in Callers |-> "idle"]
    /\ verb = [p \in Callers |-> "raw"]
    /\ target = [p \in Callers |-> "own"]
    /\ merged = [p \in Callers |-> Empty]
    /\ attached = [p \in Callers |-> {}]
    /\ sent = [p \in Callers |-> Nothing]
    /\ sets = 0
    /\ calls = [p \in Callers |-> 0]
    /\ disturbed = [p \in Callers |-> {}]
    /\ expected = [p \in Callers |-> Nothing]
    /\ given = [p \in Callers |-> {}]

Goto(p, l) == pc' = [pc EXCEPT ![p] = l]

Disturb(ps, n) ==
    disturbed' = [p \in Callers |-> IF p \in ps /\ pc[p] # "idle" THEN disturbed[p] \cup {n}
                                                                  ELSE disturbed[p]]

Fresh(of) == Setting(IF sets = 0 THEN "set1" ELSE "set2", of)

(***************************************************************************)
(* Settings: WithHeader(s), WithTimeout and the other typed options,       *)
(* WithCookie(s), each under the option's mutex; the client's defaults,    *)
(* directly or by a package-level function.                                *)
(***************************************************************************)
\* Mutant: the key is kept as the caller writes it.
WithHeaderAsWritten(o) ==
    /\ sets < MaxSets
    /\ sets' = sets + 1
    /\ \E n \in Names :
          /\ settings' = [settings EXCEPT ![o][Mixed(n)] = Fresh(o)]
          /\ Disturb({p \in Callers : Option(p) = o}, n)
    /\ UNCHANGED <<optionOf, defaults, cookies, callVars, expected, given>>

WithHeader(o) ==
    /\ sets < MaxSets
    /\ sets' = sets + 1
    /\ \E n \in Names :
          /\ settings' = [settings EXCEPT ![o][Lower(n)] = Fresh(o)]
          /\ Disturb({p \in Callers : Option(p) = o}, n)
    /\ UNCHANGED <<optionOf, defaults, cookies, callVars, expected, given>>

WithCookies(o) ==
    /\ sets < MaxSets
    /\ sets' = sets + 1
    /\ \E cs \in SUBSET Cookies : cookies' = [cookies EXCEPT ![o] = @ \cup cs]
    /\ UNCHANGED <<optionOf, defaults, settings, callVars, ghostVars>>

ConfigureClient(c) ==
    /\ sets < MaxSets
    /\ sets' = sets + 1
    /\ \E n \in Names :
          /\ defaults' = [defaults EXCEPT ![c][Lower(n)] = Fresh(c)]
          /\ Disturb({p \in Callers : target[p] = c}, n)
    /\ UNCHANGED <<optionOf, settings, cookies, callVars, expected, given>>

PackageConfigures == ConfigureClient("defaultClient")

(***************************************************************************)
(* A call.                                                                 *)
(***************************************************************************)
FirstSet(vs) == IF vs[1] # Unset THEN vs[1] ELSE vs[2]

Begin(p, c, v) ==
    /\ pc[p] = "idle"
    /\ calls[p] < MaxCalls
    /\ calls' = [calls EXCEPT ![p] = @ + 1]
    /\ verb' = [verb EXCEPT ![p] = v]
    /\ target' = [target EXCEPT ![p] = c]
    /\ Goto(p, CASE v = "raw" -> "client" [] v = "json" -> "type" [] v = "form" -> "build")
    /\ disturbed' = [disturbed EXCEPT ![p] = {}]
    /\ given' = [given EXCEPT ![p] = cookies[Option(p)]]
    /\ expected' = [expected EXCEPT ![p] =
          [n \in Names |-> IF n = "Content-Type" /\ v # "raw" THEN Setting(v, p)
                           ELSE FirstSet(<<settings[Option(p)][Lower(n)],
                                           defaults[c][Lower(n)]>>)]]
    /\ UNCHANGED <<configVars, merged, attached, sent>>

VerbCall(p)    == \E v \in Verbs : Begin(p, "own", v)
PackageCall(p) == \E v \in Verbs : Begin(p, "defaultClient", v)

\* The call is over; a fresh option goes with it.
Leave(p) ==
    /\ Goto(p, "idle")
    /\ settings' = [settings EXCEPT ![p] = Empty]
    /\ verb' = [verb EXCEPT ![p] = "raw"]
    /\ target' = [target EXCEPT ![p] = "own"]
    /\ merged' = [merged EXCEPT ![p] = Empty]
    /\ attached' = [attached EXCEPT ![p] = {}]
    /\ sent' = [sent EXCEPT ![p] = Nothing]
    /\ disturbed' = [disturbed EXCEPT ![p] = {}]
    /\ expected' = [expected EXCEPT ![p] = Nothing]
    /\ given' = [given EXCEPT ![p] = {}]
    /\ UNCHANGED <<optionOf, defaults, cookies, sets, calls>>

\* The parts of a form are written (a file may not be read) before its type is.
BuildForm(p) ==
    /\ pc[p] = "build"
    /\ \/ Leave(p)
       \/ /\ Goto(p, "type")
          /\ UNCHANGED <<configVars, verb, target, merged, attached, sent, calls, ghostVars>>

\* Mutant: a type that is there already stays.
WriteMissingType(p) ==
    /\ pc[p] = "type"
    /\ settings' = [settings EXCEPT ![Option(p)][Lower("Content-Type")] =
                       IF @ = Unset THEN Type(p) ELSE @]
    /\ Disturb({q \in Callers \ {p} : Option(q) = Option(p)}, "Content-Type")
    /\ Goto(p, IF verb[p] = "json" THEN "marshal" ELSE "client")
    /\ UNCHANGED <<optionOf, defaults, cookies, sets, verb, target, merged, attached, sent, calls,
                   expected, given>>

\* WithContentType: the type is written to the option, which others may share,
\* and stays there.
WriteType(p) ==
    /\ pc[p] = "type"
    /\ settings' = [settings EXCEPT ![Option(p)][Lower("Content-Type")] = Type(p)]
    /\ Disturb({q \in Callers \ {p} : Option(q) = Option(p)}, "Content-Type")
    /\ Goto(p, IF verb[p] = "json" THEN "marshal" ELSE "client")
    /\ UNCHANGED <<optionOf, defaults, cookies, sets, verb, target, merged, attached, sent, calls,
                   expected, given>>

MarshalJson(p) ==
    /\ pc[p] = "marshal"
    /\ \/ Leave(p)
       \/ /\ Goto(p, "client")
          /\ UNCHANGED <<configVars, verb, target, merged, attached, sent, calls, ghostVars>>

\* newClientSnapshot, under the client's read lock.
SnapshotClient(p) ==
    /\ pc[p] = "client"
    /\ merged' = [merged EXCEPT ![p] = defaults[target[p]]]
    /\ Goto(p, "option")
    /\ UNCHANGED <<configVars, verb, target, attached, sent, calls, ghostVars>>

\* Mutant: the client's defaults win.
MergeUnder(over, under) == [k \in Keys |-> FirstSet(<<under[k], over[k]>>)]

Merge(over, under) == [k \in Keys |-> FirstSet(<<over[k], under[k]>>)]

\* Mutant: the maps of the client are merged into, not copies of them.
MergeInPlace(p) ==
    /\ pc[p] = "option"
    /\ merged' = [merged EXCEPT ![p] = Merge(settings[Option(p)], @)]
    /\ defaults' = [defaults EXCEPT ![target[p]] = merged'[p]]
    /\ attached' = [attached EXCEPT ![p] = cookies[Option(p)]]
    /\ Goto(p, "send")
    /\ UNCHANGED <<optionOf, settings, cookies, sets, verb, target, sent, calls, ghostVars>>

\* RequestOption.snapshot, under the option's mutex, and the merge.
SnapshotOption(p) ==
    /\ pc[p] = "option"
    /\ merged' = [merged EXCEPT ![p] = Merge(settings[Option(p)], @)]
    /\ attached' = [attached EXCEPT ![p] = cookies[Option(p)]]
    /\ Goto(p, "send")
    /\ UNCHANGED <<configVars, verb, target, sent, calls, ghostVars>>

\* prepareRequest sets the headers in the order of a map: of two spellings of a
\* name, the one that comes last.
Spellings(p, n) == {k \in Keys : k[1] = n /\ merged[p][k] # Unset}

Outgoing(p) ==
    {out \in [Names -> {merged[p][k] : k \in Keys} \cup {Unset}] :
        \A n \in Names : IF Spellings(p, n) = {} THEN out[n] = Unset
                         ELSE \E k \in Spellings(p, n) : out[n] = merged[p][k]}

Send(p) ==
    /\ pc[p] = "send"
    /\ \E out \in Outgoing(p) : sent' = [sent EXCEPT ![p] = out]
    /\ Goto(p, "inflight")
    /\ UNCHANGED <<configVars, verb, target, merged, attached, calls, ghostVars>>

Return(p) ==
    /\ pc[p] = "inflight"
    /\ Leave(p)

Terminated == (\A p \in Callers : pc[p] = "idle" /\ calls[p] = MaxCalls) /\ UNCHANGED vars

Next ==
    \/ \E o \in Options : WithHeader(o) \/ WithCookies(o)
    \/ ConfigureClient("own") \/ PackageConfigures
    \/ \E p \in Callers :
          \/ VerbCall(p) \/ PackageCall(p) \/ BuildForm(p) \/ WriteType(p) \/ MarshalJson(p)
          \/ SnapshotClient(p) \/ SnapshotOption(p) \/ Send(p) \/ Return(p)
    \/ Terminated

Spec == Init /\ [][Next]_vars
-----------------------------------------------------------------------------
(***************************************************************************)
(* Properties.                                                             *)
(***************************************************************************)

\* What one call sets stays out of the others: a request carries only what was
\* set on its own client, on its own option, or by a call that shares the
\* option, although every call merges into maps it got from shared structs.
NoLeak ==
    \A p \in Callers : pc[p] = "inflight" =>
        \A n \in Names : sent[p][n] # Unset =>
            \/ sent[p][n].of \in {target[p], Option(p)}
            \/ \E q \in Callers : Option(q) = Option(p) /\ sent[p][n].of = q

\* Only what others set during a call can make a difference to it: every other
\* name goes out with the call's own type, else the value of its option, else
\* the client's default; whatever earlier calls have written to the option.  A
\* name written into Headers by hand in another case may win as well: prepareRequest
\* sets both spellings, in the order of a map.  Every cookie added before the call
\* began goes with it.
UndisturbedAsExpected ==
    \A p \in Callers : pc[p] = "inflight" =>
        /\ \A n \in Names \ disturbed[p] :
              \/ sent[p][n] = expected[p][n]
              \/ sent[p][n] = Setting("byHand", Option(p))
        /\ given[p] \subseteq attached[p]

\* sendJson "sets Content-Type to ContentTypeApplicationJson", PostMultipart
\* "sends multipart/form-data": a body goes out with the type of its own verb.
OwnContentType ==
    \A p \in Callers : pc[p] = "inflight" /\ verb[p] # "raw" =>
        /\ sent[p]["Content-Type"].kind = verb[p]
        /\ verb[p] = "form" => sent[p]["Content-Type"].of = p   \* its boundary
=============================================================================
