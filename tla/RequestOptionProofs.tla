------------------------- MODULE RequestOptionProofs -------------------------
(***************************************************************************)
(* Proofs about RequestOption, for every set of callers and options.  The  *)
(* invariant has three parts: the types, whose struct each setting comes   *)
(* from, and what is left of the value a call expects while it is on its   *)
(* way.                                                                    *)
(***************************************************************************)
EXTENDS RequestOption, TLAPS

TypeInv ==
    /\ TypeOK
    /\ \A p \in Callers : pc[p] \in {"build", "type", "marshal"} => verb[p] # "raw"

\* A setting is of the struct that holds it; or it is the type of a call, which
\* the call has written to its option.
OfClient(v, c) == v = Unset \/ v.of = c
OfOption(v, o) == v = Unset \/ v.of = o \/ \E q \in Callers : Option(q) = o /\ v.of = q

OfCall(v, p) == OfClient(v, target[p]) \/ OfOption(v, Option(p))

Owned ==
    /\ \A c \in Clients : \A k \in Keys : OfClient(defaults[c][k], c)
    /\ \A o \in Options \cup Callers : \A k \in Keys : OfOption(settings[o][k], o)
    /\ \A p \in Callers :
          /\ pc[p] \in {"option", "send"} => \A k \in Keys : OfCall(merged[p][k], p)
          /\ pc[p] = "inflight" => \A n \in Names : OfCall(sent[p][n], p)

\* From where a name of the call will come: what it will find in its option and
\* its client, or has found there.
Coming(p, n) ==
    CASE pc[p] \in {"build", "type", "marshal", "client"} ->
            FirstSet(<<settings[Option(p)][Lower(n)], defaults[target[p]][Lower(n)]>>)
      [] pc[p] = "option" ->
            FirstSet(<<settings[Option(p)][Lower(n)], merged[p][Lower(n)]>>)
      [] OTHER -> merged[p][Lower(n)]

OwnType(p, n) == n = "Content-Type" /\ verb[p] # "raw"

CallAsExpected(p) ==
    /\ \A n \in Names \ disturbed[p] :
          /\ OwnType(p, n) => expected[p][n] = Type(p)
          /\ \/ OwnType(p, n) /\ pc[p] \in {"build", "type"}
             \/ Coming(p, n) = expected[p][n]
          /\ pc[p] = "inflight" => sent[p][n] \in {expected[p][n], Setting("byHand", Option(p))}
    /\ \A n \in Names :
          /\ pc[p] = "option" => merged[p][Mixed(n)] = Unset
          /\ pc[p] = "send" => merged[p][Mixed(n)] \in {Unset, Setting("byHand", Option(p))}
    /\ given[p] \subseteq cookies[Option(p)]
    /\ pc[p] \in {"send", "inflight"} => given[p] \subseteq attached[p]

AsExpected == \A p \in Callers : pc[p] # "idle" => CallAsExpected(p)
-----------------------------------------------------------------------------
(***************************************************************************)
(* Lemmas about the operators.                                             *)
(***************************************************************************)
LEMMA KeyFacts ==
    /\ \A n \in Names : Lower(n) \in Keys /\ Mixed(n) \in Keys
    /\ \A n, m \in Names : Lower(n) # Mixed(m)
    /\ \A n, m \in Names : Lower(n) = Lower(m) => n = m
    /\ \A k \in Keys : \E n \in Names : k = Lower(n) \/ k = Mixed(n)
    /\ "Content-Type" \in Names
BY DEF Keys, Lower, Mixed, Names

LEMMA ValueFacts ==
    /\ Unset \in SettingValues
    /\ \A o \in Clients \cup Options : Fresh(o) \in SettingValues
    /\ \A o \in Options : Setting("byHand", o) \in SettingValues
    /\ \A p \in Callers : verb[p] \in {"json", "form"} => Type(p) \in SettingValues /\ Type(p) # Unset
    /\ \A o : Fresh(o) # Unset /\ Fresh(o).of = o /\ Type(o).of = o
    /\ \A kind, o : Setting(kind, o).of = o
BY DEF SettingValues, Unset, Fresh, Setting, Type

LEMMA OptionFacts ==
    ASSUME optionOf \in [Callers -> Options \cup {Nil}]
    PROVE  /\ \A p \in Callers : Option(p) \in Options \cup Callers
           /\ \A p, q \in Callers : Option(q) = p => q = p
           /\ \A p \in Callers : Option(p) \in Options \/ Option(p) = p
           /\ Options \cap Callers = {}
BY OptionAssumption DEF Option

LEMMA FirstSetFact == \A a, b : FirstSet(<<a, b>>) = IF a # Unset THEN a ELSE b
BY DEF FirstSet

LEMMA MergeFact ==
    \A over, under : \A k \in Keys :
        Merge(over, under)[k] = IF over[k] # Unset THEN over[k] ELSE under[k]
BY FirstSetFact DEF Merge

\* Each name goes out under one of its spellings, if there is one.
LEMMA OutgoingFact ==
    ASSUME NEW p \in Callers, NEW out \in Outgoing(p), NEW n \in Names
    PROVE  \/ out[n] = Unset /\ merged[p][Lower(n)] = Unset
           \/ out[n] = merged[p][Lower(n)]
           \/ out[n] = merged[p][Mixed(n)] /\ merged[p][Mixed(n)] # Unset
<1>1. \A k \in Keys : k[1] = n => k = Lower(n) \/ k = Mixed(n)
  BY DEF Keys, Lower, Mixed
<1>2. Lower(n)[1] = n /\ Lower(n) \in Keys
  BY KeyFacts DEF Lower
<1>3. CASE Spellings(p, n) = {}
  BY <1>2, <1>3 DEF Outgoing, Spellings
<1>4. CASE Spellings(p, n) # {}
  <2>1. PICK k \in Spellings(p, n) : out[n] = merged[p][k]
    BY <1>4 DEF Outgoing
  <2> QED
    BY <1>1, <2>1 DEF Spellings
<1> QED
  BY <1>3, <1>4
-----------------------------------------------------------------------------
(***************************************************************************)
(* The types.                                                              *)
(***************************************************************************)
LEMMA TypeInit == Init => TypeInv
<1> SUFFICES ASSUME Init PROVE TypeInv
  OBVIOUS
<1>1. Empty \in [Keys -> SettingValues] /\ Nothing \in [Names -> SettingValues]
  BY ValueFacts DEF Empty, Nothing
<1> DEFINE Start == {Empty} \cup {[Empty EXCEPT ![Mixed(n)] = Setting("byHand", o)] :
                                      n \in ByHand, o \in Options}
<1>2. \A s \in Start : s \in [Keys -> SettingValues]
  BY <1>1, ValueFacts
<1>21. settings \in [Options \cup Callers -> Start]
  BY DEF Init
<1>22. ByHand \subseteq Names
  BY OptionAssumption DEF Names
<1>3. settings \in [Options \cup Callers -> [Keys -> SettingValues]]
  <2> HIDE DEF Start
  <2> QED
    BY <1>2, <1>21
<1>4. \A o \in Options \cup Callers : \A n \in Names :
         settings[o][Mixed(n)] \in {Unset, Setting("byHand", o)}
  <2> SUFFICES ASSUME NEW o \in Options \cup Callers, NEW n \in Names,
                      settings[o][Mixed(n)] # Unset
               PROVE  settings[o][Mixed(n)] = Setting("byHand", o)
    OBVIOUS
  <2>1. PICK m \in ByHand, w \in Options :
           settings[o] = [Empty EXCEPT ![Mixed(m)] = Setting("byHand", w)]
    <3>1. Empty[Mixed(n)] = Unset
      BY KeyFacts DEF Empty
    <3>2. settings[o] # Empty
      BY <3>1
    <3>3. settings[o] \in Start
      BY <1>21
    <3> QED
      BY <3>2, <3>3
  <2>2. settings[o][Mixed(n)] = Setting("byHand", w)
    BY <1>22, <2>1, KeyFacts DEF Empty
  <2>3. settings[o][Mixed(n)].of = o
    BY DEF Init
  <2> QED
    BY <2>2, <2>3, ValueFacts
<1>5. \A n \in Names : \A c \in Clients : defaults[c][Mixed(n)] = Unset
  BY KeyFacts DEF Init, Empty
<1>6. TypeOK
  BY <1>1, <1>3, <1>4, <1>5, OptionAssumption DEF Init, TypeOK, Clients
<1> QED
  BY <1>6 DEF Init, TypeInv

\* A struct keeps its type when a name in lower case is set.
LEMMA SetFacts ==
    ASSUME TypeOK, NEW o \in Options \cup Callers, NEW n \in Names, NEW v \in SettingValues,
           settings' = [settings EXCEPT ![o][Lower(n)] = v]
    PROVE  /\ settings' \in [Options \cup Callers -> [Keys -> SettingValues]]
           /\ settings'[o][Lower(n)] = v
           /\ \A w \in Options \cup Callers : \A k \in Keys :
                 w # o \/ k # Lower(n) => settings'[w][k] = settings[w][k]
           /\ \A w \in Options \cup Callers : \A m \in Names :
                 settings'[w][Mixed(m)] = settings[w][Mixed(m)]
<1>1. settings' \in [Options \cup Callers -> [Keys -> SettingValues]]
  BY KeyFacts DEF TypeOK
<1>2. settings'[o][Lower(n)] = v
  BY KeyFacts DEF TypeOK
<1>3. \A w \in Options \cup Callers : \A k \in Keys :
         w # o \/ k # Lower(n) => settings'[w][k] = settings[w][k]
  BY KeyFacts DEF TypeOK
<1> QED
  BY <1>1, <1>2, <1>3, KeyFacts

LEMMA DefaultFacts ==
    ASSUME TypeOK, NEW c \in Clients, NEW n \in Names, NEW v \in SettingValues,
           defaults' = [defaults EXCEPT ![c][Lower(n)] = v]
    PROVE  /\ defaults' \in [Clients -> [Keys -> SettingValues]]
           /\ defaults'[c][Lower(n)] = v
           /\ \A d \in Clients : \A k \in Keys :
                 d # c \/ k # Lower(n) => defaults'[d][k] = defaults[d][k]
           /\ \A d \in Clients : \A m \in Names : defaults'[d][Mixed(m)] = defaults[d][Mixed(m)]
<1>1. defaults' \in [Clients -> [Keys -> SettingValues]]
  BY KeyFacts DEF TypeOK
<1>2. defaults'[c][Lower(n)] = v
  BY KeyFacts DEF TypeOK
<1>3. \A d \in Clients : \A k \in Keys :
         d # c \/ k # Lower(n) => defaults'[d][k] = defaults[d][k]
  BY KeyFacts DEF TypeOK
<1> QED
  BY <1>1, <1>2, <1>3, KeyFacts

LEMMA DisturbFacts ==
    ASSUME TypeOK, NEW ps, NEW n \in Names, Disturb(ps, n)
    PROVE  /\ disturbed' \in [Callers -> SUBSET Names]
           /\ \A p \in Callers : disturbed[p] \subseteq disturbed'[p]
           /\ \A p \in Callers : p \in ps /\ pc[p] # "idle" => n \in disturbed'[p]
BY DEF TypeOK, Disturb

\* A call that is over leaves nothing.
LEMMA LeaveFacts ==
    ASSUME TypeOK, NEW p \in Callers, Leave(p)
    PROVE  /\ settings' \in [Options \cup Callers -> [Keys -> SettingValues]]
           /\ \A k \in Keys : settings'[p][k] = Unset
           /\ \A w \in Options \cup Callers : w # p => settings'[w] = settings[w]
           /\ pc' \in [Callers -> {"idle", "build", "type", "marshal", "client", "option",
                                   "send", "inflight"}]
           /\ pc'[p] = "idle"
           /\ \A q \in Callers \ {p} :
                 /\ pc'[q] = pc[q] /\ verb'[q] = verb[q] /\ target'[q] = target[q]
                 /\ merged'[q] = merged[q] /\ attached'[q] = attached[q] /\ sent'[q] = sent[q]
                 /\ disturbed'[q] = disturbed[q] /\ expected'[q] = expected[q]
                 /\ given'[q] = given[q]
           /\ UNCHANGED <<optionOf, defaults, cookies, sets, calls>>
<1>1. Empty \in [Keys -> SettingValues] /\ \A k \in Keys : Empty[k] = Unset
  BY ValueFacts DEF Empty
<1>2. /\ settings' \in [Options \cup Callers -> [Keys -> SettingValues]]
      /\ settings'[p] = Empty
      /\ \A w \in Options \cup Callers : w # p => settings'[w] = settings[w]
  BY <1>1 DEF Leave, TypeOK
<1>3. \A q \in Callers \ {p} :
         /\ pc'[q] = pc[q] /\ verb'[q] = verb[q] /\ target'[q] = target[q]
         /\ merged'[q] = merged[q] /\ attached'[q] = attached[q] /\ sent'[q] = sent[q]
  BY DEF Leave, TypeOK, Goto
<1>4. \A q \in Callers \ {p} :
         /\ disturbed'[q] = disturbed[q] /\ expected'[q] = expected[q]
         /\ given'[q] = given[q]
  BY DEF Leave, TypeOK
<1>5. /\ pc' \in [Callers -> {"idle", "build", "type", "marshal", "client", "option",
                               "send", "inflight"}]
      /\ pc'[p] = "idle"
  BY DEF Leave, TypeOK, Goto
<1> QED
  BY <1>1, <1>2, <1>3, <1>4, <1>5 DEF Leave

LEMMA LeaveType ==
    ASSUME TypeInv, NEW p \in Callers, Leave(p)
    PROVE  TypeInv'
<1>1. TypeOK
  BY DEF TypeInv
<1>2. Empty \in [Keys -> SettingValues] /\ Nothing \in [Names -> SettingValues]
  BY ValueFacts DEF Empty, Nothing
<1>3. /\ verb' \in [Callers -> {"raw", "json", "form"}] /\ target' \in [Callers -> Clients]
      /\ attached' \in [Callers -> SUBSET Cookies] /\ given' \in [Callers -> SUBSET Cookies]
      /\ disturbed' \in [Callers -> SUBSET Names]
  BY <1>1 DEF Leave, TypeOK, Clients
<1>4. /\ merged' \in [Callers -> [Keys -> SettingValues]]
      /\ sent' \in [Callers -> [Names -> SettingValues]]
      /\ expected' \in [Callers -> [Names -> SettingValues]]
  BY <1>1, <1>2 DEF Leave, TypeOK
<1>5. \A n \in Names : \A o \in Options \cup Callers :
         settings'[o][Mixed(n)] \in {Unset, Setting("byHand", o)}
  <2>1. \A n \in Names : settings'[p][Mixed(n)] = Unset
    BY <1>1, LeaveFacts, KeyFacts
  <2>2. \A n \in Names : \A o \in Options \cup Callers :
           o # p => settings'[o][Mixed(n)] = settings[o][Mixed(n)]
    BY <1>1, LeaveFacts
  <2> QED
    BY <1>1, <2>1, <2>2 DEF TypeOK
<1>6. TypeOK'
  <2>1. /\ optionOf' \in [Callers -> Options \cup {Nil}]
        /\ defaults' \in [Clients -> [Keys -> SettingValues]]
        /\ \A n \in Names : \A c \in Clients : defaults'[c][Mixed(n)] = Unset
        /\ cookies' \in [Options \cup Callers -> SUBSET Cookies]
        /\ sets' \in 0 .. MaxSets /\ calls' \in [Callers -> 0 .. MaxCalls]
    BY <1>1 DEF Leave, TypeOK
  <2> QED
    BY <1>1, <1>3, <1>4, <1>5, <2>1, LeaveFacts DEF TypeOK
<1>7. \A q \in Callers : pc'[q] \in {"build", "type", "marshal"} => verb'[q] # "raw"
  BY <1>1, LeaveFacts DEF TypeInv
<1> QED
  BY <1>6, <1>7 DEF TypeInv

\* What Begin notes and starts.
LEMMA BeginFacts ==
    ASSUME TypeInv, NEW p \in Callers, NEW c \in Clients, NEW v \in Verbs, Begin(p, c, v)
    PROVE  /\ TypeInv'
           /\ UNCHANGED <<configVars, merged, attached, sent>>
           /\ pc'[p] = CASE v = "raw" -> "client" [] v = "json" -> "type" [] v = "form" -> "build"
           /\ verb'[p] = v /\ target'[p] = c
           /\ given'[p] = cookies[Option(p)]
           /\ \A n \in Names :
                expected'[p][n] = IF n = "Content-Type" /\ v # "raw" THEN Setting(v, p)
                                  ELSE FirstSet(<<settings[Option(p)][Lower(n)],
                                                  defaults[c][Lower(n)]>>)
           /\ \A q \in Callers \ {p} :
                 /\ pc'[q] = pc[q] /\ verb'[q] = verb[q] /\ target'[q] = target[q]
                 /\ disturbed'[q] = disturbed[q] /\ expected'[q] = expected[q]
                 /\ given'[q] = given[q]
<1>1. TypeOK
  BY DEF TypeInv
<1>2. v \in {"raw", "json", "form"}
  BY OptionAssumption
<1>3. /\ Option(p) \in Options \cup Callers
      /\ \A n \in Names :
            FirstSet(<<settings[Option(p)][Lower(n)], defaults[c][Lower(n)]>>) \in SettingValues
  <2>1. Option(p) \in Options \cup Callers
    BY <1>1, OptionFacts DEF TypeOK
  <2>2. \A n \in Names : /\ settings[Option(p)][Lower(n)] \in SettingValues
                         /\ defaults[c][Lower(n)] \in SettingValues
    BY <1>1, <2>1, KeyFacts DEF TypeOK
  <2> QED
    BY <2>1, <2>2, FirstSetFact
<1>4. v # "raw" => Setting(v, p) \in SettingValues
  BY <1>2 DEF SettingValues, Setting
<1> DEFINE wanted == [n \in Names |-> IF n = "Content-Type" /\ v # "raw" THEN Setting(v, p)
                                      ELSE FirstSet(<<settings[Option(p)][Lower(n)],
                                                      defaults[c][Lower(n)]>>)]
<1>5. wanted \in [Names -> SettingValues]
  BY <1>3, <1>4
<1>6. /\ expected' = [expected EXCEPT ![p] = wanted]
      /\ given' = [given EXCEPT ![p] = cookies[Option(p)]]
      /\ disturbed' = [disturbed EXCEPT ![p] = {}]
  BY DEF Begin
<1>7. /\ expected' \in [Callers -> [Names -> SettingValues]] /\ expected'[p] = wanted
      /\ given' \in [Callers -> SUBSET Cookies] /\ given'[p] = cookies[Option(p)]
      /\ disturbed' \in [Callers -> SUBSET Names]
      /\ \A q \in Callers \ {p} : /\ disturbed'[q] = disturbed[q] /\ given'[q] = given[q]
                                  /\ expected'[q] = expected[q]
  <2> HIDE DEF wanted
  <2> QED
    BY <1>1, <1>3, <1>5, <1>6 DEF TypeOK
<1>8. /\ pc' \in [Callers -> {"idle", "build", "type", "marshal", "client", "option",
                               "send", "inflight"}]
      /\ pc'[p] = CASE v = "raw" -> "client" [] v = "json" -> "type" [] v = "form" -> "build"
      /\ verb' \in [Callers -> {"raw", "json", "form"}] /\ verb'[p] = v
      /\ target' \in [Callers -> Clients] /\ target'[p] = c
      /\ \A q \in Callers \ {p} : /\ pc'[q] = pc[q] /\ verb'[q] = verb[q]
                                  /\ target'[q] = target[q]
  BY <1>1, <1>2 DEF Begin, Goto, TypeOK
<1>9. calls' \in [Callers -> 0 .. MaxCalls]
  BY <1>1, OptionAssumption DEF Begin, TypeOK
<1>10. UNCHANGED <<configVars, merged, attached, sent>>
  BY DEF Begin
<1>11. TypeOK'
  BY <1>1, <1>7, <1>8, <1>9, <1>10 DEF TypeOK, configVars
<1>12. TypeInv'
  BY <1>2, <1>8, <1>11 DEF TypeInv
<1> QED
  BY <1>7, <1>8, <1>10, <1>12

\* The type of the verb, and what the option's other users see of it.
LEMMA WriteTypeFacts ==
    ASSUME TypeInv, NEW p \in Callers, WriteType(p)
    PROVE  /\ TypeInv'
           /\ pc[p] = "type" /\ pc'[p] \in {"marshal", "client"}
           /\ \A q \in Callers \ {p} : pc'[q] = pc[q]
           /\ Type(p) # Unset
           /\ settings'[Option(p)][Lower("Content-Type")] = Type(p)
           /\ \A w \in Options \cup Callers : \A k \in Keys :
                 w # Option(p) \/ k # Lower("Content-Type") => settings'[w][k] = settings[w][k]
           /\ \A q \in Callers : disturbed[q] \subseteq disturbed'[q]
           /\ \A q \in Callers \ {p} :
                 Option(q) = Option(p) /\ pc[q] # "idle" => "Content-Type" \in disturbed'[q]
           /\ UNCHANGED <<optionOf, defaults, cookies, sets, verb, target, merged, attached, sent,
                          calls, expected, given>>
<1>1. TypeOK /\ pc[p] = "type" /\ verb[p] \in {"json", "form"}
  BY DEF TypeInv, TypeOK, WriteType
<1>2. /\ Type(p) \in SettingValues /\ Type(p) # Unset
      /\ Option(p) \in Options \cup Callers
  BY <1>1, ValueFacts, OptionFacts DEF TypeOK
<1>3. settings' = [settings EXCEPT ![Option(p)][Lower("Content-Type")] = Type(p)]
  BY DEF WriteType
<1>4. /\ settings' \in [Options \cup Callers -> [Keys -> SettingValues]]
      /\ settings'[Option(p)][Lower("Content-Type")] = Type(p)
      /\ \A w \in Options \cup Callers : \A k \in Keys :
            w # Option(p) \/ k # Lower("Content-Type") => settings'[w][k] = settings[w][k]
      /\ \A w \in Options \cup Callers : \A m \in Names :
            settings'[w][Mixed(m)] = settings[w][Mixed(m)]
  BY <1>1, <1>2, <1>3, SetFacts, KeyFacts
<1>5. /\ disturbed' \in [Callers -> SUBSET Names]
      /\ \A q \in Callers : disturbed[q] \subseteq disturbed'[q]
      /\ \A q \in Callers \ {p} :
            Option(q) = Option(p) /\ pc[q] # "idle" => "Content-Type" \in disturbed'[q]
  <2>1. Disturb({q \in Callers \ {p} : Option(q) = Option(p)}, "Content-Type")
    BY DEF WriteType
  <2> QED
    BY <1>1, <2>1, DisturbFacts, KeyFacts
<1>6. /\ pc' \in [Callers -> {"idle", "build", "type", "marshal", "client", "option",
                               "send", "inflight"}]
      /\ pc'[p] \in {"marshal", "client"} /\ \A q \in Callers \ {p} : pc'[q] = pc[q]
  BY <1>1 DEF WriteType, Goto, TypeOK
<1>7. UNCHANGED <<optionOf, defaults, cookies, sets, verb, target, merged, attached, sent,
                  calls, expected, given>>
  BY DEF WriteType
<1>8. TypeOK'
  BY <1>1, <1>4, <1>5, <1>6, <1>7 DEF TypeOK, Setting
<1>9. \A q \in Callers : pc'[q] \in {"build", "type", "marshal"} => verb'[q] # "raw"
  BY <1>1, <1>6, <1>7 DEF TypeInv
<1> QED
  BY <1>1, <1>2, <1>4, <1>5, <1>6, <1>7, <1>8, <1>9 DEF TypeInv

\* The merge keeps the names in lower case apart from those that are not.
LEMMA SnapshotFacts ==
    ASSUME TypeInv, NEW p \in Callers, SnapshotClient(p) \/ SnapshotOption(p)
    PROVE  /\ TypeInv'
           /\ \A q \in Callers \ {p} : /\ pc'[q] = pc[q] /\ merged'[q] = merged[q]
                                       /\ attached'[q] = attached[q]
           /\ UNCHANGED <<configVars, verb, target, sent, calls, ghostVars>>
           /\ SnapshotClient(p) => /\ pc[p] = "client" /\ pc'[p] = "option"
                                   /\ merged'[p] = defaults[target[p]]
           /\ SnapshotOption(p) => /\ pc[p] = "option" /\ pc'[p] = "send"
                                   /\ attached'[p] = cookies[Option(p)]
                                   /\ \A k \in Keys : merged'[p][k] =
                                        IF settings[Option(p)][k] # Unset
                                        THEN settings[Option(p)][k] ELSE merged[p][k]
<1>1. TypeOK /\ Option(p) \in Options \cup Callers
  BY OptionFacts DEF TypeInv, TypeOK
<1>2. CASE SnapshotClient(p)
  <2>1. /\ merged' = [merged EXCEPT ![p] = defaults[target[p]]]
        /\ defaults[target[p]] \in [Keys -> SettingValues]
    BY <1>1, <1>2 DEF SnapshotClient, TypeOK
  <2>2. /\ merged' \in [Callers -> [Keys -> SettingValues]] /\ merged'[p] = defaults[target[p]]
        /\ \A q \in Callers \ {p} : merged'[q] = merged[q]
    BY <1>1, <2>1 DEF TypeOK
  <2>3. /\ pc' \in [Callers -> {"idle", "build", "type", "marshal", "client", "option",
                                 "send", "inflight"}]
        /\ pc[p] = "client" /\ pc'[p] = "option" /\ \A q \in Callers \ {p} : pc'[q] = pc[q]
    BY <1>1, <1>2 DEF SnapshotClient, Goto, TypeOK
  <2>4. UNCHANGED <<configVars, verb, target, attached, sent, calls, ghostVars>>
    BY <1>2 DEF SnapshotClient
  <2>5. TypeOK'
    BY <1>1, <2>2, <2>3, <2>4 DEF TypeOK, configVars, ghostVars
  <2>6. TypeInv'
    BY <2>3, <2>4, <2>5 DEF TypeInv
  <2> QED
    BY <2>2, <2>3, <2>4, <2>6 DEF SnapshotOption
<1>3. CASE SnapshotOption(p)
  <2> DEFINE both == Merge(settings[Option(p)], merged[p])
  <2>1. /\ merged' = [merged EXCEPT ![p] = both]
        /\ attached' = [attached EXCEPT ![p] = cookies[Option(p)]]
    BY <1>3 DEF SnapshotOption
  <2>2. \A k \in Keys : both[k] = IF settings[Option(p)][k] # Unset
                                  THEN settings[Option(p)][k] ELSE merged[p][k]
    BY MergeFact
  <2>3. both \in [Keys -> SettingValues]
    <3>1. \A k \in Keys : /\ settings[Option(p)][k] \in SettingValues
                          /\ merged[p][k] \in SettingValues
      BY <1>1 DEF TypeOK
    <3>2. \A k \in Keys : both[k] \in SettingValues
      <4> HIDE DEF both
      <4> QED
        BY <2>2, <3>1
    <3> QED
      BY <3>2 DEF Merge
  <2> HIDE DEF both
  <2>4. /\ merged' \in [Callers -> [Keys -> SettingValues]] /\ merged'[p] = both
        /\ \A q \in Callers \ {p} : merged'[q] = merged[q]
    BY <1>1, <2>1, <2>3 DEF TypeOK
  <2>5. /\ attached' \in [Callers -> SUBSET Cookies] /\ attached'[p] = cookies[Option(p)]
        /\ \A q \in Callers \ {p} : attached'[q] = attached[q]
    BY <1>1, <2>1 DEF TypeOK
  <2>6. /\ pc' \in [Callers -> {"idle", "build", "type", "marshal", "client", "option",
                                 "send", "inflight"}]
        /\ pc[p] = "option" /\ pc'[p] = "send" /\ \A q \in Callers \ {p} : pc'[q] = pc[q]
    BY <1>1, <1>3 DEF SnapshotOption, Goto, TypeOK
  <2>7. UNCHANGED <<configVars, verb, target, sent, calls, ghostVars>>
    BY <1>3 DEF SnapshotOption
  <2>8. TypeOK'
    BY <1>1, <2>4, <2>5, <2>6, <2>7 DEF TypeOK, configVars, ghostVars
  <2>9. TypeInv'
    BY <2>6, <2>7, <2>8 DEF TypeInv
  <2> QED
    BY <2>2, <2>4, <2>5, <2>6, <2>7, <2>9 DEF SnapshotClient
<1> QED
  BY <1>2, <1>3

LEMMA SendFacts ==
    ASSUME TypeInv, NEW p \in Callers, Send(p)
    PROVE  /\ TypeInv'
           /\ pc[p] = "send" /\ pc'[p] = "inflight" /\ sent'[p] \in Outgoing(p)
           /\ \A q \in Callers \ {p} : pc'[q] = pc[q] /\ sent'[q] = sent[q]
           /\ UNCHANGED <<configVars, verb, target, merged, attached, calls, ghostVars>>
<1>1. TypeOK
  BY DEF TypeInv
<1>2. PICK out \in Outgoing(p) : sent' = [sent EXCEPT ![p] = out]
  BY DEF Send
<1>3. out \in [Names -> SettingValues]
  <2>1. {merged[p][k] : k \in Keys} \cup {Unset} \subseteq SettingValues
    BY <1>1, ValueFacts DEF TypeOK
  <2>2. out \in [Names -> {merged[p][k] : k \in Keys} \cup {Unset}]
    BY DEF Outgoing
  <2> QED
    BY <2>1, <2>2
<1>4. /\ sent' \in [Callers -> [Names -> SettingValues]] /\ sent'[p] = out
      /\ \A q \in Callers \ {p} : sent'[q] = sent[q]
  BY <1>1, <1>2, <1>3 DEF TypeOK
<1>5. /\ pc' \in [Callers -> {"idle", "build", "type", "marshal", "client", "option",
                               "send", "inflight"}]
      /\ pc[p] = "send" /\ pc'[p] = "inflight" /\ \A q \in Callers \ {p} : pc'[q] = pc[q]
  BY <1>1 DEF Send, Goto, TypeOK
<1>6. UNCHANGED <<configVars, verb, target, merged, attached, calls, ghostVars>>
  BY DEF Send
<1>7. TypeOK'
  BY <1>1, <1>4, <1>5, <1>6 DEF TypeOK, configVars, ghostVars
<1>8. TypeInv'
  BY <1>5, <1>6, <1>7 DEF TypeInv
<1> QED
  BY <1>4, <1>5, <1>6, <1>8

\* The settings the program makes beside the calls.
LEMMA WithHeaderFacts ==
    ASSUME TypeInv, NEW o \in Options, WithHeader(o)
    PROVE  /\ TypeInv'
           /\ UNCHANGED <<optionOf, defaults, cookies, callVars, expected, given>>
           /\ \A q \in Callers : disturbed[q] \subseteq disturbed'[q]
           /\ \E n \in Names :
                 /\ settings'[o][Lower(n)].of = o
                 /\ \A w \in Options \cup Callers : \A k \in Keys :
                       w # o \/ k # Lower(n) => settings'[w][k] = settings[w][k]
                 /\ \A q \in Callers : Option(q) = o /\ pc[q] # "idle" => n \in disturbed'[q]
<1>1. TypeOK /\ o \in Options \cup Callers
  BY DEF TypeInv
<1>2. UNCHANGED <<optionOf, defaults, cookies, callVars, expected, given>>
  BY DEF WithHeader
<1>3. PICK n \in Names : /\ settings' = [settings EXCEPT ![o][Lower(n)] = Fresh(o)]
                         /\ Disturb({p \in Callers : Option(p) = o}, n)
  BY DEF WithHeader
<1>4. Fresh(o) \in SettingValues /\ Fresh(o).of = o
  BY ValueFacts
<1>5. /\ settings' \in [Options \cup Callers -> [Keys -> SettingValues]]
      /\ settings'[o][Lower(n)] = Fresh(o)
      /\ \A w \in Options \cup Callers : \A k \in Keys :
            w # o \/ k # Lower(n) => settings'[w][k] = settings[w][k]
      /\ \A w \in Options \cup Callers : \A m \in Names :
            settings'[w][Mixed(m)] = settings[w][Mixed(m)]
  BY <1>1, <1>3, <1>4, SetFacts
<1>6. /\ disturbed' \in [Callers -> SUBSET Names]
      /\ \A q \in Callers : disturbed[q] \subseteq disturbed'[q]
      /\ \A q \in Callers : Option(q) = o /\ pc[q] # "idle" => n \in disturbed'[q]
  BY <1>1, <1>3, DisturbFacts
<1>7. sets' \in 0 .. MaxSets
  BY <1>1, OptionAssumption DEF WithHeader, TypeOK
<1>8. TypeOK'
  BY <1>1, <1>2, <1>5, <1>6, <1>7 DEF TypeOK, callVars
<1>9. TypeInv'
  BY <1>2, <1>8 DEF TypeInv, callVars
<1> QED
  BY <1>2, <1>4, <1>5, <1>6, <1>9

LEMMA ConfigureFacts ==
    ASSUME TypeInv, NEW c \in Clients, ConfigureClient(c)
    PROVE  /\ TypeInv'
           /\ UNCHANGED <<optionOf, settings, cookies, callVars, expected, given>>
           /\ \A q \in Callers : disturbed[q] \subseteq disturbed'[q]
           /\ \E n \in Names :
                 /\ defaults'[c][Lower(n)].of = c
                 /\ \A d \in Clients : \A k \in Keys :
                       d # c \/ k # Lower(n) => defaults'[d][k] = defaults[d][k]
                 /\ \A q \in Callers : target[q] = c /\ pc[q] # "idle" => n \in disturbed'[q]
<1>1. TypeOK
  BY DEF TypeInv
<1>2. UNCHANGED <<optionOf, settings, cookies, callVars, expected, given>>
  BY DEF ConfigureClient
<1>3. PICK n \in Names : /\ defaults' = [defaults EXCEPT ![c][Lower(n)] = Fresh(c)]
                         /\ Disturb({p \in Callers : target[p] = c}, n)
  BY DEF ConfigureClient
<1>4. Fresh(c) \in SettingValues /\ Fresh(c).of = c
  BY ValueFacts
<1>5. /\ defaults' \in [Clients -> [Keys -> SettingValues]]
      /\ defaults'[c][Lower(n)] = Fresh(c)
      /\ \A d \in Clients : \A k \in Keys :
            d # c \/ k # Lower(n) => defaults'[d][k] = defaults[d][k]
      /\ \A d \in Clients : \A m \in Names : defaults'[d][Mixed(m)] = defaults[d][Mixed(m)]
  BY <1>1, <1>3, <1>4, DefaultFacts
<1>6. /\ disturbed' \in [Callers -> SUBSET Names]
      /\ \A q \in Callers : disturbed[q] \subseteq disturbed'[q]
      /\ \A q \in Callers : target[q] = c /\ pc[q] # "idle" => n \in disturbed'[q]
  BY <1>1, <1>3, DisturbFacts
<1>7. sets' \in 0 .. MaxSets
  BY <1>1, OptionAssumption DEF ConfigureClient, TypeOK
<1>8. TypeOK'
  BY <1>1, <1>2, <1>5, <1>6, <1>7 DEF TypeOK, callVars
<1>9. TypeInv'
  BY <1>2, <1>8 DEF TypeInv, callVars
<1> QED
  BY <1>2, <1>4, <1>5, <1>6, <1>9

LEMMA WithCookiesFacts ==
    ASSUME TypeInv, NEW o \in Options, WithCookies(o)
    PROVE  /\ TypeInv'
           /\ UNCHANGED <<optionOf, defaults, settings, callVars, ghostVars>>
           /\ \A w \in Options \cup Callers : cookies[w] \subseteq cookies'[w]
<1>1. TypeOK
  BY DEF TypeInv
<1>2. PICK cs \in SUBSET Cookies : cookies' = [cookies EXCEPT ![o] = @ \cup cs]
  BY DEF WithCookies
<1>3. /\ cookies' \in [Options \cup Callers -> SUBSET Cookies]
      /\ \A w \in Options \cup Callers : cookies[w] \subseteq cookies'[w]
  BY <1>1, <1>2 DEF TypeOK
<1>4. UNCHANGED <<optionOf, defaults, settings, callVars, ghostVars>>
  BY DEF WithCookies
<1>5. sets' \in 0 .. MaxSets
  BY <1>1, OptionAssumption DEF WithCookies, TypeOK
<1>6. TypeOK'
  BY <1>1, <1>3, <1>4, <1>5 DEF TypeOK, callVars, ghostVars
<1>7. TypeInv'
  BY <1>4, <1>6 DEF TypeInv, callVars
<1> QED
  BY <1>3, <1>4, <1>7

\* A call goes on, with its form written or its body encoded, or it is over.
Goes(p) ==
    /\ \/ pc[p] = "build" /\ pc'[p] = "type"
       \/ pc[p] = "marshal" /\ pc'[p] = "client"
    /\ \A q \in Callers \ {p} : pc'[q] = pc[q]
    /\ UNCHANGED <<configVars, verb, target, merged, attached, sent, calls, ghostVars>>

LEMMA GoesFacts ==
    ASSUME TypeInv, NEW p \in Callers, BuildForm(p) \/ MarshalJson(p)
    PROVE  Leave(p) \/ (TypeInv' /\ Goes(p))
<1> SUFFICES ASSUME ~Leave(p) PROVE TypeInv' /\ Goes(p)
  OBVIOUS
<1>1. TypeOK
  BY DEF TypeInv
<1>2. /\ pc' \in [Callers -> {"idle", "build", "type", "marshal", "client", "option",
                               "send", "inflight"}]
      /\ \/ pc[p] = "build" /\ pc'[p] = "type"
         \/ pc[p] = "marshal" /\ pc'[p] = "client"
      /\ \A q \in Callers \ {p} : pc'[q] = pc[q]
  BY <1>1 DEF BuildForm, MarshalJson, Goto, TypeOK
<1>3. UNCHANGED <<configVars, verb, target, merged, attached, sent, calls, ghostVars>>
  BY DEF BuildForm, MarshalJson
<1>4. TypeOK'
  BY <1>1, <1>2, <1>3 DEF TypeOK, configVars, ghostVars
<1>5. TypeInv'
  BY <1>2, <1>3, <1>4 DEF TypeInv
<1> QED
  BY <1>2, <1>3, <1>5 DEF Goes

\* The steps, as the proofs split them.
LEMMA StepCases ==
    ASSUME [Next]_vars
    PROVE  \/ \E o \in Options : WithHeader(o) \/ WithCookies(o)
           \/ \E c \in Clients : ConfigureClient(c)
           \/ \E p \in Callers : \/ \E c \in Clients, v \in Verbs : Begin(p, c, v)
                                 \/ BuildForm(p) \/ MarshalJson(p)
                                 \/ WriteType(p)
                                 \/ SnapshotClient(p) \/ SnapshotOption(p)
                                 \/ Send(p)
                                 \/ Leave(p)
           \/ UNCHANGED vars
BY DEF Next, PackageConfigures, VerbCall, PackageCall, Return, Terminated, Clients

LEMMA TypeStep ==
    ASSUME TypeInv, [Next]_vars
    PROVE  TypeInv'
<1>1. CASE \E o \in Options : WithHeader(o) \/ WithCookies(o)
  BY <1>1, WithHeaderFacts, WithCookiesFacts
<1>2. CASE \E c \in Clients : ConfigureClient(c)
  BY <1>2, ConfigureFacts
<1>3. ASSUME NEW p \in Callers, NEW c \in Clients, NEW v \in Verbs, Begin(p, c, v)
      PROVE  TypeInv'
  BY <1>3, BeginFacts
<1>4. ASSUME NEW p \in Callers, BuildForm(p) \/ MarshalJson(p) PROVE TypeInv'
  BY <1>4, GoesFacts, LeaveType
<1>5. ASSUME NEW p \in Callers, WriteType(p) PROVE TypeInv'
  BY <1>5, WriteTypeFacts
<1>6. ASSUME NEW p \in Callers, SnapshotClient(p) \/ SnapshotOption(p) PROVE TypeInv'
  BY <1>6, SnapshotFacts
<1>7. ASSUME NEW p \in Callers, Send(p) PROVE TypeInv'
  BY <1>7, SendFacts
<1>8. ASSUME NEW p \in Callers, Leave(p) PROVE TypeInv'
  BY <1>8, LeaveType
<1>9. CASE UNCHANGED vars
  BY <1>9 DEF vars, configVars, callVars, ghostVars, TypeInv, TypeOK
<1> QED
  BY <1>1, <1>2, <1>3, <1>4, <1>5, <1>6, <1>7, <1>8, <1>9, StepCases
-----------------------------------------------------------------------------
(***************************************************************************)
(* Whose the settings are.                                                 *)
(***************************************************************************)
LEMMA OwnedInit == Init => Owned
<1> SUFFICES ASSUME Init PROVE Owned
  OBVIOUS
<1>1. \A c \in Clients : \A k \in Keys : OfClient(defaults[c][k], c)
  BY DEF Init, Empty, OfClient
<1>2. \A o \in Options \cup Callers : \A n \in Names : settings[o][Lower(n)] = Unset
  <2> SUFFICES ASSUME NEW o \in Options \cup Callers, NEW n \in Names
               PROVE  settings[o][Lower(n)] = Unset
    OBVIOUS
  <2>1. Empty[Lower(n)] = Unset
    BY KeyFacts DEF Empty
  <2> DEFINE Start == {Empty} \cup {[Empty EXCEPT ![Mixed(m)] = Setting("byHand", w)] :
                                        m \in ByHand, w \in Options}
  <2>2. \A s \in Start : s[Lower(n)] = Unset
    <3>1. ByHand \subseteq Names
      BY OptionAssumption DEF Names
    <3> QED
      BY <2>1, <3>1, KeyFacts DEF Empty
  <2>3. settings \in [Options \cup Callers -> Start]
    BY DEF Init
  <2> HIDE DEF Start
  <2> QED
    BY <2>2, <2>3
<1>3. \A o \in Options \cup Callers : \A n \in Names :
         settings[o][Mixed(n)] # Unset => settings[o][Mixed(n)].of = o
  BY DEF Init
<1>4. \A o \in Options \cup Callers : \A k \in Keys : OfOption(settings[o][k], o)
  BY <1>2, <1>3, KeyFacts DEF OfOption
<1>5. \A p \in Callers : pc[p] = "idle"
  BY DEF Init
<1> QED
  BY <1>1, <1>4, <1>5 DEF Owned

\* A step that changes neither the pass of calls to options nor a call's target
\* leaves what is its own its own.
LEMMA SameOwner ==
    ASSUME UNCHANGED optionOf
    PROVE  /\ \A p : Option(p)' = Option(p)
           /\ \A v, o : OfOption(v, o)' <=> OfOption(v, o)
           /\ \A v, p : target'[p] = target[p] => (OfCall(v, p)' <=> OfCall(v, p))
BY DEF Option, OfOption, OfCall, OfClient

LEMMA OwnedStep ==
    ASSUME TypeInv, Owned, [Next]_vars
    PROVE  Owned'
<1>1. ASSUME NEW o \in Options, WithHeader(o) PROVE Owned'
  <2>1. PICK n \in Names :
           /\ settings'[o][Lower(n)].of = o
           /\ \A w \in Options \cup Callers : \A k \in Keys :
                 w # o \/ k # Lower(n) => settings'[w][k] = settings[w][k]
    BY <1>1, WithHeaderFacts
  <2>2. UNCHANGED <<optionOf, defaults, pc, target, merged, sent>>
    BY <1>1, WithHeaderFacts DEF callVars
  <2>3. \A w \in Options \cup Callers : \A k \in Keys : OfOption(settings'[w][k], w)
    BY <2>1 DEF Owned, OfOption
  <2> QED
    BY <2>2, <2>3, SameOwner DEF Owned
<1>2. ASSUME NEW o \in Options, WithCookies(o) PROVE Owned'
  BY <1>2, SameOwner DEF WithCookies, Owned, callVars
<1>3. ASSUME NEW c \in Clients, ConfigureClient(c) PROVE Owned'
  <2>1. PICK n \in Names :
           /\ defaults'[c][Lower(n)].of = c
           /\ \A d \in Clients : \A k \in Keys :
                 d # c \/ k # Lower(n) => defaults'[d][k] = defaults[d][k]
    BY <1>3, ConfigureFacts
  <2>2. UNCHANGED <<optionOf, settings, pc, target, merged, sent>>
    BY <1>3, ConfigureFacts DEF callVars
  <2>3. \A d \in Clients : \A k \in Keys : OfClient(defaults'[d][k], d)
    BY <2>1 DEF Owned, OfClient
  <2> QED
    BY <2>2, <2>3, SameOwner DEF Owned
<1>4. ASSUME NEW p \in Callers, NEW c \in Clients, NEW v \in Verbs, Begin(p, c, v) PROVE Owned'
  <2>1. /\ UNCHANGED <<optionOf, defaults, settings, merged, sent>>
        /\ pc'[p] \notin {"option", "send", "inflight"}
        /\ \A q \in Callers \ {p} : pc'[q] = pc[q] /\ target'[q] = target[q]
    BY <1>4, BeginFacts, OptionAssumption DEF configVars
  <2> QED
    BY <2>1, SameOwner DEF Owned
<1>5. ASSUME NEW p \in Callers, Goes(p) PROVE Owned'
  <2>1. /\ UNCHANGED <<optionOf, defaults, settings, merged, sent, target>>
        /\ pc'[p] \notin {"option", "send", "inflight"}
        /\ \A q \in Callers \ {p} : pc'[q] = pc[q]
    BY <1>5 DEF Goes, configVars
  <2> QED
    BY <2>1, SameOwner DEF Owned
<1>6. ASSUME NEW p \in Callers, WriteType(p) PROVE Owned'
  <2>1. /\ UNCHANGED <<optionOf, defaults, merged, sent, target>>
        /\ pc'[p] \notin {"option", "send", "inflight"}
        /\ \A q \in Callers \ {p} : pc'[q] = pc[q]
        /\ settings'[Option(p)][Lower("Content-Type")] = Type(p)
        /\ \A w \in Options \cup Callers : \A k \in Keys :
              w # Option(p) \/ k # Lower("Content-Type") => settings'[w][k] = settings[w][k]
    BY <1>6, WriteTypeFacts
  <2>2. OfOption(Type(p), Option(p))
    BY ValueFacts DEF OfOption
  <2>3. \A w \in Options \cup Callers : \A k \in Keys : OfOption(settings'[w][k], w)
    BY <2>1, <2>2 DEF Owned
  <2> QED
    BY <2>1, <2>3, SameOwner DEF Owned
<1>7. ASSUME NEW p \in Callers, SnapshotClient(p) PROVE Owned'
  <2>1. /\ UNCHANGED <<optionOf, defaults, settings, sent, target>>
        /\ pc'[p] = "option" /\ merged'[p] = defaults[target[p]]
        /\ \A q \in Callers \ {p} : pc'[q] = pc[q] /\ merged'[q] = merged[q]
    BY <1>7, SnapshotFacts DEF configVars
  <2>2. \A k \in Keys : OfCall(merged'[p][k], p)
    BY <2>1 DEF Owned, OfCall, TypeInv, TypeOK
  <2> QED
    BY <2>1, <2>2, SameOwner DEF Owned
<1>8. ASSUME NEW p \in Callers, SnapshotOption(p) PROVE Owned'
  <2>1. /\ UNCHANGED <<optionOf, defaults, settings, sent, target>>
        /\ pc[p] = "option" /\ pc'[p] = "send"
        /\ \A k \in Keys : merged'[p][k] = IF settings[Option(p)][k] # Unset
                                           THEN settings[Option(p)][k] ELSE merged[p][k]
        /\ \A q \in Callers \ {p} : pc'[q] = pc[q] /\ merged'[q] = merged[q]
    BY <1>8, SnapshotFacts DEF configVars
  <2>2. Option(p) \in Options \cup Callers
    BY OptionFacts DEF TypeInv, TypeOK
  <2>3. \A k \in Keys : OfCall(merged'[p][k], p)
    BY <2>1, <2>2 DEF Owned, OfCall
  <2> QED
    BY <2>1, <2>3, SameOwner DEF Owned
<1>9. ASSUME NEW p \in Callers, Send(p) PROVE Owned'
  <2>1. /\ UNCHANGED <<optionOf, defaults, settings, merged, target>>
        /\ pc[p] = "send" /\ pc'[p] = "inflight" /\ sent'[p] \in Outgoing(p)
        /\ \A q \in Callers \ {p} : pc'[q] = pc[q] /\ sent'[q] = sent[q]
    BY <1>9, SendFacts DEF configVars
  <2>2. ASSUME NEW n \in Names PROVE OfCall(sent'[p][n], p)
    <3>1. CASE sent'[p][n] = Unset
      BY <3>1 DEF OfCall, OfClient
    <3>2. CASE sent'[p][n] # Unset
      <4>1. \E k \in Keys : sent'[p][n] = merged[p][k]
        BY <2>1, <3>2, OutgoingFact, KeyFacts
      <4> QED
        BY <2>1, <4>1 DEF Owned
    <3> QED
      BY <3>1, <3>2
  <2> QED
    BY <2>1, <2>2, SameOwner DEF Owned
<1>10. ASSUME NEW p \in Callers, Leave(p) PROVE Owned'
  <2>1. /\ UNCHANGED <<optionOf, defaults>> /\ pc'[p] = "idle"
        /\ \A k \in Keys : settings'[p][k] = Unset
        /\ \A w \in Options \cup Callers : w # p => settings'[w] = settings[w]
        /\ \A q \in Callers \ {p} : /\ pc'[q] = pc[q] /\ target'[q] = target[q]
                                    /\ merged'[q] = merged[q] /\ sent'[q] = sent[q]
    BY <1>10, LeaveFacts DEF TypeInv
  <2>2. \A w \in Options \cup Callers : \A k \in Keys : OfOption(settings'[w][k], w)
    BY <2>1 DEF Owned, OfOption
  <2> QED
    BY <2>1, <2>2, SameOwner DEF Owned
<1>11. CASE UNCHANGED vars
  BY <1>11, SameOwner DEF vars, configVars, callVars, Owned
<1> QED
  BY <1>1, <1>2, <1>3, <1>4, <1>5, <1>6, <1>7, <1>8, <1>9, <1>10, <1>11, StepCases, GoesFacts
-----------------------------------------------------------------------------
(***************************************************************************)
(* What a call expects.                                                    *)
(***************************************************************************)
\* What the steps of others leave of a call, and of what it has yet to read.
Stays(p) ==
    /\ pc'[p] = pc[p] /\ verb'[p] = verb[p] /\ target'[p] = target[p]
    /\ merged'[p] = merged[p] /\ attached'[p] = attached[p] /\ sent'[p] = sent[p]
    /\ expected'[p] = expected[p] /\ given'[p] = given[p]
    /\ UNCHANGED optionOf

ReadsTheSame(p) ==
    /\ disturbed[p] \subseteq disturbed'[p]
    /\ cookies[Option(p)] \subseteq cookies'[Option(p)]
    /\ \A n \in Names \ disturbed'[p] :
          /\ settings'[Option(p)][Lower(n)] = settings[Option(p)][Lower(n)]
          /\ defaults'[target[p]][Lower(n)] = defaults[target[p]][Lower(n)]

LEMMA OthersStep ==
    ASSUME NEW p \in Callers, CallAsExpected(p), Stays(p), ReadsTheSame(p)
    PROVE  CallAsExpected(p)'
<1>1. Option(p)' = Option(p) /\ Type(p)' = Type(p)
  BY DEF Stays, Option, Type
<1>2. ASSUME NEW n \in Names \ disturbed'[p]
      PROVE  /\ OwnType(p, n)' <=> OwnType(p, n)
             /\ Coming(p, n)' = Coming(p, n)
             /\ n \in Names \ disturbed[p]
  BY <1>1 DEF Stays, ReadsTheSame, OwnType, Coming
<1>3. ASSUME NEW n \in Names \ disturbed'[p]
      PROVE  /\ OwnType(p, n)' => expected'[p][n] = Type(p)'
             /\ \/ OwnType(p, n)' /\ pc'[p] \in {"build", "type"}
                \/ Coming(p, n)' = expected'[p][n]
             /\ pc'[p] = "inflight" =>
                   sent'[p][n] \in {expected'[p][n], Setting("byHand", Option(p)')}
  BY <1>1, <1>2 DEF Stays, CallAsExpected
<1>4. ASSUME NEW n \in Names
      PROVE  /\ pc'[p] = "option" => merged'[p][Mixed(n)] = Unset
             /\ pc'[p] = "send" =>
                   merged'[p][Mixed(n)] \in {Unset, Setting("byHand", Option(p)')}
  BY <1>1 DEF Stays, CallAsExpected
<1>5. /\ given'[p] \subseteq cookies'[Option(p)']
      /\ pc'[p] \in {"send", "inflight"} => given'[p] \subseteq attached'[p]
  BY <1>1 DEF Stays, ReadsTheSame, CallAsExpected
<1> QED
  BY <1>1, <1>3, <1>4, <1>5 DEF CallAsExpected

\* A step of one call, or of none, leaves every other call what it expects.
LEMMA OneCallSteps ==
    ASSUME AsExpected, NEW p \in Callers, pc'[p] # "idle" => CallAsExpected(p)',
           \A q \in Callers \ {p} : Stays(q) /\ (pc[q] # "idle" => ReadsTheSame(q))
    PROVE  AsExpected'
<1> SUFFICES ASSUME NEW q \in Callers, pc'[q] # "idle" PROVE CallAsExpected(q)'
  BY DEF AsExpected
<1>1. CASE q = p
  BY <1>1
<1>2. CASE q # p
  <2>1. Stays(q) /\ pc[q] # "idle"
    BY <1>2 DEF Stays
  <2> QED
    BY <1>2, <2>1, OthersStep DEF AsExpected
<1> QED
  BY <1>1, <1>2

LEMMA NoCallSteps ==
    ASSUME AsExpected,
           \A q \in Callers : Stays(q) /\ (pc[q] # "idle" => ReadsTheSame(q))
    PROVE  AsExpected'
<1> SUFFICES ASSUME NEW q \in Callers, pc'[q] # "idle" PROVE CallAsExpected(q)'
  BY DEF AsExpected
<1>1. Stays(q) /\ pc[q] # "idle"
  BY DEF Stays
<1> QED
  BY <1>1, OthersStep DEF AsExpected

LEMMA AsExpectedStep ==
    ASSUME TypeInv, AsExpected, [Next]_vars
    PROVE  AsExpected'
<1> USE DEF TypeInv
<1>0. \A q \in Callers : Option(q) \in Options \cup Callers /\ target[q] \in Clients
  BY OptionFacts DEF TypeOK
<1>1. ASSUME NEW o \in Options, WithHeader(o) PROVE AsExpected'
  <2>1. UNCHANGED <<optionOf, defaults, cookies, callVars, expected, given>>
    BY <1>1, WithHeaderFacts
  <2>2. \A q \in Callers : disturbed[q] \subseteq disturbed'[q]
    BY <1>1, WithHeaderFacts
  <2>3. PICK n \in Names :
           /\ \A w \in Options \cup Callers : \A k \in Keys :
                 w # o \/ k # Lower(n) => settings'[w][k] = settings[w][k]
           /\ \A q \in Callers : Option(q) = o /\ pc[q] # "idle" => n \in disturbed'[q]
    BY <1>1, WithHeaderFacts
  <2>4. ASSUME NEW q \in Callers PROVE Stays(q)
    BY <2>1 DEF Stays, callVars
  <2>5. ASSUME NEW q \in Callers, pc[q] # "idle" PROVE ReadsTheSame(q)
    <3>1. ASSUME NEW m \in Names \ disturbed'[q]
          PROVE  settings'[Option(q)][Lower(m)] = settings[Option(q)][Lower(m)]
      <4>1. Option(q) # o \/ Lower(m) # Lower(n)
        BY <2>3, <2>5, KeyFacts
      <4> QED
        BY <1>0, <2>3, <4>1, KeyFacts
    <3> QED
      BY <2>1, <2>2, <3>1 DEF ReadsTheSame
  <2> QED
    BY <2>4, <2>5, NoCallSteps
<1>2. ASSUME NEW o \in Options, WithCookies(o) PROVE AsExpected'
  <2>1. /\ UNCHANGED <<optionOf, defaults, settings, callVars, ghostVars>>
        /\ \A w \in Options \cup Callers : cookies[w] \subseteq cookies'[w]
    BY <1>2, WithCookiesFacts
  <2>2. ASSUME NEW q \in Callers PROVE Stays(q) /\ ReadsTheSame(q)
    BY <1>0, <2>1 DEF Stays, ReadsTheSame, callVars, ghostVars
  <2> QED
    BY <2>2, NoCallSteps
<1>3. ASSUME NEW c \in Clients, ConfigureClient(c) PROVE AsExpected'
  <2>1. UNCHANGED <<optionOf, settings, cookies, callVars, expected, given>>
    BY <1>3, ConfigureFacts
  <2>2. \A q \in Callers : disturbed[q] \subseteq disturbed'[q]
    BY <1>3, ConfigureFacts
  <2>3. PICK n \in Names :
           /\ \A d \in Clients : \A k \in Keys :
                 d # c \/ k # Lower(n) => defaults'[d][k] = defaults[d][k]
           /\ \A q \in Callers : target[q] = c /\ pc[q] # "idle" => n \in disturbed'[q]
    BY <1>3, ConfigureFacts
  <2>4. ASSUME NEW q \in Callers PROVE Stays(q)
    BY <2>1 DEF Stays, callVars
  <2>5. ASSUME NEW q \in Callers, pc[q] # "idle" PROVE ReadsTheSame(q)
    <3>1. ASSUME NEW m \in Names \ disturbed'[q]
          PROVE  defaults'[target[q]][Lower(m)] = defaults[target[q]][Lower(m)]
      <4>1. target[q] # c \/ Lower(m) # Lower(n)
        BY <2>3, <2>5, KeyFacts
      <4> QED
        BY <1>0, <2>3, <4>1, KeyFacts
    <3> QED
      BY <2>1, <2>2, <3>1 DEF ReadsTheSame
  <2> QED
    BY <2>4, <2>5, NoCallSteps
<1>4. ASSUME NEW p \in Callers, NEW c \in Clients, NEW v \in Verbs, Begin(p, c, v)
      PROVE  AsExpected'
  <2>1. UNCHANGED <<configVars, merged, attached, sent>>
    BY <1>4, BeginFacts
  <2>2. ASSUME NEW q \in Callers \ {p} PROVE Stays(q) /\ ReadsTheSame(q)
    BY <1>4, <2>1, BeginFacts DEF Stays, ReadsTheSame, configVars
  <2>3. /\ verb'[p] = v /\ target'[p] = c /\ v \in {"raw", "json", "form"}
        /\ pc'[p] = CASE v = "raw" -> "client" [] v = "json" -> "type" [] v = "form" -> "build"
        /\ given'[p] = cookies[Option(p)]
    BY <1>4, BeginFacts, OptionAssumption
  <2>4. Option(p)' = Option(p)
    BY <2>1 DEF Option, configVars
  <2>5. ASSUME NEW n \in Names
        PROVE  /\ OwnType(p, n)' => expected'[p][n] = Type(p)'
               /\ \/ OwnType(p, n)' /\ pc'[p] \in {"build", "type"}
                  \/ Coming(p, n)' = expected'[p][n]
    <3>1. expected'[p][n] = IF n = "Content-Type" /\ v # "raw" THEN Setting(v, p)
                            ELSE FirstSet(<<settings[Option(p)][Lower(n)],
                                            defaults[c][Lower(n)]>>)
      BY <1>4, BeginFacts
    <3>2. OwnType(p, n)' <=> n = "Content-Type" /\ v # "raw"
      BY <2>3 DEF OwnType
    <3>3. Coming(p, n)' = FirstSet(<<settings[Option(p)][Lower(n)], defaults[c][Lower(n)]>>)
      BY <2>1, <2>3, <2>4 DEF Coming, configVars
    <3> QED
      BY <2>3, <3>1, <3>2, <3>3 DEF Type, Setting
  <2>6. CallAsExpected(p)'
    BY <2>1, <2>3, <2>4, <2>5 DEF CallAsExpected, configVars
  <2> QED
    BY <2>2, <2>6, OneCallSteps
<1>5. ASSUME NEW p \in Callers, Goes(p) PROVE AsExpected'
  <2>1. UNCHANGED <<configVars, verb, target, merged, attached, sent, calls, ghostVars>>
    BY <1>5 DEF Goes
  <2>2. ASSUME NEW q \in Callers \ {p} PROVE Stays(q) /\ ReadsTheSame(q)
    BY <1>5, <2>1 DEF Goes, Stays, ReadsTheSame, configVars, ghostVars
  <2>3. Option(p)' = Option(p) /\ Type(p)' = Type(p)
    BY <2>1 DEF Option, Type, configVars
  <2>4. CallAsExpected(p)
    BY <1>5 DEF Goes, AsExpected
  <2>5. ASSUME NEW n \in Names
        PROVE  Coming(p, n)' = Coming(p, n) /\ OwnType(p, n)' = OwnType(p, n)
    BY <1>5, <2>1, <2>3 DEF Goes, Coming, OwnType, configVars
  <2>6. CallAsExpected(p)'
    BY <1>5, <2>1, <2>3, <2>4, <2>5 DEF Goes, CallAsExpected, configVars, ghostVars
  <2> QED
    BY <2>2, <2>6, OneCallSteps
<1>6. ASSUME NEW p \in Callers, WriteType(p) PROVE AsExpected'
  <2>1. UNCHANGED <<optionOf, defaults, cookies, sets, verb, target, merged, attached, sent,
                    calls, expected, given>>
    BY <1>6, WriteTypeFacts
  <2>2. /\ pc[p] = "type" /\ pc'[p] \in {"marshal", "client"} /\ Type(p) # Unset
        /\ \A q \in Callers \ {p} : pc'[q] = pc[q]
        /\ \A q \in Callers : disturbed[q] \subseteq disturbed'[q]
        /\ settings'[Option(p)][Lower("Content-Type")] = Type(p)
    BY <1>6, WriteTypeFacts
  <2>3. ASSUME NEW q \in Callers, NEW n \in Names,
               Option(q) # Option(p) \/ n # "Content-Type"
        PROVE  settings'[Option(q)][Lower(n)] = settings[Option(q)][Lower(n)]
    <3>1. Option(q) # Option(p) \/ Lower(n) # Lower("Content-Type")
      BY <2>3, KeyFacts
    <3> QED
      BY <1>0, <1>6, <3>1, WriteTypeFacts, KeyFacts
  <2>4. ASSUME NEW q \in Callers \ {p} PROVE Stays(q)
    BY <2>1, <2>2 DEF Stays
  <2>5. ASSUME NEW q \in Callers \ {p}, pc[q] # "idle" PROVE ReadsTheSame(q)
    <3>1. Option(q) = Option(p) => "Content-Type" \in disturbed'[q]
      BY <1>6, <2>5, WriteTypeFacts
    <3> QED
      BY <2>1, <2>2, <2>3, <3>1 DEF ReadsTheSame
  <2>6. CallAsExpected(p)'
    <3>1. Option(p)' = Option(p) /\ Type(p)' = Type(p) /\ CallAsExpected(p)
      BY <2>1, <2>2 DEF Option, Type, AsExpected
    <3>2. ASSUME NEW n \in Names \ disturbed'[p]
          PROVE  /\ OwnType(p, n)' => expected'[p][n] = Type(p)'
                 /\ Coming(p, n)' = expected'[p][n]
      <4>1. n \in Names \ disturbed[p] /\ OwnType(p, n)' = OwnType(p, n)
        BY <2>1, <2>2 DEF OwnType
      <4>2. Coming(p, n)' = FirstSet(<<settings'[Option(p)][Lower(n)],
                                       defaults[target[p]][Lower(n)]>>)
        BY <2>1, <2>2, <3>1 DEF Coming
      <4>3. CASE OwnType(p, n)
        BY <2>1, <2>2, <3>1, <4>1, <4>2, <4>3, FirstSetFact DEF OwnType, CallAsExpected
      <4>4. CASE ~OwnType(p, n)
        <5>1. n # "Content-Type"
          BY <2>2, <4>4 DEF OwnType
        <5>2. Coming(p, n)' = Coming(p, n)
          BY <2>2, <2>3, <4>2, <5>1 DEF Coming
        <5> QED
          BY <2>1, <3>1, <4>1, <4>4, <5>2 DEF CallAsExpected
      <4> QED
        BY <4>3, <4>4
    <3>3. given'[p] \subseteq cookies'[Option(p)]
      BY <2>1, <3>1 DEF CallAsExpected
    <3> QED
      BY <2>2, <3>1, <3>2, <3>3 DEF CallAsExpected
  <2> QED
    BY <2>4, <2>5, <2>6, OneCallSteps
<1>7. ASSUME NEW p \in Callers, SnapshotClient(p) \/ SnapshotOption(p) PROVE AsExpected'
  <2>1. UNCHANGED <<configVars, verb, target, sent, calls, ghostVars>>
    BY <1>7, SnapshotFacts
  <2>2. ASSUME NEW q \in Callers \ {p} PROVE Stays(q) /\ ReadsTheSame(q)
    BY <1>7, <2>1, SnapshotFacts DEF Stays, ReadsTheSame, configVars, ghostVars
  <2>3. Option(p)' = Option(p) /\ Type(p)' = Type(p)
    BY <2>1 DEF Option, Type, configVars
  <2>4. CallAsExpected(p)
    BY <1>7, SnapshotFacts DEF AsExpected
  <2>5. ASSUME NEW n \in Names
        PROVE  Coming(p, n)' = Coming(p, n) /\ OwnType(p, n)' = OwnType(p, n)
    <3>1. OwnType(p, n)' = OwnType(p, n)
      BY <2>1 DEF OwnType
    <3>2. CASE SnapshotClient(p)
      BY <2>1, <2>3, <3>1, <3>2, SnapshotFacts DEF Coming, configVars
    <3>3. CASE SnapshotOption(p)
      BY <2>1, <2>3, <3>1, <3>3, SnapshotFacts, KeyFacts, FirstSetFact DEF Coming, configVars
    <3> QED
      BY <1>7, <3>2, <3>3
  <2>6. ASSUME NEW n \in Names
        PROVE  /\ pc'[p] = "option" => merged'[p][Mixed(n)] = Unset
               /\ pc'[p] = "send" =>
                     merged'[p][Mixed(n)] \in {Unset, Setting("byHand", Option(p))}
    <3>1. /\ defaults[target[p]][Mixed(n)] = Unset
          /\ settings[Option(p)][Mixed(n)] \in {Unset, Setting("byHand", Option(p))}
      BY <1>0 DEF TypeOK
    <3>2. CASE SnapshotClient(p)
      BY <3>1, <3>2, SnapshotFacts
    <3>3. CASE SnapshotOption(p)
      BY <2>4, <3>1, <3>3, SnapshotFacts, KeyFacts DEF CallAsExpected
    <3> QED
      BY <1>7, <3>2, <3>3
  <2>7. pc'[p] \in {"send", "inflight"} => given'[p] \subseteq attached'[p]
    BY <1>7, <2>1, <2>4, SnapshotFacts DEF CallAsExpected, ghostVars
  <2>8. pc[p] \in {"client", "option"} /\ pc'[p] \in {"option", "send"}
    BY <1>7, SnapshotFacts
  <2>9. CallAsExpected(p)'
    BY <2>1, <2>3, <2>4, <2>5, <2>6, <2>7, <2>8 DEF CallAsExpected, configVars, ghostVars
  <2> QED
    BY <2>2, <2>9, OneCallSteps
<1>8. ASSUME NEW p \in Callers, Send(p) PROVE AsExpected'
  <2>1. UNCHANGED <<configVars, verb, target, merged, attached, calls, ghostVars>>
    BY <1>8, SendFacts
  <2>2. ASSUME NEW q \in Callers \ {p} PROVE Stays(q) /\ ReadsTheSame(q)
    BY <1>8, <2>1, SendFacts DEF Stays, ReadsTheSame, configVars, ghostVars
  <2>3. /\ Option(p)' = Option(p) /\ Type(p)' = Type(p)
        /\ pc[p] = "send" /\ pc'[p] = "inflight" /\ CallAsExpected(p)
    BY <1>8, <2>1, SendFacts DEF Option, Type, AsExpected, configVars
  <2>4. ASSUME NEW n \in Names \ disturbed[p]
        PROVE  /\ Coming(p, n)' = Coming(p, n) /\ OwnType(p, n)' = OwnType(p, n)
               /\ sent'[p][n] \in {expected[p][n], Setting("byHand", Option(p))}
    <3>1. Coming(p, n)' = merged[p][Lower(n)] /\ Coming(p, n) = merged[p][Lower(n)]
      BY <2>1, <2>3 DEF Coming
    <3>2. merged[p][Lower(n)] = expected[p][n]
      BY <2>3, <3>1 DEF CallAsExpected
    <3>3. merged[p][Mixed(n)] \in {Unset, Setting("byHand", Option(p))}
      BY <2>3 DEF CallAsExpected
    <3>4. OwnType(p, n)' = OwnType(p, n)
      BY <2>1 DEF OwnType
    <3>5. sent'[p] \in Outgoing(p)
      BY <1>8, SendFacts
    <3>6. sent'[p][n] \in {expected[p][n], Setting("byHand", Option(p))}
      BY <3>2, <3>3, <3>5, OutgoingFact
    <3> QED
      BY <3>1, <3>4, <3>6
  <2>5. CallAsExpected(p)'
    BY <2>1, <2>3, <2>4 DEF CallAsExpected, configVars, ghostVars
  <2> QED
    BY <2>2, <2>5, OneCallSteps
<1>9. ASSUME NEW p \in Callers, Leave(p) PROVE AsExpected'
  <2>1. pc'[p] = "idle" /\ UNCHANGED <<optionOf, defaults, cookies, sets, calls>>
    BY <1>9, LeaveFacts
  <2>2. ASSUME NEW q \in Callers \ {p} PROVE Stays(q) /\ ReadsTheSame(q)
    <3>1. Option(q) # p /\ settings'[Option(q)] = settings[Option(q)]
      BY <1>0, <1>9, LeaveFacts, OptionFacts DEF TypeOK
    <3> QED
      BY <1>9, <2>1, <3>1, LeaveFacts DEF Stays, ReadsTheSame
  <2> QED
    BY <2>1, <2>2, OneCallSteps
<1>10. CASE UNCHANGED vars
  <2>1. ASSUME NEW q \in Callers PROVE Stays(q) /\ ReadsTheSame(q)
    BY <1>10 DEF vars, configVars, callVars, ghostVars, Stays, ReadsTheSame
  <2> QED
    BY <2>1, NoCallSteps
<1> QED
  BY <1>1, <1>2, <1>3, <1>4, <1>5, <1>6, <1>7, <1>8, <1>9, <1>10, StepCases, GoesFacts
-----------------------------------------------------------------------------
(***************************************************************************)
(* The theorems.                                                           *)
(***************************************************************************)
LEMMA OptionCorrect == Spec => [](TypeInv /\ Owned /\ AsExpected)
<1>1. Init => TypeInv /\ Owned /\ AsExpected
  BY TypeInit, OwnedInit DEF Init, AsExpected
<1>2. TypeInv /\ Owned /\ AsExpected /\ [Next]_vars => (TypeInv /\ Owned /\ AsExpected)'
  BY TypeStep, OwnedStep, AsExpectedStep
<1> QED
  BY <1>1, <1>2, PTL DEF Spec

\* Every variable keeps its type, and WithHeader keeps every key in lower case:
\* a key in another case can only have been written by hand.
THEOREM TypeCorrect == Spec => []TypeOK
<1>1. TypeInv => TypeOK
  BY DEF TypeInv
<1> QED
  BY <1>1, OptionCorrect, PTL

\* Whatever clients and options the calls share, a request carries only what was
\* set on its own client, on its own option, or by a call that shares the option.
THEOREM NoLeakCorrect == Spec => []NoLeak
<1>1. Owned => NoLeak
  BY DEF Owned, OfCall, OfClient, OfOption, NoLeak
<1> QED
  BY <1>1, OptionCorrect, PTL

\* Whatever the other calls and settings do meanwhile, a name they have not set
\* since a call began goes out with the value the call found.
THEOREM ExpectedCorrect == Spec => []UndisturbedAsExpected
<1>1. AsExpected => UndisturbedAsExpected
  BY DEF AsExpected, CallAsExpected, UndisturbedAsExpected
<1> QED
  BY <1>1, OptionCorrect, PTL
=============================================================================
