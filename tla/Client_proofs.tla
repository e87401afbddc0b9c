----------------------------- MODULE Client_proofs -----------------------------
(***************************************************************************)
(* Client, for any environments, options, calls and bounds: which settings *)
(* win, and that calls and attempts that run at the same time keep their   *)
(* headers, bodies and settings apart.                                     *)
(***************************************************************************)
EXTENDS Client, NatLemmas, SequenceTheorems

-----------------------------------------------------------------------------
(* The last option of a kind.                                              *)

(* The value of a field in the last of the options at the indexes I.        *)
Latest(opts, I, field, default) ==
    IF I = {} THEN default ELSE opts[Max(I)][field]

KindAt(opts, s, kind) == {i \in s : opts[i].kind = kind}
TimeoutAt(opts, s) == {i \in s : opts[i].kind = "timeout" /\ opts[i].n >= 0}
HeaderAt(opts, s, name) == {i \in s : opts[i].kind = "header" /\ opts[i].name = name}

(* The properties say the same with SelectLastInSeq. *)
LEMMA SettingOfIs ==
    ASSUME NEW opts, NEW kind, NEW default, Len(opts) \in Nat
    PROVE  SettingOf(opts, kind, default)
             = Latest(opts, KindAt(opts, 1..Len(opts), kind), "value", default)
<1> DEFINE I == {i \in 1..Len(opts) : opts[i].kind = kind}
<1>1. I # {} => Max(I) # 0
  BY IndexNotZero
<1>2. SettingOf(opts, kind, default)
        = IF (IF I # {} THEN Max(I) ELSE 0) = 0 THEN default
          ELSE opts[IF I # {} THEN Max(I) ELSE 0]["value"]
  BY DEF SettingOf, LastSetting, SelectLastInSeq
<1>3. I = KindAt(opts, 1..Len(opts), kind)
  BY DEF KindAt
<1> HIDE DEF I
<1> QED BY <1>1, <1>2, <1>3 DEF Latest

(* Of timeouts only those count that are not negative.                     *)
LEMMA TimeoutOfIs ==
    ASSUME NEW opts, NEW default, Len(opts) \in Nat
    PROVE  TimeoutOf(opts, default)
             = Latest(opts, TimeoutAt(opts, 1..Len(opts)), "n", default)
<1> DEFINE I == {i \in 1..Len(opts) : opts[i].kind = "timeout" /\ opts[i].n >= 0}
<1>1. I # {} => Max(I) # 0
  BY IndexNotZero
<1>2. TimeoutOf(opts, default)
        = IF (IF I # {} THEN Max(I) ELSE 0) = 0 THEN default
          ELSE opts[IF I # {} THEN Max(I) ELSE 0]["n"]
  BY DEF TimeoutOf, LastSetting, SelectLastInSeq
<1>3. I = TimeoutAt(opts, 1..Len(opts))
  BY DEF TimeoutAt
<1> HIDE DEF I
<1> QED BY <1>1, <1>2, <1>3 DEF Latest

(* The value of one header.                                                *)
LEMMA HeaderOfIs ==
    ASSUME NEW opts, NEW name, NEW default, Len(opts) \in Nat
    PROVE  HeaderOf(opts, name, default)
             = Latest(opts, HeaderAt(opts, 1..Len(opts), name), "value", default)
<1> DEFINE I == {i \in 1..Len(opts) : opts[i].kind = "header" /\ opts[i].name = name}
<1>1. I # {} => Max(I) # 0
  BY IndexNotZero
<1>2. HeaderOf(opts, name, default)
        = IF (IF I # {} THEN Max(I) ELSE 0) = 0 THEN default
          ELSE opts[IF I # {} THEN Max(I) ELSE 0]["value"]
  BY DEF HeaderOf, LastSetting, SelectLastInSeq
<1>3. I = HeaderAt(opts, 1..Len(opts), name)
  BY DEF HeaderAt
<1> HIDE DEF I
<1> QED BY <1>1, <1>2, <1>3 DEF Latest

-----------------------------------------------------------------------------
(* The options of a call.                                                  *)
(*                                                                         *)
(* ResolveCall folds the options from the left.  What it has made of those *)
(* at the indexes s is told by the last of each sort among them.           *)

OwnHeaders(agent, sdk, custom) ==
    [NoHeaders EXCEPT !.userAgent = agent, !.sdk = sdk, !.custom = custom]

Settings(timeout, retry, agent, sdk, custom) ==
    [timeout |-> timeout, retry |-> retry, headers |-> OwnHeaders(agent, sdk, custom)]

Resolved(opts, s) ==
    Settings(Latest(opts, TimeoutAt(opts, s), "n", cfg.timeout),
             Latest(opts, KindAt(opts, s, "retry"), "value", cfg.retry),
             Latest(opts, HeaderAt(opts, s, "userAgent"), "value", ""),
             Latest(opts, HeaderAt(opts, s, "sdk"), "value", ""),
             Latest(opts, HeaderAt(opts, s, "custom"), "value", ""))

(* The option at the greatest index wins if it is of the sort asked for,    *)
(* and changes nothing otherwise.                                           *)
LEMMA LatestIs ==
    ASSUME NEW n \in Nat, NEW s \in SUBSET (1..n), NEW x \in s, \A i \in s : i <= x
    PROVE  \A I \in SUBSET s : x \in I => I # {} /\ Max(I) = x
<1> SUFFICES ASSUME NEW I \in SUBSET s, x \in I PROVE Max(I) = x
  OBVIOUS
<1>1. I \in SUBSET Nat /\ \A i \in I : i <= x
  OBVIOUS
<1> QED BY <1>1, MaxIs

(* Setting one of a client's or a call's own headers. *)
LEMMA OwnHeadersWith ==
    ASSUME NEW agent, NEW sdk, NEW custom, NEW value
    PROVE  /\ [OwnHeaders(agent, sdk, custom) EXCEPT !["userAgent"] = value]
                  = OwnHeaders(value, sdk, custom)
           /\ [OwnHeaders(agent, sdk, custom) EXCEPT !["sdk"] = value]
                  = OwnHeaders(agent, value, custom)
           /\ [OwnHeaders(agent, sdk, custom) EXCEPT !["custom"] = value]
                  = OwnHeaders(agent, sdk, value)
BY DEF OwnHeaders, NoHeaders

(* One call option more, setting by setting.                               *)
LEMMA OverriddenIs ==
    ASSUME NEW timeout, NEW retry, NEW agent, NEW sdk, NEW custom,
           NEW o, o.kind \in CallOptionKinds, o.name \in HeaderNames
    PROVE  Overridden(Settings(timeout, retry, agent, sdk, custom), o) = Settings(
               IF o.kind = "timeout" /\ o.n >= 0 THEN o.n ELSE timeout,
               IF o.kind = "retry" THEN o.value ELSE retry,
               IF o.kind = "header" /\ o.name = "userAgent" THEN o.value ELSE agent,
               IF o.kind = "header" /\ o.name = "sdk" THEN o.value ELSE sdk,
               IF o.kind = "header" /\ o.name = "custom" THEN o.value ELSE custom)
<1> DEFINE cc == Settings(timeout, retry, agent, sdk, custom)
           With(name) == [OwnHeaders(agent, sdk, custom) EXCEPT ![name] = o.value]
<1>1. ASSUME NEW name
      PROVE  [cc EXCEPT !.headers[name] = o.value]
               = [timeout |-> timeout, retry |-> retry, headers |-> With(name)]
  BY DEF Settings
<1>2. CASE o.kind = "timeout"
  BY <1>2 DEF Overridden, Settings, SetsHeader
<1>3. CASE o.kind = "retry"
  BY <1>3 DEF Overridden, Settings, SetsHeader
<1>4. CASE o.kind = "header"
  <2>1. Overridden(cc, o) = IF SetsHeader(o) THEN [cc EXCEPT !.headers[o.name] = o.value] ELSE cc
    BY <1>4 DEF Overridden
  <2>2. SetsHeader(o) <=> o.name \in {"userAgent", "sdk", "custom"}
    BY <1>4 DEF SetsHeader, ProtectedHeaders, HeaderNames
  <2>3. CASE o.name \notin {"userAgent", "sdk", "custom"}
    BY <1>4, <2>1, <2>2, <2>3
  <2>4. CASE o.name = "userAgent"
    <3>1. With("userAgent") = OwnHeaders(o.value, sdk, custom)
      BY OwnHeadersWith
    <3> HIDE DEF cc, With
    <3>2. Overridden(cc, o) = Settings(timeout, retry, o.value, sdk, custom)
      BY <1>1, <2>1, <2>2, <2>4, <3>1 DEF Settings
    <3> QED BY <1>4, <2>4, <3>2 DEF cc
  <2>5. CASE o.name = "sdk"
    <3>1. With("sdk") = OwnHeaders(agent, o.value, custom)
      BY OwnHeadersWith
    <3> HIDE DEF cc, With
    <3>2. Overridden(cc, o) = Settings(timeout, retry, agent, o.value, custom)
      BY <1>1, <2>1, <2>2, <2>5, <3>1 DEF Settings
    <3> QED BY <1>4, <2>5, <3>2 DEF cc
  <2>6. CASE o.name = "custom"
    <3>1. With("custom") = OwnHeaders(agent, sdk, o.value)
      BY OwnHeadersWith
    <3> HIDE DEF cc, With
    <3>2. Overridden(cc, o) = Settings(timeout, retry, agent, sdk, o.value)
      BY <1>1, <2>1, <2>2, <2>6, <3>1 DEF Settings
    <3> QED BY <1>4, <2>6, <3>2 DEF cc
  <2> QED BY <2>3, <2>4, <2>5, <2>6
<1> QED BY <1>2, <1>3, <1>4 DEF CallOptionKinds

(* The settings of a set of options are those without its last, overridden *)
(* by it.                                                                  *)
LEMMA ResolvedStep ==
    ASSUME NEW opts \in Seq(CallOptions), NEW s \in SUBSET (1..Len(opts)),
           NEW x \in s, \A i \in s : i <= x
    PROVE  Resolved(opts, s) = Overridden(Resolved(opts, s \ {x}), opts[x])
<1> DEFINE o == opts[x]
           t == s \ {x}
<1>1. o \in CallOptions /\ Len(opts) \in Nat
  OBVIOUS
<1>2. o.kind \in CallOptionKinds /\ o.name \in HeaderNames
  BY <1>1, ClientAssumption
<1>3. \A I \in SUBSET s : x \in I => I # {} /\ Max(I) = x
  BY <1>1, LatestIs
<1>4. /\ o.kind = "timeout" /\ o.n >= 0 =>
             Latest(opts, TimeoutAt(opts, s), "n", cfg.timeout) = o.n
      /\ ~(o.kind = "timeout" /\ o.n >= 0) => TimeoutAt(opts, s) = TimeoutAt(opts, t)
  <2>1. TimeoutAt(opts, s) \in SUBSET s
    BY DEF TimeoutAt
  <2>2. o.kind = "timeout" /\ o.n >= 0 => x \in TimeoutAt(opts, s)
    BY DEF TimeoutAt
  <2>3. x \in TimeoutAt(opts, s) => Latest(opts, TimeoutAt(opts, s), "n", cfg.timeout) = o.n
    BY <1>3, <2>1 DEF Latest
  <2>4. ~(o.kind = "timeout" /\ o.n >= 0) => TimeoutAt(opts, s) = TimeoutAt(opts, t)
    BY DEF TimeoutAt
  <2> QED BY <2>2, <2>3, <2>4
<1>5. /\ o.kind = "retry" => Latest(opts, KindAt(opts, s, "retry"), "value", cfg.retry) = o.value
      /\ o.kind # "retry" => KindAt(opts, s, "retry") = KindAt(opts, t, "retry")
  <2>1. KindAt(opts, s, "retry") \in SUBSET s
    BY DEF KindAt
  <2>2. o.kind = "retry" => x \in KindAt(opts, s, "retry")
    BY DEF KindAt
  <2>3. x \in KindAt(opts, s, "retry") =>
            Latest(opts, KindAt(opts, s, "retry"), "value", cfg.retry) = o.value
    BY <1>3, <2>1 DEF Latest
  <2>4. o.kind # "retry" => KindAt(opts, s, "retry") = KindAt(opts, t, "retry")
    BY DEF KindAt
  <2> QED BY <2>2, <2>3, <2>4
<1>6. ASSUME NEW name
      PROVE  /\ o.kind = "header" /\ o.name = name =>
                    Latest(opts, HeaderAt(opts, s, name), "value", "") = o.value
             /\ ~(o.kind = "header" /\ o.name = name) =>
                    HeaderAt(opts, s, name) = HeaderAt(opts, t, name)
  <2>1. HeaderAt(opts, s, name) \in SUBSET s
    BY DEF HeaderAt
  <2>2. o.kind = "header" /\ o.name = name => x \in HeaderAt(opts, s, name)
    BY DEF HeaderAt
  <2>3. x \in HeaderAt(opts, s, name) =>
            Latest(opts, HeaderAt(opts, s, name), "value", "") = o.value
    BY <1>3, <2>1 DEF Latest
  <2>4. ~(o.kind = "header" /\ o.name = name) => HeaderAt(opts, s, name) = HeaderAt(opts, t, name)
    BY DEF HeaderAt
  <2> QED BY <2>2, <2>3, <2>4
<1> DEFINE timeout == Latest(opts, TimeoutAt(opts, t), "n", cfg.timeout)
           retry == Latest(opts, KindAt(opts, t, "retry"), "value", cfg.retry)
           agent == Latest(opts, HeaderAt(opts, t, "userAgent"), "value", "")
           sdk == Latest(opts, HeaderAt(opts, t, "sdk"), "value", "")
           custom == Latest(opts, HeaderAt(opts, t, "custom"), "value", "")
<1>7. Overridden(Settings(timeout, retry, agent, sdk, custom), o) = Settings(
          IF o.kind = "timeout" /\ o.n >= 0 THEN o.n ELSE timeout,
          IF o.kind = "retry" THEN o.value ELSE retry,
          IF o.kind = "header" /\ o.name = "userAgent" THEN o.value ELSE agent,
          IF o.kind = "header" /\ o.name = "sdk" THEN o.value ELSE sdk,
          IF o.kind = "header" /\ o.name = "custom" THEN o.value ELSE custom)
  <2> HIDE DEF o, timeout, retry, agent, sdk, custom
  <2> QED BY <1>2, OverriddenIs
<1> QED BY <1>4, <1>5, <1>6, <1>7 DEF Resolved

(* Writing what is there changes nothing.                                  *)
LEMMA ExceptSame ==
    ASSUME NEW D, NEW f, f = [x \in D |-> f[x]], NEW k
    PROVE  [f EXCEPT ![k] = f[k]] = f
OBVIOUS

(* A call without header options has no headers of its own.                *)
LEMMA OwnHeadersEmpty == OwnHeaders("", "", "") = NoHeaders
<1>1. /\ NoHeaders = [h \in DOMAIN NoHeaders |-> NoHeaders[h]]
      /\ NoHeaders.userAgent = "" /\ NoHeaders.sdk = "" /\ NoHeaders.custom = ""
  BY DEF NoHeaders
<1>2. /\ [NoHeaders EXCEPT !.userAgent = NoHeaders.userAgent] = NoHeaders
      /\ [NoHeaders EXCEPT !.sdk = NoHeaders.sdk] = NoHeaders
      /\ [NoHeaders EXCEPT !.custom = NoHeaders.custom] = NoHeaders
  BY <1>1, ExceptSame
<1> QED BY <1>1, <1>2 DEF OwnHeaders

(* ResolveCall is a fold, which is a choice of a function that satisfies    *)
(* its recursive equation: one does, and all that do agree.                 *)
LEMMA ResolveCallIs ==
    ASSUME NEW opts \in Seq(CallOptions)
    PROVE  ResolveCall(opts) = Resolved(opts, 1..Len(opts))
<1> DEFINE D == DOMAIN opts
           base == [timeout |-> cfg.timeout, retry |-> cfg.retry, headers |-> NoHeaders]
           Solves(f) == f = [s \in SUBSET D |->
                                IF s = {} THEN base
                                ELSE Overridden(f[s \ {Max(s)}], opts[Max(s)])]
           g == [s \in SUBSET D |-> Resolved(opts, s)]
           f == CHOOSE f : Solves(f)
<1>1. ResolveCall(opts) = f[D]
  BY DEF ResolveCall, FoldLeft, MapThenFoldSet
<1>2. D = 1..Len(opts) /\ Len(opts) \in Nat
  OBVIOUS
<1>3. Resolved(opts, {}) = base
  <2>1. /\ TimeoutAt(opts, {}) = {} /\ KindAt(opts, {}, "retry") = {}
        /\ \A name : HeaderAt(opts, {}, name) = {}
    BY DEF TimeoutAt, KindAt, HeaderAt
  <2>2. OwnHeaders("", "", "") = NoHeaders
    BY OwnHeadersEmpty
  <2>3. /\ Latest(opts, TimeoutAt(opts, {}), "n", cfg.timeout) = cfg.timeout
        /\ Latest(opts, KindAt(opts, {}, "retry"), "value", cfg.retry) = cfg.retry
        /\ \A name : Latest(opts, HeaderAt(opts, {}, name), "value", "") = ""
    BY <2>1 DEF Latest
  <2>4. Resolved(opts, {}) = Settings(cfg.timeout, cfg.retry, "", "", "")
    BY <2>3 DEF Resolved
  <2> QED BY <2>2, <2>4 DEF Settings
<1>4. ASSUME NEW s \in SUBSET D, s # {}
      PROVE  /\ s \ {Max(s)} \in SUBSET D
             /\ Resolved(opts, s) = Overridden(Resolved(opts, s \ {Max(s)}), opts[Max(s)])
  <2>1. Max(s) \in s /\ \A i \in s : i <= Max(s)
    BY <1>2, <1>4, MaxIn
  <2> QED BY <1>2, <2>1, ResolvedStep
<1> HIDE DEF D, base
<1>5. Solves(g)
  BY <1>3, <1>4
<1> HIDE DEF g
<1>6. Solves(f)
  BY <1>5
<1> HIDE DEF f
<1> DEFINE Agree == {n \in Nat : \A s \in SUBSET D : s \in SUBSET (1..n) => f[s] = Resolved(opts, s)}
<1>7. 0 \in Agree
  <2> SUFFICES ASSUME NEW s \in SUBSET D, s \in SUBSET (1..0) PROVE f[s] = Resolved(opts, s)
    OBVIOUS
  <2>1. s = {}
    OBVIOUS
  <2> QED BY <1>3, <1>6, <2>1
<1>8. ASSUME NEW n \in Agree PROVE n + 1 \in Agree
  <2> SUFFICES ASSUME NEW s \in SUBSET D, s \in SUBSET (1..(n + 1)) PROVE f[s] = Resolved(opts, s)
    OBVIOUS
  <2>1. CASE s = {}
    BY <1>3, <1>6, <2>1
  <2>2. CASE s # {}
    <3> HIDE DEF Agree
    <3>0. n \in Nat /\ n + 1 \in Nat
      BY DEF Agree
    <3>1. Max(s) \in s /\ \A i \in s : i <= Max(s)
      BY <2>2, <3>0, MaxIn
    <3> DEFINE m == Max(s)
    <3>2. s \ {m} \in SUBSET (1..n)
      <4> HIDE DEF m
      <4> SUFFICES ASSUME NEW i \in s \ {m} PROVE i \in 1..n
        OBVIOUS
      <4>1. m \in 1..(n + 1) /\ i \in 1..(n + 1) /\ i <= m /\ i # m
        BY <3>1 DEF m
      <4> QED BY <3>0, <4>1
    <3> USE DEF Agree
    <3>3. f[s \ {Max(s)}] = Resolved(opts, s \ {Max(s)})
      BY <3>2
    <3>4. f[s] = Overridden(f[s \ {Max(s)}], opts[Max(s)])
      BY <1>6, <2>2
    <3> QED BY <1>4, <2>2, <3>3, <3>4
  <2> QED BY <2>1, <2>2
<1>9. Len(opts) \in Agree
  BY <1>2, <1>7, <1>8, SetInduction
<1> QED BY <1>1, <1>2, <1>9

(* What a call's options resolve to, setting by setting.                   *)
LEMMA ResolveCallSettings ==
    ASSUME NEW opts \in Seq(CallOptions)
    PROVE  /\ ResolveCall(opts).timeout = TimeoutOf(opts, cfg.timeout)
           /\ ResolveCall(opts).retry = SettingOf(opts, "retry", cfg.retry)
           /\ ResolveCall(opts).headers = OwnHeaders(HeaderOf(opts, "userAgent", ""),
                                                     HeaderOf(opts, "sdk", ""),
                                                     HeaderOf(opts, "custom", ""))
<1>1. Len(opts) \in Nat
  OBVIOUS
<1> DEFINE s == 1..Len(opts)
<1>2. Latest(opts, TimeoutAt(opts, s), "n", cfg.timeout) = TimeoutOf(opts, cfg.timeout)
  BY <1>1, TimeoutOfIs
<1>3. Latest(opts, KindAt(opts, s, "retry"), "value", cfg.retry) = SettingOf(opts, "retry", cfg.retry)
  BY <1>1, SettingOfIs
<1>4. ASSUME NEW name
      PROVE  Latest(opts, HeaderAt(opts, s, name), "value", "") = HeaderOf(opts, name, "")
  BY <1>1, HeaderOfIs
<1> HIDE DEF s
<1>5. ResolveCall(opts) = Resolved(opts, s)
  BY ResolveCallIs DEF s
<1> DEFINE cc == ResolveCall(opts)
<1>6. cc = Settings(TimeoutOf(opts, cfg.timeout), SettingOf(opts, "retry", cfg.retry),
                    HeaderOf(opts, "userAgent", ""), HeaderOf(opts, "sdk", ""),
                    HeaderOf(opts, "custom", ""))
  BY <1>2, <1>3, <1>4, <1>5 DEF Resolved
<1> HIDE DEF cc
<1>7. /\ cc.timeout = TimeoutOf(opts, cfg.timeout)
      /\ cc.retry = SettingOf(opts, "retry", cfg.retry)
      /\ cc.headers = OwnHeaders(HeaderOf(opts, "userAgent", ""), HeaderOf(opts, "sdk", ""),
                                 HeaderOf(opts, "custom", ""))
  BY <1>6 DEF Settings
<1> QED BY <1>7 DEF cc

-----------------------------------------------------------------------------
(* Values of options.                                                      *)

(* A setting is the default or that of an option.                          *)
LEMMA SettingIn ==
    ASSUME NEW S, NEW opts \in Seq(S), NEW kind, NEW default
    PROVE  \/ /\ SettingOf(opts, kind, default) = default
              /\ \A i \in 1..Len(opts) : opts[i].kind # kind
           \/ \E i \in 1..Len(opts) : opts[i].kind = kind
                                      /\ SettingOf(opts, kind, default) = opts[i].value
<1>1. Len(opts) \in Nat
  OBVIOUS
<1> DEFINE I == KindAt(opts, 1..Len(opts), kind)
<1>2. SettingOf(opts, kind, default) = Latest(opts, I, "value", default)
  BY <1>1, SettingOfIs
<1>3. I \in SUBSET (1..Len(opts))
  BY DEF KindAt
<1>4. I = {} \/ Max(I) \in I
  <2> HIDE DEF I
  <2> QED BY <1>1, <1>3, MaxIn
<1> QED BY <1>2, <1>4 DEF KindAt, Latest

(* A timeout is the default or that of an option.                          *)
LEMMA TimeoutIn ==
    ASSUME NEW S, NEW opts \in Seq(S), NEW default
    PROVE  \/ TimeoutOf(opts, default) = default
           \/ \E i \in 1..Len(opts) : opts[i].n >= 0 /\ TimeoutOf(opts, default) = opts[i].n
<1>1. Len(opts) \in Nat
  OBVIOUS
<1> DEFINE I == TimeoutAt(opts, 1..Len(opts))
<1>2. TimeoutOf(opts, default) = Latest(opts, I, "n", default)
  BY <1>1, TimeoutOfIs
<1>3. I \in SUBSET (1..Len(opts))
  BY DEF TimeoutAt
<1>4. I = {} \/ Max(I) \in I
  <2> HIDE DEF I
  <2> QED BY <1>1, <1>3, MaxIn
<1> QED BY <1>2, <1>4 DEF TimeoutAt, Latest

(* A header is the default or that of an option, whatever the default.     *)
LEMMA HeaderIn ==
    ASSUME NEW S, NEW opts \in Seq(S), NEW name, NEW default
    PROVE  \/ /\ HeaderOf(opts, name, default) = default
              /\ \A d : HeaderOf(opts, name, d) = d
           \/ \E i \in 1..Len(opts) : /\ opts[i].kind = "header"
                                      /\ \A d : HeaderOf(opts, name, d) = opts[i].value
<1>1. Len(opts) \in Nat
  OBVIOUS
<1> DEFINE I == HeaderAt(opts, 1..Len(opts), name)
<1>2. \A d : HeaderOf(opts, name, d) = Latest(opts, I, "value", d)
  BY <1>1, HeaderOfIs
<1>3. I \in SUBSET (1..Len(opts))
  BY DEF HeaderAt
<1>4. \/ I = {}
      \/ Max(I) \in I
  <2> HIDE DEF I
  <2> QED BY <1>1, <1>3, MaxIn
<1>5. CASE I = {}
  BY <1>2, <1>5 DEF Latest
<1>6. CASE I # {} /\ Max(I) \in I
  <2> DEFINE m == Max(I)
  <2>1. \A d : HeaderOf(opts, name, d) = opts[m]["value"]
    BY <1>2, <1>6 DEF Latest
  <2>2. m \in 1..Len(opts) /\ opts[m].kind = "header"
    BY <1>6 DEF HeaderAt
  <2> HIDE DEF m
  <2> QED BY <2>1, <2>2
<1> QED BY <1>4, <1>5, <1>6

(* A header option sets something, so that a header is absent only when no  *)
(* option sets it.                                                          *)
LEMMA HeaderOrDefault ==
    ASSUME NEW S \in SUBSET (Options \cup CallOptions), NEW opts \in Seq(S), NEW name, NEW default
    PROVE  HeaderOf(opts, name, default) = EnvOr(HeaderOf(opts, name, ""), default)
<1>1. \A i \in 1..Len(opts) : opts[i].kind = "header" => opts[i].value # ""
  <2> TAKE i \in 1..Len(opts)
  <2>1. opts[i] \in Options \cup CallOptions
    OBVIOUS
  <2> QED BY <2>1, ClientAssumption
<1>2. \/ \A d : HeaderOf(opts, name, d) = d
      \/ \E i \in 1..Len(opts) : /\ opts[i].kind = "header"
                                 /\ \A d : HeaderOf(opts, name, d) = opts[i].value
  BY HeaderIn
<1> QED BY <1>1, <1>2 DEF EnvOr

(* One more option takes the place of the ones before it of its sort.       *)
Extended(a, opts, n, o) ==
    /\ Len(a) = n /\ a[n] = o /\ \A i \in 1..Len(opts) : a[i] = opts[i]
    /\ \A I \in SUBSET (1..n) : n \in I => I # {} /\ Max(I) = n
    /\ \A I \in SUBSET (1..Len(opts)) : I # {} => a[Max(I)] = opts[Max(I)]

(* One option more is the last of its kind.                                *)
LEMMA LatestAppend ==
    ASSUME NEW S, NEW opts \in Seq(S), NEW o \in S
    PROVE  Extended(Append(opts, o), opts, Len(opts) + 1, o)
<1> DEFINE a == Append(opts, o)
           n == Len(opts) + 1
<1>1. Len(opts) \in Nat /\ n \in Nat
  OBVIOUS
<1>2. Len(a) = n /\ a[n] = o /\ \A i \in 1..Len(opts) : a[i] = opts[i]
  OBVIOUS
<1>3. \A I \in SUBSET (1..n) : n \in I => I # {} /\ Max(I) = n
  <2>1. n \in 1..n /\ \A i \in 1..n : i <= n
    BY <1>1
  <2> HIDE DEF n
  <2> QED BY <1>1, <2>1, LatestIs
<1>4. \A I \in SUBSET (1..Len(opts)) : I # {} => a[Max(I)] = opts[Max(I)]
  <2> TAKE I \in SUBSET (1..Len(opts))
  <2> HAVE I # {}
  <2>1. Max(I) \in I
    BY <1>1, MaxIn
  <2> HIDE DEF a
  <2> QED BY <1>2, <2>1
<1> QED BY <1>2, <1>3, <1>4 DEF Extended

(* The setting after one option more.                                      *)
LEMMA SettingAppend ==
    ASSUME NEW S, NEW opts \in Seq(S), NEW o \in S, NEW kind, NEW default
    PROVE  SettingOf(Append(opts, o), kind, default)
             = IF o.kind = kind THEN o.value ELSE SettingOf(opts, kind, default)
<1> DEFINE a == Append(opts, o)
           n == Len(opts) + 1
           I == KindAt(opts, 1..Len(opts), kind)
           J == KindAt(a, 1..n, kind)
<1>1. Extended(a, opts, n, o)
  BY LatestAppend
<1>2. Len(opts) \in Nat /\ n \in Nat /\ 1..n = (1..Len(opts)) \cup {n}
  OBVIOUS
<1> HIDE DEF a, n
<1>3. J = IF o.kind = kind THEN I \cup {n} ELSE I
  BY <1>1, <1>2 DEF KindAt, Extended
<1>4. SettingOf(a, kind, default) = Latest(a, J, "value", default)
  BY <1>1, <1>2, SettingOfIs DEF Extended
<1>5. SettingOf(opts, kind, default) = Latest(opts, I, "value", default)
  BY <1>2, SettingOfIs
<1>6. I \in SUBSET (1..Len(opts)) /\ J \in SUBSET (1..n)
  BY DEF KindAt
<1>7. o.kind = kind => J # {} /\ a[Max(J)] = o
  <2> HIDE DEF I, J
  <2> QED BY <1>1, <1>3, <1>6 DEF Extended
<1>8. o.kind # kind => J = I /\ (I # {} => a[Max(I)] = opts[Max(I)])
  <2> HIDE DEF I, J
  <2> QED BY <1>1, <1>3, <1>6 DEF Extended
<1> HIDE DEF I, J
<1> QED BY <1>4, <1>5, <1>7, <1>8 DEF Latest, a

(* The timeout after one option more.                                      *)
LEMMA TimeoutAppend ==
    ASSUME NEW S, NEW opts \in Seq(S), NEW o \in S, NEW default
    PROVE  TimeoutOf(Append(opts, o), default)
             = IF o.kind = "timeout" /\ o.n >= 0 THEN o.n ELSE TimeoutOf(opts, default)
<1> DEFINE a == Append(opts, o)
           n == Len(opts) + 1
           I == TimeoutAt(opts, 1..Len(opts))
           J == TimeoutAt(a, 1..n)
           Sets == o.kind = "timeout" /\ o.n >= 0
<1>1. Extended(a, opts, n, o)
  BY LatestAppend
<1>2. Len(opts) \in Nat /\ n \in Nat /\ 1..n = (1..Len(opts)) \cup {n}
  OBVIOUS
<1> HIDE DEF a, n
<1>3. J = IF Sets THEN I \cup {n} ELSE I
  BY <1>1, <1>2 DEF TimeoutAt, Extended
<1>4. TimeoutOf(a, default) = Latest(a, J, "n", default)
  BY <1>1, <1>2, TimeoutOfIs DEF Extended
<1>5. TimeoutOf(opts, default) = Latest(opts, I, "n", default)
  BY <1>2, TimeoutOfIs
<1>6. I \in SUBSET (1..Len(opts)) /\ J \in SUBSET (1..n)
  BY DEF TimeoutAt
<1>7. Sets => J # {} /\ a[Max(J)] = o
  <2> HIDE DEF I, J, Sets
  <2> QED BY <1>1, <1>3, <1>6 DEF Extended
<1>8. ~Sets => J = I /\ (I # {} => a[Max(I)] = opts[Max(I)])
  <2> HIDE DEF I, J, Sets
  <2> QED BY <1>1, <1>3, <1>6 DEF Extended
<1> HIDE DEF I, J
<1> QED BY <1>4, <1>5, <1>7, <1>8 DEF Latest, a

(* The header after one option more.                                       *)
LEMMA HeaderAppend ==
    ASSUME NEW S, NEW opts \in Seq(S), NEW o \in S, NEW name, NEW default
    PROVE  HeaderOf(Append(opts, o), name, default)
             = IF o.kind = "header" /\ o.name = name THEN o.value ELSE HeaderOf(opts, name, default)
<1> DEFINE a == Append(opts, o)
           n == Len(opts) + 1
           I == HeaderAt(opts, 1..Len(opts), name)
           J == HeaderAt(a, 1..n, name)
           Sets == o.kind = "header" /\ o.name = name
<1>1. Extended(a, opts, n, o)
  BY LatestAppend
<1>2. Len(opts) \in Nat /\ n \in Nat /\ 1..n = (1..Len(opts)) \cup {n}
  OBVIOUS
<1> HIDE DEF a, n
<1>3. J = IF Sets THEN I \cup {n} ELSE I
  BY <1>1, <1>2 DEF HeaderAt, Extended
<1>4. HeaderOf(a, name, default) = Latest(a, J, "value", default)
  BY <1>1, <1>2, HeaderOfIs DEF Extended
<1>5. HeaderOf(opts, name, default) = Latest(opts, I, "value", default)
  BY <1>2, HeaderOfIs
<1>6. I \in SUBSET (1..Len(opts)) /\ J \in SUBSET (1..n)
  BY DEF HeaderAt
<1>7. Sets => J # {} /\ a[Max(J)] = o
  <2> HIDE DEF I, J, Sets
  <2> QED BY <1>1, <1>3, <1>6 DEF Extended
<1>8. ~Sets => J = I /\ (I # {} => a[Max(I)] = opts[Max(I)])
  <2> HIDE DEF I, J, Sets
  <2> QED BY <1>1, <1>3, <1>6 DEF Extended
<1> HIDE DEF I, J
<1> QED BY <1>4, <1>5, <1>7, <1>8 DEF Latest, a

-----------------------------------------------------------------------------
(* Header maps.                                                            *)

(* No header map is that of another call or attempt.                       *)
LEMMA MapsDiffer ==
    /\ \A c \in Calls : ConfigMap # CallMap(c)
    /\ \A c, n : ConfigMap # AttemptMap(c, n)
    /\ \A c, d, n : CallMap(c) # AttemptMap(d, n)
    /\ \A c, d : CallMap(c) = CallMap(d) => c = d
    /\ \A c, d, n, m : AttemptMap(c, n) = AttemptMap(d, m) => c = d /\ n = m
BY DEF ConfigMap, CallMap, AttemptMap

(* The header maps in the heap.                                            *)
LEMMA MapsIn ==
    /\ ConfigMap \in Maps
    /\ \A c \in Calls : CallMap(c) \in Maps
    /\ \A c \in Calls, n \in 0..MaxAttempts - 1 : AttemptMap(c, n) \in Maps
BY DEF Maps

(* The header map of a call, field by field.                               *)
LEMMA CallHeadersAre ==
    ASSUME NEW agent, NEW sdk, NEW custom, NEW body
    PROVE  LET own == heap[ConfigMap]
           IN  CallHeaders(OwnHeaders(agent, sdk, custom), body) =
                   [authorization |-> cfg.apiKey,
                    contentType |-> IF body = NoBody THEN own.contentType ELSE "json",
                    userAgent |-> UserAgent(EnvOr(cfg.userAgent, EnvOr(agent, own.userAgent))),
                    sdk |-> SDKVersion,
                    custom |-> EnvOr(custom, own.custom),
                    retryCount |-> own.retryCount,
                    cookie |-> own.cookie]
<1> DEFINE own == heap[ConfigMap]
           merged == [h \in DOMAIN NoHeaders |->
                          IF OwnHeaders(agent, sdk, custom)[h] # NoHeaders[h]
                          THEN OwnHeaders(agent, sdk, custom)[h] ELSE own[h]]
           full == [authorization |-> own.authorization,
                    contentType |-> own.contentType,
                    userAgent |-> EnvOr(agent, own.userAgent),
                    sdk |-> EnvOr(sdk, own.sdk),
                    custom |-> EnvOr(custom, own.custom),
                    retryCount |-> own.retryCount,
                    cookie |-> own.cookie]
           D == {"authorization", "contentType", "userAgent", "sdk", "custom", "retryCount", "cookie"}
<1>1. merged = full
  <2>1. DOMAIN NoHeaders = D
    BY DEF NoHeaders
  <2>2. /\ merged["authorization"] = full["authorization"]
        /\ merged["contentType"] = full["contentType"]
        /\ merged["userAgent"] = full["userAgent"]
        /\ merged["sdk"] = full["sdk"]
        /\ merged["custom"] = full["custom"]
        /\ merged["retryCount"] = full["retryCount"]
        /\ merged["cookie"] = full["cookie"]
    <3> HIDE DEF own
    <3> QED BY DEF OwnHeaders, NoHeaders, EnvOr
  <2>3. merged = [h \in D |-> merged[h]]
    BY <2>1
  <2>4. full = [h \in D |-> full[h]]
    <3> HIDE DEF own
    <3> QED OBVIOUS
  <2> HIDE DEF merged, full
  <2>5. \A h \in D : merged[h] = full[h]
    BY <2>2
  <2> HIDE DEF D
  <2> QED BY <2>3, <2>4, <2>5
<1>2. CallHeaders(OwnHeaders(agent, sdk, custom), body) =
          [merged EXCEPT !.authorization = cfg.apiKey,
                         !.sdk = SDKVersion,
                         !.userAgent = UserAgent(EnvOr(cfg.userAgent, merged.userAgent)),
                         !.contentType = IF body = NoBody THEN @ ELSE "json"]
  BY DEF CallHeaders
<1> HIDE DEF merged, own, D
<1> QED BY <1>1, <1>2 DEF own

-----------------------------------------------------------------------------
(* Types.                                                                  *)

Configs == [apiKey : STRING, baseURL : STRING, model : STRING, userAgent : STRING,
            httpClient : STRING, timeout : Nat, retry : STRING]

(* What an option may be, and when it sets a header.                       *)
LEMMA OptionShape ==
    ASSUME NEW o \in Options \cup CallOptions
    PROVE  /\ o.kind \in OptionKinds /\ o.name \in HeaderNames /\ o.value \in STRING /\ o.n \in Int
           /\ SetsHeader(o) => /\ o.kind = "header" /\ o.value # ""
                              /\ o.name \in {"userAgent", "sdk", "custom"}
           /\ o.kind = "header" /\ o.name \in {"userAgent", "sdk", "custom"} => SetsHeader(o)
<1>1. /\ o.kind \in OptionKinds /\ o.name \in HeaderNames /\ o.value \in STRING /\ o.n \in Int
      /\ o.kind = "header" => o.value # ""
  BY ClientAssumption DEF OptionKinds, CallOptionKinds
<1> QED BY <1>1 DEF SetsHeader, ProtectedHeaders, HeaderNames

(* What options set has the type of what they set.                         *)
LEMMA ValuesTyped ==
    ASSUME NEW S \in SUBSET (Options \cup CallOptions), NEW opts \in Seq(S)
    PROVE  /\ \A kind, d : d \in STRING => SettingOf(opts, kind, d) \in STRING
           /\ \A name, d : d \in STRING => HeaderOf(opts, name, d) \in STRING
           /\ \A d : d \in Nat => TimeoutOf(opts, d) \in Nat
<1>1. \A i \in 1..Len(opts) : opts[i].value \in STRING /\ opts[i].n \in Int
  <2> TAKE i \in 1..Len(opts)
  <2>1. opts[i] \in Options \cup CallOptions
    OBVIOUS
  <2> QED BY <2>1, OptionShape
<1>2. ASSUME NEW kind, NEW d \in STRING PROVE SettingOf(opts, kind, d) \in STRING
  BY <1>1, SettingIn
<1>3. ASSUME NEW name, NEW d \in STRING PROVE HeaderOf(opts, name, d) \in STRING
  <2>1. \/ HeaderOf(opts, name, d) = d
        \/ \E i \in 1..Len(opts) : HeaderOf(opts, name, d) = opts[i].value
    BY HeaderIn
  <2> QED BY <1>1, <2>1
<1>4. ASSUME NEW d \in Nat PROVE TimeoutOf(opts, d) \in Nat
  <2>1. \/ TimeoutOf(opts, d) = d
        \/ \E i \in 1..Len(opts) : opts[i].n >= 0 /\ TimeoutOf(opts, d) = opts[i].n
    BY TimeoutIn
  <2> QED BY <1>1, <2>1
<1> QED BY <1>2, <1>3, <1>4

(* An option that does not fail leaves a configuration.                    *)
LEMMA ConfiguredTyped ==
    ASSUME cfg \in Configs, NEW o \in Options, ~OptionFails(o)
    PROVE  Configured(o) \in Configs
<1>1. o.value \in STRING /\ o.n \in Int
  BY OptionShape
<1>2. CASE o.kind = "timeout"
  BY <1>1, <1>2 DEF Configured, OptionFails, Configs
<1>3. CASE o.kind \in {"apiKey", "baseURL", "model", "httpClient", "userAgent", "retry"}
  <2>1. Configured(o) = [cfg EXCEPT ![o.kind] = o.value]
    BY <1>3 DEF Configured
  <2> QED BY <1>1, <1>3, <2>1 DEF Configs
<1>4. CASE o.kind \notin {"timeout", "apiKey", "baseURL", "model", "httpClient", "userAgent", "retry"}
  BY <1>4 DEF Configured
<1> QED BY <1>2, <1>3, <1>4

LEMMA EnvOrTyped ==
    ASSUME NEW x \in STRING, NEW y \in STRING
    PROVE  EnvOr(x, y) \in STRING
<1>1. CASE x = ""
  BY <1>1 DEF EnvOr
<1>2. CASE x # ""
  BY <1>2 DEF EnvOr
<1> QED BY <1>1, <1>2

LEMMA UserAgentIs ==
    ASSUME NEW x PROVE UserAgent(x) = EnvOr(x, SDKVersion)
BY DEF UserAgent, EnvOr

(* The header map of a call is a header map.                               *)
LEMMA CallHeadersTyped ==
    ASSUME TypeOK, NEW agent \in STRING, NEW sdk \in STRING, NEW custom \in STRING, NEW body
    PROVE  CallHeaders(OwnHeaders(agent, sdk, custom), body) \in Headers
<1> DEFINE own == heap[ConfigMap]
<1>1. own \in Headers
  BY MapsIn DEF TypeOK
<1>2. cfg.apiKey \in STRING /\ cfg.userAgent \in STRING
  BY DEF TypeOK
<1>3. /\ own.contentType \in STRING /\ own.userAgent \in STRING /\ own.custom \in STRING
      /\ own.retryCount \in Nat /\ own.cookie \in Nat
  <2> HIDE DEF own
  <2> QED BY <1>1 DEF Headers
<1>4. /\ (IF body = NoBody THEN own.contentType ELSE "json") \in STRING
      /\ UserAgent(EnvOr(cfg.userAgent, EnvOr(agent, own.userAgent))) \in STRING
      /\ SDKVersion \in STRING
      /\ EnvOr(custom, own.custom) \in STRING
  <2> HIDE DEF own
  <2>1. SDKVersion \in STRING /\ "json" \in STRING
    BY LiteralsAssumption
  <2>2. EnvOr(cfg.userAgent, EnvOr(agent, own.userAgent)) \in STRING
    BY <1>2, <1>3, EnvOrTyped
  <2>3. UserAgent(EnvOr(cfg.userAgent, EnvOr(agent, own.userAgent))) \in STRING
    BY <2>1, <2>2, EnvOrTyped, UserAgentIs
  <2>4. EnvOr(custom, own.custom) \in STRING
    BY <1>3, EnvOrTyped
  <2>5. body = NoBody \/ body # NoBody
    OBVIOUS
  <2> QED BY <1>3, <2>1, <2>3, <2>4, <2>5
<1> HIDE DEF own
<1> QED BY <1>2, <1>3, <1>4, CallHeadersAre DEF Headers, own

(* The attempts of a call are numbered from 0.                             *)
LEMMA AttemptNumbers ==
    /\ 0 \in 0..MaxAttempts - 1 /\ 0..MaxAttempts - 1 \subseteq Nat
    /\ \A n \in 0..MaxAttempts - 1 : n + 1 < MaxAttempts => n + 1 \in 0..MaxAttempts - 1
<1>1. MaxAttempts \in Nat \ {0}
  BY ClientAssumption
<1> QED BY <1>1

LEMMA TypeInit == Init => TypeOK
<1> SUFFICES ASSUME Init PROVE TypeOK
  OBVIOUS
<1> USE LiteralsAssumption
<1>1. env \in Environments /\ env.apiKey \in STRING /\ env.baseURL \in STRING /\ env.model \in STRING
  BY ClientAssumption DEF Init
<1>2. /\ Defaults.apiKey \in STRING /\ Defaults.baseURL \in STRING /\ Defaults.model \in STRING
      /\ Defaults.userAgent \in STRING /\ Defaults.httpClient \in STRING
      /\ Defaults.timeout \in Nat /\ Defaults.retry \in STRING
  BY DEF Defaults
<1>3. cfg \in Configs
  <2>1. Defaults \in Configs
    BY DEF Defaults, Configs
  <2>2. /\ EnvOr(env.apiKey, Defaults.apiKey) \in STRING
        /\ EnvOr(env.baseURL, Defaults.baseURL) \in STRING
        /\ EnvOr(env.model, Defaults.model) \in STRING
    BY <1>1, <1>2, EnvOrTyped
  <2> QED BY <2>1, <2>2 DEF Init, FromEnvironment, Configs
<1>4. NoHeaders \in Headers
  BY DEF NoHeaders, Headers
<1>5. Idle \in [at : {"idle", "loop", "sending", "inflight", "done"},
                args : {Idle.args} \cup Arguments,
                timeout : Nat, retry : STRING, body : STRING, n : 0..MaxAttempts - 1]
  <2> QED BY AttemptNumbers DEF Idle
<1>6. heap \in [Maps -> Headers] /\ reader \in [Readers -> STRING]
  BY <1>4 DEF Init
<1>7. call \in [Calls -> [at : {"idle", "loop", "sending", "inflight", "done"},
                          args : {Idle.args} \cup Arguments,
                          timeout : Nat, retry : STRING, body : STRING,
                          n : 0..MaxAttempts - 1]]
  <2> HIDE DEF Idle
  <2> QED BY <1>5 DEF Init
<1>8. /\ applied = <<>> /\ wire = {}
      /\ phase = "new" /\ newErr = "none" /\ edited = FALSE
  BY DEF Init
<1>9. applied \in Seq(Options)
  BY <1>8, EmptySeq
<1>10. wire \subseteq [call : Calls, n : 0..MaxAttempts - 1, headers : Headers, body : STRING]
  BY <1>8
<1> HIDE DEF Idle
<1> QED BY <1>1, <1>3, <1>6, <1>7, <1>8, <1>9, <1>10 DEF TypeOK, Configs

LEMMA TypeStep == TypeOK /\ [Next]_vars => TypeOK'
<1> SUFFICES ASSUME TypeOK, [Next]_vars PROVE TypeOK'
  OBVIOUS
<1> USE DEF TypeOK
<1>1. ASSUME NEW o \in Options, ApplyOption(o) PROVE TypeOK'
  <2>1. applied' \in Seq(Options)
    BY <1>1 DEF ApplyOption
  <2>2. o.value \in STRING /\ (SetsHeader(o) => o.name \in {"userAgent", "sdk", "custom"})
    BY OptionShape
  <2>3. cfg' \in Configs
    <3>1. CASE OptionFails(o)
      BY <1>1, <3>1 DEF ApplyOption, NewFails, Configs
    <3>2. CASE ~OptionFails(o)
      BY <1>1, <3>2, ConfiguredTyped DEF ApplyOption, Configs
    <3> QED BY <3>1, <3>2
  <2>4. heap' \in [Maps -> Headers]
    <3>1. CASE heap' = heap
      BY <3>1
    <3>2. CASE SetsHeader(o) /\ heap' = [heap EXCEPT ![ConfigMap][o.name] = o.value]
      <4>1. [heap[ConfigMap] EXCEPT ![o.name] = o.value] \in Headers
        BY <2>2, <3>2, MapsIn DEF Headers
      <4> QED BY <3>2, <4>1
    <3> QED BY <1>1, <3>1, <3>2 DEF ApplyOption, NewFails
  <2>5. phase' \in {"new", "ready", "failed"} /\ newErr' \in {"none", "missingKey", "invalid"}
    BY <1>1 DEF ApplyOption, NewFails
  <2> QED BY <1>1, <2>1, <2>3, <2>4, <2>5 DEF ApplyOption, Configs
<1>2. CASE FinishNew
  BY <1>2 DEF FinishNew, NewFails, FinalError, building
<1>3. CASE CallerEditsStatuses
  BY <1>3 DEF CallerEditsStatuses, building
<1>4. ASSUME NEW c \in Calls, StartCall(c) PROVE TypeOK'
  <2> PICK args \in Arguments :
         /\ call' = [call EXCEPT ![c] = [at |-> "loop", args |-> args,
                                         timeout |-> ResolveCall(args.opts).timeout,
                                         retry |-> ResolveCall(args.opts).retry,
                                         body |-> Body(args.request), n |-> 0]]
         /\ heap' = [heap EXCEPT ![CallMap(c)] =
                         CallHeaders(ResolveCall(args.opts).headers, Body(args.request))]
    BY <1>4 DEF StartCall, HeaderMap
  <2> DEFINE cc == ResolveCall(args.opts)
  <2>1. args.opts \in Seq(CallOptions) /\ args.request \in STRING
    BY ClientAssumption
  <2>2. /\ cc.timeout \in Nat /\ cc.retry \in STRING
        /\ CallHeaders(cc.headers, Body(args.request)) \in Headers
    <3>1. /\ TimeoutOf(args.opts, cfg.timeout) \in Nat
          /\ SettingOf(args.opts, "retry", cfg.retry) \in STRING
          /\ \A name : HeaderOf(args.opts, name, "") \in STRING
      BY <2>1, ValuesTyped, LiteralsAssumption
    <3>2. /\ cc.timeout = TimeoutOf(args.opts, cfg.timeout)
          /\ cc.retry = SettingOf(args.opts, "retry", cfg.retry)
          /\ cc.headers = OwnHeaders(HeaderOf(args.opts, "userAgent", ""),
                                     HeaderOf(args.opts, "sdk", ""),
                                     HeaderOf(args.opts, "custom", ""))
      BY <2>1, ResolveCallSettings
    <3> HIDE DEF cc
    <3> QED BY <3>1, <3>2, CallHeadersTyped
  <2>3. Body(args.request) \in STRING
    BY <2>1, EnvOrTyped, LiteralsAssumption DEF Body
  <2>4. 0 \in 0..MaxAttempts - 1
    BY AttemptNumbers
  <2> HIDE DEF cc
  <2>5. call' \in [Calls -> [at : {"idle", "loop", "sending", "inflight", "done"},
                             args : {Idle.args} \cup Arguments,
                             timeout : Nat, retry : STRING, body : STRING,
                             n : 0..MaxAttempts - 1]]
    BY <2>2, <2>3, <2>4 DEF cc
  <2>6. heap' \in [Maps -> Headers]
    BY <2>2, MapsIn DEF cc
  <2> QED BY <1>4, <2>5, <2>6 DEF StartCall, building
<1>5. ASSUME NEW c \in Calls, StartAttempt(c) PROVE TypeOK'
  <2> DEFINE n == call[c].n
             h == heap[CallMap(c)]
             g == IF n > 0 THEN [h EXCEPT !.retryCount = n] ELSE h
  <2>1. n \in 0..MaxAttempts - 1 /\ n \in Nat /\ h \in Headers /\ call[c].body \in STRING
    <3>1. n \in 0..MaxAttempts - 1 /\ call[c].body \in STRING
      OBVIOUS
    <3>2. h \in Headers
      BY MapsIn
    <3> QED BY <3>1, <3>2, AttemptNumbers
  <2>2. g \in Headers
    <3> HIDE DEF n, h
    <3> QED BY <2>1 DEF Headers
  <2>3. /\ reader' = [reader EXCEPT ![<<c, n>>] = call[c].body]
        /\ heap' = [heap EXCEPT ![AttemptMap(c, n)] = g]
        /\ call' = [call EXCEPT ![c].at = "sending"]
    BY <1>5 DEF StartAttempt, BodyReader, HeaderMap, RequestMap
  <2> HIDE DEF g
  <2>4. heap' \in [Maps -> Headers]
    BY <2>1, <2>2, <2>3, MapsIn
  <2>5. reader' \in [Readers -> STRING]
    BY <2>1, <2>3 DEF Readers
  <2>6. call' \in [Calls -> [at : {"idle", "loop", "sending", "inflight", "done"},
                             args : {Idle.args} \cup Arguments,
                             timeout : Nat, retry : STRING, body : STRING,
                             n : 0..MaxAttempts - 1]]
    BY <2>3
  <2> QED BY <1>5, <2>4, <2>5, <2>6 DEF StartAttempt, building
<1>6. ASSUME NEW c \in Calls, HandToTransport(c) PROVE TypeOK'
  <2> DEFINE m == AttemptMap(c, call[c].n)
  <2>1. m \in Maps
    BY MapsIn
  <2>2. PICK added \in {0, 1} : heap' = [heap EXCEPT ![m].cookie = @ + added]
    BY <1>6 DEF HandToTransport, RequestMap
  <2> HIDE DEF m
  <2> DEFINE h == heap[m]
  <2>3. [h EXCEPT !.cookie = @ + added] \in Headers
    <3>1. h \in Headers /\ added \in Nat
      BY <2>1
    <3> HIDE DEF h
    <3> DEFINE k == h.cookie + added
    <3>2. k \in Nat
      BY <3>1 DEF Headers
    <3> HIDE DEF k
    <3>3. [h EXCEPT !.cookie = k] \in Headers
      BY <3>1, <3>2 DEF Headers
    <3> QED BY <3>3 DEF k
  <2>4. heap' \in [Maps -> Headers]
    BY <2>1, <2>2, <2>3
  <2> QED BY <1>6, <2>4 DEF HandToTransport, building
<1>7. ASSUME NEW c \in Calls, NEW n \in 0..MaxAttempts - 1, WriteRequest(c, n) PROVE TypeOK'
  <2>1. heap[AttemptMap(c, n)] \in Headers /\ reader[<<c, n>>] \in STRING
    BY MapsIn DEF Readers
  <2>2. /\ wire' = wire \cup {[call |-> c, n |-> n, headers |-> heap[AttemptMap(c, n)],
                               body |-> reader[<<c, n>>]]}
        /\ reader' = [reader EXCEPT ![<<c, n>>] = NoBody]
    BY <1>7 DEF WriteRequest, RequestMap, BodyReader
  <2>3. reader' \in [Readers -> STRING]
    BY <2>2, LiteralsAssumption
  <2> QED BY <1>7, <2>1, <2>2, <2>3 DEF WriteRequest, building
<1>8. ASSUME NEW c \in Calls, NextAttempt(c) PROVE TypeOK'
  <2>1. call[c].n \in 0..MaxAttempts - 1
    OBVIOUS
  <2>2. call[c].n + 1 \in 0..MaxAttempts - 1
    BY <1>8, <2>1, AttemptNumbers DEF NextAttempt
  <2> QED BY <1>8, <2>2 DEF NextAttempt, building
<1>9. ASSUME NEW c \in Calls, FinishCall(c) PROVE TypeOK'
  BY <1>9 DEF FinishCall, building
<1>10. CASE UNCHANGED vars
  BY <1>10 DEF vars, building
<1> QED BY <1>1, <1>2, <1>3, <1>4, <1>5, <1>6, <1>7, <1>8, <1>9, <1>10 DEF Next

(* Every variable keeps its shape, for any environment, options and calls:  *)
(* no interleaving leaves a map, a reader or a call half made.              *)
THEOREM TypeCorrect == Spec => []TypeOK
BY TypeInit, TypeStep, PTL DEF Spec

-----------------------------------------------------------------------------
(* The inductive invariant.                                                *)

(* The configuration is what the documentation makes of the options that    *)
(* were applied, none of which has failed.                                  *)
SettingsInv ==
    /\ cfg.apiKey = Documented("apiKey", env.apiKey)
    /\ cfg.baseURL = Documented("baseURL", env.baseURL)
    /\ cfg.model = Documented("model", env.model)
    /\ cfg.userAgent = Documented("userAgent", "")
    /\ cfg.httpClient = Documented("httpClient", "")
    /\ cfg.timeout = TimeoutOf(applied, Defaults.timeout)
    /\ cfg.retry = Documented("retry", "")
    /\ heap[ConfigMap] = OwnHeaders(HeaderOf(applied, "userAgent", ""),
                                    HeaderOf(applied, "sdk", ""),
                                    HeaderOf(applied, "custom", ""))
    /\ \A i \in 1..Len(applied) : ~OptionFails(applied[i])
    /\ cfg.model \notin {"", NoBody}
    /\ (\E i \in 1..Len(applied) : applied[i].kind = "baseURL") => Usable(cfg.baseURL)

ConfigInv ==
    /\ phase # "failed" => SettingsInv
    /\ phase = "ready" => FinalError = "none"

(* A call that was started keeps to its arguments. *)
CallInv(c) ==
    call[c].at # "idle" =>
        /\ phase = "ready"
        /\ call[c].args \in Arguments
        /\ call[c].timeout = TimeoutOf(call[c].args.opts, cfg.timeout)
        /\ call[c].retry = SettingOf(call[c].args.opts, "retry", cfg.retry)
        /\ call[c].body = Body(call[c].args.request)
        /\ heap[CallMap(c)] = ExpectedHeaders(c, 0, 0)

(* Attempts of a call are started one after the other. *)
Started(c, n) ==
    \/ n < call[c].n
    \/ n = call[c].n /\ call[c].at \in {"sending", "inflight", "done"}

Written(c, n) == \E w \in wire : w.call = c /\ w.n = n

(* An attempt that was started has its own headers, and its body until it   *)
(* is written; before it is handed to the http.Client, no cookies.          *)
AttemptInv(c, n) ==
    /\ Started(c, n) =>
        /\ call[c].at # "idle"
        /\ heap[AttemptMap(c, n)] \in {ExpectedHeaders(c, n, 0), ExpectedHeaders(c, n, 1)}
        /\ ~Written(c, n) => reader[<<c, n>>] = call[c].body
    /\ n = call[c].n /\ call[c].at = "sending" =>
        heap[AttemptMap(c, n)] = ExpectedHeaders(c, n, 0)
    /\ ~Started(c, n) => ~Written(c, n)

WrittenInv ==
    \A w \in wire :
        /\ w.headers \in {ExpectedHeaders(w.call, w.n, 0), ExpectedHeaders(w.call, w.n, 1)}
        /\ w.body = call[w.call].body

Inv ==
    /\ ConfigInv
    /\ \A c \in Calls : CallInv(c) /\ \A n \in 0..MaxAttempts - 1 : AttemptInv(c, n)
    /\ WrittenInv

-----------------------------------------------------------------------------
(* New.                                                                    *)

LEMMA SettingsInit == Init => SettingsInv
<1> SUFFICES ASSUME Init PROVE SettingsInv
  OBVIOUS
<1>1. applied = <<>> /\ applied \in Seq(Options) /\ 1..Len(applied) = {}
  BY EmptySeq DEF Init
<1>2. /\ \A kind, d : SettingOf(applied, kind, d) = d
      /\ \A d : TimeoutOf(applied, d) = d
      /\ \A name, d : HeaderOf(applied, name, d) = d
  <2>1. ASSUME NEW kind, NEW d PROVE SettingOf(applied, kind, d) = d
    BY <1>1, SettingIn
  <2>2. ASSUME NEW d PROVE TimeoutOf(applied, d) = d
    BY <1>1, TimeoutIn
  <2>3. ASSUME NEW name, NEW d PROVE HeaderOf(applied, name, d) = d
    BY <1>1, HeaderIn
  <2> QED BY <2>1, <2>2, <2>3
<1>3. /\ cfg.apiKey = EnvOr(env.apiKey, Defaults.apiKey)
      /\ cfg.baseURL = EnvOr(env.baseURL, Defaults.baseURL)
      /\ cfg.model = EnvOr(env.model, Defaults.model)
      /\ cfg.userAgent = "" /\ cfg.httpClient = "plain" /\ cfg.timeout = 10 /\ cfg.retry = "default"
  BY DEF Init, FromEnvironment, Defaults
<1>4. /\ Documented("apiKey", env.apiKey) = EnvOr(env.apiKey, Defaults.apiKey)
      /\ Documented("baseURL", env.baseURL) = EnvOr(env.baseURL, Defaults.baseURL)
      /\ Documented("model", env.model) = EnvOr(env.model, Defaults.model)
      /\ Documented("userAgent", "") = "" /\ Documented("httpClient", "") = "plain"
      /\ Documented("retry", "") = "default"
      /\ TimeoutOf(applied, Defaults.timeout) = 10
  BY <1>2 DEF Documented, Defaults, EnvOr
<1>5. heap[ConfigMap] = OwnHeaders("", "", "")
  <2>1. heap[ConfigMap] = NoHeaders
    BY MapsIn DEF Init
  <2> QED BY <2>1, OwnHeadersEmpty
<1>6. cfg.model \notin {"", NoBody}
  BY <1>3, ClientAssumption DEF Init, EnvOr, Defaults, NoBody
<1>7. heap[ConfigMap] = OwnHeaders(HeaderOf(applied, "userAgent", ""), HeaderOf(applied, "sdk", ""),
                                   HeaderOf(applied, "custom", ""))
  BY <1>2, <1>5
<1> QED BY <1>1, <1>3, <1>4, <1>6, <1>7 DEF SettingsInv

(* What one option more makes of each setting.                             *)
LEMMA ConfiguredIs ==
    ASSUME TypeOK, NEW o \in Options, ~OptionFails(o)
    PROVE  /\ \A k \in {"apiKey", "baseURL", "model", "httpClient", "userAgent", "retry"} :
                 Configured(o)[k] = IF o.kind = k THEN o.value ELSE cfg[k]
           /\ Configured(o).timeout = IF o.kind = "timeout" /\ o.n >= 0 THEN o.n ELSE cfg.timeout
<1>1. CASE o.kind = "timeout"
  <2>1. o.n >= 0
    <3>1. o.n \in Int /\ ~(o.n < 0)
      BY <1>1, OptionShape DEF OptionFails
    <3> QED BY <3>1
  <2>2. Configured(o) = [cfg EXCEPT !.timeout = o.n]
    BY <1>1 DEF Configured
  <2> QED BY <1>1, <2>1, <2>2 DEF TypeOK
<1>2. CASE o.kind \in {"apiKey", "baseURL", "model", "httpClient", "userAgent", "retry"}
  <2>1. Configured(o) = [cfg EXCEPT ![o.kind] = o.value]
    BY <1>2 DEF Configured
  <2> QED BY <1>2, <2>1 DEF TypeOK
<1>3. CASE o.kind \notin {"timeout", "apiKey", "baseURL", "model", "httpClient", "userAgent", "retry"}
  BY <1>3 DEF Configured
<1> QED BY <1>1, <1>2, <1>3

(* Applying an option keeps to the last of each kind.                      *)
LEMMA SettingsApply ==
    ASSUME TypeOK, SettingsInv, NEW o \in Options, ApplyOption(o), ~OptionFails(o)
    PROVE  SettingsInv'
<1>1. /\ applied' = Append(applied, o) /\ cfg' = Configured(o) /\ env' = env
      /\ heap' = IF SetsHeader(o) THEN [heap EXCEPT ![ConfigMap][o.name] = o.value] ELSE heap
  BY DEF ApplyOption
<1>13. applied \in Seq(Options)
  BY DEF TypeOK
<1>2. ASSUME NEW kind, NEW fromEnv
      PROVE  Documented(kind, fromEnv)' = IF o.kind = kind THEN o.value ELSE Documented(kind, fromEnv')
  BY <1>1, <1>13, SettingAppend DEF Documented
<1>3. TimeoutOf(applied', Defaults.timeout)
        = IF o.kind = "timeout" /\ o.n >= 0 THEN o.n ELSE TimeoutOf(applied, Defaults.timeout)
  BY <1>1, <1>13, TimeoutAppend
<1>4. ASSUME NEW name
      PROVE  HeaderOf(applied', name, "")
               = IF o.kind = "header" /\ o.name = name THEN o.value ELSE HeaderOf(applied, name, "")
  <2>1. ASSUME NEW d
        PROVE  HeaderOf(applied', name, d)
                 = IF o.kind = "header" /\ o.name = name THEN o.value ELSE HeaderOf(applied, name, d)
    BY <1>1, <1>13, HeaderAppend
  <2> QED BY <2>1
<1>5. heap'[ConfigMap] = OwnHeaders(HeaderOf(applied', "userAgent", ""),
                                    HeaderOf(applied', "sdk", ""),
                                    HeaderOf(applied', "custom", ""))
  <2> DEFINE own == heap[ConfigMap]
             agent == HeaderOf(applied, "userAgent", "")
             sdk == HeaderOf(applied, "sdk", "")
             custom == HeaderOf(applied, "custom", "")
  <2>1. own = OwnHeaders(agent, sdk, custom)
    BY DEF SettingsInv
  <2>2. heap'[ConfigMap] = IF SetsHeader(o) THEN [own EXCEPT ![o.name] = o.value] ELSE own
    BY <1>1, MapsIn DEF TypeOK
  <2>3. /\ SetsHeader(o) => o.kind = "header" /\ o.name \in {"userAgent", "sdk", "custom"}
        /\ o.kind = "header" /\ o.name \in {"userAgent", "sdk", "custom"} => SetsHeader(o)
    BY OptionShape
  <2> HIDE DEF own, agent, sdk, custom
  <2>4. CASE ~SetsHeader(o)
    <3>1. /\ HeaderOf(applied', "userAgent", "") = agent
          /\ HeaderOf(applied', "sdk", "") = sdk
          /\ HeaderOf(applied', "custom", "") = custom
      BY <1>4, <2>3, <2>4 DEF agent, sdk, custom
    <3> QED BY <2>1, <2>2, <2>4, <3>1
  <2>5. CASE SetsHeader(o)
    <3>1. /\ HeaderOf(applied', "userAgent", "") = IF o.name = "userAgent" THEN o.value ELSE agent
          /\ HeaderOf(applied', "sdk", "") = IF o.name = "sdk" THEN o.value ELSE sdk
          /\ HeaderOf(applied', "custom", "") = IF o.name = "custom" THEN o.value ELSE custom
      BY <1>4, <2>3, <2>5 DEF agent, sdk, custom
    <3>2. CASE o.name = "userAgent"
      <4>1. [OwnHeaders(agent, sdk, custom) EXCEPT !["userAgent"] = o.value] = OwnHeaders(o.value, sdk, custom)
        BY DEF OwnHeaders, NoHeaders
      <4> QED BY <2>1, <2>2, <2>5, <3>1, <3>2, <4>1
    <3>3. CASE o.name = "sdk"
      <4>1. [OwnHeaders(agent, sdk, custom) EXCEPT !["sdk"] = o.value] = OwnHeaders(agent, o.value, custom)
        BY DEF OwnHeaders, NoHeaders
      <4> QED BY <2>1, <2>2, <2>5, <3>1, <3>3, <4>1
    <3>4. CASE o.name = "custom"
      <4>1. [OwnHeaders(agent, sdk, custom) EXCEPT !["custom"] = o.value] = OwnHeaders(agent, sdk, o.value)
        BY DEF OwnHeaders, NoHeaders
      <4> QED BY <2>1, <2>2, <2>5, <3>1, <3>4, <4>1
    <3> QED BY <2>3, <2>5, <3>2, <3>3, <3>4
  <2> QED BY <2>4, <2>5
<1>6. \A k \in {"apiKey", "baseURL", "model", "httpClient", "userAgent", "retry"} :
          cfg'[k] = IF o.kind = k THEN o.value ELSE cfg[k]
  BY <1>1, ConfiguredIs
<1>7. /\ cfg'.apiKey = Documented("apiKey", env.apiKey)'
      /\ cfg'.baseURL = Documented("baseURL", env.baseURL)'
      /\ cfg'.model = Documented("model", env.model)'
      /\ cfg'.userAgent = Documented("userAgent", "")'
      /\ cfg'.httpClient = Documented("httpClient", "")'
      /\ cfg'.retry = Documented("retry", "")'
  BY <1>1, <1>2, <1>6 DEF SettingsInv
<1>8. cfg'.timeout = TimeoutOf(applied', Defaults.timeout)
  <2>1. cfg'.timeout = IF o.kind = "timeout" /\ o.n >= 0 THEN o.n ELSE cfg.timeout
    BY <1>1, ConfiguredIs
  <2> QED BY <1>3, <2>1 DEF SettingsInv
<1>9. \A i \in 1..Len(applied') : applied'[i] = o \/ \E j \in 1..Len(applied) : applied'[i] = applied[j]
  BY <1>1, <1>13
<1>10. \A i \in 1..Len(applied') : ~OptionFails(applied'[i])
  BY <1>9 DEF SettingsInv
<1>11. cfg'.model \notin {"", NoBody}
  <2>1. o.value # NoBody
    BY ClientAssumption
  <2> QED BY <1>6, <2>1 DEF SettingsInv, OptionFails
<1>12. (\E i \in 1..Len(applied') : applied'[i].kind = "baseURL") => Usable(cfg'.baseURL)
  <2>1. CASE o.kind = "baseURL"
    BY <1>6, <2>1 DEF OptionFails
  <2>2. CASE o.kind # "baseURL"
    BY <1>6, <1>9, <2>2 DEF SettingsInv
  <2> QED BY <2>1, <2>2
<1> QED BY <1>5, <1>7, <1>8, <1>10, <1>11, <1>12 DEF SettingsInv, OptionFails, Usable

-----------------------------------------------------------------------------
(* The headers of calls.                                                   *)

(* ExpectedHeaders, of the arguments of the call. *)
Wanted(args, n, cookies) ==
    LET Wish(name) == HeaderOf(args.opts, name, HeaderOf(applied, name, ""))
    IN  [authorization |-> Documented("apiKey", env.apiKey),
         contentType |-> IF args.request = ListModels THEN "" ELSE "json",
         userAgent |-> EnvOr(Documented("userAgent", ""), EnvOr(Wish("userAgent"), SDKVersion)),
         sdk |-> SDKVersion,
         custom |-> Wish("custom"),
         retryCount |-> n,
         cookie |-> cookies]

(* The headers an attempt should have depend on its call's arguments only. *)
LEMMA ExpectedIs ==
    \A c, n, k : ExpectedHeaders(c, n, k) = Wanted(call[c].args, n, k)
BY DEF ExpectedHeaders, Wanted, Asked

(* The map a call starts with holds what its options and the client's ask  *)
(* for.                                                                    *)
LEMMA CallHeadersWanted ==
    ASSUME TypeOK, SettingsInv, NEW args \in Arguments
    PROVE  CallHeaders(ResolveCall(args.opts).headers, Body(args.request)) = Wanted(args, 0, 0)
<1> DEFINE own == heap[ConfigMap]
           agent == HeaderOf(args.opts, "userAgent", "")
           sdk == HeaderOf(args.opts, "sdk", "")
           custom == HeaderOf(args.opts, "custom", "")
           body == Body(args.request)
           Wish(name) == HeaderOf(args.opts, name, HeaderOf(applied, name, ""))
<1>1. args.opts \in Seq(CallOptions) /\ args.request # NoBody
  BY ClientAssumption
<1>2. ResolveCall(args.opts).headers = OwnHeaders(agent, sdk, custom)
  BY <1>1, ResolveCallSettings
<1>3. /\ own.userAgent = HeaderOf(applied, "userAgent", "") /\ own.custom = HeaderOf(applied, "custom", "")
      /\ own.contentType = "" /\ own.retryCount = 0 /\ own.cookie = 0
  <2>1. own = OwnHeaders(HeaderOf(applied, "userAgent", ""), HeaderOf(applied, "sdk", ""),
                         HeaderOf(applied, "custom", ""))
    BY DEF SettingsInv
  <2> HIDE DEF own
  <2> QED BY <2>1 DEF OwnHeaders, NoHeaders
<1>4. CallHeaders(OwnHeaders(agent, sdk, custom), body) =
          [authorization |-> cfg.apiKey,
           contentType |-> IF body = NoBody THEN own.contentType ELSE "json",
           userAgent |-> UserAgent(EnvOr(cfg.userAgent, EnvOr(agent, own.userAgent))),
           sdk |-> SDKVersion,
           custom |-> EnvOr(custom, own.custom),
           retryCount |-> own.retryCount,
           cookie |-> own.cookie]
  <2> HIDE DEF agent, sdk, custom, body
  <2> QED BY CallHeadersAre
<1>5. body = NoBody <=> args.request = ListModels
  BY <1>1 DEF Body, EnvOr, SettingsInv
<1>6. ASSUME NEW name
      PROVE  Wish(name) = EnvOr(HeaderOf(args.opts, name, ""), HeaderOf(applied, name, ""))
  BY <1>1, HeaderOrDefault
<1>7. Wish("userAgent") = EnvOr(agent, own.userAgent) /\ Wish("custom") = EnvOr(custom, own.custom)
  BY <1>3, <1>6
<1>8. ASSUME NEW x, NEW y, NEW z
      PROVE  UserAgent(EnvOr(x, y)) = EnvOr(x, EnvOr(y, SDKVersion))
  BY DEF UserAgent, EnvOr
<1>9. cfg.apiKey = Documented("apiKey", env.apiKey) /\ cfg.userAgent = Documented("userAgent", "")
  BY DEF SettingsInv
<1> HIDE DEF own, agent, sdk, custom, body, Wish
<1>10. /\ (IF body = NoBody THEN own.contentType ELSE "json")
              = (IF args.request = ListModels THEN "" ELSE "json")
       /\ UserAgent(EnvOr(cfg.userAgent, EnvOr(agent, own.userAgent)))
              = EnvOr(Documented("userAgent", ""), EnvOr(Wish("userAgent"), SDKVersion))
  BY <1>3, <1>5, <1>7, <1>8, <1>9
<1>11. Wanted(args, 0, 0) =
           [authorization |-> Documented("apiKey", env.apiKey),
            contentType |-> IF args.request = ListModels THEN "" ELSE "json",
            userAgent |-> EnvOr(Documented("userAgent", ""), EnvOr(Wish("userAgent"), SDKVersion)),
            sdk |-> SDKVersion, custom |-> Wish("custom"), retryCount |-> 0, cookie |-> 0]
  BY DEF Wanted, Wish
<1> QED BY <1>2, <1>3, <1>4, <1>7, <1>9, <1>10, <1>11 DEF body

(* What an attempt makes of the call's headers. *)
LEMMA WantedStep ==
    ASSUME NEW args, NEW n, NEW k
    PROVE  /\ [Wanted(args, 0, 0) EXCEPT !.retryCount = n] = Wanted(args, n, 0)
           /\ [Wanted(args, n, 0) EXCEPT !.cookie = k] = Wanted(args, n, k)
           /\ Wanted(args, n, 0).cookie = 0
<1> DEFINE a == Documented("apiKey", env.apiKey)
           t == IF args.request = ListModels THEN "" ELSE "json"
           Wish(name) == HeaderOf(args.opts, name, HeaderOf(applied, name, ""))
           u == EnvOr(Documented("userAgent", ""), EnvOr(Wish("userAgent"), SDKVersion))
           c == Wish("custom")
<1>1. ASSUME NEW i, NEW j
      PROVE  Wanted(args, i, j) = [authorization |-> a, contentType |-> t, userAgent |-> u,
                                   sdk |-> SDKVersion, custom |-> c, retryCount |-> i, cookie |-> j]
  BY DEF Wanted
<1> HIDE DEF a, t, u, c
<1> QED BY <1>1

-----------------------------------------------------------------------------
(* Steps.                                                                  *)

(* SettingsInv reads nothing but these.                                    *)
LEMMA SettingsFrame ==
    ASSUME SettingsInv, UNCHANGED <<env, cfg, applied>>, heap'[ConfigMap] = heap[ConfigMap]
    PROVE  SettingsInv'
BY DEF SettingsInv, Documented, OptionFails, Usable

(* Nor do the headers that are wanted.                                     *)
LEMMA WantedFrame ==
    ASSUME UNCHANGED <<env, applied>>, NEW args, NEW n, NEW k
    PROVE  Wanted(args, n, k)' = Wanted(args, n, k)
BY DEF Wanted, Documented

CallSteps(c) ==
    \/ StartCall(c) \/ StartAttempt(c) \/ HandToTransport(c) \/ NextAttempt(c) \/ FinishCall(c)
    \/ \E n \in 0..MaxAttempts - 1 : WriteRequest(c, n)

(* No step of a call touches the configuration. *)
LEMMA CallsKeepConfig ==
    ASSUME TypeOK, NEW c \in Calls, CallSteps(c)
    PROVE  UNCHANGED <<phase, env, cfg, applied>> /\ heap'[ConfigMap] = heap[ConfigMap]
<1>1. \A n : ConfigMap # AttemptMap(c, n) /\ ConfigMap # CallMap(c)
  BY MapsDiffer
<1>2. CASE StartCall(c)
  BY <1>1, <1>2, MapsIn DEF StartCall, HeaderMap, building, TypeOK
<1>3. CASE StartAttempt(c)
  BY <1>1, <1>3, MapsIn DEF StartAttempt, RequestMap, building, TypeOK
<1>4. CASE HandToTransport(c)
  BY <1>1, <1>4, MapsIn DEF HandToTransport, RequestMap, building, TypeOK
<1>5. CASE NextAttempt(c) \/ FinishCall(c) \/ \E n \in 0..MaxAttempts - 1 : WriteRequest(c, n)
  BY <1>5 DEF NextAttempt, FinishCall, WriteRequest, building
<1> QED BY <1>2, <1>3, <1>4, <1>5 DEF CallSteps

(* New keeps to the last option of each kind, and nothing changes them     *)
(* after it.                                                               *)
LEMMA ConfigStep == TypeOK /\ Inv /\ [Next]_vars => ConfigInv'
<1> SUFFICES ASSUME TypeOK, Inv, [Next]_vars PROVE ConfigInv'
  OBVIOUS
<1> USE DEF Inv
<1>1. ASSUME NEW o \in Options, ApplyOption(o) PROVE ConfigInv'
  <2>1. CASE OptionFails(o)
    BY <1>1, <2>1 DEF ApplyOption, NewFails, ConfigInv
  <2>2. CASE ~OptionFails(o)
    <3>1. phase = "new" /\ phase' = "new"
      BY <1>1, <2>2 DEF ApplyOption
    <3> QED BY <1>1, <2>2, <3>1, SettingsApply DEF ConfigInv
  <2> QED BY <2>1, <2>2
<1>2. CASE FinishNew
  <2>1. CASE FinalError # "none" /\ NewFails(FinalError)
    BY <2>1 DEF NewFails, ConfigInv
  <2>2. CASE FinalError = "none" /\ phase' = "ready" /\ UNCHANGED <<cfg, newErr, heap>>
    <3>1. SettingsInv'
      BY <1>2, <2>2, SettingsFrame DEF FinishNew, ConfigInv, building
    <3> QED BY <2>2, <3>1 DEF ConfigInv, FinalError, Usable
  <2> QED BY <1>2, <2>1, <2>2 DEF FinishNew
<1>3. ASSUME UNCHANGED <<phase, env, cfg, applied>>, heap'[ConfigMap] = heap[ConfigMap] PROVE ConfigInv'
  BY <1>3, SettingsFrame DEF ConfigInv, FinalError, Usable
<1>4. CASE CallerEditsStatuses
  BY <1>3, <1>4 DEF CallerEditsStatuses, building
<1>5. ASSUME NEW c \in Calls, CallSteps(c) PROVE ConfigInv'
  BY <1>3, <1>5, CallsKeepConfig
<1>6. CASE UNCHANGED vars
  BY <1>3, <1>6 DEF vars, building
<1> QED BY <1>1, <1>2, <1>4, <1>5, <1>6 DEF Next, CallSteps

(* Nothing but the arguments of a call decides which headers it should     *)
(* have.                                                                   *)
LEMMA ExpectedFrame ==
    ASSUME UNCHANGED <<env, applied>>, NEW c, call'[c].args = call[c].args, NEW n, NEW k
    PROVE  ExpectedHeaders(c, n, k)' = ExpectedHeaders(c, n, k)
BY DEF ExpectedHeaders, Asked, Documented

(* A call of which a step leaves alone what CallInv is about. *)
LEMMA CallFrame ==
    ASSUME NEW c \in Calls, CallInv(c), UNCHANGED <<phase, env, cfg, applied>>,
           \A f \in {"args", "timeout", "retry", "body"} : call'[c][f] = call[c][f],
           call'[c].at # "idle" => call[c].at # "idle",
           heap'[CallMap(c)] = heap[CallMap(c)]
    PROVE  CallInv(c)'
<1> SUFFICES ASSUME call'[c].at # "idle" PROVE CallInv(c)'
  BY DEF CallInv
<1>1. ExpectedHeaders(c, 0, 0)' = ExpectedHeaders(c, 0, 0)
  BY ExpectedFrame
<1>2. Body(call[c].args.request)' = Body(call[c].args.request)
  BY DEF Body
<1> QED BY <1>1, <1>2 DEF CallInv, Body

(* An attempt of which a step leaves alone what AttemptInv is about.       *)
LEMMA AttemptFrame ==
    ASSUME NEW c \in Calls, NEW n, AttemptInv(c, n), UNCHANGED <<env, applied>>,
           call'[c].args = call[c].args, call'[c].body = call[c].body,
           Started(c, n)' <=> Started(c, n), Written(c, n)' <=> Written(c, n),
           Started(c, n) => call'[c].at # "idle",
           n = call'[c].n /\ call'[c].at = "sending" => n = call[c].n /\ call[c].at = "sending",
           heap'[AttemptMap(c, n)] = heap[AttemptMap(c, n)],
           reader'[<<c, n>>] = reader[<<c, n>>]
    PROVE  AttemptInv(c, n)'
<1>1. /\ ExpectedHeaders(c, n, 0)' = ExpectedHeaders(c, n, 0)
      /\ ExpectedHeaders(c, n, 1)' = ExpectedHeaders(c, n, 1)
  BY ExpectedFrame
<1> HIDE DEF Started, Written
<1> QED BY <1>1 DEF AttemptInv, AttemptMap

(* While New is at work, no call has started. *)
LEMMA QuietBefore ==
    ASSUME TypeOK, Inv, phase # "ready", UNCHANGED <<call, wire>>
    PROVE  \A c \in Calls : CallInv(c)' /\ \A n \in 0..MaxAttempts - 1 : AttemptInv(c, n)'
<1> SUFFICES ASSUME NEW c \in Calls, NEW n \in 0..MaxAttempts - 1
             PROVE  CallInv(c)' /\ AttemptInv(c, n)'
  BY AttemptNumbers
<1>1. call[c].at = "idle" /\ call'[c].at = "idle"
  BY DEF Inv, CallInv
<1>2. ~Started(c, n) /\ ~Written(c, n)
  BY <1>1 DEF Inv, AttemptInv
<1>3. (Started(c, n)' <=> Started(c, n)) /\ (Written(c, n)' <=> Written(c, n))
  BY DEF Started, Written
<1> HIDE DEF Started, Written
<1> QED BY <1>1, <1>2, <1>3 DEF CallInv, AttemptInv

(* A step of one call keeps what every call has.                           *)
LEMMA CallStep ==
    ASSUME TypeOK, Inv, NEW c \in Calls, CallSteps(c), NEW d \in Calls
    PROVE  CallInv(d)'
<1>1. UNCHANGED <<phase, env, cfg, applied>>
  BY CallsKeepConfig
<1>2. /\ ConfigMap # CallMap(d) /\ \A n : CallMap(d) # AttemptMap(c, n)
      /\ c # d => CallMap(c) # CallMap(d)
  BY MapsDiffer
<1>3. CallInv(d)
  BY DEF Inv
<1>4. CASE StartCall(c) /\ c # d
  <2>1. heap'[CallMap(d)] = heap[CallMap(d)] /\ call'[d] = call[d]
    BY <1>2, <1>4, MapsIn DEF StartCall, HeaderMap, TypeOK
  <2> QED BY <1>1, <1>3, <2>1, CallFrame
<1>5. CASE StartCall(c) /\ c = d
  <2> PICK args \in Arguments :
         /\ call' = [call EXCEPT ![c] = [at |-> "loop", args |-> args,
                                         timeout |-> ResolveCall(args.opts).timeout,
                                         retry |-> ResolveCall(args.opts).retry,
                                         body |-> Body(args.request), n |-> 0]]
         /\ heap' = [heap EXCEPT ![CallMap(c)] =
                         CallHeaders(ResolveCall(args.opts).headers, Body(args.request))]
    BY <1>5 DEF StartCall, HeaderMap
  <2>1. phase = "ready" /\ SettingsInv
    BY <1>5 DEF StartCall, Inv, ConfigInv
  <2>2. args.opts \in Seq(CallOptions)
    BY ClientAssumption
  <2>3. /\ ResolveCall(args.opts).timeout = TimeoutOf(args.opts, cfg.timeout)
        /\ ResolveCall(args.opts).retry = SettingOf(args.opts, "retry", cfg.retry)
    BY <2>2, ResolveCallSettings
  <2>4. /\ call'[c].args = args /\ call'[c].body = Body(args.request)
        /\ call'[c].timeout = TimeoutOf(args.opts, cfg.timeout)
        /\ call'[c].retry = SettingOf(args.opts, "retry", cfg.retry)
    BY <2>3 DEF TypeOK
  <2>5. heap'[CallMap(c)] = Wanted(args, 0, 0)
    BY <2>1, CallHeadersWanted, MapsIn DEF TypeOK
  <2>6. ExpectedHeaders(c, 0, 0)' = Wanted(args, 0, 0)
    BY <1>1, <2>4 DEF ExpectedHeaders, Asked, Wanted, Documented
  <2>7. Body(args.request)' = Body(args.request)
    BY <1>1 DEF Body
  <2> QED BY <1>1, <1>5, <2>1, <2>4, <2>5, <2>6, <2>7 DEF CallInv, Body
<1>6. CASE StartAttempt(c)
  <2>1. heap'[CallMap(d)] = heap[CallMap(d)]
    BY <1>2, <1>6, MapsIn DEF StartAttempt, RequestMap, TypeOK
  <2>2. /\ \A f \in {"args", "timeout", "retry", "body"} : call'[d][f] = call[d][f]
        /\ call'[d].at # "idle" => call[d].at # "idle"
    BY <1>6 DEF StartAttempt, TypeOK
  <2> QED BY <1>1, <1>3, <2>1, <2>2, CallFrame
<1>7. CASE HandToTransport(c)
  <2>1. heap'[CallMap(d)] = heap[CallMap(d)]
    BY <1>2, <1>7, MapsIn DEF HandToTransport, RequestMap, TypeOK
  <2>2. /\ \A f \in {"args", "timeout", "retry", "body"} : call'[d][f] = call[d][f]
        /\ call'[d].at # "idle" => call[d].at # "idle"
    BY <1>7 DEF HandToTransport, TypeOK
  <2> QED BY <1>1, <1>3, <2>1, <2>2, CallFrame
<1>8. CASE NextAttempt(c) \/ FinishCall(c) \/ \E n \in 0..MaxAttempts - 1 : WriteRequest(c, n)
  <2>1. /\ \A f \in {"args", "timeout", "retry", "body"} : call'[d][f] = call[d][f]
        /\ call'[d].at # "idle" => call[d].at # "idle"
        /\ heap' = heap
    BY <1>8 DEF NextAttempt, FinishCall, WriteRequest, TypeOK
  <2> QED BY <1>1, <1>3, <2>1, CallFrame
<1> QED BY <1>4, <1>5, <1>6, <1>7, <1>8 DEF CallSteps

(* A step of one call keeps what every attempt of every call has.          *)
LEMMA AttemptStep ==
    ASSUME TypeOK, Inv, NEW c \in Calls, CallSteps(c),
           NEW d \in Calls, NEW m \in 0..MaxAttempts - 1
    PROVE  AttemptInv(d, m)'
<1>1. UNCHANGED <<phase, env, cfg, applied>>
  BY CallsKeepConfig
<1>2. /\ \A n : AttemptMap(d, m) # CallMap(c)
      /\ \A n : AttemptMap(c, n) = AttemptMap(d, m) => c = d /\ n = m
  BY MapsDiffer
<1>3. AttemptInv(d, m) /\ (Started(d, m) => call[d].at # "idle")
  BY DEF Inv, AttemptInv
<1>4. /\ m \in Nat /\ call[c].n \in Nat /\ call[c].n \in 0..MaxAttempts - 1 /\ 0 \in 0..MaxAttempts - 1
      /\ call[d].n \in Nat
  BY AttemptNumbers DEF TypeOK
<1>5. /\ AttemptMap(c, call[c].n) \in Maps /\ CallMap(c) \in Maps
      /\ AttemptMap(d, m) \in Maps
  BY <1>4, MapsIn
(* Steps of other calls. *)
<1>6. CASE c # d
  <2>1. call'[d] = call[d]
    BY <1>6 DEF CallSteps, StartCall, StartAttempt, HandToTransport, NextAttempt, FinishCall,
                WriteRequest, TypeOK
  <2>2. heap'[AttemptMap(d, m)] = heap[AttemptMap(d, m)]
    BY <1>2, <1>5, <1>6 DEF CallSteps, StartCall, StartAttempt, HandToTransport, NextAttempt, FinishCall,
                WriteRequest, TypeOK, HeaderMap, RequestMap
  <2>3. reader'[<<d, m>>] = reader[<<d, m>>]
    BY <1>6 DEF CallSteps, StartCall, StartAttempt, HandToTransport, NextAttempt, FinishCall,
                WriteRequest, TypeOK, BodyReader, Readers
  <2>4. Written(d, m)' <=> Written(d, m)
    BY <1>6 DEF CallSteps, StartCall, StartAttempt, HandToTransport, NextAttempt, FinishCall,
                WriteRequest, Written
  <2>5. Started(d, m)' <=> Started(d, m)
    BY <2>1 DEF Started
  <2> QED BY <1>1, <1>3, <2>1, <2>2, <2>3, <2>4, <2>5, AttemptFrame
<1>7. CASE c = d /\ StartCall(c)
  <2>1. call[c].at = "idle" /\ call'[c].at = "loop" /\ call'[c].n = 0 /\ wire' = wire
    BY <1>7 DEF StartCall, TypeOK
  <2>2. ~Started(c, m) /\ ~Written(c, m)
    BY <1>3, <1>7, <2>1 DEF AttemptInv
  <2>3. ~Started(c, m)' /\ ~Written(c, m)'
    <3>1. ~(m < 0)
      BY <1>4
    <3> QED BY <2>1, <2>2, <3>1 DEF Started, Written
  <2> HIDE DEF Started, Written
  <2> QED BY <1>7, <2>1, <2>3 DEF AttemptInv
<1>8. CASE c = d /\ StartAttempt(c)
  <2> DEFINE n == call[c].n
             h == heap[CallMap(c)]
  <2>1. /\ call[c].at = "loop"
        /\ reader' = [reader EXCEPT ![<<c, n>>] = call[c].body]
        /\ heap' = [heap EXCEPT ![AttemptMap(c, n)] = IF n > 0 THEN [h EXCEPT !.retryCount = n] ELSE h]
        /\ call' = [call EXCEPT ![c].at = "sending"] /\ wire' = wire
    BY <1>8 DEF StartAttempt, BodyReader, HeaderMap, RequestMap
  <2>2. /\ call'[c].at = "sending" /\ call'[c].n = n
        /\ call'[c].args = call[c].args /\ call'[c].body = call[c].body
    BY <2>1 DEF TypeOK
  <2>3. Written(c, m)' <=> Written(c, m)
    BY <2>1 DEF Written
  <2>4. CASE m # n
    <3>1. (Started(c, m)' <=> Started(c, m)) /\ call'[c].at # "idle"
      BY <2>1, <2>2, <2>4 DEF Started
    <3>2. heap'[AttemptMap(c, m)] = heap[AttemptMap(c, m)] /\ reader'[<<c, m>>] = reader[<<c, m>>]
      <4>1. AttemptMap(c, m) # AttemptMap(c, n) /\ <<c, m>> # <<c, n>>
        BY <1>2, <1>8, <2>4
      <4>2. heap'[AttemptMap(c, m)] = heap[AttemptMap(c, m)]
        BY <1>5, <1>8, <2>1, <4>1 DEF TypeOK
      <4>3. reader'[<<c, m>>] = reader[<<c, m>>]
        BY <2>1, <4>1 DEF TypeOK, Readers
      <4> QED BY <4>2, <4>3
    <3> QED BY <1>1, <1>3, <1>8, <2>2, <2>3, <2>4, <3>1, <3>2, AttemptFrame
  <2>5. CASE m = n
    <3>1. h = Wanted(call[c].args, 0, 0)
      BY <2>1, ExpectedIs DEF Inv, CallInv
    <3>2. heap'[AttemptMap(c, m)] = Wanted(call[c].args, m, 0)
      <4>1. heap'[AttemptMap(c, m)] = IF m > 0 THEN [h EXCEPT !.retryCount = m] ELSE h
        BY <1>5, <2>1, <2>5 DEF TypeOK
      <4>2. CASE m > 0
        BY <3>1, <4>1, <4>2, WantedStep
      <4>3. CASE m = 0
        BY <3>1, <4>1, <4>3
      <4> QED BY <1>4, <4>2, <4>3
    <3>3. reader'[<<c, m>>] = call[c].body
      BY <1>4, <2>1, <2>5 DEF TypeOK, Readers
    <3>4. ExpectedHeaders(c, m, 0)' = Wanted(call[c].args, m, 0)
      BY <1>1, <2>2, ExpectedFrame, ExpectedIs
    <3>5. ~Written(c, m) /\ Started(c, m)'
      <4>1. ~Started(c, m)
        BY <1>4, <2>1, <2>5 DEF Started
      <4>2. Started(c, m)'
        BY <2>2, <2>5 DEF Started
      <4> HIDE DEF Started, Written
      <4> QED BY <1>3, <1>8, <4>1, <4>2 DEF AttemptInv
    <3> HIDE DEF Started, Written, n, h
    <3> QED BY <1>8, <2>2, <2>3, <3>2, <3>3, <3>4, <3>5 DEF AttemptInv, AttemptMap
  <2> QED BY <2>4, <2>5
<1>9. CASE c = d /\ HandToTransport(c)
  <2> DEFINE n == call[c].n
  <2>1. PICK added \in {0, 1} :
          /\ call[c].at = "sending"
          /\ heap' = [heap EXCEPT ![AttemptMap(c, n)].cookie = @ + added]
          /\ call' = [call EXCEPT ![c].at = "inflight"] /\ reader' = reader /\ wire' = wire
    BY <1>9 DEF HandToTransport, RequestMap
  <2>2. /\ call'[c].at = "inflight" /\ call'[c].n = n
        /\ call'[c].args = call[c].args /\ call'[c].body = call[c].body
    BY <2>1 DEF TypeOK
  <2>3. (Written(c, m)' <=> Written(c, m)) /\ (Started(c, m)' <=> Started(c, m))
    BY <2>1, <2>2 DEF Written, Started
  <2>4. CASE m # n
    <3>1. heap'[AttemptMap(c, m)] = heap[AttemptMap(c, m)]
      BY <1>2, <1>5, <1>9, <2>1, <2>4 DEF TypeOK
    <3> QED BY <1>1, <1>3, <1>9, <2>1, <2>2, <2>3, <3>1, AttemptFrame
  <2>5. CASE m = n
    <3>1. heap[AttemptMap(c, m)] = Wanted(call[c].args, m, 0) /\ Started(c, m)
      BY <1>3, <1>9, <2>1, <2>5, ExpectedIs DEF AttemptInv, Started
    <3>2. heap'[AttemptMap(c, m)] = [heap[AttemptMap(c, m)] EXCEPT !.cookie = @ + added]
      BY <1>5, <2>1, <2>5 DEF TypeOK
    <3>3. Wanted(call[c].args, m, 0).cookie + added = added
      BY WantedStep
    <3>4. heap'[AttemptMap(c, m)] = Wanted(call[c].args, m, added)
      BY <3>1, <3>2, <3>3, WantedStep
    <3>5. \A k : ExpectedHeaders(c, m, k)' = Wanted(call[c].args, m, k)
      BY <1>1, <2>2, ExpectedFrame, ExpectedIs
    <3> HIDE DEF Started, Written, n
    <3> QED BY <1>3, <1>9, <2>1, <2>2, <2>3, <3>1, <3>4, <3>5 DEF AttemptInv, AttemptMap
  <2> QED BY <2>4, <2>5
<1>10. ASSUME NEW n \in 0..MaxAttempts - 1, c = d, WriteRequest(c, n) PROVE AttemptInv(d, m)'
  <2>1. /\ Started(c, n)
        /\ wire' = wire \cup {[call |-> c, n |-> n, headers |-> heap[AttemptMap(c, n)],
                               body |-> reader[<<c, n>>]]}
        /\ reader' = [reader EXCEPT ![<<c, n>>] = NoBody]
        /\ call' = call /\ heap' = heap
    BY <1>10 DEF WriteRequest, RequestMap, BodyReader, Started
  <2>2. Started(c, m)' <=> Started(c, m)
    BY <2>1 DEF Started
  <2>3. CASE m # n
    <3>1. Written(c, m)' <=> Written(c, m)
      BY <2>1, <2>3 DEF Written
    <3>2. reader'[<<c, m>>] = reader[<<c, m>>]
      BY <1>10, <2>1, <2>3 DEF TypeOK, Readers
    <3> HIDE DEF Started, Written
    <3> QED BY <1>1, <1>3, <1>10, <2>1, <2>2, <3>1, <3>2, AttemptFrame
  <2>4. CASE m = n
    <3>1. Written(c, m)'
      <4> DEFINE w == [call |-> c, n |-> n, headers |-> heap[AttemptMap(c, n)],
                       body |-> reader[<<c, n>>]]
      <4>1. w.call = c /\ w.n = n
        OBVIOUS
      <4>2. w \in wire'
        BY <2>1
      <4> HIDE DEF w
      <4> QED BY <2>4, <4>1, <4>2 DEF Written
    <3>2. /\ ExpectedHeaders(c, m, 0)' = ExpectedHeaders(c, m, 0)
          /\ ExpectedHeaders(c, m, 1)' = ExpectedHeaders(c, m, 1)
      BY <1>1, <2>1, ExpectedFrame
    <3> HIDE DEF Started, Written
    <3> QED BY <1>3, <1>10, <2>1, <2>2, <2>4, <3>1, <3>2 DEF AttemptInv, AttemptMap
  <2> QED BY <2>3, <2>4
<1>11. CASE c = d /\ (NextAttempt(c) \/ FinishCall(c))
  <2>1. /\ call[c].at = "inflight"
        /\ \/ call'[c].at = "loop" /\ call'[c].n = call[c].n + 1
           \/ call'[c].at = "done" /\ call'[c].n = call[c].n
        /\ call'[c].args = call[c].args /\ call'[c].body = call[c].body
        /\ heap' = heap /\ reader' = reader /\ wire' = wire
    BY <1>11 DEF NextAttempt, FinishCall, TypeOK
  <2>2. Started(c, m)' <=> Started(c, m)
    BY <1>4, <2>1 DEF Started
  <2>3. Written(c, m)' <=> Written(c, m)
    BY <2>1 DEF Written
  <2>4. call'[c].at \notin {"idle", "sending"}
    BY <2>1
  <2> HIDE DEF Started, Written
  <2> QED BY <1>1, <1>3, <1>11, <2>1, <2>2, <2>3, <2>4, AttemptFrame
<1> QED BY <1>6, <1>7, <1>8, <1>9, <1>10, <1>11 DEF CallSteps

(* No step changes the arguments or the body of a call that was started.   *)
LEMMA CallsKeepArgs ==
    ASSUME TypeOK, NEW c \in Calls, CallSteps(c)
    PROVE  \A d \in Calls : call[d].at # "idle" =>
               call'[d].args = call[d].args /\ call'[d].body = call[d].body
<1>1. CASE StartCall(c)
  BY <1>1 DEF StartCall, TypeOK
<1>2. ASSUME NEW at, call' = [call EXCEPT ![c].at = at]
      PROVE  \A d \in Calls : call'[d].args = call[d].args /\ call'[d].body = call[d].body
  BY <1>2 DEF TypeOK
<1>3. CASE StartAttempt(c) \/ HandToTransport(c) \/ FinishCall(c)
  BY <1>2, <1>3 DEF StartAttempt, HandToTransport, FinishCall
<1>4. CASE NextAttempt(c)
  BY <1>4 DEF NextAttempt, TypeOK
<1>5. CASE \E n \in 0..MaxAttempts - 1 : WriteRequest(c, n)
  BY <1>5 DEF WriteRequest
<1> QED BY <1>1, <1>3, <1>4, <1>5 DEF CallSteps

(* A request written, then or earlier, has the headers and body of its     *)
(* call.                                                                   *)
LEMMA WrittenStep ==
    ASSUME TypeOK, Inv, NEW c \in Calls, CallSteps(c)
    PROVE  WrittenInv'
<1>1. UNCHANGED <<phase, env, cfg, applied>>
  BY CallsKeepConfig
<1>2. \A w \in wire : w.call \in Calls /\ call[w.call].at # "idle"
  <2> SUFFICES ASSUME NEW w \in wire PROVE w.call \in Calls /\ call[w.call].at # "idle"
    OBVIOUS
  <2>1. w.call \in Calls /\ w.n \in 0..MaxAttempts - 1
    BY DEF TypeOK
  <2>2. Written(w.call, w.n)
    BY DEF Written
  <2> HIDE DEF Written, Started
  <2> QED BY <2>1, <2>2 DEF Inv, AttemptInv
<1>3. ASSUME NEW w \in wire
      PROVE  call'[w.call].args = call[w.call].args /\ call'[w.call].body = call[w.call].body
  <2>1. w.call \in Calls /\ call[w.call].at # "idle"
    BY <1>2
  <2> QED BY <2>1, CallsKeepArgs
<1>4. ASSUME NEW w \in wire
      PROVE  /\ w.headers \in {ExpectedHeaders(w.call, w.n, 0)', ExpectedHeaders(w.call, w.n, 1)'}
             /\ w.body = call'[w.call].body
  <2>1. /\ ExpectedHeaders(w.call, w.n, 0)' = ExpectedHeaders(w.call, w.n, 0)
        /\ ExpectedHeaders(w.call, w.n, 1)' = ExpectedHeaders(w.call, w.n, 1)
    BY <1>1, <1>3, ExpectedFrame
  <2> QED BY <1>3, <2>1 DEF Inv, WrittenInv
<1>5. CASE wire' = wire
  BY <1>4, <1>5 DEF WrittenInv
<1>6. ASSUME NEW n \in 0..MaxAttempts - 1, WriteRequest(c, n) PROVE WrittenInv'
  <2> PICK new : new = [call |-> c, n |-> n, headers |-> heap[AttemptMap(c, n)],
                        body |-> reader[<<c, n>>]]
    OBVIOUS
  <2>1. /\ Started(c, n) /\ ~Written(c, n)
        /\ wire' = wire \cup {new} /\ call' = call
    BY <1>6 DEF WriteRequest, RequestMap, BodyReader, Started, Written
  <2>2. AttemptInv(c, n)
    BY DEF Inv
  <2>3. /\ heap[AttemptMap(c, n)] \in {ExpectedHeaders(c, n, 0), ExpectedHeaders(c, n, 1)}
        /\ reader[<<c, n>>] = call[c].body
    <3> HIDE DEF Started, Written
    <3> QED BY <2>1, <2>2 DEF AttemptInv
  <2>4. /\ ExpectedHeaders(c, n, 0)' = ExpectedHeaders(c, n, 0)
        /\ ExpectedHeaders(c, n, 1)' = ExpectedHeaders(c, n, 1)
    BY <1>1, <2>1, ExpectedFrame
  <2>5. new.call = c /\ new.n = n /\ new.headers = heap[AttemptMap(c, n)] /\ new.body = reader[<<c, n>>]
    OBVIOUS
  <2>6. /\ new.headers \in {ExpectedHeaders(new.call, new.n, 0)', ExpectedHeaders(new.call, new.n, 1)'}
        /\ new.body = call'[new.call].body
    BY <2>1, <2>3, <2>4, <2>5
  <2> QED BY <1>4, <2>1, <2>6 DEF WrittenInv
<1> QED BY <1>5, <1>6 DEF CallSteps, StartCall, StartAttempt, HandToTransport, NextAttempt, FinishCall

-----------------------------------------------------------------------------
(* Theorems.                                                               *)

LEMMA InvInit == Init => Inv
<1> SUFFICES ASSUME Init PROVE Inv
  OBVIOUS
<1>1. ConfigInv
  BY SettingsInit DEF Init, ConfigInv
<1>2. ASSUME NEW c \in Calls, NEW n \in 0..MaxAttempts - 1 PROVE CallInv(c) /\ AttemptInv(c, n)
  <2>1. call[c].at = "idle" /\ call[c].n = 0 /\ n \in Nat /\ wire = {}
    BY AttemptNumbers DEF Init, Idle
  <2>2. ~Started(c, n) /\ ~Written(c, n)
    BY <2>1 DEF Started, Written
  <2> HIDE DEF Started, Written
  <2> QED BY <2>1, <2>2 DEF CallInv, AttemptInv
<1>3. WrittenInv
  BY DEF Init, WrittenInv
<1> QED BY <1>1, <1>2, <1>3, AttemptNumbers DEF Inv

LEMMA InvStep == TypeOK /\ Inv /\ [Next]_vars => Inv'
<1> SUFFICES ASSUME TypeOK, Inv, [Next]_vars PROVE Inv'
  OBVIOUS
<1>1. ConfigInv'
  BY ConfigStep
<1>2. ASSUME phase # "ready", UNCHANGED <<call, wire>> PROVE Inv'
  <2>1. wire = {}
    <3> SUFFICES ASSUME NEW w \in wire PROVE FALSE
      OBVIOUS
    <3>1. w.call \in Calls /\ w.n \in 0..MaxAttempts - 1 /\ Written(w.call, w.n)
      BY DEF TypeOK, Written
    <3> HIDE DEF Written, Started
    <3> QED BY <1>2, <3>1 DEF Inv, AttemptInv, CallInv
  <2>2. WrittenInv'
    BY <1>2, <2>1 DEF WrittenInv
  <2> QED BY <1>1, <1>2, <2>2, QuietBefore DEF Inv
<1>3. ASSUME NEW o \in Options, ApplyOption(o) PROVE Inv'
  BY <1>2, <1>3 DEF ApplyOption
<1>4. CASE FinishNew
  BY <1>2, <1>4 DEF FinishNew
<1>5. ASSUME NEW c \in Calls, CallSteps(c) PROVE Inv'
  BY <1>1, <1>5, CallStep, AttemptStep, WrittenStep DEF Inv
<1>6. CASE CallerEditsStatuses \/ UNCHANGED vars
  <2>1. UNCHANGED <<phase, env, cfg, applied, heap, reader, call, wire>>
    BY <1>6 DEF CallerEditsStatuses, vars, building
  <2>2. \A c, n, k : ExpectedHeaders(c, n, k)' = ExpectedHeaders(c, n, k)
    BY <2>1 DEF ExpectedHeaders, Asked, Documented
  <2>3. ASSUME NEW c \in Calls PROVE CallInv(c)'
    BY <2>1, CallFrame DEF Inv
  <2>4. ASSUME NEW c \in Calls, NEW n \in 0..MaxAttempts - 1 PROVE AttemptInv(c, n)'
    <3>1. (Started(c, n)' <=> Started(c, n)) /\ (Written(c, n)' <=> Written(c, n))
      BY <2>1 DEF Started, Written
    <3> HIDE DEF Started, Written
    <3> QED BY <2>1, <2>2, <3>1 DEF Inv, AttemptInv, AttemptMap
  <2>5. WrittenInv'
    BY <2>1, <2>2 DEF Inv, WrittenInv
  <2> QED BY <1>1, <2>3, <2>4, <2>5 DEF Inv
<1> QED BY <1>3, <1>4, <1>5, <1>6 DEF Next, CallSteps

(* Together they are inductive: calls and attempts have maps and readers of *)
(* their own, so that what one of them does never disturbs another.         *)
THEOREM InvCorrect == Spec => [](TypeOK /\ Inv)
BY TypeInit, TypeStep, InvInit, InvStep, PTL DEF Spec

(* The options the documentation refuses are those that fail.               *)
LEMMA RefusedFails ==
    ASSUME NEW o
    PROVE  Refused(o) <=> OptionFails(o)
<1>1. DOMAIN RefusedValues = {"baseURL", "model", "httpClient"}
  BY DEF RefusedValues
<1>2. /\ RefusedValues["baseURL"] = UnusableURLs \cup {""}
      /\ RefusedValues["model"] = {""} /\ RefusedValues["httpClient"] = {"nil"}
  BY DEF RefusedValues
<1> QED BY <1>1, <1>2 DEF Refused, OptionFails, Usable

(* What is refused of the settings at the end is what is documented.       *)
LEMMA FinalErrorIs ==
    ASSUME SettingsInv
    PROVE  FinalError = DocumentedError
<1>1. ~\E i \in 1..Len(applied) : Refused(applied[i])
  BY RefusedFails DEF SettingsInv
<1>2. cfg.baseURL \in RefusedValues.baseURL <=> ~Usable(cfg.baseURL)
  BY DEF RefusedValues, Usable
<1> QED BY <1>1, <1>2 DEF SettingsInv, FinalError, DocumentedError

NewInv == NewEndsAsDocumented /\ (phase = "new" => newErr = "none")

LEMMA NewStep == TypeOK /\ Inv /\ NewInv /\ [Next]_vars => NewInv'
<1> SUFFICES ASSUME TypeOK, Inv, NewInv, [Next]_vars PROVE NewInv'
  OBVIOUS
<1>1. ASSUME NEW o \in Options, ApplyOption(o) PROVE NewInv'
  <2>1. phase = "new" /\ applied' = Append(applied, o) /\ applied \in Seq(Options) /\ SettingsInv
    BY <1>1 DEF ApplyOption, TypeOK, Inv, ConfigInv
  <2>2. CASE OptionFails(o)
    <3>1. phase' = "failed" /\ newErr' = "invalid"
      BY <1>1, <2>2 DEF ApplyOption, NewFails
    <3>2. /\ Len(applied') = Len(applied) + 1 /\ Len(applied) \in Nat
          /\ applied'[Len(applied) + 1] = o
          /\ \A i \in 1..Len(applied) : applied'[i] = applied[i]
      BY <2>1
    <3>3. \E i \in 1..Len(applied') : Refused(applied'[i])
      <4>1. Len(applied) + 1 \in 1..Len(applied') /\ Refused(applied'[Len(applied) + 1])
        BY <2>2, <3>2, RefusedFails
      <4> QED BY <4>1
    <3>4. \A i \in 1..(Len(applied') - 1) : ~Refused(applied'[i])
      <4>1. Len(applied') - 1 = Len(applied)
        BY <3>2
      <4> QED BY <2>1, <3>2, <4>1, RefusedFails DEF SettingsInv
    <3>5. DocumentedError' = "invalid"
      BY <3>3 DEF DocumentedError, Refused, RefusedValues
    <3> QED BY <3>1, <3>4, <3>5 DEF NewInv, NewEndsAsDocumented, Refused, RefusedValues
  <2>3. CASE ~OptionFails(o)
    BY <1>1, <2>1, <2>3 DEF ApplyOption, NewInv, NewEndsAsDocumented
  <2> QED BY <2>2, <2>3
<1>2. ASSUME UNCHANGED <<env, applied>> PROVE DocumentedError' = DocumentedError
  BY <1>2 DEF DocumentedError, Documented, Refused, RefusedValues
<1>3. CASE FinishNew
  <2>1. phase = "new" /\ SettingsInv /\ newErr = "none" /\ UNCHANGED <<env, applied>>
    BY <1>3 DEF FinishNew, Inv, ConfigInv, NewInv, building
  <2>2. DocumentedError' = FinalError
    BY <1>2, <2>1, FinalErrorIs
  <2>3. \A i \in 1..(Len(applied) - 1) : ~Refused(applied[i])
    <3>1. Len(applied) \in Nat
      BY DEF TypeOK
    <3>2. \A i \in 1..(Len(applied) - 1) : i \in 1..Len(applied)
      BY <3>1
    <3> QED BY <2>1, <3>2, RefusedFails DEF SettingsInv
  <2>4. \/ FinalError # "none" /\ phase' = "failed" /\ newErr' = FinalError
        \/ FinalError = "none" /\ phase' = "ready" /\ newErr' = newErr
    BY <1>3 DEF FinishNew, NewFails
  <2> QED BY <2>1, <2>2, <2>3, <2>4 DEF NewInv, NewEndsAsDocumented, Refused, RefusedValues
<1>4. ASSUME UNCHANGED <<phase, newErr, env, applied>> PROVE NewInv'
  BY <1>2, <1>4 DEF NewInv, NewEndsAsDocumented, Refused, RefusedValues
<1>5. ASSUME NEW c \in Calls, CallSteps(c) PROVE NewInv'
  BY <1>4, <1>5 DEF CallSteps, StartCall, StartAttempt, HandToTransport, NextAttempt, FinishCall,
                    WriteRequest, building
<1>6. CASE CallerEditsStatuses \/ UNCHANGED vars
  BY <1>4, <1>6 DEF CallerEditsStatuses, vars, building
<1> QED BY <1>1, <1>3, <1>5, <1>6 DEF Next, CallSteps

(* New succeeds exactly when no option is refused, there is a key and the   *)
(* URL and the policy that result are valid, and fails with the documented  *)
(* error otherwise, whatever the options and their order; a client has the  *)
(* setting of the last option of a kind, or else the environment's, or else *)
(* the default (client.go:44-47, options.go:31-33, 210-253).                *)
THEOREM PrecedenceHolds == Spec => []SettingsPrecedence
<1>1. Init => NewInv
  BY DEF Init, NewInv, NewEndsAsDocumented
<1>2. TypeOK /\ Inv /\ NewInv => SettingsPrecedence
  BY DEF Inv, ConfigInv, SettingsInv, NewInv, SettingsPrecedence, FinalError
<1> QED BY <1>1, <1>2, NewStep, InvCorrect, PTL DEF Spec

(* New refuses an unusable URL of the environment only when no option       *)
(* replaced it, whatever else the options set.                              *)
THEOREM OutweighedHolds == Spec => []EnvironmentURLOutweighed
<1>1. Init => EnvironmentURLOutweighed
  BY DEF Init, EnvironmentURLOutweighed
<1>2. TypeOK /\ Inv /\ EnvironmentURLOutweighed /\ [Next]_vars => EnvironmentURLOutweighed'
  <2> SUFFICES ASSUME TypeOK, Inv, EnvironmentURLOutweighed, [Next]_vars
               PROVE  EnvironmentURLOutweighed'
    OBVIOUS
  <2>1. ASSUME NEW o \in Options, ApplyOption(o) PROVE EnvironmentURLOutweighed'
    <3>1. CASE OptionFails(o)
      <4>1. applied' = Append(applied, o) /\ applied \in Seq(Options)
        BY <2>1 DEF ApplyOption, TypeOK
      <4>2. Len(applied) + 1 \in 1..Len(applied') /\ applied'[Len(applied) + 1] = o
        BY <4>1
      <4> QED BY <3>1, <4>2 DEF EnvironmentURLOutweighed, OptionFails, Usable
    <3>2. CASE ~OptionFails(o)
      BY <2>1, <3>2 DEF ApplyOption, EnvironmentURLOutweighed
    <3> QED BY <3>1, <3>2
  <2>2. CASE FinishNew
    <3> SUFFICES ASSUME phase' = "failed", newErr' = "invalid"
                 PROVE  \/ Documented("retry", "")' \in InvalidPolicies
                        \/ /\ ~Usable(env.baseURL)'
                           /\ \A i \in 1..Len(applied') : applied'[i].kind # "baseURL"
      BY DEF EnvironmentURLOutweighed
    <3>1. phase = "new" /\ FinalError = "invalid" /\ UNCHANGED <<env, applied>>
      BY <2>2 DEF FinishNew, NewFails, building
    <3>2. ~Usable(cfg.baseURL) \/ cfg.retry \in InvalidPolicies
      BY <3>1 DEF FinalError
    <3>3. SettingsInv /\ applied \in Seq(Options)
      BY <3>1 DEF Inv, ConfigInv, TypeOK
    <3>4. CASE cfg.retry \in InvalidPolicies
      BY <3>1, <3>3, <3>4 DEF SettingsInv, Documented
    <3>5. CASE ~Usable(cfg.baseURL)
      <4>1. \A i \in 1..Len(applied) : applied[i].kind # "baseURL"
        BY <3>3, <3>5 DEF SettingsInv
      <4>2. cfg.baseURL = EnvOr(env.baseURL, Defaults.baseURL)
        <5>1. SettingOf(applied, "baseURL", EnvOr(env.baseURL, Defaults["baseURL"]))
                = EnvOr(env.baseURL, Defaults["baseURL"])
          BY <3>3, <4>1, SettingIn
        <5> QED BY <3>3, <5>1 DEF SettingsInv, Documented
      <4>3. ~Usable(env.baseURL)
        BY <3>5, <4>2 DEF EnvOr, Usable
      <4> QED BY <3>1, <4>1, <4>3 DEF Usable
    <3> QED BY <3>2, <3>4, <3>5
  <2>3. ASSUME UNCHANGED <<phase, newErr, env, applied>> PROVE EnvironmentURLOutweighed'
    BY <2>3 DEF EnvironmentURLOutweighed, Documented, OptionFails, Usable
  <2>4. ASSUME NEW c \in Calls, CallSteps(c) PROVE EnvironmentURLOutweighed'
    BY <2>3, <2>4 DEF CallSteps, StartCall, StartAttempt, HandToTransport, NextAttempt, FinishCall,
                      WriteRequest, building
  <2>5. CASE CallerEditsStatuses \/ UNCHANGED vars
    BY <2>3, <2>5 DEF CallerEditsStatuses, vars, building
  <2> QED BY <2>1, <2>2, <2>4, <2>5 DEF Next, CallSteps
<1> QED BY <1>1, <1>2, InvCorrect, PTL DEF Spec

(* Calls run under the settings of their own options or else the client's. *)
THEOREM CallSettingsHold == Spec => []CallSettingsOwn
<1>1. TypeOK /\ Inv => CallSettingsOwn
  BY DEF Inv, CallInv, ConfigInv, SettingsInv, CallSettingsOwn
<1> QED BY <1>1, InvCorrect, PTL

(* Every request on the wire has the headers of its own call and attempt,   *)
(* whatever the other calls and attempts that run at the same time.         *)
THEOREM HeadersHold == Spec => []RequestsCarryTheirHeaders
<1>1. TypeOK /\ Inv => RequestsCarryTheirHeaders
  BY DEF Inv, WrittenInv, RequestsCarryTheirHeaders
<1> QED BY <1>1, InvCorrect, PTL

(* Every request on the wire has the whole body of its own call. *)
THEOREM BodiesHold == Spec => []RequestsCarryTheirBody
<1>1. TypeOK /\ Inv => RequestsCarryTheirBody
  <2> SUFFICES ASSUME TypeOK, Inv, NEW w \in wire
               PROVE  w.body = IF call[w.call].args.request = ListModels THEN NoBody
                               ELSE EnvOr(call[w.call].args.request, Documented("model", env.model))
    BY DEF RequestsCarryTheirBody
  <2>1. w.call \in Calls /\ w.n \in 0..MaxAttempts - 1 /\ Written(w.call, w.n)
    BY DEF TypeOK, Written
  <2>2. call[w.call].at # "idle"
    <3> HIDE DEF Written, Started
    <3> QED BY <2>1 DEF Inv, AttemptInv
  <2> QED BY <2>1, <2>2 DEF Inv, CallInv, WrittenInv, Body, ConfigInv, SettingsInv
<1> QED BY <1>1, InvCorrect, PTL

(* No step after New, of any call, changes what the calls after it start    *)
(* from: the client's configuration and its header map.                     *)
THEOREM ConfigImmutableHolds == Spec => ConfigImmutable
<1>1. TypeOK /\ [Next]_vars => [phase = "ready" => cfg' = cfg /\ heap'[ConfigMap] = heap[ConfigMap]]_vars
  <2> SUFFICES ASSUME TypeOK, Next, phase = "ready"
               PROVE  cfg' = cfg /\ heap'[ConfigMap] = heap[ConfigMap]
    OBVIOUS
  <2>1. ASSUME NEW o \in Options, ApplyOption(o) PROVE FALSE
    BY <2>1 DEF ApplyOption
  <2>2. CASE FinishNew
    BY <2>2 DEF FinishNew
  <2>3. CASE CallerEditsStatuses
    BY <2>3 DEF CallerEditsStatuses
  <2>4. ASSUME NEW c \in Calls, CallSteps(c) PROVE cfg' = cfg /\ heap'[ConfigMap] = heap[ConfigMap]
    BY <2>4, CallsKeepConfig
  <2> QED BY <2>1, <2>2, <2>3, <2>4 DEF Next, CallSteps
<1> QED BY <1>1, TypeCorrect, PTL DEF Spec, ConfigImmutable
=============================================================================
