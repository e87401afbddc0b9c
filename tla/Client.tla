-------------------------------- MODULE Client --------------------------------
(***************************************************************************)
(* A Client: New resolves its settings from the environment and the        *)
(* options (options.go), then any number of calls share it, each with call *)
(* options of its own (client.go): Evaluate with a body, ListModels        *)
(* without one (models.go).                                                *)
(*                                                                         *)
(* http.Header is a mutable map and a bytes.Reader remembers how far it    *)
(* was read, so the model keeps both on a heap: one header map of the      *)
(* configuration, one per call, one per attempt, and a reader per attempt. *)
(* What net/http does with an attempt's request is external: http.Client   *)
(* may add the cookies of its jar to the headers, and the transport writes *)
(* headers and body on the connection at any later time, even after the    *)
(* attempt was given up.                                                   *)
(*                                                                         *)
(* The loop that decides on further attempts is ClientCall's business:     *)
(* here an attempt may always be followed by another.                      *)
(*                                                                         *)
(* X_Y is a faulty variant of X, which some property must reject.          *)
(***************************************************************************)
EXTENDS Integers, SequencesExt

CONSTANTS
    Calls,          \* the calls made on the client
    Environments,   \* [apiKey, baseURL, model], "" for a blank variable
    Options,        \* the options passed to New: [kind, name, value, n]
    CallOptions,    \* the options of calls, of the same form
    Arguments,      \* what calls are made with: [request, opts]
    UnusableURLs,   \* the base URLs normalizeBaseURL refuses
    InvalidPolicies,\* the retry policies validate refuses
    ListedPolicies, \* the retry policies that name their Statuses, a slice
    MaxOptions,     \* bound: options per New
    MaxAttempts     \* bound: attempts per call

OptionKinds == {"apiKey", "baseURL", "model", "httpClient", "timeout", "userAgent",
                "header", "retry"}
CallOptionKinds == {"timeout", "header", "retry"}
HeaderNames == {"", "authorization", "contentType", "userAgent", "sdk", "custom", "retryCount"}

(* The request of a call is the Model of Evaluate's, "" when left empty, or *)
(* ListModels, which has none.                                              *)
ListModels == "list models"

(* What version.go puts into the headers. *)
SDKVersion == "jev-go"
UserAgent(custom) == IF custom = "" THEN SDKVersion ELSE custom

(* The bytes of a request body, told apart by the model they name. *)
NoBody == "no body"

ASSUME ClientAssumption ==
    /\ Environments \subseteq [apiKey : STRING, baseURL : STRING, model : STRING]
    /\ Options \subseteq [kind : OptionKinds, name : HeaderNames, value : STRING, n : Int]
    /\ CallOptions \subseteq [kind : CallOptionKinds, name : HeaderNames, value : STRING, n : Int]
    /\ \A o \in Options \cup CallOptions : o.kind = "header" => o.value # ""
    /\ \A e \in Environments : e.model # NoBody
    /\ \A o \in Options : o.value # NoBody
    /\ \A a \in Arguments : a.request # NoBody
    /\ Arguments \subseteq [request : STRING, opts : Seq(CallOptions)]
    /\ MaxOptions \in Nat
    /\ MaxAttempts \in Nat \ {0}

(* What the module itself adds to these are strings as well: obvious to TLC, *)
(* but not to the provers.                                                  *)
ASSUME LiteralsAssumption ==
    {"", "default", "plain", "json", SDKVersion, NoBody} \subseteq STRING

(* The settings a client has without options or environment. *)
Defaults == [apiKey |-> "", baseURL |-> "default", model |-> "default", userAgent |-> "",
             httpClient |-> "plain", timeout |-> 10, retry |-> "default"]

(* The headers properties tell apart, "" or 0 for an absent one.  `cookie`  *)
(* counts how often the jar's cookies were added; `sdk` stands for          *)
(* X-TypeSafe-SDK and X-TypeSafe-Runtime.                                   *)
NoHeaders == [authorization |-> "", contentType |-> "", userAgent |-> "", sdk |-> "",
              custom |-> "", retryCount |-> 0, cookie |-> 0]

ProtectedHeaders == {"authorization", "contentType", "retryCount"}

(* Every header map of the program. *)
ConfigMap == <<"config">>
CallMap(c) == <<"call", c>>
AttemptMap(c, n) == <<"attempt", c, n>>
Maps == {ConfigMap} \cup {CallMap(c) : c \in Calls}
        \cup {AttemptMap(c, n) : c \in Calls, n \in 0..MaxAttempts - 1}
Readers == Calls \X (0..MaxAttempts - 1)

VARIABLES
    phase,    \* New at work, a client "ready", or New "failed"
    env,      \* the environment New runs in
    cfg,      \* the config being built, then the client's
    applied,  \* the options New has applied
    newErr,   \* the error of New
    edited,   \* the caller has since written to the Statuses of its policy
    heap,     \* the contents of every header map
    reader,   \* what is left to read of every body reader
    call,     \* each call: where it is, its arguments, settings, body, attempt
    wire      \* requests written on a connection: [call, n, headers, body]

building == <<env, applied>>
vars == <<phase, building, cfg, newErr, edited, heap, reader, call, wire>>

Idle == [at |-> "idle", args |-> [request |-> "", opts |-> <<>>],
         timeout |-> 0, retry |-> "", body |-> NoBody, n |-> 0]

-----------------------------------------------------------------------------
(* newConfig. *)

(* normalizeBaseURL, on URLs told apart by what is left of them once        *)
(* trimmed: "" when refused.                                                *)
Usable(url) == url # "" /\ url \notin UnusableURLs

EnvOr(value, default) == IF value # "" THEN value ELSE default

FromEnvironment(e) ==
    [Defaults EXCEPT !.apiKey = EnvOr(e.apiKey, Defaults.apiKey),
                     !.baseURL = EnvOr(e.baseURL, Defaults.baseURL),
                     !.model = EnvOr(e.model, Defaults.model)]

Init ==
    /\ phase = "new"
    /\ env \in Environments
    /\ cfg = FromEnvironment(env)
    /\ applied = <<>>
    /\ newErr = "none"
    /\ edited = FALSE
    /\ heap = [m \in Maps |-> NoHeaders]
    /\ reader = [r \in Readers |-> NoBody]
    /\ call = [c \in Calls |-> Idle]
    /\ wire = {}

(* The options that make New return at once. *)
OptionFails(o) ==
    \/ o.kind = "baseURL" /\ ~Usable(o.value)
    \/ o.kind = "model" /\ o.value = ""
    \/ o.kind = "httpClient" /\ o.value = "nil"
    \/ o.kind = "timeout" /\ o.n < 0

Configured(o) ==
    IF o.kind = "timeout" THEN [cfg EXCEPT !.timeout = o.n]
    ELSE IF o.kind \in {"apiKey", "baseURL", "model", "httpClient", "userAgent", "retry"}
         THEN [cfg EXCEPT ![o.kind] = o.value]
    ELSE cfg

SetsHeader(o) == o.kind = "header" /\ o.name # "" /\ o.name \notin ProtectedHeaders

NewFails(e) ==
    /\ phase' = "failed"
    /\ newErr' = e
    /\ UNCHANGED <<cfg, heap>>

(* One option of the loop of newConfig; a nil option is no step at all. *)
ApplyOption(o) ==
    /\ phase = "new" /\ Len(applied) < MaxOptions
    /\ applied' = Append(applied, o)
    /\ \/ OptionFails(o) /\ NewFails("invalid")
       \/ /\ ~OptionFails(o)
          /\ cfg' = Configured(o)
          /\ heap' = IF SetsHeader(o)
                     THEN [heap EXCEPT ![ConfigMap][o.name] = o.value] ELSE heap
          /\ UNCHANGED <<phase, newErr>>
    /\ UNCHANGED <<env, edited, reader, call, wire>>

(* Why newConfig refuses the settings it ended up with, "none" if it does   *)
(* not: the key first, then the base URL, then the policy.                  *)
FinalError_EnvironmentURL ==
    IF cfg.apiKey = "" THEN "missingKey"
    ELSE IF \/ ~Usable(cfg.baseURL) \/ cfg.retry \in InvalidPolicies
            \/ env.baseURL # "" /\ ~Usable(env.baseURL)
         THEN "invalid"
    ELSE "none"

FinalError_UncheckedPolicy ==
    IF cfg.apiKey = "" THEN "missingKey"
    ELSE IF ~Usable(cfg.baseURL) THEN "invalid" ELSE "none"

FinalError ==
    IF cfg.apiKey = "" THEN "missingKey"
    ELSE IF ~Usable(cfg.baseURL) \/ cfg.retry \in InvalidPolicies THEN "invalid"
    ELSE "none"

FinishNew ==
    /\ phase = "new"
    /\ \/ FinalError # "none" /\ NewFails(FinalError)
       \/ FinalError = "none" /\ phase' = "ready" /\ UNCHANGED <<cfg, newErr, heap>>
    /\ UNCHANGED <<building, edited, reader, call, wire>>

(* WithRetryPolicy copied the policy, not the array its Statuses lie in.    *)
CallerEditsStatuses ==
    /\ phase = "ready" /\ ~edited
    /\ cfg.retry \in ListedPolicies
    /\ edited' = TRUE
    /\ UNCHANGED <<phase, building, cfg, newErr, heap, reader, call, wire>>

-----------------------------------------------------------------------------
(* The calls. *)

(* What one call option makes of the callConfig: nothing if it is a         *)
(* negative timeout or a protected header.                                  *)
Overridden_AnyTimeout(cc, o) ==
    IF o.kind = "timeout" THEN [cc EXCEPT !.timeout = o.n]
    ELSE IF o.kind = "retry" THEN [cc EXCEPT !.retry = o.value]
    ELSE IF SetsHeader(o) THEN [cc EXCEPT !.headers[o.name] = o.value]
    ELSE cc

Overridden(cc, o) ==
    IF o.kind = "timeout" /\ o.n >= 0 THEN [cc EXCEPT !.timeout = o.n]
    ELSE IF o.kind = "retry" THEN [cc EXCEPT !.retry = o.value]
    ELSE IF SetsHeader(o) THEN [cc EXCEPT !.headers[o.name] = o.value]
    ELSE cc

ResolveCall(opts) ==
    FoldLeft(Overridden,
             [timeout |-> cfg.timeout, retry |-> cfg.retry, headers |-> NoHeaders], opts)

(* The map header() works on: a clone of the configuration's. *)
HeaderMap_Shared(c) == ConfigMap

HeaderMap(c) == CallMap(c)

(* The map of an attempt's request: a clone of the call's. *)
RequestMap_Shared(c, n) == HeaderMap(c)

RequestMap(c, n) == AttemptMap(c, n)

(* The reader of an attempt's body: one of its own. *)
BodyReader_PerCall(c, n) == <<c, 0>>

BodyReader(c, n) == <<c, n>>

(* Evaluate's body names the request's model or else the client's. *)
Body(request) == IF request = ListModels THEN NoBody ELSE EnvOr(request, cfg.model)

(* header(): the call's headers over the client's, then the ones the client *)
(* always sets.                                                             *)
CallHeaders(headers, body) ==
    LET merged == [h \in DOMAIN NoHeaders |->
                      IF headers[h] # NoHeaders[h] THEN headers[h] ELSE heap[ConfigMap][h]]
    IN  [merged EXCEPT !.authorization = cfg.apiKey,
                       !.sdk = SDKVersion,
                       !.userAgent = UserAgent(EnvOr(cfg.userAgent, merged.userAgent)),
                       !.contentType = IF body = NoBody THEN @ ELSE "json"]

StartCall(c) ==
    /\ phase = "ready" /\ call[c].at = "idle"
    /\ \E args \in Arguments :
         LET cc == ResolveCall(args.opts)
             body == Body(args.request)
         IN  /\ call' = [call EXCEPT ![c] = [at |-> "loop", args |-> args, timeout |-> cc.timeout,
                                             retry |-> cc.retry, body |-> body, n |-> 0]]
             /\ heap' = [heap EXCEPT ![HeaderMap(c)] = CallHeaders(cc.headers, body)]
    /\ UNCHANGED <<phase, building, cfg, newErr, edited, reader, wire>>

(* attempt: a reader at the start of the body, and a clone of the headers,  *)
(* numbered unless the attempt is the first.                                *)
StartAttempt(c) ==
    /\ call[c].at = "loop"
    /\ LET n == call[c].n
           h == heap[HeaderMap(c)]
       IN  /\ reader' = [reader EXCEPT ![BodyReader(c, n)] = call[c].body]
           /\ heap' = [heap EXCEPT ![RequestMap(c, n)] =
                           IF n > 0 THEN [h EXCEPT !.retryCount = n] ELSE h]
    /\ call' = [call EXCEPT ![c].at = "sending"]
    /\ UNCHANGED <<phase, building, cfg, newErr, edited, wire>>

(* External: http.Client.Do, whose jar may have cookies to add. *)
HandToTransport(c) ==
    /\ call[c].at = "sending"
    /\ \E added \in IF cfg.httpClient = "jar" THEN {0, 1} ELSE {0} :
           heap' = [heap EXCEPT ![RequestMap(c, call[c].n)].cookie = @ + added]
    /\ call' = [call EXCEPT ![c].at = "inflight"]
    /\ UNCHANGED <<phase, building, cfg, newErr, edited, reader, wire>>

(* External: a connection writes the request of attempt n, which may have   *)
(* been given up since, and reads its body to the end.                      *)
WriteRequest(c, n) ==
    /\ \/ n < call[c].n
       \/ n = call[c].n /\ call[c].at \in {"inflight", "done"}
    /\ \A w \in wire : w.call # c \/ w.n # n
    /\ wire' = wire \cup {[call |-> c, n |-> n, headers |-> heap[RequestMap(c, n)],
                           body |-> reader[BodyReader(c, n)]]}
    /\ reader' = [reader EXCEPT ![BodyReader(c, n)] = NoBody]
    /\ UNCHANGED <<phase, building, cfg, newErr, edited, heap, call>>

NextAttempt(c) ==
    /\ call[c].at = "inflight" /\ call[c].n + 1 < MaxAttempts
    /\ call' = [call EXCEPT ![c].at = "loop", ![c].n = @ + 1]
    /\ UNCHANGED <<phase, building, cfg, newErr, edited, heap, reader, wire>>

FinishCall(c) ==
    /\ call[c].at = "inflight"
    /\ call' = [call EXCEPT ![c].at = "done"]
    /\ UNCHANGED <<phase, building, cfg, newErr, edited, heap, reader, wire>>

Next ==
    \/ \E o \in Options : ApplyOption(o)
    \/ FinishNew
    \/ CallerEditsStatuses
    \/ \E c \in Calls :
         \/ StartCall(c)
         \/ StartAttempt(c)
         \/ HandToTransport(c)
         \/ \E n \in 0..MaxAttempts - 1 : WriteRequest(c, n)
         \/ NextAttempt(c)
         \/ FinishCall(c)

Spec == Init /\ [][Next]_vars

-----------------------------------------------------------------------------
(* Properties. *)

Headers == [authorization : STRING, contentType : STRING, userAgent : STRING, sdk : STRING,
            custom : STRING, retryCount : Nat, cookie : Nat]

(* The shape of every variable. *)
TypeOK ==
    /\ phase \in {"new", "ready", "failed"}
    /\ env \in Environments
    /\ cfg \in [apiKey : STRING, baseURL : STRING, model : STRING, userAgent : STRING,
                httpClient : STRING, timeout : Nat, retry : STRING]
    /\ applied \in Seq(Options)
    /\ newErr \in {"none", "missingKey", "invalid"}
    /\ edited \in BOOLEAN
    /\ heap \in [Maps -> Headers]
    /\ reader \in [Readers -> STRING]
    /\ call \in [Calls -> [at : {"idle", "loop", "sending", "inflight", "done"},
                          args : {Idle.args} \cup Arguments,
                          timeout : Nat, retry : STRING, body : STRING,
                          n : 0..MaxAttempts - 1]]
    /\ wire \subseteq [call : Calls, n : 0..MaxAttempts - 1, headers : Headers, body : STRING]

(* Where the options given set something, what the last that does sets. *)
LastSetting(opts, P(_), field, default) ==
    LET i == SelectLastInSeq(opts, P)
    IN  IF i = 0 THEN default ELSE opts[i][field]

SettingOf(opts, kind, default) ==
    LET OfKind(o) == o.kind = kind
    IN  LastSetting(opts, OfKind, "value", default)

TimeoutOf(opts, default) ==
    LET Sets(o) == o.kind = "timeout" /\ o.n >= 0
    IN  LastSetting(opts, Sets, "n", default)

HeaderOf(opts, name, default) ==
    LET Sets(o) == o.kind = "header" /\ o.name = name
    IN  LastSetting(opts, Sets, "value", default)

Documented(kind, fromEnv) == SettingOf(applied, kind, EnvOr(fromEnv, Defaults[kind]))

(* The option values that are refused on their own, and a negative timeout  *)
(* (options.go:68-71, 83-85, 97-101, 112-114).                              *)
RefusedValues == [baseURL |-> UnusableURLs \cup {""}, model |-> {""}, httpClient |-> {"nil"}]

Refused(o) ==
    \/ o.kind \in DOMAIN RefusedValues /\ o.value \in RefusedValues[o.kind]
    \/ o.kind = "timeout" /\ o.n < 0

(* What the documentation makes of the options and the environment: "New    *)
(* applies options in order and returns on the first one that fails"        *)
(* (options.go:31-33), "fails with ErrMissingAPIKey when no key is          *)
(* available, and with ErrInvalidRequest on an unusable base URL or retry   *)
(* policy" (client.go:45-47).                                               *)
DocumentedError ==
    IF \E i \in 1..Len(applied) : Refused(applied[i]) THEN "invalid"
    ELSE IF Documented("apiKey", env.apiKey) = "" THEN "missingKey"
    ELSE IF \/ Documented("baseURL", env.baseURL) \in RefusedValues.baseURL
            \/ Documented("retry", "") \in InvalidPolicies
         THEN "invalid"
    ELSE "none"

NewEndsAsDocumented ==
    /\ phase # "new" => newErr = DocumentedError
    /\ phase = "ready" => DocumentedError = "none"
    /\ phase = "failed" => /\ DocumentedError # "none"
                          /\ \A i \in 1..(Len(applied) - 1) : ~Refused(applied[i])

(* "resolving each setting from the options first, then the environment,    *)
(* then the package defaults" (client.go:44-47), the last option of a kind  *)
(* winning: New succeeds exactly when nothing that results is refused, with *)
(* those settings, and says which of the two errors it is when it fails.    *)
SettingsPrecedence ==
    /\ NewEndsAsDocumented
    /\ phase = "ready" =>
        /\ cfg.apiKey = Documented("apiKey", env.apiKey) /\ cfg.apiKey # ""
        /\ cfg.baseURL = Documented("baseURL", env.baseURL) /\ Usable(cfg.baseURL)
        /\ cfg.model = Documented("model", env.model) /\ cfg.model # ""
        /\ cfg.userAgent = Documented("userAgent", "")
        /\ cfg.httpClient = Documented("httpClient", "")
        /\ cfg.timeout = TimeoutOf(applied, Defaults.timeout)
        /\ cfg.retry = Documented("retry", "") /\ cfg.retry \notin InvalidPolicies

(* "an unusable environment value must not outweigh WithBaseURL"            *)
(* (options.go:243): New fails on the environment's URL only when no option *)
(* replaced it.                                                             *)
EnvironmentURLOutweighed ==
    phase = "failed" /\ newErr = "invalid" =>
        \/ \E i \in 1..Len(applied) : OptionFails(applied[i])
        \/ Documented("retry", "") \in InvalidPolicies
        \/ ~Usable(env.baseURL) /\ \A i \in 1..Len(applied) : applied[i].kind # "baseURL"

(* What the caller asked a header of call c to be: the last option of the   *)
(* call that sets it, or else the last of the client.                       *)
Asked(c, name) == HeaderOf(call[c].args.opts, name, HeaderOf(applied, name, ""))

(* The headers request n of call c must carry, from the options alone.      *)
ExpectedHeaders(c, n, cookies) ==
    [authorization |-> Documented("apiKey", env.apiKey),
     contentType |-> IF call[c].args.request = ListModels THEN "" ELSE "json",
     userAgent |-> EnvOr(Documented("userAgent", ""), EnvOr(Asked(c, "userAgent"), SDKVersion)),
     sdk |-> SDKVersion,
     custom |-> Asked(c, "custom"),
     retryCount |-> n,
     cookie |-> cookies]

(* Whatever other calls and other attempts do, every request carries the    *)
(* headers of its own call over the client's, the protected ones as the     *)
(* client sets them, its own attempt number and the jar's cookies once      *)
(* (client.go:166-169, 223-239).                                            *)
RequestsCarryTheirHeaders ==
    \A w \in wire : w.headers \in {ExpectedHeaders(w.call, w.n, k) : k \in {0, 1}}

(* Every attempt sends the whole body of its own call, also when another    *)
(* attempt is still being written: "Model overrides the client default"     *)
(* (request.go:13), and ListModels sends none (client.go:158-162).          *)
RequestsCarryTheirBody ==
    \A w \in wire :
        LET request == call[w.call].args.request
        IN  w.body = IF request = ListModels THEN NoBody
                     ELSE EnvOr(request, Documented("model", env.model))

(* A call runs under the last timeout and policy of its own options or else *)
(* the client's, never under another call's or a negative timeout           *)
(* (client.go:213-221, options.go:170-185).                                 *)
CallSettingsOwn ==
    \A c \in Calls : call[c].at # "idle" =>
        LET opts == call[c].args.opts
        IN  /\ call[c].timeout = TimeoutOf(opts, cfg.timeout)
            /\ call[c].retry = SettingOf(opts, "retry", Documented("retry", ""))

(* "Client is immutable after New" (client.go:33): no call changes what the *)
(* calls after it start from.                                               *)
ConfigImmutable ==
    [][phase = "ready" => cfg' = cfg /\ heap'[ConfigMap] = heap[ConfigMap]]_vars

(* The policy calls start from, with the contents of its Statuses. *)
EffectivePolicy == <<cfg.retry, cfg.retry \in ListedPolicies /\ edited>>

(* "A *Client is immutable after New" (docs/configuration.md:85), of the    *)
(* policy its calls start from: see README.md, Findings.                    *)
PolicyImmutable ==
    [][phase = "ready" => EffectivePolicy' = EffectivePolicy]_vars
=============================================================================
