---------------------------- MODULE AdmissionProofs ----------------------------
(***************************************************************************)
(* Proofs about Admission, for every environment and every body: the       *)
(* configuration is one the proxy can run with, the sequence of early      *)
(* returns admits exactly the supported requests, an admitted request goes *)
(* to the server that was verified for it, and every model the proxy lists *)
(* is served and shown.                                                    *)
(***************************************************************************)
EXTENDS Admission, TLAPS

(* What the extractors and the handler make of a request.                  *)
Verdict(r) ==
    IF ~r.json THEN "invalid_request_error"
    ELSE IF r.kind = "Chat" THEN Outcome(ChatChecks(r.body)) ELSE Outcome(EmbeddingsChecks(r.body))

Taken(r) ==
    /\ r.json \in BOOLEAN
    /\ \/ r.kind = "Chat" /\ r.body \in ChatBodies
       \/ r.kind = "Embeddings" /\ r.body \in EmbeddingsBodies

IInv ==
    /\ env \in Environments /\ config = from_env(env)
    /\ request = Idle \/ Taken(request)
    /\ answer = "none" \/ (Taken(request) /\ answer = Verdict(request))

-----------------------------------------------------------------------------
(* The first check that refuses decides, so a request is admitted if none   *)
(* refuses and only then.                                                  *)
LEMMA FirstFailing ==
    ASSUME NEW F, F \subseteq 1..5, F # {}
    PROVE  Min(F) \in F
<1>1. \A x \in F : x = 1 \/ x = 2 \/ x = 3 \/ x = 4 \/ x = 5
  OBVIOUS
<1>2. \E x \in F : \A y \in F : x <= y
  <2>1. CASE 1 \in F
    BY <1>1, <2>1
  <2>2. CASE 1 \notin F /\ 2 \in F
    BY <1>1, <2>2
  <2>3. CASE 1 \notin F /\ 2 \notin F /\ 3 \in F
    BY <1>1, <2>3
  <2>4. CASE 1 \notin F /\ 2 \notin F /\ 3 \notin F /\ 4 \in F
    BY <1>1, <2>4
  <2>5. CASE 1 \notin F /\ 2 \notin F /\ 3 \notin F /\ 4 \notin F
    <3>1. F = {5}
      BY <1>1, <2>5
    <3> QED BY <3>1
  <2> QED BY <2>1, <2>2, <2>3, <2>4, <2>5
<1> QED BY <1>2 DEF Min

LEMMA NoneRefuses ==
    ASSUME NEW checks, DOMAIN checks \subseteq 1..5,
           \A i \in DOMAIN checks : checks[i].code # "admitted"
    PROVE  Outcome(checks) = "admitted" <=> \A i \in DOMAIN checks : ~checks[i].refuses
<1> DEFINE F == {i \in DOMAIN checks : checks[i].refuses}
<1>1. Outcome(checks) = IF F = {} THEN "admitted" ELSE checks[Min(F)].code
  BY DEF Outcome
<1>2. F # {} => Min(F) \in DOMAIN checks
  BY FirstFailing
<1>3. F = {} <=> \A i \in DOMAIN checks : ~checks[i].refuses
  OBVIOUS
<1> QED BY <1>1, <1>2, <1>3

(* chat_completions *)
LEMMA ChatAdmits ==
    ASSUME NEW body \in ChatBodies
    PROVE  Outcome(ChatChecks(body)) = "admitted"
             <=> SupportedBody("Chat", body) /\ body.model = config.alias
<1> DEFINE checks == ChatChecks(body)
<1>1. DOMAIN checks = 1..5
  BY DEF ChatChecks
<1>2. \A i \in DOMAIN checks : checks[i].code # "admitted"
  BY <1>1 DEF ChatChecks, Check
<1>3. (\A i \in DOMAIN checks : ~checks[i].refuses) <=>
        ~checks[1].refuses /\ ~checks[2].refuses /\ ~checks[3].refuses
          /\ ~checks[4].refuses /\ ~checks[5].refuses
  BY <1>1
<1>4. /\ checks[1].refuses <=> ~IsChatCompletionRequest(body)
      /\ checks[2].refuses <=> body.messages = <<>>
      /\ checks[3].refuses <=> invalid_role(body)
      /\ checks[4].refuses <=> \E i \in DOMAIN body.messages : content_error(body.messages[i])
      /\ checks[5].refuses <=> body.model # config.alias
  BY DEF ChatChecks, Check
<1>5. ASSUME NEW m, m.tool_calls \in {None, {"empty"}, {"some"}}
      PROVE  SupportedMessage(m) <=> m.role \in Roles /\ ~content_error(m)
  BY <1>5 DEF SupportedMessage, content_error, Roles, None
<1>6. (\A m \in ToSet(body.messages) : SupportedMessage(m)) <=>
        ~invalid_role(body) /\ ~\E i \in DOMAIN body.messages : content_error(body.messages[i])
  BY <1>5, AdmissionAssumption DEF ToSet, invalid_role
<1>7. Outcome(checks) = "admitted" <=> \A i \in DOMAIN checks : ~checks[i].refuses
  BY <1>1, <1>2, NoneRefuses
<1> QED BY <1>3, <1>4, <1>6, <1>7 DEF SupportedBody

(* embeddings *)
LEMMA EmbeddingsAdmits ==
    ASSUME NEW body \in EmbeddingsBodies
    PROVE  Outcome(EmbeddingsChecks(body)) = "admitted"
             <=> /\ SupportedBody("Embeddings", body)
                 /\ body.model = model_alias_for(config, "Embeddings")
                 /\ config.embeddings.enabled
<1> DEFINE checks == EmbeddingsChecks(body)
<1>1. DOMAIN checks = 1..4
  BY DEF EmbeddingsChecks
<1>2. \A i \in DOMAIN checks : checks[i].code # "admitted"
  BY <1>1 DEF EmbeddingsChecks, Check
<1>3. (\A i \in DOMAIN checks : ~checks[i].refuses) <=>
        ~checks[1].refuses /\ ~checks[2].refuses /\ ~checks[3].refuses /\ ~checks[4].refuses
  BY <1>1
<1>4. /\ checks[1].refuses <=> ~IsEmbeddingsRequest(body)
      /\ checks[2].refuses <=> body.shape["input"] = "null"
      /\ checks[3].refuses <=> body.model # model_alias_for(config, "Embeddings")
      /\ checks[4].refuses <=> ~config.embeddings.enabled
  BY DEF EmbeddingsChecks, Check
<1>5. Outcome(checks) = "admitted" <=> \A i \in DOMAIN checks : ~checks[i].refuses
  BY <1>1, <1>2, NoneRefuses
<1> QED BY <1>3, <1>4, <1>5 DEF SupportedBody

-----------------------------------------------------------------------------
(* from_env and the services built from it                                 *)

LEMMA UnwrapsSome == ASSUME NEW x, NEW default PROVE unwrap_or({x}, default) = x
BY DEF unwrap_or, None

LEMMA UnwrapsNone == ASSUME NEW default PROVE unwrap_or({}, default) = default
BY DEF unwrap_or, None

LEMMA FromEnv ==
    ASSUME NEW e
    PROVE  /\ from_env(e).remote_port = read_port(e.LLAMA_SERVER_PORT, 8080)
           /\ from_env(e).embeddings.backend = embeddings_backend(e)
           /\ from_env(e).embeddings.enabled <=> embeddings_enabled(e)
           /\ from_env(e).alias = model_alias(e)
BY DEF from_env

(* There is one embeddings backend or none.                                *)
LEMMA AtMostOneBackend ==
    ASSUME env \in Environments, config = from_env(env)
    PROVE  \/ config.embeddings.backend = {}
           \/ \E b : /\ config.embeddings.backend = {b}
                     /\ b.remote_port = read_port(env.EMBEDDINGS_LLAMA_SERVER_PORT, 8081)
<1> DEFINE path == env.EMBEDDINGS_MODEL_PATH
           backend(x) ==
             [alias |-> unwrap_or(env.EMBEDDINGS_MODEL_ALIAS, model_alias(env) \o <<"-embeddings">>),
              model_path |-> x,
              tunnel_local_port |-> read_port(env.EMBEDDINGS_TUNNEL_LOCAL_PORT, 18081),
              remote_port |-> read_port(env.EMBEDDINGS_LLAMA_SERVER_PORT, 8081)]
<1>1. config.embeddings.backend = embeddings_backend(env)
  BY FromEnv
<1>2. CASE path = {}
  BY <1>1, <1>2 DEF embeddings_backend
<1>3. CASE \E x : x \in path
  <2>1. PICK x : x \in path
    BY <1>3
  <2>2. \A y \in path : y = x
    BY <2>1, AdmissionAssumption
  <2>3. embeddings_backend(env) = {backend(x)}
    BY <2>1, <2>2 DEF embeddings_backend
  <2>4. backend(x).remote_port = read_port(env.EMBEDDINGS_LLAMA_SERVER_PORT, 8081)
    OBVIOUS
  <2> QED BY <1>1, <2>3, <2>4
<1> QED BY <1>2, <1>3

(* The choices of a request's alias, port and lifecycle agree, though each  *)
(* is a match of its own on the kind and on the optional backend.          *)
Agrees(kind) ==
    LET ensured == lifecycle_for(config, kind) IN
        /\ tunnel_port_for(config, kind) = ensured.local_port
        /\ model_alias_for(config, kind) = ensured.alias
        /\ HostAgrees => ensured.remote_port = port_for(env.host, ensured.target)

LEMMA ChatAgrees ==
    ASSUME config = from_env(env)
    PROVE  Agrees("Chat") /\ model_alias_for(config, "Chat") = config.alias
<1>1. {b \in config.embeddings.backend : "Chat" = "Embeddings"} = {}
  OBVIOUS
<1>2. /\ model_alias_for(config, "Chat") = config.alias
      /\ tunnel_port_for(config, "Chat") = config.tunnel_local_port
  BY <1>1, UnwrapsNone DEF model_alias_for, tunnel_port_for
<1>3. config.remote_port = read_port(env.LLAMA_SERVER_PORT, 8080)
  BY FromEnv
<1> QED BY <1>2, <1>3 DEF Agrees, lifecycle_for, chat_lifecycle, HostAgrees, port_for

LEMMA EmbeddingsAgrees ==
    ASSUME env \in Environments, config = from_env(env)
    PROVE  Agrees("Embeddings")
<1>0. {b \in config.embeddings.backend : "Embeddings" = "Embeddings"} = config.embeddings.backend
  OBVIOUS
<1>1. CASE config.embeddings.backend = {}
  <2>1. /\ model_alias_for(config, "Embeddings") = config.alias
        /\ tunnel_port_for(config, "Embeddings") = config.tunnel_local_port
        /\ lifecycle_for(config, "Embeddings") = chat_lifecycle(config)
    BY <1>0, <1>1, UnwrapsNone
    DEF model_alias_for, tunnel_port_for, lifecycle_for, embeddings_lifecycle
  <2>2. config.remote_port = read_port(env.LLAMA_SERVER_PORT, 8080)
    BY FromEnv
  <2> QED BY <2>1, <2>2 DEF Agrees, chat_lifecycle, HostAgrees, port_for
<1>2. ASSUME NEW b, config.embeddings.backend = {b},
             b.remote_port = read_port(env.EMBEDDINGS_LLAMA_SERVER_PORT, 8081)
      PROVE  Agrees("Embeddings")
  <2> DEFINE l == [target |-> "embeddings", model_path |-> b.model_path, alias |-> b.alias,
                   local_port |-> b.tunnel_local_port, remote_port |-> b.remote_port]
  <2>0. /\ {x.alias : x \in config.embeddings.backend} = {b.alias}
        /\ {x.tunnel_local_port : x \in config.embeddings.backend} = {b.tunnel_local_port}
    BY <1>2
  <2>1. model_alias_for(config, "Embeddings") = b.alias
    BY <1>0, <2>0, UnwrapsSome DEF model_alias_for
  <2>2. tunnel_port_for(config, "Embeddings") = b.tunnel_local_port
    BY <1>0, <2>0, UnwrapsSome DEF tunnel_port_for
  <2>3. embeddings_lifecycle(config) = l
    <3>1. {[target |-> "embeddings", model_path |-> x.model_path, alias |-> x.alias,
            local_port |-> x.tunnel_local_port, remote_port |-> x.remote_port]
               : x \in config.embeddings.backend} = {l}
      BY <1>2
    <3> HIDE DEF l
    <3> QED BY <3>1, UnwrapsSome DEF embeddings_lifecycle
  <2>4. lifecycle_for(config, "Embeddings") = l
    BY <2>3 DEF lifecycle_for
  <2> QED BY <1>2, <2>1, <2>2, <2>4 DEF Agrees, HostAgrees, port_for
<1> QED BY <1>1, <1>2, AtMostOneBackend

-----------------------------------------------------------------------------
LEMMA InitIInv == Init => IInv
BY DEF Init, IInv

LEMMA Inductive == IInv /\ [Next]_vars => IInv'
<1> SUFFICES ASSUME IInv, [Next]_vars PROVE IInv'
  OBVIOUS
<1>1. CASE Arrive
  <2>1. Taken(request')
    BY <1>1 DEF Arrive, Taken
  <2> QED BY <1>1, <2>1 DEF Arrive, IInv, Taken, Idle
<1>2. CASE RequireJsonContentType \/ chat_completions \/ embeddings
  <2>1. UNCHANGED <<env, config, request>> /\ Taken(request)
    BY <1>2 DEF RequireJsonContentType, chat_completions, embeddings, IInv
  <2>2. answer' = Verdict(request)
    BY <1>2, <2>1 DEF RequireJsonContentType, chat_completions, embeddings, Verdict, Taken
  <2>3. Verdict(request)' = Verdict(request) /\ Taken(request)'
    BY <2>1 DEF Verdict, Taken, ChatChecks, EmbeddingsChecks
  <2> QED BY <2>1, <2>2, <2>3 DEF IInv
<1>3. CASE Finish
  BY <1>3 DEF Finish, IInv
<1>4. CASE UNCHANGED vars
  BY <1>4 DEF vars, IInv, Taken, Verdict, ChatChecks, EmbeddingsChecks
<1> QED BY <1>1, <1>2, <1>3, <1>4 DEF Next

(* A request has been through the checks of its own handler when answered.  *)
THEOREM Invariance == Spec => []IInv
BY InitIInv, Inductive, PTL DEF Spec

LEMMA AdmittedIff ==
    ASSUME IInv, request # Idle, answer # "none"
    PROVE  answer = "admitted" <=>
             /\ request.json
             /\ SupportedBody(request.kind, request.body)
             /\ request.body.model = model_alias_for(config, request.kind)
             /\ request.kind = "Embeddings" => config.embeddings.enabled
<1>1. Taken(request) /\ answer = Verdict(request) /\ config = from_env(env)
  BY DEF IInv
<1>2. CASE ~request.json
  BY <1>1, <1>2 DEF Verdict
<1>3. CASE request.json /\ request.kind = "Chat" /\ request.body \in ChatBodies
  <2>1. answer = Outcome(ChatChecks(request.body))
    BY <1>1, <1>3 DEF Verdict
  <2> QED BY <1>1, <1>3, <2>1, ChatAdmits, ChatAgrees
<1>4. CASE request.json /\ request.kind = "Embeddings" /\ request.body \in EmbeddingsBodies
  <2>1. answer = Outcome(EmbeddingsChecks(request.body))
    BY <1>1, <1>4 DEF Verdict
  <2> QED BY <1>4, <2>1, EmbeddingsAdmits
<1> QED BY <1>1, <1>2, <1>3, <1>4 DEF Taken

(* Whatever the configuration and the body, the early returns of the        *)
(* extractors and handlers let exactly the supported requests through       *)
(* (app.rs chat_completions, embeddings, content_error).                    *)
THEOREM ExactlySupported == Spec => []AdmitsSupported
<1>1. IInv => AdmitsSupported
  BY AdmittedIff DEF AdmitsSupported
<1> QED BY Invariance, <1>1, PTL

(* Whatever the environments, an admitted request is forwarded through the  *)
(* tunnel of the lifecycle that was ensured for it, under the model name it *)
(* asked for, to the port the helper verified if the host was told the same *)
(* ports (state.rs lifecycle_for, tunnel_port_for, model_alias_for).        *)
THEOREM ReachesServer == Spec => []ReachesVerifiedServer
<1>1. IInv => ReachesVerifiedServer
  <2> SUFFICES ASSUME IInv, answer = "admitted" PROVE ReachesVerifiedServer
    BY DEF ReachesVerifiedServer
  <2>1. Taken(request) /\ env \in Environments /\ config = from_env(env)
    BY DEF IInv
  <2>2. request # Idle
    BY <2>1 DEF Taken, Idle
  <2>3. Agrees(request.kind)
    BY <2>1, ChatAgrees, EmbeddingsAgrees DEF Taken
  <2>4. request.body.model = model_alias_for(config, request.kind)
    BY <2>2, AdmittedIff
  <2> QED BY <2>3, <2>4 DEF ReachesVerifiedServer, Agrees
<1> QED BY Invariance, <1>1, PTL
-----------------------------------------------------------------------------
(* Whatever the environment, /status shows every model that /v1/models      *)
(* lists, beside the lifecycle that starts and verifies it (app.rs status,  *)
(* list_models).                                                           *)
THEOREM StatusComplete == Spec => []StatusShowsModels
<1>1. IInv => StatusShowsModels
  <2> SUFFICES ASSUME IInv PROVE StatusShowsModels
    OBVIOUS
  <2> DEFINE alias == model_alias_for(config, "Embeddings")
             chat == Section(config.alias, chat_lifecycle(config))
             other == Section(alias, embeddings_lifecycle(config))
  <2>1. env \in Environments /\ config = from_env(env)
    BY DEF IInv
  <2>2. chat.alias = config.alias /\ chat.lifecycle.alias = config.alias
    BY DEF Section, chat_lifecycle
  <2>3. other.alias = alias /\ other.lifecycle.alias = alias
    BY <2>1, EmbeddingsAgrees DEF Section, Agrees, lifecycle_for
  <2>4. status = {chat} \cup (IF config.embeddings.enabled THEN {other} ELSE {})
    BY DEF status
  <2>5. CASE config.embeddings.backend = {}
    <3>1. list_models = {config.alias}
      BY <2>5 DEF list_models
    <3> QED BY <2>2, <2>3, <2>4, <3>1 DEF StatusShowsModels
  <2>6. ASSUME NEW b, config.embeddings.backend = {b},
               b.remote_port = read_port(env.EMBEDDINGS_LLAMA_SERVER_PORT, 8081)
        PROVE  StatusShowsModels
    <3>1. list_models = {config.alias, b.alias}
      BY <2>6 DEF list_models
    <3>2. alias = b.alias
      <4>1. {x.alias : x \in {y \in config.embeddings.backend : "Embeddings" = "Embeddings"}}
              = {b.alias}
        BY <2>6
      <4> QED BY <4>1, UnwrapsSome DEF model_alias_for
    <3>3. config.embeddings.enabled
      <4>1. embeddings_backend(env) # {}
        <5>1. config.embeddings.backend = embeddings_backend(env)
          BY <2>1, FromEnv
        <5> QED BY <2>6, <5>1
      <4>2. embeddings_enabled(env)
        BY <4>1 DEF embeddings_enabled, None
      <4> QED BY <2>1, <4>2, FromEnv
    <3> HIDE DEF alias, chat, other
    <3>4. status = {chat, other}
      BY <2>4, <3>3
    <3> QED BY <2>2, <2>3, <3>1, <3>2, <3>4 DEF StatusShowsModels
  <2> HIDE DEF alias, chat, other
  <2> QED BY <2>1, <2>5, <2>6, AtMostOneBackend
<1> QED BY Invariance, <1>1, PTL
-----------------------------------------------------------------------------
(* What the configuration and the answers can be                           *)

LEMMA UnwrapsTyped ==
    ASSUME NEW S, NEW option \in SUBSET S, NEW default \in S
    PROVE  unwrap_or(option, default) \in S
BY DEF unwrap_or, None

LEMMA Reads ==
    ASSUME NEW option \in SUBSET Int
    PROVE  /\ \A default \in 0..MaxPort : read_port(option, default) \in 0..MaxPort
           /\ \A default \in 0..MaxUsize : read_nonnegative_usize(option, default) \in 0..MaxUsize
           /\ \A default \in 1..MaxUsize : read_positive_usize(option, default) \in 1..MaxUsize
<1>1. /\ parse(option, MaxPort) \in SUBSET (0..MaxPort)
      /\ parse(option, MaxUsize) \in SUBSET (0..MaxUsize)
      /\ parse(option, MaxUsize) \ {0} \in SUBSET (1..MaxUsize)
  <2>1. ASSUME NEW max \in Nat
        PROVE  \A n \in parse(option, max) : n \in 0..max /\ (n \notin {0} => n \in 1..max)
    BY DEF parse
  <2>2. MaxPort \in Nat /\ MaxUsize \in Nat
    BY ConfigurationAssumption
  <2> QED
    BY <2>1, <2>2
<1>2. ASSUME NEW default \in 0..MaxPort PROVE read_port(option, default) \in 0..MaxPort
  BY <1>1, UnwrapsTyped DEF read_port
<1>3. ASSUME NEW default \in 0..MaxUsize
      PROVE  read_nonnegative_usize(option, default) \in 0..MaxUsize
  BY <1>1, UnwrapsTyped DEF read_nonnegative_usize
<1>4. ASSUME NEW default \in 1..MaxUsize
      PROVE  read_positive_usize(option, default) \in 1..MaxUsize
  BY <1>1, UnwrapsTyped DEF read_positive_usize
<1> QED
  BY <1>2, <1>3, <1>4

LEMMA OneWord == ASSUME NEW S, NEW x \in S PROVE <<x>> \in Seq(S)
OBVIOUS

LEMMA AliasTyped ==
    ASSUME NEW e, ReadVar(e)
    PROVE  /\ model_alias(e) \in Text
           /\ unwrap_or(e.EMBEDDINGS_MODEL_ALIAS, model_alias(e) \o <<"-embeddings">>) \in Text
<1>1. <<"llm-wake-proxy">> \in Text /\ <<"-embeddings">> \in Text
  <2>1. ASSUME NEW x \in STRING PROVE <<x>> \in Text
    BY OneWord DEF Text
  <2> QED
    BY <2>1, DefaultsAreStrings
<1>2. model_alias(e) \in Text
  BY <1>1, UnwrapsTyped DEF ReadVar, model_alias
<1>3. model_alias(e) \o <<"-embeddings">> \in Text
  BY <1>1, <1>2 DEF Text
<1> QED
  BY <1>2, <1>3, UnwrapsTyped DEF ReadVar

LEMMA BackendTyped ==
    ASSUME NEW e, ReadVar(e)
    PROVE  embeddings_backend(e) \in SUBSET EmbeddingsBackendConfig
<1> DEFINE alias == unwrap_or(e.EMBEDDINGS_MODEL_ALIAS, model_alias(e) \o <<"-embeddings">>)
           local == read_port(e.EMBEDDINGS_TUNNEL_LOCAL_PORT, 18081)
           remote == read_port(e.EMBEDDINGS_LLAMA_SERVER_PORT, 8081)
<1>1. alias \in Text
  BY AliasTyped
<1>2. local \in 0..MaxPort /\ remote \in 0..MaxPort
  <2>1. /\ e.EMBEDDINGS_TUNNEL_LOCAL_PORT \in SUBSET Int
        /\ e.EMBEDDINGS_LLAMA_SERVER_PORT \in SUBSET Int
    BY DEF ReadVar
  <2>2. 18081 \in 0..MaxPort /\ 8081 \in 0..MaxPort
    BY ConfigurationAssumption
  <2> QED
    BY <2>1, <2>2, Reads
<1>3. e.EMBEDDINGS_MODEL_PATH \in SUBSET STRING
  BY DEF ReadVar
<1>4. embeddings_backend(e) =
        {[alias |-> alias, model_path |-> x, tunnel_local_port |-> local, remote_port |-> remote]
            : x \in e.EMBEDDINGS_MODEL_PATH}
  BY DEF embeddings_backend
<1> HIDE DEF alias, local, remote
<1> QED
  BY <1>1, <1>2, <1>3, <1>4 DEF EmbeddingsBackendConfig

LEMMA ConfigTyped ==
    ASSUME NEW e, ReadVar(e)
    PROVE  /\ from_env(e) \in AppConfig
           /\ from_env(e).max_active_requests >= 1 /\ from_env(e).cold_start_max_waiting >= 1
<1> DEFINE active == read_positive_usize(e.WARM_MAX_ACTIVE_REQUESTS, 2)
           queued == read_nonnegative_usize(e.WARM_MAX_QUEUED_REQUESTS, 16)
           waiting == read_positive_usize(e.COLD_START_MAX_WAITING, 32)
           local == read_port(e.TUNNEL_LOCAL_PORT, 18080)
           remote == read_port(e.LLAMA_SERVER_PORT, 8080)
           path == unwrap_or(e.MODEL_PATH, "")
           enabled == embeddings_enabled(e)
           alias == model_alias(e)
           backend == embeddings_backend(e)
<1>1. /\ e.WARM_MAX_ACTIVE_REQUESTS \in SUBSET Int /\ e.WARM_MAX_QUEUED_REQUESTS \in SUBSET Int
      /\ e.COLD_START_MAX_WAITING \in SUBSET Int
      /\ e.TUNNEL_LOCAL_PORT \in SUBSET Int /\ e.LLAMA_SERVER_PORT \in SUBSET Int
      /\ e.MODEL_PATH \in SUBSET STRING /\ e.EMBEDDINGS_ENABLED \in SUBSET BOOLEAN
  BY DEF ReadVar
<1>2. /\ 2 \in 1..MaxUsize /\ 16 \in 0..MaxUsize /\ 32 \in 1..MaxUsize
      /\ 18080 \in 0..MaxPort /\ 8080 \in 0..MaxPort
  BY ConfigurationAssumption
<1>3. /\ active \in 1..MaxUsize /\ queued \in 0..MaxUsize /\ waiting \in 1..MaxUsize
      /\ local \in 0..MaxPort /\ remote \in 0..MaxPort
  BY <1>1, <1>2, Reads
<1>4. path \in STRING
  <2>1. "" \in STRING
    BY DefaultsAreStrings
  <2> QED
    BY <1>1, <2>1, UnwrapsTyped
<1>5. enabled \in BOOLEAN
  BY DEF embeddings_enabled
<1>6. alias \in Text /\ backend \in SUBSET EmbeddingsBackendConfig
  BY AliasTyped, BackendTyped
<1>7. from_env(e) =
        [alias |-> alias, embeddings |-> [enabled |-> enabled, backend |-> backend],
         max_active_requests |-> active, max_queued_requests |-> queued,
         cold_start_max_waiting |-> waiting, model_path |-> path,
         tunnel_local_port |-> local, remote_port |-> remote]
  BY DEF from_env
<1> HIDE DEF active, queued, waiting, local, remote, path, enabled, alias, backend
<1>8. active \in 0..MaxUsize /\ waiting \in 0..MaxUsize /\ active >= 1 /\ waiting >= 1
  BY <1>3, ConfigurationAssumption
<1>9. [enabled |-> enabled, backend |-> backend]
        \in [enabled : BOOLEAN, backend : SUBSET EmbeddingsBackendConfig]
  BY <1>5, <1>6
<1> QED
  BY <1>3, <1>4, <1>6, <1>7, <1>8, <1>9 DEF AppConfig

(* A check refuses with its own code.                                      *)
LEMMA OutcomeCode ==
    ASSUME NEW checks, DOMAIN checks \subseteq 1..5
    PROVE  Outcome(checks) = "admitted" \/ \E i \in DOMAIN checks : Outcome(checks) = checks[i].code
<1> DEFINE F == {i \in DOMAIN checks : checks[i].refuses}
<1>1. Outcome(checks) = IF F = {} THEN "admitted" ELSE checks[Min(F)].code
  BY DEF Outcome
<1>2. F # {} => Min(F) \in DOMAIN checks
  BY FirstFailing
<1> HIDE DEF F
<1> QED
  BY <1>1, <1>2

Codes == {"admitted", "invalid_request_error", "unsupported_role", "model_not_found",
          "unsupported_embeddings"}

LEMMA VerdictCodes ==
    ASSUME NEW r PROVE Verdict(r) \in Codes
<1>1. Outcome(ChatChecks(r.body)) \in Codes
  <2>1. DOMAIN ChatChecks(r.body) = 1..5
    BY DEF ChatChecks
  <2>2. \A i \in 1..5 : ChatChecks(r.body)[i].code \in Codes
    BY DEF ChatChecks, Check, Codes
  <2> QED
    BY <2>1, <2>2, OutcomeCode DEF Codes
<1>2. Outcome(EmbeddingsChecks(r.body)) \in Codes
  <2>1. DOMAIN EmbeddingsChecks(r.body) = 1..4
    BY DEF EmbeddingsChecks
  <2>2. \A i \in 1..4 : EmbeddingsChecks(r.body)[i].code \in Codes
    BY DEF EmbeddingsChecks, Check, Codes
  <2> QED
    BY <2>1, <2>2, OutcomeCode DEF Codes
<1> QED
  BY <1>1, <1>2 DEF Verdict, Codes

(* The proxy runs with the configuration it started with, and answers with *)
(* the codes of its checks: with the limits that it starts with, a warm     *)
(* request and a waiter for a cold start can always be admitted (config.rs  *)
(* from_env; state.rs production; tokio Semaphore::new).                    *)
THEOREM TypeCorrect == Spec => []TypeOK
<1> DEFINE Started == env \in Environments /\ Starts(env)
<1>1. Init => Started
  BY DEF Init
<1>2. Started /\ [Next]_vars => Started'
  BY DEF Next, vars, Arrive, RequireJsonContentType, chat_completions, embeddings, Finish
<1>3. Spec => []Started
  BY <1>1, <1>2, PTL DEF Spec
<1>4. IInv /\ Started => TypeOK
  <2> SUFFICES ASSUME IInv, Started PROVE TypeOK
    OBVIOUS
  <2>1. ReadVar(env) /\ config = from_env(env)
    BY AdmissionAssumption DEF IInv
  <2>2. config \in AppConfig /\ config.max_active_requests >= 1 /\ config.cold_start_max_waiting >= 1
    BY <2>1, ConfigTyped
  <2>3. {config.max_active_requests, config.cold_start_max_waiting} \subseteq 1..MaxPermits
    <3>1. /\ config.max_active_requests <= MaxPermits
          /\ config.cold_start_max_waiting <= MaxPermits
      BY <2>1 DEF Starts, BuildsServices
    <3>2. config.max_active_requests \in 0..MaxUsize /\ config.cold_start_max_waiting \in 0..MaxUsize
      BY <2>2 DEF AppConfig
    <3> QED
      BY <2>2, <3>1, <3>2, ConfigurationAssumption
  <2>4. request = Idle => answer = "none"
    BY DEF IInv, Taken, Idle
  <2>5. answer = "none" \/ answer \in Codes
    BY VerdictCodes DEF IInv
  <2> QED
    BY <2>2, <2>3, <2>4, <2>5 DEF TypeOK, Codes
<1> QED
  BY Invariance, <1>3, <1>4, PTL

(* Whatever the environment, every model the proxy lists is served: each of *)
(* the two sources of names is one that an endpoint compares with, and a    *)
(* dedicated backend turns its endpoint on (config.rs from_env; app.rs      *)
(* list_models).                                                           *)
THEOREM Advertised == Spec => []AdvertisedAccepted
<1>1. IInv => AdvertisedAccepted
  <2> SUFFICES ASSUME IInv, NEW model \in list_models
               PROVE  \/ \E body \in ChatBodies :
                            body.model = model /\ Outcome(ChatChecks(body)) = "admitted"
                      \/ \E body \in EmbeddingsBodies :
                            body.model = model /\ Outcome(EmbeddingsChecks(body)) = "admitted"
    BY DEF AdvertisedAccepted
  <2>1. env \in Environments /\ config = from_env(env)
    BY DEF IInv
  <2>2. config.embeddings.backend = embeddings_backend(env) /\ config.alias = model_alias(env)
    BY <2>1, FromEnv
  <2>3. CASE model = config.alias
    <3>1. PICK body \in ChatBodies : body.model = model /\ SupportedBody("Chat", body)
      BY <2>1, <2>2, <2>3, BodiesAssumption
    <3> QED
      BY <2>3, <3>1, ChatAdmits
  <2>4. CASE model # config.alias
    <3>1. PICK backend \in config.embeddings.backend : model = backend.alias
      BY <2>4 DEF list_models
    <3>2. PICK body \in EmbeddingsBodies : body.model = model /\ SupportedBody("Embeddings", body)
      BY <2>1, <2>2, <3>1, BodiesAssumption
    <3>3. config.embeddings.backend = {backend}
      BY <2>1, <3>1, AtMostOneBackend
    <3>4. model_alias_for(config, "Embeddings") = model
      <4>1. {b.alias : b \in {x \in config.embeddings.backend : "Embeddings" = "Embeddings"}}
              = {backend.alias}
        BY <3>3
      <4> QED
        BY <3>1, <4>1, UnwrapsSome DEF model_alias_for
    <3>5. config.embeddings.enabled
      <4>1. embeddings_enabled(env)
        BY <2>2, <3>1 DEF embeddings_enabled, None
      <4> QED
        BY <2>1, <4>1, FromEnv
    <3> QED
      BY <3>2, <3>4, <3>5, EmbeddingsAdmits
  <2> QED
    BY <2>3, <2>4
<1> QED
  BY Invariance, <1>1, PTL
=============================================================================
