------------------------------- MODULE Admission -------------------------------
(***************************************************************************)
(* The HTTP API up to the orchestrator (src/app.rs): a request is checked  *)
(* by the extractors, then by the handler of its endpoint, and is refused  *)
(* with a code or admitted, under any configuration the proxy starts with. *)
(*                                                                         *)
(* A JSON object is given by the shape of its fields.  An optional field   *)
(* that is null is read as one that is absent; the contents of messages    *)
(* that the handlers look at are kept.                                     *)
(***************************************************************************)
EXTENDS Configuration, SequencesExt

CONSTANTS Environments,     \* the environments of the proxy and of the host
          ChatBodies, EmbeddingsBodies

(* An Option has at most one value, and a list of calls is empty or not.   *)
ASSUME AdmissionAssumption ==
    /\ \A e \in Environments :
          /\ ReadVar(e)
          /\ \A x, y \in e.EMBEDDINGS_MODEL_PATH : x = y
    /\ \A body \in ChatBodies : \A i \in DOMAIN body.messages :
          body.messages[i].tool_calls \in {None, {"empty"}, {"some"}}

VARIABLES
    env,        \* the proxy's environment, and the host's, at start-up
    config,     \* AppConfig
    request,    \* the request in hand
    answer      \* what became of it so far

vars == <<env, config, request, answer>>

Idle == [kind |-> "none"]

Init ==
    /\ env \in {e \in Environments : Starts(e)}
    /\ config = from_env(env)
    /\ request = Idle
    /\ answer = "none"

-----------------------------------------------------------------------------
(* Deserialization *)

Shapes == {"absent", "null", "good", "bad"}
Given(shape, required) == \A f \in required : shape[f] = "good"
Optional(shape, fields) == \A f \in fields : shape[f] # "bad"

(* serde(default): absent is fine, null is not.                            *)
Defaulted(shape, fields) == \A f \in fields : shape[f] \in {"absent", "good"}

ChatFields == {"model", "messages", "stream", "tools", "tool_choice"}
IsChatCompletionRequest(body) ==
    /\ ~body.unknown
    /\ Given(body.shape, {"model", "messages"})
    /\ Defaulted(body.shape, {"stream"})
    /\ Optional(body.shape, {"tools", "tool_choice"})

(* A null input is a JSON value like any other here, and refused later.    *)
IsEmbeddingsRequest(body) ==
    /\ ~body.unknown
    /\ Given(body.shape, {"model"})
    /\ body.shape["input"] # "absent"

-----------------------------------------------------------------------------
(* Checks, in their order: a check is a condition and the code it refuses   *)
(* with, and the first whose condition holds decides.                       *)

Roles == {"system", "user", "assistant", "tool", "developer"}
invalid_role(body) == \E i \in DOMAIN body.messages : body.messages[i].role \notin Roles

(* The same without the check of empty tool_calls.                         *)
allows_empty_calls(m) ==
    \/ m.role = "assistant" /\ (m.tool_call_id # None \/ (m.content = None /\ m.tool_calls = None))
    \/ m.role = "tool" /\ (m.tool_calls # None \/ m.tool_call_id = None \/ m.content = None)
    \/ /\ m.role \notin {"assistant", "tool"}
       /\ m.tool_calls # None \/ m.tool_call_id # None \/ m.content = None
content_error(m) ==
    CASE m.role = "assistant" ->
             \/ m.tool_call_id # None
             \/ m.tool_calls = {"empty"}
             \/ m.content = None /\ m.tool_calls = None
      [] m.role = "tool" -> m.tool_calls # None \/ m.tool_call_id = None \/ m.content = None
      [] OTHER -> m.tool_calls # None \/ m.tool_call_id # None \/ m.content = None

Check(refuses, code) == [refuses |-> refuses, code |-> code]

ChatChecks(body) == <<
    Check(~IsChatCompletionRequest(body), "invalid_request_error"),
    Check(body.messages = <<>>, "invalid_request_error"),
    Check(invalid_role(body), "unsupported_role"),
    Check(\E i \in DOMAIN body.messages : content_error(body.messages[i]), "invalid_request_error"),
    Check(body.model # config.alias, "model_not_found")>>

EmbeddingsChecks(body) == <<
    Check(~IsEmbeddingsRequest(body), "invalid_request_error"),
    Check(body.shape["input"] = "null", "invalid_request_error"),
    Check(body.model # model_alias_for(config, "Embeddings"), "model_not_found"),
    Check(~config.embeddings.enabled, "unsupported_embeddings")>>

Outcome(checks) ==
    LET failing == {i \in DOMAIN checks : checks[i].refuses} IN
        IF failing = {} THEN "admitted" ELSE checks[Min(failing)].code

-----------------------------------------------------------------------------
(* One exchange after another; the handlers share nothing that is written. *)

Arrive ==
    /\ request = Idle
    /\ \/ \E json \in BOOLEAN, body \in ChatBodies :
              request' = [kind |-> "Chat", json |-> json, body |-> body]
       \/ \E json \in BOOLEAN, body \in EmbeddingsBodies :
              request' = [kind |-> "Embeddings", json |-> json, body |-> body]
    /\ UNCHANGED <<env, config, answer>>

RequireJsonContentType ==
    /\ request # Idle /\ answer = "none"
    /\ ~request.json
    /\ answer' = "invalid_request_error"
    /\ UNCHANGED <<env, config, request>>

chat_completions ==
    /\ request # Idle /\ answer = "none"
    /\ request.kind = "Chat" /\ request.json
    /\ answer' = Outcome(ChatChecks(request.body))
    /\ UNCHANGED <<env, config, request>>

embeddings ==
    /\ request # Idle /\ answer = "none"
    /\ request.kind = "Embeddings" /\ request.json
    /\ answer' = Outcome(EmbeddingsChecks(request.body))
    /\ UNCHANGED <<env, config, request>>

(* A refused request is answered; an admitted one is the orchestrator's.   *)
Finish ==
    /\ answer # "none"
    /\ request' = Idle
    /\ answer' = "none"
    /\ UNCHANGED <<env, config>>

list_models ==
    {config.alias} \cup {backend.alias : backend \in config.embeddings.backend}

(* The sections of /status: a model's name beside the state of a lifecycle. *)
Section(alias, lifecycle) == [alias |-> alias, lifecycle |-> lifecycle]

status ==
    {Section(config.alias, chat_lifecycle(config))} \cup
    {Section(model_alias_for(config, kind), embeddings_lifecycle(config))
        : kind \in {k \in {"Embeddings"} : config.embeddings.enabled}}

Next == Arrive \/ RequireJsonContentType \/ chat_completions \/ embeddings \/ Finish

Spec == Init /\ [][Next]_vars

-----------------------------------------------------------------------------
(* Properties *)

(* The limits are what WarmScheduler and Orchestrator assume of them,       *)
(* whatever the environment says.                                           *)
TypeOK ==
    /\ config \in AppConfig
    /\ {config.max_active_requests, config.cold_start_max_waiting} \subseteq 1..MaxPermits
    /\ request = Idle => answer = "none"
    /\ answer \in {"none", "admitted", "invalid_request_error", "unsupported_role",
                   "model_not_found", "unsupported_embeddings"}

(* What the endpoints are for: roles are known, tool answers and only they  *)
(* name the call they answer, only assistants call tools, and only with a   *)
(* call may content be missing.                                            *)
SupportedMessage(m) ==
    /\ m.role \in Roles
    /\ m.tool_call_id # None <=> m.role = "tool"
    /\ m.tool_calls # None => m.role = "assistant" /\ m.tool_calls = {"some"}
    /\ m.content = None => m.tool_calls # None
SupportedBody(kind, body) ==
    IF kind = "Chat"
      THEN /\ IsChatCompletionRequest(body)
           /\ body.messages # <<>>
           /\ \A m \in ToSet(body.messages) : SupportedMessage(m)
      ELSE IsEmbeddingsRequest(body) /\ body.shape["input"] # "null"

(* Clients send what they like: for every model a proxy may advertise there *)
(* are requests with nothing wrong in them.                                *)
ASSUME BodiesAssumption ==
    \A e \in Environments :
        \A alias \in {model_alias(e)} \cup {backend.alias : backend \in embeddings_backend(e)} :
            /\ \E body \in ChatBodies : body.model = alias /\ SupportedBody("Chat", body)
            /\ \E body \in EmbeddingsBodies :
                   body.model = alias /\ SupportedBody("Embeddings", body)

(* The requests that get to the orchestrator are exactly the supported ones *)
(* (app.rs: the handlers' checks, in sequence, against what they are for). *)
AdmitsSupported ==
    request # Idle /\ answer # "none" =>
        (answer = "admitted" <=>
            /\ request.json
            /\ SupportedBody(request.kind, request.body)
            /\ request.body.model = model_alias_for(config, request.kind)
            /\ request.kind = "Embeddings" => config.embeddings.enabled)

(* No model is advertised that every request for is then refused: some      *)
(* endpoint takes it (config.rs: a dedicated embeddings backend implies     *)
(* that embeddings are enabled, or /v1/models would advertise a model that  *)
(* /v1/embeddings then rejects).                                            *)
AdvertisedAccepted ==
    request = Idle => \A model \in list_models :
        \/ \E body \in ChatBodies :
               body.model = model /\ Outcome(ChatChecks(body)) = "admitted"
        \/ \E body \in EmbeddingsBodies :
               body.model = model /\ Outcome(EmbeddingsChecks(body)) = "admitted"

(* An admitted request is forwarded to the local end of the tunnel of the   *)
(* backend that was ensured for it, its answer names the model it asked     *)
(* for, and, if the host was told the ports the proxy was told, the far end *)
(* is the server the helper verified (state.rs lifecycle_for,               *)
(* tunnel_port_for, model_alias_for; helper.rs port_for).                   *)
HostAgrees ==
    /\ env.host.LLAMA_SERVER_PORT = env.LLAMA_SERVER_PORT
    /\ env.host.LLAMA_SERVER_EMBEDDINGS_PORT = env.EMBEDDINGS_LLAMA_SERVER_PORT
ReachesVerifiedServer ==
    answer = "admitted" =>
        LET ensured == lifecycle_for(config, request.kind) IN
            /\ tunnel_port_for(config, request.kind) = ensured.local_port
            /\ model_alias_for(config, request.kind) = request.body.model
            /\ ensured.alias = request.body.model
            /\ HostAgrees => ensured.remote_port = port_for(env.host, ensured.target)

(* A reader of /status sees every advertised model, and beside its name the *)
(* state of the lifecycle that starts and verifies that very model (app.rs  *)
(* status, list_models; state.rs production, model_alias_for).              *)
StatusShowsModels ==
    request = Idle =>
        /\ list_models \subseteq {section.alias : section \in status}
        /\ \A section \in status : section.alias = section.lifecycle.alias
=============================================================================
