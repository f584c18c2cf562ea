----------------------------- MODULE Configuration -----------------------------
(***************************************************************************)
(* The configuration of the proxy (src/config.rs), read once from the      *)
(* environment, and the services built from it (src/state.rs); and the     *)
(* configuration of the helper on the host (src/helper.rs), which is read  *)
(* from an environment of its own.                                         *)
(*                                                                         *)
(* An Option is a set of at most one value, and so is a variable of the    *)
(* environment: empty when it is unset or blank, which read_var does not   *)
(* tell apart.  Text that is to be a number is the integer it denotes;     *)
(* text that denotes none is treated like a number out of range, and is    *)
(* represented by one.                                                     *)
(***************************************************************************)
EXTENDS Integers, Sequences

CONSTANTS MaxUsize,     \* the largest usize
          MaxPort,      \* the largest u16
          MaxPermits    \* the most permits a tokio semaphore can have

ASSUME ConfigurationAssumption ==
    /\ MaxUsize \in Nat /\ MaxPort \in 18081..MaxUsize /\ MaxPermits \in 32..MaxUsize

None == {}
unwrap_or(option, default) == IF option = None THEN default ELSE CHOOSE x \in option : TRUE

parse(option, max) == {n \in option : 0 <= n /\ n <= max}
read_port(option, default) == unwrap_or(parse(option, MaxPort), default)
read_nonnegative_usize(option, default) == unwrap_or(parse(option, MaxUsize), default)
read_positive_usize(option, default) == unwrap_or(parse(option, MaxUsize) \ {0}, default)

-----------------------------------------------------------------------------
(* AppConfig and from_env *)

Text == Seq(STRING)

(* True of TLA+ strings, but none of the provers knows it.                  *)
ASSUME DefaultsAreStrings == {"", "llm-wake-proxy", "-embeddings"} \subseteq STRING

(* What the variables of the proxy's environment are read as.              *)
ReadVar(env) ==
    /\ env.MODEL_ALIAS \cup env.EMBEDDINGS_MODEL_ALIAS \subseteq Text
    /\ env.MODEL_PATH \cup env.EMBEDDINGS_MODEL_PATH \subseteq STRING
    /\ env.EMBEDDINGS_ENABLED \subseteq BOOLEAN
    /\ UNION {env.TUNNEL_LOCAL_PORT, env.LLAMA_SERVER_PORT, env.EMBEDDINGS_TUNNEL_LOCAL_PORT,
              env.EMBEDDINGS_LLAMA_SERVER_PORT, env.WARM_MAX_ACTIVE_REQUESTS,
              env.WARM_MAX_QUEUED_REQUESTS, env.COLD_START_MAX_WAITING} \subseteq Int

EmbeddingsBackendConfig == [alias : Text, model_path : STRING,
                            tunnel_local_port : 0..MaxPort, remote_port : 0..MaxPort]
AppConfig == [alias : Text,
              embeddings : [enabled : BOOLEAN, backend : SUBSET EmbeddingsBackendConfig],
              max_active_requests : 0..MaxUsize, max_queued_requests : 0..MaxUsize,
              cold_start_max_waiting : 0..MaxUsize,
              model_path : STRING, tunnel_local_port : 0..MaxPort, remote_port : 0..MaxPort]

model_alias(env) == unwrap_or(env.MODEL_ALIAS, <<"llm-wake-proxy">>)

embeddings_backend(env) ==
    {[alias |-> unwrap_or(env.EMBEDDINGS_MODEL_ALIAS, model_alias(env) \o <<"-embeddings">>),
      model_path |-> model_path,
      tunnel_local_port |-> read_port(env.EMBEDDINGS_TUNNEL_LOCAL_PORT, 18081),
      remote_port |-> read_port(env.EMBEDDINGS_LLAMA_SERVER_PORT, 8081)]
         : model_path \in env.EMBEDDINGS_MODEL_PATH}

(* EMBEDDINGS_ENABLED, read as 1, true, TRUE or yes, or as anything else.  *)
enabled_as_set(env) == unwrap_or(env.EMBEDDINGS_ENABLED, TRUE)
embeddings_enabled(env) == embeddings_backend(env) # None \/ unwrap_or(env.EMBEDDINGS_ENABLED, TRUE)

from_env(env) ==
    [alias |-> model_alias(env),
     embeddings |-> [enabled |-> embeddings_enabled(env), backend |-> embeddings_backend(env)],
     max_active_requests |-> read_positive_usize(env.WARM_MAX_ACTIVE_REQUESTS, 2),
     max_queued_requests |-> read_nonnegative_usize(env.WARM_MAX_QUEUED_REQUESTS, 16),
     cold_start_max_waiting |-> read_positive_usize(env.COLD_START_MAX_WAITING, 32),
     model_path |-> unwrap_or(env.MODEL_PATH, ""),
     tunnel_local_port |-> read_port(env.TUNNEL_LOCAL_PORT, 18080),
     remote_port |-> read_port(env.LLAMA_SERVER_PORT, 8080)]

(* The variables without a default; the MAC address must parse besides.    *)
HasRequired(env) ==
    /\ None \notin {env.SSH_HOST, env.SSH_USER, env.MODEL_PATH}
    /\ env.WOL_MAC_ADDRESS = {"well-formed"}

(* Both limits become semaphores, and a semaphore that is too large panics. *)
BuildsServices(config) ==
    config.max_active_requests <= MaxPermits /\ config.cold_start_max_waiting <= MaxPermits

Starts(env) == HasRequired(env) /\ BuildsServices(from_env(env))

-----------------------------------------------------------------------------
(* AppState: a lifecycle manager has the helper's target, the model it must *)
(* serve, and the two ends of the tunnel.                                   *)

chat_lifecycle(config) ==
    [target |-> "chat", model_path |-> config.model_path, alias |-> config.alias,
     local_port |-> config.tunnel_local_port, remote_port |-> config.remote_port]

embeddings_lifecycle(config) ==
    unwrap_or({[target |-> "embeddings", model_path |-> backend.model_path, alias |-> backend.alias,
                local_port |-> backend.tunnel_local_port, remote_port |-> backend.remote_port]
                   : backend \in config.embeddings.backend},
              chat_lifecycle(config))

lifecycle_for(config, kind) ==
    IF kind = "Chat" THEN chat_lifecycle(config) ELSE embeddings_lifecycle(config)

model_alias_for(config, kind) ==
    unwrap_or({backend.alias : backend \in {b \in config.embeddings.backend : kind = "Embeddings"}},
              config.alias)

chat_port_for(config, kind) == config.tunnel_local_port
tunnel_port_for(config, kind) ==
    unwrap_or({backend.tunnel_local_port
                   : backend \in {b \in config.embeddings.backend : kind = "Embeddings"}},
              config.tunnel_local_port)

-----------------------------------------------------------------------------
(* HelperConfig::from_env and port_for, on the host.                       *)

port_for(hostEnv, target) ==
    IF target = "chat" THEN read_port(hostEnv.LLAMA_SERVER_PORT, 8080)
                       ELSE read_port(hostEnv.LLAMA_SERVER_EMBEDDINGS_PORT, 8081)
=============================================================================
