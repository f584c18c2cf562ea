------------------------------ MODULE MCAdmission ------------------------------
(* Admission for TLC: environments that set, leave out or spoil each group   *)
(* of variables, and request bodies with at most one odd field or message.   *)
EXTENDS Admission

Numbers == {"TUNNEL_LOCAL_PORT", "LLAMA_SERVER_PORT", "EMBEDDINGS_TUNNEL_LOCAL_PORT",
            "EMBEDDINGS_LLAMA_SERVER_PORT", "WARM_MAX_ACTIVE_REQUESTS",
            "WARM_MAX_QUEUED_REQUESTS", "COLD_START_MAX_WAITING"}

(* Every number unset, zero, no number, too large for its type or for a      *)
(* semaphore, or a value of its own.                                         *)
Each(option) == [v \in Numbers |-> option]
Own == [v \in Numbers |->
          CASE v = "TUNNEL_LOCAL_PORT" -> {11} [] v = "LLAMA_SERVER_PORT" -> {12}
            [] v = "EMBEDDINGS_TUNNEL_LOCAL_PORT" -> {13} [] v = "EMBEDDINGS_LLAMA_SERVER_PORT" -> {14}
            [] OTHER -> {1}]
NumberSets == {Each(None), Each({0}), Each({-1}), Each({MaxUsize + 1}), Each({MaxUsize}), Own}

Required(macs) == {[SSH_HOST |-> {"host"}, SSH_USER |-> user, WOL_MAC_ADDRESS |-> mac,
                    MODEL_PATH |-> {"chat.gguf"}] : user \in {None, {"user"}}, mac \in macs}

Texts == [MODEL_ALIAS : {None, {<<"m">>}}, EMBEDDINGS_MODEL_PATH : {None, {"embed.gguf"}},
          EMBEDDINGS_MODEL_ALIAS : {None, {<<"m">>}, {<<"e">>}},
          EMBEDDINGS_ENABLED : {None, {TRUE}, {FALSE}}]

Host(numbers) == {[LLAMA_SERVER_PORT |-> numbers["LLAMA_SERVER_PORT"],
                   LLAMA_SERVER_EMBEDDINGS_PORT |-> numbers["EMBEDDINGS_LLAMA_SERVER_PORT"]],
                  [LLAMA_SERVER_PORT |-> None, LLAMA_SERVER_EMBEDDINGS_PORT |-> {21}]}

MCEnvironments == UNION {{texts @@ numbers @@ required @@ [host |-> host] :
                            texts \in Texts, host \in Host(numbers),
                            required \in Required({{"well-formed"}, {"malformed"}})}
                         : numbers \in NumberSets}

-----------------------------------------------------------------------------
Models == {<<"m">>, <<"e">>, <<"llm-wake-proxy">>, <<"m", "-embeddings">>,
           <<"llm-wake-proxy", "-embeddings">>}

(* One field that is not as it should be, at most.                           *)
OneOff(fields) == {[f \in fields |-> IF f = g THEN s ELSE "good"] : g \in fields, s \in Shapes}

Message(role) == [role |-> role, content |-> {"text"}, tool_calls |-> None,
                  tool_call_id |-> None]
Messages == [role : {"user", "assistant", "tool", "other"}, content : {None, {"text"}},
             tool_calls : {None, {"empty"}, {"some"}}, tool_call_id : {None, {"id"}}]
Conversations == {<<>>} \cup {<<m>> : m \in Messages}
                   \cup {<<Message("user"), m>> : m \in Messages}

ChatBody(shape, unknown, model, messages) ==
    [shape |-> shape, unknown |-> unknown, model |-> model, messages |-> messages]
AllGood(fields) == [f \in fields |-> "good"]

MCChatBodies ==
    {ChatBody(shape, unknown, <<"m">>, <<Message("user")>>)
        : shape \in OneOff(ChatFields), unknown \in BOOLEAN}
    \cup {ChatBody(AllGood(ChatFields), FALSE, <<"m">>, messages) : messages \in Conversations}
    \cup {ChatBody(AllGood(ChatFields), FALSE, model, <<Message("user")>>) : model \in Models}

EmbeddingsFields == {"model", "input"}
MCEmbeddingsBodies ==
    {[shape |-> shape, unknown |-> unknown, model |-> <<"m">>]
        : shape \in OneOff(EmbeddingsFields), unknown \in BOOLEAN}
    \cup {[shape |-> AllGood(EmbeddingsFields), unknown |-> FALSE, model |-> model] : model \in Models}
=============================================================================
