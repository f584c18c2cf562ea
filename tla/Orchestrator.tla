----------------------------- MODULE Orchestrator -----------------------------
(***************************************************************************)
(* The orchestrator (src/orchestrate.rs) with the parts of AppState it     *)
(* shares between requests (src/state.rs): the cold-start semaphore, the   *)
(* warm execution scheduler and the metrics, for one backend or two.       *)
(*                                                                         *)
(* The scheduler is what WarmScheduler was shown to implement, FairGate,   *)
(* and each lifecycle manager is what Lifecycle was shown to implement,    *)
(* BackendGate.  A request passes once, from its admission to the end of   *)
(* its response body, and its client may disconnect anywhere.              *)
(***************************************************************************)
EXTENDS Integers, Sequences, FiniteSets

CONSTANTS
    Chat, Embeddings,   \* the requests of each kind
    Streams,            \* the chat requests that ask for a stream
    Dual,               \* EMBEDDINGS_MODEL_PATH is set: two backends
    MaxActive,          \* WARM_MAX_ACTIVE_REQUESTS
    ColdMax             \* COLD_START_MAX_WAITING

ASSUME OrchestratorAssumption ==
    /\ Chat \cap Embeddings = {} /\ Streams \subseteq Chat
    /\ IsFiniteSet(Chat \cup Embeddings)
    /\ Dual \in BOOLEAN
    /\ MaxActive \in Nat \ {0} /\ ColdMax \in Nat \ {0}

VARIABLES
    pc,         \* where each request is
    lifecycle,  \* the published lifecycle of each backend
    degraded,   \* the embeddings capability was published Degraded
    boot,       \* the bootstrap of each backend: who is to end it, if anybody is
    cold,       \* the requests that hold a permit of cold_start_semaphore
    inside,     \* the requests that hold a slot of the scheduler
    line,       \* the requests in its queue
    metrics,    \* the counters of what became of requests
    uncounted   \* history: the requests that ended and moved no counter

vars == <<pc, lifecycle, degraded, boot, cold, inside, line, metrics, uncounted>>
backend == <<lifecycle, degraded, boot>>

Requests == Chat \cup Embeddings
Backends == IF Dual THEN {"chat", "embeddings"} ELSE {"chat"}
lifecycle_for(r) == IF Dual /\ r \in Embeddings THEN "embeddings" ELSE "chat"
Status(r) == lifecycle[lifecycle_for(r)]
Booting(r) == boot[lifecycle_for(r)] # "none"
EmbeddingsBackend == IF Dual THEN "embeddings" ELSE "chat"

(* wake_attempts moves with cold_starts, always.                           *)
Counters == {"cold_starts", "warm_requests", "queue_full_rejections", "queue_timeouts",
             "wake_failures", "embeddings_degraded", "forwarding_errors"}

Gate == INSTANCE FairGate WITH Slots <- MaxActive

(* A bootstrap is owned by a request or by the task it left behind, which  *)
(* are one here, and nobody ends it once its request was dropped.          *)
Backend(b) == INSTANCE BackendGate WITH
    Procs <- {b}, Droppable <- {b}, Embeds <- b = EmbeddingsBackend,
    lifecycle <- lifecycle[b],
    embeddings <- IF degraded /\ b = EmbeddingsBackend THEN "Degraded" ELSE "Ready",
    active <- boot[b] # "none",
    owner <- IF boot[b] = "owned" THEN {b} ELSE {}

(* Some status of a backend that is not Cold; its gate says which.         *)
Publish(b) ==
    \E l \in {"Warming", "Ready", "Error"}, d \in BOOLEAN :
        /\ lifecycle' = [lifecycle EXCEPT ![b] = l]
        /\ degraded' = IF b = EmbeddingsBackend THEN d ELSE degraded

Init ==
    /\ pc = [r \in Requests |-> "new"]
    /\ lifecycle = [b \in Backends |-> "Cold"]
    /\ degraded = FALSE
    /\ boot = [b \in Backends |-> "none"]
    /\ cold = {}
    /\ Gate!Init
    /\ metrics = [m \in Counters |-> 0]
    /\ uncounted = {}

Goto(r, l) == pc' = [pc EXCEPT ![r] = l]
Count(m) == metrics' = [metrics EXCEPT ![m] = @ + 1]

KeepPermit(r, l) == Goto(r, l) /\ UNCHANGED cold
(* The response is returned; the body of a stream goes on after it.        *)
Respond(r, l) == Goto(r, l) /\ cold' = cold \ {r}

-----------------------------------------------------------------------------
(* acquire_cold_permit *)

is_cold(r) ==
    /\ pc[r] = "new"
    /\ Goto(r, IF Status(r) = "Cold" THEN "permit" ELSE "ensure")
    /\ UNCHANGED <<backend, cold, inside, line, metrics, uncounted>>

acquire_cold_permit(r) ==
    /\ pc[r] = "permit"
    /\ \/ /\ Cardinality(cold) < ColdMax
          /\ cold' = cold \cup {r}
          /\ Goto(r, "ensure")
          /\ UNCHANGED uncounted
       \/ /\ Cardinality(cold) >= ColdMax
          /\ Respond(r, "done")
          /\ uncounted' = uncounted \cup {r}
    /\ UNCHANGED <<backend, inside, line, metrics>>

-----------------------------------------------------------------------------
(* ensure_backend *)

Ensuring(b) == {r \in Requests : pc[r] \in {"ensure", "again"} /\ lifecycle_for(r) = b}

(* A bootstrap begins while a request asks for the backend, and goes on    *)
(* without one.                                                            *)
Bootstrap(b) ==
    /\ \/ /\ Ensuring(b) # {}
          /\ UNCHANGED <<lifecycle, degraded>>
          /\ boot' = [boot EXCEPT ![b] = "owned"]
          /\ Backend(b)!Begin(b)
       \/ /\ UNCHANGED boot
          /\ Publish(b) /\ Backend(b)!Report(b)
       \/ /\ boot' = [boot EXCEPT ![b] = "none"]
          /\ Publish(b) /\ Backend(b)!Commit(b)
    /\ UNCHANGED <<pc, cold, inside, line, metrics, uncounted>>

(* handle_ready, up to the scheduler: the capability is the decision's,    *)
(* and may be out of date when the request is forwarded.  Every Ready      *)
(* decision comes with a Ready tunnel (Lifecycle, StatusCoherent), so that *)
(* check_tunnel_drop never finds a drop, and its flags are left out.       *)
DecidedReady(r) ==
    /\ pc[r] = "ensure"
    /\ Status(r) = "Ready"
    /\ \/ /\ r \in Embeddings /\ degraded
          /\ Respond(r, "done")
          /\ uncounted' = uncounted \cup {r}
       \/ /\ ~(r \in Embeddings /\ degraded)
          /\ Goto(r, "handle")
          /\ UNCHANGED <<cold, uncounted>>
    /\ UNCHANGED <<backend, inside, line, metrics>>

(* Warming is also what a request gets whose wait budget is over, or that   *)
(* takes the status for one from before the bootstrap that runs.           *)
DecidedOther(r) ==
    /\ pc[r] = "ensure"
    /\ \/ (Status(r) # "Ready" \/ Booting(r)) /\ Count("cold_starts")
       \/ Status(r) = "Error" /\ Count("wake_failures")
    /\ Respond(r, "done")
    /\ UNCHANGED <<backend, inside, line, uncounted>>

-----------------------------------------------------------------------------
(* forward_via_scheduler *)

(* The queue may be full whenever it is needed; its length, and the        *)
(* tickets on their way back, are the matter of WarmScheduler.             *)
Execute(r) ==
    /\ pc[r] = "handle"
    /\ \/ /\ Gate!Enter(r) \/ Gate!LineUp(r)
          /\ Goto(r, "execute")
          /\ UNCHANGED <<cold, metrics>>
       \/ /\ Gate!Full
          /\ Count("queue_full_rejections")
          /\ Respond(r, "done")
          /\ UNCHANGED <<inside, line>>
    /\ UNCHANGED <<backend, uncounted>>

QueueTimeout(r) ==
    /\ pc[r] = "execute"
    /\ Gate!QuitLine(r)
    /\ Count("queue_timeouts")
    /\ Respond(r, "done")
    /\ UNCHANGED <<backend, uncounted>>

KeepForRetry(r, outcome) ==
    IF outcome = "unreachable" THEN UNCHANGED <<inside, line>> ELSE Gate!LeaveSlot(r)
FreeSlot(r, outcome) == Gate!LeaveSlot(r)

Forwarded(r) ==
    /\ FreeSlot(r, "ok")
    /\ Count("warm_requests")
    /\ Respond(r, IF r \in Streams THEN "body" ELSE "done")
    /\ UNCHANGED backend

EmbeddingsUnsupported(r) ==
    /\ r \in Embeddings
    /\ FreeSlot(r, "unsupported")
    /\ Count("embeddings_degraded")
    /\ Respond(r, "done")
    /\ UNCHANGED boot
    /\ Publish(EmbeddingsBackend) /\ Backend(EmbeddingsBackend)!Degrade

(* Nothing listens on the local port any more, or the answer took longer   *)
(* than the client's timeout.                                              *)
UpstreamUnreachable(r) ==
    /\ FreeSlot(r, "unreachable")
    /\ Count("cold_starts")
    /\ Goto(r, "again")
    /\ UNCHANGED <<cold, boot>>
    /\ LET b == lifecycle_for(r) IN Publish(b) /\ Backend(b)!MarkWarming

UpstreamError(r) ==
    /\ FreeSlot(r, "error")
    /\ Count("forwarding_errors")
    /\ Respond(r, "done")
    /\ UNCHANGED backend

EndOperation(r) ==
    /\ pc[r] = "execute"
    /\ r \in inside
    /\ \/ Forwarded(r) \/ EmbeddingsUnsupported(r)
       \/ UpstreamUnreachable(r) \/ UpstreamError(r)
    /\ UNCHANGED uncounted

-----------------------------------------------------------------------------
(* The one retry, outside the scheduler. *)

CountRetryToo == Count("cold_starts")
CountRetry == UNCHANGED metrics

Retry(r) ==
    /\ pc[r] = "again"
    /\ \/ Status(r) = "Ready" /\ Goto(r, "retry") /\ UNCHANGED <<cold, metrics>>
       \/ (Status(r) # "Ready" \/ Booting(r)) /\ Respond(r, "done") /\ CountRetry
    /\ UNCHANGED <<backend, inside, line, uncounted>>

(* Whatever comes of it, no counter is moved and nothing is degraded.      *)
EndRetry(r) ==
    /\ pc[r] = "retry"
    /\ \/ r \in Streams /\ Respond(r, "body")
       \/ Respond(r, "done")
    /\ UNCHANGED <<backend, inside, line, metrics, uncounted>>

EndBody(r) ==
    /\ pc[r] = "body"
    /\ Goto(r, "done")
    /\ UNCHANGED <<backend, cold, inside, line, metrics, uncounted>>

(* The bootstrap that a request leaves behind is ended by nobody.          *)
LeaveBackend(r) ==
    LET b == lifecycle_for(r) IN
        \/ UNCHANGED backend
        \/ /\ r \in Ensuring(b)
           /\ UNCHANGED <<lifecycle, degraded>>
           /\ boot' = [boot EXCEPT ![b] = "abandoned"]
           /\ Backend(b)!Abandon(b)

(* The client disconnects: everything the request holds is dropped.        *)
Disconnect(r) ==
    /\ pc[r] \in {"ensure", "execute", "again", "retry", "body"}
    /\ \/ pc[r] = "execute" /\ (Gate!LeaveSlot(r) \/ Gate!QuitLine(r))
       \/ pc[r] # "execute" /\ UNCHANGED <<inside, line>>
    /\ uncounted' = IF pc[r] \in {"ensure", "execute"} THEN uncounted \cup {r} ELSE uncounted
    /\ Respond(r, "done")
    /\ LeaveBackend(r)
    /\ UNCHANGED metrics

-----------------------------------------------------------------------------
Step(r) == \/ is_cold(r) \/ acquire_cold_permit(r) \/ DecidedReady(r) \/ DecidedOther(r)
           \/ Execute(r) \/ QueueTimeout(r) \/ EndOperation(r)
           \/ Retry(r) \/ EndRetry(r) \/ EndBody(r) \/ Disconnect(r)

Next == (\E b \in Backends : Bootstrap(b)) \/ (\E r \in Requests : Step(r))

Spec == Init /\ [][Next]_vars

(* A forwarded request ends, by the upstream client's timeout if by        *)
(* nothing else.  Nothing is assumed of the lifecycle managers: a backend  *)
(* may boot for ever.                                                      *)
FairSpec == Spec /\ \A r \in Requests : WF_vars(EndOperation(r))

-----------------------------------------------------------------------------
(* Properties *)

TypeOK ==
    /\ pc \in [Requests -> {"new", "permit", "ensure", "handle", "execute", "again",
                            "retry", "body", "done"}]
    /\ lifecycle \in [Backends -> {"Cold", "Warming", "Ready", "Error"}]
    /\ degraded \in BOOLEAN
    /\ boot \in [Backends -> {"none", "owned", "abandoned"}]
    /\ cold \subseteq Requests /\ Cardinality(cold) <= ColdMax
    /\ \A r \in cold : pc[r] \notin {"new", "permit", "body", "done"}
    /\ {r \in Requests : pc[r] = "execute"} = inside \cup Gate!InLine
    /\ metrics \in [Counters -> Nat]
    /\ uncounted \subseteq Requests

(* What became of a request is known from its first outcome on.             *)
Outcomes == {r \in Requests : pc[r] \in {"again", "retry", "body", "done"}}
CounterSum ==
    metrics["cold_starts"] + metrics["warm_requests"] + metrics["queue_full_rejections"]
      + metrics["queue_timeouts"] + metrics["wake_failures"]
      + metrics["embeddings_degraded"] + metrics["forwarding_errors"]

(* Every request is counted once, by the first thing that became of it:     *)
(* a retry, a streamed body or a disconnect adds nothing, and the requests  *)
(* that moved no counter are those refused before they were forwarded and   *)
(* those whose client left first (orchestrate.rs, metrics.rs).              *)
OutcomesCounted == CounterSum + Cardinality(uncounted) = Cardinality(Outcomes)

(* Requests that wait for a boot hold no slot of the scheduler: a request   *)
(* in its queue gets on though a backend never comes back, and even though  *)
(* the queue timeout never fires (orchestrate.rs forward_via_scheduler).    *)
QueueMoves == \A r \in Requests : r \in Gate!InLine ~> r \notin Gate!InLine
=============================================================================
