----------------------------- MODULE HostHelper -----------------------------
(***************************************************************************)
(* How the proxy observes one backend: SshHelperRpc (src/host.rs) runs the *)
(* helper's ensure-started command on the host (src/helper.rs and          *)
(* src/bin/helper.rs), which starts the llama-server unit, waits for the   *)
(* server and verifies the model it serves.                                *)
(*                                                                         *)
(* A step is one command the helper runs on the host (systemctl, curl) or  *)
(* one event of the ssh session.  The session and the helper can part: a   *)
(* request that is dropped, or a connection that is lost, leaves its helper *)
(* running on the host beside the helper of the next request.  systemd,    *)
(* llama-server and the host itself are the environment.                   *)
(***************************************************************************)
EXTENDS Naturals

CONSTANT Rpcs       \* observe_backend calls that may overlap

VARIABLES
    unit,       \* ActiveState of the llama-server unit, as systemctl sees it
    server,     \* what answers on the server's port: nothing yet, or a model
    installed,  \* the model named in the unit file, served from the next start on
    awake,      \* the host is not suspended
    calm,       \* the host stopped misbehaving
    run,        \* where the helper of each call is, on the host
    late,       \* the helpers whose SERVER_START_TIMEOUT_SECS passed
    ssh,        \* the proxy's side of each call
    served      \* history: the calls during which the expected model was served

env == <<unit, server, installed, awake, calm>>
vars == <<unit, server, installed, awake, calm, run, late, ssh, served>>

(* What /v1/models can answer: a name taken for the expected model's,      *)
(* another, or no name.                                                    *)
Models == {"expected", "other", "nameless"}
Verdicts == {"Ok", "Mismatch", "Error"}     \* HelperStatus of the response

Init ==
    /\ unit \in {"inactive", "failed"}
    /\ server = "off"
    /\ installed \in Models
    /\ awake \in BOOLEAN
    /\ calm = FALSE
    /\ run = [r \in Rpcs |-> "none"]
    /\ late = {}
    /\ ssh = [r \in Rpcs |-> "idle"]
    /\ served = {}

HelperAt(r, l) == run[r] = l /\ awake
HelperTo(r, l) == run' = [run EXCEPT ![r] = l]
SshTo(r, l) == ssh' = [ssh EXCEPT ![r] = l]

-----------------------------------------------------------------------------
(* Helper::ensure_started, on the host *)

(* is-active failing to run counts as not active. *)
is_active(r) ==
    /\ HelperAt(r, "is_active")
    /\ \/ unit = "active" /\ HelperTo(r, "wait_for_server")
       \/ (unit # "active" \/ ~calm) /\ HelperTo(r, "start_unit")
    /\ UNCHANGED <<env, late, ssh>>

SkipStart(r) ==
    /\ HelperAt(r, "start_unit")
    /\ HelperTo(r, "wait_for_server")
    /\ UNCHANGED <<env, late, ssh>>

(* systemctl start does nothing to a unit that is active. *)
start_unit(r) ==
    /\ HelperAt(r, "start_unit")
    /\ \/ /\ unit' = "active"
          /\ server' = IF unit = "active" THEN server ELSE "loading"
          /\ HelperTo(r, "wait_for_server")
       \/ ~calm /\ HelperTo(r, "Error") /\ UNCHANGED <<unit, server>>
    /\ UNCHANGED <<installed, awake, calm, late, ssh>>

WaitsForever(r) == FALSE
StartTimedOut(r) == r \in late
KeptTimer(r) == late
StoppedTimer(r) == late \ {r}

wait_for_server(r) ==
    /\ HelperAt(r, "wait_for_server")
    /\ \/ StartTimedOut(r) /\ HelperTo(r, "Error")
       \/ ~StartTimedOut(r) /\ server \in Models /\ HelperTo(r, "check_model_identity")
    /\ late' = StoppedTimer(r)
    /\ UNCHANGED <<env, ssh>>

(* "expected" stands for every name that passes the helper's test: it is   *)
(* part of the model path, or has the path in it.                          *)
AnyModel == server \in Models
Verified == server = "expected"

(* The server is asked again: it may be gone by now. *)
check_model_identity(r) ==
    /\ HelperAt(r, "check_model_identity")
    /\ \/ Verified /\ HelperTo(r, "Ok")
       \/ ~Verified /\ server = "other" /\ HelperTo(r, "Mismatch")
       \/ ~Verified /\ server # "other" /\ HelperTo(r, "Error")
    /\ UNCHANGED <<env, late, ssh>>

-----------------------------------------------------------------------------
(* SshHelperRpc::observe_backend, in the proxy *)

(* Connecting fails when the host is asleep, and may fail otherwise.       *)
Call(r) ==
    /\ ssh[r] = "idle"
    /\ run[r] = "none"
    /\ \/ awake /\ SshTo(r, "running") /\ HelperTo(r, "is_active")
       \/ ~calm /\ SshTo(r, "failed") /\ UNCHANGED run
    /\ UNCHANGED <<env, late>>

(* main exits with SUCCESS for Ok alone, and any other exit fails the call, *)
(* so a Mismatch or Error response is never parsed.                        *)
ExitSuccess(verdict) == verdict = "Ok"

Exit(r) ==
    /\ run[r] \in Verdicts
    /\ awake
    /\ HelperTo(r, "none")
    /\ \/ ssh[r] = "running" /\ SshTo(r, IF ExitSuccess(run[r]) THEN "fetching" ELSE "failed")
       \/ ssh[r] # "running" /\ UNCHANGED ssh
    /\ UNCHANGED <<env, late>>

(* A second command, status, refreshes the unit states; its failure is     *)
(* ignored.                                                                *)
fetch_status(r) ==
    /\ ssh[r] = "fetching"
    /\ SshTo(r, "ready")
    /\ UNCHANGED <<env, run, late>>

Return(r) ==
    /\ ssh[r] \in {"ready", "failed"}
    /\ SshTo(r, "idle")
    /\ UNCHANGED <<env, run, late>>

(* The ssh connection breaks: the helper is left behind, if it still runs. *)
ConnectionLost(r) ==
    /\ ssh[r] = "running"
    /\ ~calm \/ run[r] = "none"
    /\ SshTo(r, "failed")
    /\ UNCHANGED <<env, run, late>>

(* The future of the request that observes the host is dropped (not any    *)
(* more, once the host is calm).                                           *)
Abandon(r) ==
    /\ ssh[r] \in {"running", "fetching"}
    /\ ~calm
    /\ SshTo(r, "idle")
    /\ UNCHANGED <<env, run, late>>

-----------------------------------------------------------------------------
(* The environment *)

(* On a calm host a server that answers is polled long before the timeout.  *)
TimerFires(r) ==
    /\ ~calm \/ server \notin Models
    /\ HelperAt(r, "wait_for_server")
    /\ r \notin late
    /\ late' = late \cup {r}
    /\ UNCHANGED <<env, run, ssh>>

Loaded == awake /\ server = "loading" /\ server' = installed
          /\ UNCHANGED <<unit, installed, awake, calm, run>>
RestartUnit == awake /\ unit = "activating" /\ unit' = "active" /\ server' = "loading"
               /\ UNCHANGED <<installed, awake, calm, run>>

(* The unit is stopped, or crashes and is restarted by systemd, or has     *)
(* crashed too often.                                                      *)
ServerStops == awake /\ unit = "active" /\ unit' \in {"inactive", "activating", "failed"}
               /\ server' = "off" /\ UNCHANGED <<installed, awake, calm, run>>
EditUnit == installed' \in Models /\ UNCHANGED <<unit, server, awake, calm, run>>
SuspendOrResume == awake' = ~awake /\ UNCHANGED <<unit, server, installed, calm, run>>
Reboot == /\ unit' = "inactive" /\ server' = "off" /\ awake' = TRUE
          /\ run' = [r \in Rpcs |-> "none"]
          /\ UNCHANGED <<installed, calm>>
(* The host calms down awake, with the expected model in the unit file and *)
(* no other server running.                                                *)
Calms == /\ awake /\ installed = "expected" /\ server \notin {"other", "nameless"}
         /\ calm' = TRUE
         /\ UNCHANGED <<unit, server, installed, awake, run>>

Environment ==
    /\ \/ Loaded \/ RestartUnit
       \/ ~calm /\ (ServerStops \/ EditUnit \/ SuspendOrResume \/ Reboot \/ Calms)
    /\ late' = {r \in late : run'[r] # "none"}
    /\ UNCHANGED ssh

-----------------------------------------------------------------------------
HelperStep(r) == \/ is_active(r) \/ start_unit(r) \/ wait_for_server(r)
                 \/ check_model_identity(r) \/ Exit(r)
ProxyStep(r) == Call(r) \/ fetch_status(r) \/ Return(r)
Steps(r) == HelperStep(r) \/ ProxyStep(r) \/ ConnectionLost(r) \/ Abandon(r) \/ TimerFires(r)

Remember == served' = {r \in Rpcs : /\ ssh'[r] # "idle"
                                    /\ r \in served \/ server' = "expected"}

Next == (Environment \/ \E r \in Rpcs : Steps(r)) /\ Remember

Spec == Init /\ [][Next]_vars

(* The helper, its timer and the proxy run on, and the environment loads   *)
(* models and restarts units it said it would.  Nothing is assumed of a    *)
(* host that is not calm.                                                  *)
FairSpec ==
    /\ Spec
    /\ \A r \in Rpcs : /\ WF_vars(HelperStep(r) /\ Remember)
                       /\ WF_vars(ProxyStep(r) /\ Remember)
                       /\ WF_vars(TimerFires(r) /\ Remember)
                       /\ WF_vars(ConnectionLost(r) /\ run[r] = "none" /\ Remember)
    /\ WF_vars(Environment /\ Loaded /\ Remember)
    /\ WF_vars(Environment /\ RestartUnit /\ Remember)

-----------------------------------------------------------------------------
(* Properties *)

(* A server answers only while its unit is active, and a timer belongs to   *)
(* a helper that waits.                                                    *)
TypeOK ==
    /\ unit \in {"inactive", "active", "activating", "failed"}
    /\ server \in {"off", "loading"} \cup Models
    /\ server # "off" <=> unit = "active"
    /\ installed \in Models
    /\ awake \in BOOLEAN /\ calm \in BOOLEAN
    /\ run \in [Rpcs -> {"none", "is_active", "start_unit", "wait_for_server",
                         "check_model_identity"} \cup Verdicts]
    /\ late \subseteq {r \in Rpcs : run[r] = "wait_for_server"}
    /\ ssh \in [Rpcs -> {"idle", "running", "fetching", "ready", "failed"}]
    /\ served \subseteq Rpcs

(* A backend observed Ready served the expected model at some moment of     *)
(* that very observation, whatever other helpers, restarts, edits of the    *)
(* unit file and lost connections came in between (helper.rs                *)
(* ensure_started, host.rs ensure_started).                                 *)
ReadyWasServed == \A r \in Rpcs : ssh[r] \in {"fetching", "ready"} => r \in served

(* A helper does not outlive its server start timeout, its caller gone or   *)
(* not (helper.rs wait_for_server).                                         *)
HelperEnds == \A r \in Rpcs : calm /\ run[r] # "none" ~> run[r] = "none"

(* Once the host is calm, an observation that is repeated finds it ready,   *)
(* from any unit state: stopped, failed, or restarting by itself.           *)
ObservedReady == calm ~> \E r \in Rpcs : ssh[r] = "ready"
=============================================================================
