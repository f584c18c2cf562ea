--------------------------- MODULE HostHelperProofs --------------------------
(***************************************************************************)
(* Proofs about HostHelper, for any set of overlapping observations.       *)
(*                                                                         *)
(* served is kept from the step in which the server answered with the      *)
(* expected model until the observation returns.  The fact that carries    *)
(* ReadyWasServed is about the helper that has decided but not yet exited:  *)
(* the session that may still hear its Ok is one that was served.          *)
(***************************************************************************)
EXTENDS HostHelper, TLAPS

(* A verdict Ok that can still reach the proxy was true when it was taken. *)
OkWasServed == \A r \in Rpcs : run[r] = "Ok" /\ ssh[r] = "running" => r \in served

IInv == TypeOK /\ OkWasServed /\ ReadyWasServed

-----------------------------------------------------------------------------
LEMMA InitIInv == Init => IInv
BY DEF Init, IInv, TypeOK, OkWasServed, ReadyWasServed, Models, Verdicts

(* What the history keeps: a served observation stays so until it ends.    *)
LEMMA ServedStays ==
  ASSUME Remember, NEW r \in Rpcs, r \in served \/ server' = "expected", ssh'[r] # "idle"
  PROVE  r \in served'
BY DEF Remember

(* The steps of a call and its helper leave every other one alone.         *)
LEMMA OthersAlone ==
  ASSUME TypeOK, NEW q \in Rpcs, Steps(q), NEW r \in Rpcs, r # q
  PROVE  run'[r] = run[r] /\ ssh'[r] = ssh[r]
BY DEF TypeOK, Steps, HelperStep, ProxyStep, is_active, start_unit, wait_for_server,
       check_model_identity, Exit, Call, fetch_status, Return, ConnectionLost, Abandon,
       TimerFires, HelperTo, SshTo, env

-----------------------------------------------------------------------------
LEMMA EnvironmentType == TypeOK /\ Environment /\ Remember => TypeOK'
<1> SUFFICES ASSUME TypeOK, Environment, Remember PROVE TypeOK'
  OBVIOUS
<1> USE DEF TypeOK, Models, Verdicts
<1>1. /\ unit' \in {"inactive", "active", "activating", "failed"}
      /\ server' \in {"off", "loading"} \cup Models
      /\ server' # "off" <=> unit' = "active"
      /\ installed' \in Models
      /\ awake' \in BOOLEAN /\ calm' \in BOOLEAN
  BY DEF Environment, Loaded, RestartUnit, ServerStops, EditUnit, SuspendOrResume, Reboot, Calms
<1>2. run' = run \/ run' = [r \in Rpcs |-> "none"]
  BY DEF Environment, Loaded, RestartUnit, ServerStops, EditUnit, SuspendOrResume, Reboot, Calms
<1>3. late' \subseteq {r \in Rpcs : run'[r] = "wait_for_server"}
  BY <1>2 DEF Environment
<1>4. ssh' = ssh /\ served' \subseteq Rpcs
  BY DEF Environment, Remember
<1> QED BY <1>1, <1>2, <1>3, <1>4

LEMMA StepsType == ASSUME TypeOK, NEW q \in Rpcs, Steps(q), Remember PROVE TypeOK'
<1> USE DEF TypeOK, Models, Verdicts, env, HelperAt, HelperTo, SshTo
<1>0. served' \subseteq Rpcs
  BY DEF Remember
<1>1. CASE is_active(q)
  BY <1>0, <1>1 DEF is_active
<1>2. CASE start_unit(q)
  BY <1>0, <1>2 DEF start_unit
<1>3. CASE wait_for_server(q)
  BY <1>0, <1>3 DEF wait_for_server, StartTimedOut, StoppedTimer
<1>4. CASE check_model_identity(q)
  BY <1>0, <1>4 DEF check_model_identity, Verified
<1>5. CASE Exit(q)
  BY <1>0, <1>5 DEF Exit, ExitSuccess
<1>6. CASE Call(q)
  BY <1>0, <1>6 DEF Call
<1>7. CASE fetch_status(q) \/ Return(q) \/ ConnectionLost(q) \/ Abandon(q)
  BY <1>0, <1>7 DEF fetch_status, Return, ConnectionLost, Abandon
<1>8. CASE TimerFires(q)
  BY <1>0, <1>8 DEF TimerFires
<1> QED
  BY <1>1, <1>2, <1>3, <1>4, <1>5, <1>6, <1>7, <1>8 DEF Steps, HelperStep, ProxyStep

(* A step of one call keeps what the history says of that call: it becomes *)
(* Ok in the step that read the expected model, and Ready only from Ok.    *)
LEMMA StepsServed ==
  ASSUME IInv, NEW q \in Rpcs, Steps(q), Remember
  PROVE  /\ run'[q] = "Ok" /\ ssh'[q] = "running" => q \in served'
         /\ ssh'[q] \in {"fetching", "ready"} => q \in served'
<1> USE ServedStays DEF IInv, OkWasServed, ReadyWasServed, TypeOK, env, HelperAt, HelperTo, SshTo
<1>1. CASE is_active(q) \/ start_unit(q) \/ wait_for_server(q)
  <2>1. run'[q] # "Ok" /\ ssh' = ssh
    BY <1>1 DEF is_active, start_unit, wait_for_server
  <2> QED BY <2>1
<1>2. CASE check_model_identity(q)
  <2>1. ssh' = ssh /\ (run'[q] = "Ok" => server' = "expected")
    BY <1>2 DEF check_model_identity, Verified
  <2> QED BY <2>1
<1>3. CASE Exit(q)
  <2>1. run'[q] = "none"
    BY <1>3 DEF Exit
  <2>2. ssh'[q] \in {"fetching", "ready"} =>
          ssh[q] \in {"fetching", "ready"} \/ (run[q] = "Ok" /\ ssh[q] = "running")
    BY <1>3 DEF Exit, ExitSuccess
  <2> QED BY <2>1, <2>2
<1>4. CASE Call(q)
  <2>1. run'[q] # "Ok" /\ ssh'[q] \in {"running", "failed"}
    BY <1>4 DEF Call
  <2> QED BY <2>1
<1>5. CASE fetch_status(q)
  <2>1. ssh[q] = "fetching" /\ ssh'[q] = "ready"
    BY <1>5 DEF fetch_status
  <2> QED BY <2>1
<1>6. CASE Return(q) \/ ConnectionLost(q) \/ Abandon(q)
  <2>1. ssh'[q] \in {"idle", "failed"}
    BY <1>6 DEF Return, ConnectionLost, Abandon
  <2> QED BY <2>1
<1>7. CASE TimerFires(q)
  <2>1. UNCHANGED <<run, ssh>>
    BY <1>7 DEF TimerFires
  <2> QED BY <2>1
<1> QED
  BY <1>1, <1>2, <1>3, <1>4, <1>5, <1>6, <1>7 DEF Steps, HelperStep, ProxyStep

LEMMA Inductive == IInv /\ [Next]_vars => IInv'
<1> SUFFICES ASSUME IInv, [Next]_vars PROVE IInv'
  OBVIOUS
<1> TypeOK
  BY DEF IInv
<1>1. CASE Environment /\ Remember
  <2>1. ssh' = ssh /\ \A r \in Rpcs : run'[r] \in {run[r], "none"}
    BY <1>1 DEF Environment, Loaded, RestartUnit, ServerStops, EditUnit, SuspendOrResume,
                Reboot, Calms, TypeOK
  <2>2. OkWasServed' /\ ReadyWasServed'
    BY <1>1, <2>1, ServedStays DEF IInv, OkWasServed, ReadyWasServed
  <2> QED BY <1>1, <2>2, EnvironmentType DEF IInv
<1>2. ASSUME NEW q \in Rpcs, Steps(q), Remember PROVE IInv'
  <2>1. TypeOK'
    BY <1>2, StepsType
  <2>2. \A r \in Rpcs \ {q} : run'[r] = run[r] /\ ssh'[r] = ssh[r]
    BY <1>2, OthersAlone
  <2>3. \A r \in Rpcs \ {q} : r \in served /\ ssh'[r] # "idle" => r \in served'
    BY <1>2, ServedStays
  <2>4. OkWasServed' /\ ReadyWasServed'
    BY <1>2, <2>2, <2>3, StepsServed DEF IInv, OkWasServed, ReadyWasServed
  <2> QED BY <2>1, <2>4 DEF IInv
<1>3. CASE UNCHANGED vars
  BY <1>3 DEF vars, IInv, TypeOK, OkWasServed, ReadyWasServed
<1> QED BY <1>1, <1>2, <1>3 DEF Next

-----------------------------------------------------------------------------
(* The strengthened invariant holds of every behaviour of helper and proxy. *)
THEOREM Invariance == Spec => []IInv
BY InitIInv, Inductive, PTL DEF Spec

(* A server answers only while its unit is active and a start timer belongs *)
(* to a helper that waits (helper.rs ensure_started, wait_for_server).     *)
THEOREM TypeCorrect == Spec => []TypeOK
<1>1. IInv => TypeOK
  BY DEF IInv
<1> QED BY Invariance, <1>1, PTL

(* A backend the proxy takes for ready did serve the expected model during  *)
(* that observation, with any number of helpers left behind on the host    *)
(* (host.rs observe_backend, helper.rs check_model_identity).              *)
THEOREM Served == Spec => []ReadyWasServed
<1>1. IInv => ReadyWasServed
  BY DEF IInv
<1> QED BY Invariance, <1>1, PTL
=============================================================================
