---------------------------- MODULE LifecycleProofs ----------------------------
(***************************************************************************)
(* Proofs about the lifecycle manager for any number of calls and tasks:   *)
(* its invariants, and that it is what its callers take it for, the        *)
(* BackendGate.                                                            *)
(***************************************************************************)
EXTENDS Lifecycle, TLAPS

(* The edits a process makes to its copy of the status keep it a status.   *)
LEMMA StatusEdits ==
    ASSUME NEW s \in Statuses
    PROVE  /\ Warm(s) \in Statuses
           /\ Failing(s) \in Statuses
           /\ [s EXCEPT !.tunnel = "Down"] \in Statuses
           /\ [s EXCEPT !.tunnel = "Ready"] \in Statuses
           /\ [s EXCEPT !.embeddings = "Degraded"] \in Statuses
           /\ [s EXCEPT !.embeddings = "Ready"] \in Statuses
           /\ [s EXCEPT !.lifecycle = "Ready", !.embeddings = "Ready"] \in Statuses
    BY DEF Statuses, LifecycleState, Capability, Warm, Failing, Cold

(* The status a backend starts from, BackendStatus::default, is a status.  *)
LEMMA ColdIsStatus == Cold \in Statuses
    BY DEF Cold, Statuses, LifecycleState, Capability

(* What ensure_backend decides, from any status and with any recorded      *)
(* error, is a LifecycleDecision.                                          *)
LEMMA DecisionsOK ==
    /\ NoDecision \in Decisions
    /\ \A k \in {"Ready", "Warming", "Failed"}, s \in Statuses, e \in {"None", "Cause", "Generic"} :
           Decided(k, s, e) \in Decisions
    BY StatusEdits DEF NoDecision, Decided, Decisions, Cold, Statuses, LifecycleState, Capability

(* Statuses, decisions, program points and LifecycleCore's bootstrap record*)
(* keep their types through every await of the lifecycle manager.          *)
THEOREM TypeCorrect == Spec => []TypeOK
<1> USE LifecycleAssumption DEF Procs
<1>1. Init => TypeOK
  <2> SUFFICES ASSUME Init PROVE TypeOK
    OBVIOUS
  <2> USE DEF Init
  <2>1. pc \in [Procs -> CallPc \cup TaskPc] /\ (\A t \in Tasks : pc[t] \in TaskPc)
                                         /\ (\A c \in Calls : pc[c] \in CallPc)
    BY DEF CallPc, TaskPc
  <2>2. status \in Statuses /\ snap \in [Procs -> Statuses]
    BY ColdIsStatus
  <2>3. decision \in [Calls -> Decisions]
    BY DecisionsOK
  <2>4. host \in [awake : BOOLEAN, link : BOOLEAN, calm : BOOLEAN]
    OBVIOUS
  <2>5. bootstrap \in [active : BOOLEAN, lastError : {"None", "Cause"}, observe : {"Chat", "Embeddings"}]
    OBVIOUS
  <2>. QED BY <2>1, <2>2, <2>3, <2>4, <2>5 DEF TypeOK
<1>2. TypeOK /\ [Next]_vars => TypeOK'
  <2> SUFFICES ASSUME TypeOK, [Next]_vars PROVE TypeOK'
    OBVIOUS
  <2> USE DEF TypeOK, CallPc, TaskPc, OwnerPc, OnceListening, Goto, Hold, Release, Decide, publish
  <2>1. ASSUME NEW c \in Calls, Arrive(c) \/ EnsureAgain(c) PROVE TypeOK'
    BY <2>1 DEF Arrive, EnsureAgain, Borrow
  <2>2. ASSUME NEW c \in Calls, ReadyGate(c) PROVE TypeOK'
    BY <2>2, ColdIsStatus, DecisionsOK DEF ReadyGate
  <2>3. ASSUME NEW c \in Calls, start_or_join_bootstrap(c) PROVE TypeOK'
    <3>1. KindOf(c) \in {"Chat", "Embeddings"}
      BY DEF KindOf
    <3>2. bootstrap' \in [active : BOOLEAN, lastError : {"None", "Cause"}, observe : {"Chat", "Embeddings"}]
      <4>1. \/ bootstrap' = bootstrap
            \/ bootstrap' = [bootstrap EXCEPT !.observe = KindOf(c)]
            \/ bootstrap' = [active |-> TRUE, lastError |-> "None", observe |-> KindOf(c)]
        BY <2>3 DEF start_or_join_bootstrap
      <4>2. CASE bootstrap' = bootstrap
        BY <4>2
      <4>3. CASE bootstrap' = [bootstrap EXCEPT !.observe = KindOf(c)]
        BY <4>3, <3>1
      <4>4. CASE bootstrap' = [active |-> TRUE, lastError |-> "None", observe |-> KindOf(c)]
        BY <4>4, <3>1
      <4>. QED BY <4>1, <4>2, <4>3, <4>4
    <3>3. CASE pc' = [pc EXCEPT ![c] = "obs"] /\ snap' = snap
      BY <2>3, <3>2, <3>3 DEF start_or_join_bootstrap
    <3>4. CASE pc' = [pc EXCEPT ![c] = "wait"] /\ snap' = [snap EXCEPT ![c] = Cold]
      BY <2>3, <3>2, <3>4, ColdIsStatus DEF start_or_join_bootstrap
    <3>. QED BY <2>3, <3>3, <3>4 DEF start_or_join_bootstrap
  <2>4. ASSUME NEW p \in Procs, bootstrap_observe_request(p) PROVE TypeOK'
    BY <2>4 DEF bootstrap_observe_request
  <2>5. ASSUME NEW p \in Procs, SshReady(p) PROVE TypeOK'
    BY <2>5 DEF SshReady
  <2>6. ASSUME NEW p \in Procs, SshDown(p) PROVE TypeOK'
    <3>1. snap[p] \in Statuses /\ Warm(snap[p]) \in Statuses /\ Failing(snap[p]) \in Statuses
          /\ [snap[p] EXCEPT !.tunnel = "Down"] \in Statuses
      BY StatusEdits
    <3>2. CASE WakesHost(p)
      BY <2>6, <3>1, <3>2 DEF SshDown, WakesHost
    <3>3. CASE ~WakesHost(p)
      BY <2>6, <3>1, <3>3, ColdIsStatus DEF SshDown, StillWarming
    <3>. QED BY <3>2, <3>3
  <2>7. ASSUME NEW p \in Procs, SshError(p) \/ ObservedError(p) \/ TunnelError(p) PROVE TypeOK'
    <3>1. snap[p] \in Statuses /\ Warm(snap[p]) \in Statuses /\ Failing(snap[p]) \in Statuses
      BY StatusEdits
    <3>. QED BY <2>7, <3>1 DEF SshError, ObservedError, TunnelError, FailBootstrap
  <2>8. ASSUME NEW c \in Calls, request_wake(c) PROVE TypeOK'
    <3>1. snap[c] \in Statuses /\ Warm(snap[c]) \in Statuses /\ Failing(snap[c]) \in Statuses
      BY StatusEdits
    <3>. QED BY <2>8, <3>1, ColdIsStatus DEF request_wake, FailBootstrap, StillWarming
  <2>9. ASSUME NEW p \in Procs, ObservedReady(p) PROVE TypeOK'
    BY <2>9, StatusEdits DEF ObservedReady
  <2>10. ASSUME NEW p \in Procs, ObservedWarming(p) PROVE TypeOK'
    <3>1. Warm([snap[p] EXCEPT !.embeddings = "Ready"]) \in Statuses
      BY StatusEdits
    <3>. QED BY <2>10, <3>1, ColdIsStatus DEF ObservedWarming, StillWarming
  <2>11. ASSUME NEW p \in Procs, TunnelReady(p) PROVE TypeOK'
    <3>1. [snap[p] EXCEPT !.tunnel = "Ready"] \in Statuses
      BY StatusEdits
    <3>. QED BY <2>11, <3>1, DecisionsOK DEF TunnelReady
  <2>12. ASSUME NEW p \in Procs, TunnelDown(p) PROVE TypeOK'
    <3>1. snap[p] \in Statuses /\ Warm(snap[p]) \in Statuses /\ Failing(snap[p]) \in Statuses
      BY StatusEdits
    <3>. QED BY <2>12, <3>1, ColdIsStatus DEF TunnelDown, StillWarming
  <2>13. ASSUME NEW c \in Calls, RereadStatus(c) PROVE TypeOK'
    BY <2>13 DEF RereadStatus
  <2>14. ASSUME NEW p \in Procs, finish_bootstrap(p) PROVE TypeOK'
    <3>1. Recorded(p) \in {"None", "Cause"} /\ snap[p] \in Statuses
      BY DEF Recorded
    <3>2. bootstrap' \in [active : BOOLEAN, lastError : {"None", "Cause"}, observe : {"Chat", "Embeddings"}]
      BY <2>14, <3>1 DEF finish_bootstrap
    <3>3. decision' \in [Calls -> Decisions]
      BY <2>14, <3>1, DecisionsOK DEF finish_bootstrap
    <3>. QED BY <2>14, <3>1, <3>2, <3>3, ColdIsStatus DEF finish_bootstrap
  <2>15. ASSUME NEW t \in Tasks, Poll(t) PROVE TypeOK'
    <3>1. status \in Statuses /\ Failing(status) \in Statuses
      BY StatusEdits
    <3>. QED BY <2>15, <3>1 DEF Poll, GiveUp
  <2>16. ASSUME NEW c \in Calls, BorrowWaiting(c) PROVE TypeOK'
    BY <2>16 DEF BorrowWaiting
  <2>17. ASSUME NEW c \in Calls, CheckBootstrap(c) PROVE TypeOK'
    <3>1. \A b \in BOOLEAN : bootstrap_wait_status(snap[c], b) \in Statuses
      BY StatusEdits DEF bootstrap_wait_status
    <3>2. ASSUME NEW d \in Decisions, EndWait(c, d),
                 UNCHANGED <<status, bootstrap, observe, retried, host>>
          PROVE  TypeOK'
      BY <3>2, ColdIsStatus DEF EndWait
    <3>3. CASE \E d \in Decisions : EndWait(c, d)
      BY <2>17, <3>2, <3>3 DEF CheckBootstrap
    <3>4. CASE ~\E d \in Decisions : EndWait(c, d)
      <4>1. bootstrap.lastError \in {"None", "Cause"}
        OBVIOUS
      <4>2. /\ Goto(c, "blocked")
            /\ stale' = stale \/ stale' = stale \cup {c}
            /\ UNCHANGED <<unseen, snap, decision>>
        BY <2>17, <3>1, <3>4, <4>1, DecisionsOK DEF CheckBootstrap
      <4>. QED BY <2>17, <4>2 DEF CheckBootstrap
    <3>. QED BY <3>3, <3>4
  <2>18. ASSUME NEW c \in Calls, StatusChanged(c) \/ WaitTimesOut(c) PROVE TypeOK'
    BY <2>18, ColdIsStatus DEF StatusChanged, WaitTimesOut
  <2>19. ASSUME NEW c \in Calls, ReturnWarming(c) PROVE TypeOK'
    BY <2>19, ColdIsStatus, StatusEdits, DecisionsOK DEF ReturnWarming, EndWait, bootstrap_wait_status
  <2>20. ASSUME NEW c \in Calls, Answer(c) PROVE TypeOK'
    BY <2>20, DecisionsOK DEF Answer, Finished
  <2>21. ASSUME NEW c \in Calls, UpstreamUnreachable(c) PROVE TypeOK'
    BY <2>21, StatusEdits, DecisionsOK DEF UpstreamUnreachable, Forwards
  <2>22. ASSUME NEW c \in Calls, mark_warming(c) PROVE TypeOK'
    BY <2>22, ColdIsStatus DEF mark_warming
  <2>23. ASSUME NEW c \in Calls, EmbeddingsUnsupported(c) PROVE TypeOK'
    BY <2>23, StatusEdits, DecisionsOK DEF EmbeddingsUnsupported, Forwards
  <2>24. ASSUME NEW c \in Calls, degrade_embeddings(c) PROVE TypeOK'
    BY <2>24, ColdIsStatus DEF degrade_embeddings
  <2>25. ASSUME NEW c \in Calls, Drop(c) PROVE TypeOK'
    BY <2>25, ColdIsStatus, DecisionsOK DEF Drop, Finished
  <2>27. ASSUME HostCalms PROVE TypeOK'
    BY <2>27 DEF HostCalms
  <2>28. ASSUME UNCHANGED vars PROVE TypeOK'
    BY <2>28 DEF vars
  <2>. HIDE DEF TypeOK, CallPc, TaskPc, OwnerPc, OnceListening, Goto, Hold, Release, Decide, publish
  <2>. QED
    BY <2>1, <2>2, <2>3, <2>4, <2>5, <2>6, <2>7, <2>8, <2>9, <2>10, <2>11, <2>12, <2>13, <2>14, <2>15, <2>16, <2>17, <2>18, <2>19, <2>20, <2>21, <2>22, <2>23, <2>24, <2>25, <2>27, <2>28 DEF Next, ProxyStep, CallStep, TaskStep, OwnerStep
<1>. QED BY <1>1, <1>2, PTL DEF Spec

-----------------------------------------------------------------------------
(* At most one call or task bootstraps at a time, and the active flag says  *)
(* so: ownership is taken only through the flag, passes from a call to the  *)
(* task it spawns, and is given up with the flag.                           *)
THEOREM Mutex == Spec => []SingleBootstrap
<1> USE LifecycleAssumption DEF Procs
<1>1. Init => SingleBootstrap
  BY DEF Init, SingleBootstrap, Owners, OwnerPc
<1>2. TypeOK /\ SingleBootstrap /\ [Next]_vars => SingleBootstrap'
  <2> SUFFICES ASSUME TypeOK, SingleBootstrap, [Next]_vars PROVE SingleBootstrap'
    OBVIOUS
  <2>. pc \in [Procs -> CallPc \cup TaskPc] /\ \A t \in Tasks : pc[t] \in TaskPc
    BY DEF TypeOK
  <2> USE DEF SingleBootstrap, Owners, OwnerPc, TaskPc, Goto
  <2>1. ASSUME NEW c \in Calls, Arrive(c) \/ EnsureAgain(c) PROVE SingleBootstrap'
    BY <2>1 DEF Arrive, EnsureAgain, Borrow
  <2>2. ASSUME NEW c \in Calls, ReadyGate(c) PROVE SingleBootstrap'
    BY <2>2 DEF ReadyGate
  <2>3. ASSUME NEW c \in Calls, start_or_join_bootstrap(c) PROVE SingleBootstrap'
    <3>1. CASE should_start
      <4>1. bootstrap'.active /\ pc' = [pc EXCEPT ![c] = "obs"] /\ Owners = {}
        BY <2>3, <3>1 DEF start_or_join_bootstrap, should_start
      <4>. QED BY <4>1
    <3>2. CASE ~should_start
      <4>1. bootstrap.active /\ bootstrap'.active /\ pc' = [pc EXCEPT ![c] = "wait"]
        <5>1. bootstrap' = bootstrap \/ bootstrap' = [bootstrap EXCEPT !.observe = KindOf(c)]
          BY <2>3, <3>2 DEF start_or_join_bootstrap, should_start
        <5>2. bootstrap.active /\ pc' = [pc EXCEPT ![c] = "wait"]
          BY <2>3, <3>2 DEF start_or_join_bootstrap, should_start
        <5>. QED BY <5>1, <5>2 DEF TypeOK
      <4>. QED BY <4>1
    <3>. QED BY <3>1, <3>2
  <2>4. ASSUME NEW p \in Procs, bootstrap_observe_request(p) PROVE SingleBootstrap'
    BY <2>4 DEF bootstrap_observe_request
  <2>5. ASSUME NEW p \in Procs, SshReady(p) PROVE SingleBootstrap'
    BY <2>5 DEF SshReady
  <2>6. ASSUME NEW p \in Procs, SshDown(p) PROVE SingleBootstrap'
    BY <2>6 DEF SshDown, StillWarming
  <2>7. ASSUME NEW p \in Procs, SshError(p) \/ ObservedError(p) \/ TunnelError(p) PROVE SingleBootstrap'
    BY <2>7 DEF SshError, ObservedError, TunnelError, FailBootstrap
  <2>8. ASSUME NEW c \in Calls, request_wake(c) PROVE SingleBootstrap'
    BY <2>8 DEF request_wake, FailBootstrap, StillWarming
  <2>9. ASSUME NEW p \in Procs, ObservedReady(p) PROVE SingleBootstrap'
    BY <2>9 DEF ObservedReady
  <2>10. ASSUME NEW p \in Procs, ObservedWarming(p) PROVE SingleBootstrap'
    BY <2>10 DEF ObservedWarming, StillWarming
  <2>11. ASSUME NEW p \in Procs, TunnelReady(p) PROVE SingleBootstrap'
    BY <2>11 DEF TunnelReady
  <2>12. ASSUME NEW p \in Procs, TunnelDown(p) PROVE SingleBootstrap'
    BY <2>12 DEF TunnelDown, StillWarming
  <2>13. ASSUME NEW c \in Calls, RereadStatus(c) PROVE SingleBootstrap'
    BY <2>13 DEF RereadStatus
  <2>14. ASSUME NEW p \in Procs, finish_bootstrap(p) PROVE SingleBootstrap'
    BY <2>14 DEF finish_bootstrap
  <2>15. ASSUME NEW t \in Tasks, Poll(t) PROVE SingleBootstrap'
    BY <2>15 DEF Poll, GiveUp
  <2>16. ASSUME NEW c \in Calls, BorrowWaiting(c) PROVE SingleBootstrap'
    BY <2>16 DEF BorrowWaiting
  <2>17. ASSUME NEW c \in Calls, CheckBootstrap(c) PROVE SingleBootstrap'
    BY <2>17 DEF CheckBootstrap, EndWait
  <2>18. ASSUME NEW c \in Calls, StatusChanged(c) PROVE SingleBootstrap'
    BY <2>18 DEF StatusChanged
  <2>19. ASSUME NEW c \in Calls, WaitTimesOut(c) PROVE SingleBootstrap'
    BY <2>19 DEF WaitTimesOut
  <2>20. ASSUME NEW c \in Calls, ReturnWarming(c) PROVE SingleBootstrap'
    BY <2>20 DEF ReturnWarming, EndWait
  <2>21. ASSUME NEW c \in Calls, Answer(c) PROVE SingleBootstrap'
    BY <2>21 DEF Answer, Finished
  <2>22. ASSUME NEW c \in Calls, UpstreamUnreachable(c) PROVE SingleBootstrap'
    BY <2>22 DEF UpstreamUnreachable, Forwards
  <2>23. ASSUME NEW c \in Calls, mark_warming(c) PROVE SingleBootstrap'
    BY <2>23 DEF mark_warming
  <2>24. ASSUME NEW c \in Calls, EmbeddingsUnsupported(c) PROVE SingleBootstrap'
    BY <2>24 DEF EmbeddingsUnsupported, Forwards
  <2>25. ASSUME NEW c \in Calls, degrade_embeddings(c) PROVE SingleBootstrap'
    BY <2>25 DEF degrade_embeddings
  <2>26. ASSUME NEW c \in Calls, Drop(c) PROVE SingleBootstrap'
    BY <2>26 DEF Drop, Finished, AwaitPc
  <2>28. ASSUME HostCalms PROVE SingleBootstrap'
    BY <2>28 DEF HostCalms
  <2>29. ASSUME UNCHANGED vars PROVE SingleBootstrap'
    BY <2>29 DEF vars
  <2>. HIDE DEF SingleBootstrap, Owners, OwnerPc, TaskPc, Goto
  <2>. QED
    BY <2>1, <2>2, <2>3, <2>4, <2>5, <2>6, <2>7, <2>8, <2>9, <2>10, <2>11, <2>12, <2>13, <2>14, <2>15, <2>16, <2>17, <2>18, <2>19, <2>20, <2>21, <2>22, <2>23, <2>24, <2>25, <2>26, <2>28, <2>29
       DEF Next, ProxyStep, CallStep, TaskStep, OwnerStep
<1>. QED BY <1>1, <1>2, TypeCorrect, PTL DEF Spec

-----------------------------------------------------------------------------
(* Coherence of the status is not inductive: a step publishes a copy that   *)
(* some process took or edited earlier, so the copies are coherent too, as  *)
(* far along as each process is.                                            *)
CopiesCoherent ==
    \A p \in Procs :
        /\ pc[p] = "fail" => snap[p].lifecycle = "Error" /\ snap[p].tunnel = "Down"
        /\ pc[p] = "tunnel" => snap[p].lifecycle = "Ready"
        /\ pc[p] \in {"commit", "gate", "check", "mark", "degrade"} => Coherent(snap[p])

CoherentInv == /\ Coherent(status)
               /\ \A c \in Calls : Coherent(decision[c].status)
               /\ CopiesCoherent

(* The edits made to a status keep it Ready exactly when its tunnel is:    *)
(* observe_once sets both or neither, and mark_warming resets both.        *)
LEMMA CoherentEdits ==
    ASSUME NEW s \in Statuses
    PROVE  /\ Coherent(Warm(s))
           /\ Coherent(Failing(s))
           /\ Failing(s).lifecycle = "Error" /\ Failing(s).tunnel = "Down"
           /\ s.lifecycle = "Ready" => Coherent([s EXCEPT !.tunnel = "Ready"])
           /\ Coherent(s) => Coherent([s EXCEPT !.embeddings = "Degraded"])
           /\ [s EXCEPT !.lifecycle = "Ready", !.embeddings = "Ready"].lifecycle = "Ready"
    BY DEF Statuses, Coherent, Warm, Failing

(* The initial status is coherent, and so is a decision made from one.     *)
LEMMA CoherentDecisions ==
    /\ Coherent(Cold) /\ Coherent(NoDecision.status)
    /\ \A k, s, e : Decided(k, s, e).status = s
    BY DEF Coherent, Cold, NoDecision, Decided


(* observe_once answers Warming from a coherent copy: nothing incoherent is*)
(* published or kept.                                                      *)
LEMMA WarmingCoherent ==
    ASSUME TypeOK, CoherentInv, NEW p \in Procs, NEW s \in Statuses, Coherent(s), StillWarming(p, s)
    PROVE  CoherentInv'
<1>1. decision' = decision /\ status' = s /\ snap' = [snap EXCEPT ![p] = Cold]
  BY DEF StillWarming, publish, Release, Hold
<1>2. \A q \in Procs : pc'[q] = pc[q] \/ pc'[q] \in {"wait", "poll"}
  BY DEF TypeOK, StillWarming, Goto, Procs
<1>3. \A q \in Procs : snap'[q] = snap[q] \/ pc'[q] \in {"wait", "poll"}
  BY <1>1, LifecycleAssumption DEF TypeOK, StillWarming, Goto, Procs
<1>. QED BY <1>1, <1>2, <1>3 DEF CoherentInv, CopiesCoherent

(* observe_once fails (fail_bootstrap) from a coherent copy: the Error it  *)
(* publishes and every copy stay coherent.                                 *)
LEMMA FailCoherent ==
    ASSUME TypeOK, CoherentInv, NEW p \in Procs, FailBootstrap(p)
    PROVE  CoherentInv'
<1>1. snap' = [snap EXCEPT ![p] = Failing(snap[p])] /\ pc' = [pc EXCEPT ![p] = "fail"]
      /\ UNCHANGED <<status, decision>>
  BY DEF FailBootstrap, Goto, Hold
<1>2. /\ pc \in [Procs -> CallPc \cup TaskPc] /\ snap \in [Procs -> Statuses]
      /\ Failing(snap[p]).lifecycle = "Error" /\ Failing(snap[p]).tunnel = "Down"
  BY CoherentEdits DEF TypeOK
<1>. QED BY <1>1, <1>2 DEF CoherentInv, CopiesCoherent

(* Every status the manager publishes, and every copy a call or task holds *)
(* over an await, is coherent: an old copy republished is coherent too.    *)
LEMMA CoherentAlways == Spec => []CoherentInv
<1> USE LifecycleAssumption DEF Procs
<1>1. Init => CoherentInv
  BY CoherentDecisions DEF Init, CoherentInv, CopiesCoherent
<1>2. TypeOK /\ CoherentInv /\ [Next]_vars => CoherentInv'
  <2> SUFFICES ASSUME TypeOK, CoherentInv, [Next]_vars PROVE CoherentInv'
    OBVIOUS
  <2>. /\ pc \in [Procs -> CallPc \cup TaskPc] /\ \A t \in Tasks : pc[t] \in TaskPc
       /\ snap \in [Procs -> Statuses] /\ decision \in [Calls -> Decisions] /\ status \in Statuses
    BY DEF TypeOK
  <2> USE DEF CoherentInv, CopiesCoherent, Goto, Hold, Release, Decide, publish, TaskPc, OwnerPc
  <2>1. ASSUME NEW c \in Calls, Arrive(c) \/ EnsureAgain(c) PROVE CoherentInv'
    BY <2>1, CoherentEdits, CoherentDecisions DEF Arrive, EnsureAgain, Borrow
  <2>2. ASSUME NEW c \in Calls, ReadyGate(c) PROVE CoherentInv'
    BY <2>2, CoherentEdits, CoherentDecisions DEF ReadyGate
  <2>3. ASSUME NEW c \in Calls, start_or_join_bootstrap(c) PROVE CoherentInv'
    BY <2>3, CoherentEdits, CoherentDecisions DEF start_or_join_bootstrap, should_start
  <2>4. ASSUME NEW p \in Procs, bootstrap_observe_request(p) PROVE CoherentInv'
    BY <2>4, CoherentEdits, CoherentDecisions DEF bootstrap_observe_request
  <2>5. ASSUME NEW p \in Procs, SshReady(p) PROVE CoherentInv'
    BY <2>5, CoherentEdits, CoherentDecisions DEF SshReady
  <2>6. ASSUME NEW p \in Procs, SshDown(p) PROVE CoherentInv'
    <3>1. Warm(snap[p]) \in Statuses /\ Coherent(Warm(snap[p]))
      BY StatusEdits, CoherentEdits
    <3>2. CASE WakesHost(p)
      BY <2>6, <3>2 DEF SshDown
    <3>3. CASE ~WakesHost(p)
      BY <2>6, <3>1, <3>3, WarmingCoherent DEF SshDown
    <3>. QED BY <3>2, <3>3
  <2>7. ASSUME NEW p \in Procs, SshError(p) \/ ObservedError(p) \/ TunnelError(p) PROVE CoherentInv'
    <3>1. FailBootstrap(p)
      BY <2>7 DEF SshError, ObservedError, TunnelError
    <3>. QED BY <3>1, FailCoherent
  <2>8. ASSUME NEW c \in Calls, request_wake(c) PROVE CoherentInv'
    <3>1. Warm(snap[c]) \in Statuses /\ Coherent(Warm(snap[c]))
      BY StatusEdits, CoherentEdits
    <3>2. StillWarming(c, Warm(snap[c])) \/ FailBootstrap(c)
      BY <2>8 DEF request_wake
    <3>. QED BY <3>1, <3>2, WarmingCoherent, FailCoherent
  <2>9. ASSUME NEW p \in Procs, ObservedReady(p) PROVE CoherentInv'
    BY <2>9, CoherentEdits, CoherentDecisions DEF ObservedReady
  <2>10. ASSUME NEW p \in Procs, ObservedWarming(p) PROVE CoherentInv'
    <3> DEFINE s == Warm([snap[p] EXCEPT !.embeddings = "Ready"])
    <3>1. s \in Statuses /\ Coherent(s)
      BY StatusEdits, CoherentEdits
    <3>2. StillWarming(p, s)
      BY <2>10 DEF ObservedWarming
    <3>. QED BY <3>1, <3>2, WarmingCoherent
  <2>11. ASSUME NEW p \in Procs, TunnelReady(p) PROVE CoherentInv'
    <3> DEFINE s == [snap[p] EXCEPT !.tunnel = "Ready"]
    <3>1. Coherent(s) /\ s \in Statuses
      BY <2>11, StatusEdits, CoherentEdits DEF TunnelReady
    <3>2. /\ status' = s /\ snap' = [snap EXCEPT ![p] = s]
          /\ pc' = [pc EXCEPT ![p] = "finish"] \/ pc' = [pc EXCEPT ![p] = "commit"]
          /\ \/ decision' = decision
             \/ p \in Calls /\ decision' = [decision EXCEPT ![p] = Decided("Ready", s, "None")]
      BY <2>11 DEF TunnelReady
    <3>3. Coherent(Decided("Ready", s, "None").status)
      BY <3>1 DEF Decided
    <3>. HIDE DEF s
    <3>. QED BY <3>1, <3>2, <3>3
  <2>12. ASSUME NEW p \in Procs, TunnelDown(p) PROVE CoherentInv'
    <3>1. Warm(snap[p]) \in Statuses /\ Coherent(Warm(snap[p]))
      BY StatusEdits, CoherentEdits
    <3>. QED BY <2>12, <3>1, WarmingCoherent DEF TunnelDown
  <2>13. ASSUME NEW c \in Calls, RereadStatus(c) PROVE CoherentInv'
    BY <2>13, CoherentEdits, CoherentDecisions DEF RereadStatus
  <2>14. ASSUME NEW p \in Procs, finish_bootstrap(p) PROVE CoherentInv'
    <3>1. Coherent(snap[p])
      BY <2>14 DEF finish_bootstrap, Coherent
    <3>2. Coherent(Decided("Failed", snap[p], "Cause").status)
      BY <3>1 DEF Decided
    <3>3. status' = snap[p] /\ snap' = [snap EXCEPT ![p] = Cold]
      BY <2>14 DEF finish_bootstrap
    <3>4. pc' = [pc EXCEPT ![p] = "decided"] \/ pc' = [pc EXCEPT ![p] = "idle"]
      BY <2>14 DEF finish_bootstrap
    <3>5. \/ decision' = decision
          \/ p \in Calls /\ decision' = [decision EXCEPT ![p] = Decided("Failed", snap[p], "Cause")]
      BY <2>14 DEF finish_bootstrap
    <3>. QED BY <3>1, <3>2, <3>3, <3>4, <3>5
  <2>15. ASSUME NEW t \in Tasks, Poll(t) PROVE CoherentInv'
    <3>1. Failing(status).lifecycle = "Error" /\ Failing(status).tunnel = "Down"
      BY CoherentEdits
    <3>. QED BY <2>15, <3>1 DEF Poll, GiveUp
  <2>16. ASSUME NEW c \in Calls, BorrowWaiting(c) PROVE CoherentInv'
    BY <2>16, CoherentEdits, CoherentDecisions DEF BorrowWaiting
  <2>17. ASSUME NEW c \in Calls, CheckBootstrap(c) PROVE CoherentInv'
    <3> DEFINE isStale == bootstrap.active /\ snap[c].lifecycle # "Warming"
    <3>1. Coherent(snap[c]) /\ Coherent(bootstrap_wait_status(snap[c], isStale))
      BY <2>17, CoherentEdits DEF CheckBootstrap, bootstrap_wait_status
    <3>2. ASSUME NEW d, EndWait(c, d), Coherent(d.status), status' = status PROVE CoherentInv'
      BY <3>2 DEF EndWait
    <3>3. CASE \E d : EndWait(c, d) /\ Coherent(d.status)
      BY <2>17, <3>2, <3>3 DEF CheckBootstrap
    <3>4. CASE ~\E d : EndWait(c, d) /\ Coherent(d.status)
      <4>1. Goto(c, "blocked") /\ UNCHANGED <<status, snap, decision>>
        BY <2>17, <3>1, <3>4, CoherentDecisions DEF CheckBootstrap
      <4>. QED BY <4>1
    <3>. QED BY <3>3, <3>4
  <2>18. ASSUME NEW c \in Calls, StatusChanged(c) PROVE CoherentInv'
    BY <2>18, CoherentEdits, CoherentDecisions DEF StatusChanged
  <2>19. ASSUME NEW c \in Calls, WaitTimesOut(c) PROVE CoherentInv'
    BY <2>19, CoherentEdits, CoherentDecisions DEF WaitTimesOut
  <2>20. ASSUME NEW c \in Calls, ReturnWarming(c) PROVE CoherentInv'
    <3>1. Coherent(bootstrap_wait_status(status, c \in stale))
      BY CoherentEdits DEF bootstrap_wait_status
    <3>2. Coherent(Decided("Warming", bootstrap_wait_status(status, c \in stale), "None").status)
      BY <3>1 DEF Decided
    <3>. QED BY <2>20, <3>2 DEF ReturnWarming, EndWait
  <2>21. ASSUME NEW c \in Calls, Answer(c) PROVE CoherentInv'
    BY <2>21, CoherentEdits, CoherentDecisions DEF Answer, Finished
  <2>22. ASSUME NEW c \in Calls, UpstreamUnreachable(c) PROVE CoherentInv'
    BY <2>22, CoherentEdits, CoherentDecisions DEF UpstreamUnreachable, Forwards
  <2>23. ASSUME NEW c \in Calls, mark_warming(c) PROVE CoherentInv'
    BY <2>23, CoherentEdits, CoherentDecisions DEF mark_warming
  <2>24. ASSUME NEW c \in Calls, EmbeddingsUnsupported(c) PROVE CoherentInv'
    BY <2>24, CoherentEdits, CoherentDecisions DEF EmbeddingsUnsupported, Forwards
  <2>25. ASSUME NEW c \in Calls, degrade_embeddings(c) PROVE CoherentInv'
    BY <2>25, CoherentEdits, CoherentDecisions DEF degrade_embeddings
  <2>26. ASSUME NEW c \in Calls, Drop(c) PROVE CoherentInv'
    BY <2>26, CoherentEdits, CoherentDecisions DEF Drop, Finished, AwaitPc
  <2>28. ASSUME HostCalms PROVE CoherentInv'
    BY <2>28, CoherentEdits, CoherentDecisions DEF HostCalms
  <2>29. ASSUME UNCHANGED vars PROVE CoherentInv'
    BY <2>29, CoherentEdits, CoherentDecisions DEF vars
  <2>. HIDE DEF CoherentInv, CopiesCoherent, Goto, Hold, Release, Decide, publish, TaskPc, OwnerPc
  <2>. QED
    BY <2>1, <2>2, <2>3, <2>4, <2>5, <2>6, <2>7, <2>8, <2>9, <2>10, <2>11, <2>12, <2>13, <2>14, <2>15, <2>16, <2>17, <2>18, <2>19, <2>20, <2>21, <2>22, <2>23, <2>24, <2>25, <2>26, <2>28, <2>29
       DEF Next, ProxyStep, CallStep, TaskStep, OwnerStep
<1>. QED BY <1>1, <1>2, TypeCorrect, PTL DEF Spec

(* The status is Ready exactly when its tunnel is, and so is every decision *)
(* a caller acts on.                                                        *)
THEOREM Coherence == Spec => []StatusCoherent
<1>1. CoherentInv => StatusCoherent
  BY DEF CoherentInv, StatusCoherent
<1>. QED BY <1>1, CoherentAlways, PTL

-----------------------------------------------------------------------------
(* A waiter with nothing unseen holds the current status, from the moment   *)
(* it borrows it; it goes to sleep on it only if it is undecided or a       *)
(* bootstrap is running, and a bootstrap ends only with a publish.          *)
WakeupInv ==
    \A c \in Calls \ unseen :
        /\ pc[c] \in {"check", "blocked"} => snap[c] = status
        /\ pc[c] = "blocked" /\ ~bootstrap.active => ~Decisive(status)

(* publish wakes every waiter that listens on the watch channel, so none   *)
(* is left blocked on the status it replaces.                              *)
LEMMA PublishWakes ==
    ASSUME NEW s, publish(s)
    PROVE  WakeupInv'
    BY DEF publish, WakeupInv, OnceListening

(* A waiter of wait_for_ready_or_timeout that saw every published status   *)
(* and sleeps does so because a bootstrap is still active or the status    *)
(* decides nothing: the last publish of finish_bootstrap is never missed.  *)
THEOREM Wakeup == Spec => []NoLostWakeup
<1> USE LifecycleAssumption DEF Procs
<1>1. Init => WakeupInv
  BY DEF Init, WakeupInv
<1>2. TypeOK /\ WakeupInv /\ [Next]_vars => WakeupInv'
  <2> SUFFICES ASSUME TypeOK, WakeupInv, [Next]_vars PROVE WakeupInv'
    OBVIOUS
  <2>. /\ pc \in [Procs -> CallPc \cup TaskPc] /\ \A t \in Tasks : pc[t] \in TaskPc
       /\ snap \in [Procs -> Statuses] /\ unseen \subseteq Calls
    BY DEF TypeOK
  <2> USE DEF WakeupInv, Goto, Hold, Release
  <2>1. ASSUME NEW c \in Calls, Arrive(c) \/ EnsureAgain(c) PROVE WakeupInv'
    BY <2>1 DEF Arrive, EnsureAgain, Borrow
  <2>2. ASSUME NEW c \in Calls, ReadyGate(c) PROVE WakeupInv'
    BY <2>2 DEF ReadyGate
  <2>3. ASSUME NEW c \in Calls, start_or_join_bootstrap(c) PROVE WakeupInv'
    <3>1. pc'[c] \notin {"check", "blocked"} /\ unseen' = unseen \ {c} /\ status' = status
          /\ \A d \in Calls \ {c} : pc'[d] = pc[d] /\ snap'[d] = snap[d]
      BY <2>3 DEF start_or_join_bootstrap
    <3>2. bootstrap.active => bootstrap'.active
      <4>1. bootstrap.active => \/ bootstrap' = bootstrap
                               \/ bootstrap' = [bootstrap EXCEPT !.observe = KindOf(c)]
        BY <2>3 DEF start_or_join_bootstrap, should_start
      <4>. QED BY <4>1 DEF TypeOK
    <3>. QED BY <3>1, <3>2
  <2>4. ASSUME NEW p \in Procs, bootstrap_observe_request(p) PROVE WakeupInv'
    BY <2>4 DEF bootstrap_observe_request
  <2>5. ASSUME NEW p \in Procs, SshReady(p) PROVE WakeupInv'
    BY <2>5 DEF SshReady
  <2>6. ASSUME NEW p \in Procs, SshDown(p) PROVE WakeupInv'
    <3>1. CASE WakesHost(p)
      BY <2>6, <3>1 DEF SshDown
    <3>2. CASE ~WakesHost(p)
      BY <2>6, <3>2, PublishWakes DEF SshDown, StillWarming
    <3>. QED BY <3>1, <3>2
  <2>7. ASSUME NEW p \in Procs, SshError(p) \/ ObservedError(p) \/ TunnelError(p) PROVE WakeupInv'
    BY <2>7 DEF SshError, ObservedError, TunnelError, FailBootstrap
  <2>8. ASSUME NEW c \in Calls, request_wake(c) PROVE WakeupInv'
    <3>1. CASE StillWarming(c, Warm(snap[c]))
      BY <3>1, PublishWakes DEF StillWarming
    <3>2. CASE FailBootstrap(c)
      BY <3>2 DEF FailBootstrap
    <3>. QED BY <2>8, <3>1, <3>2 DEF request_wake
  <2>9. ASSUME NEW p \in Procs, ObservedReady(p) PROVE WakeupInv'
    BY <2>9 DEF ObservedReady
  <2>10. ASSUME NEW p \in Procs, ObservedWarming(p) PROVE WakeupInv'
    BY <2>10, PublishWakes DEF ObservedWarming, StillWarming
  <2>11. ASSUME NEW p \in Procs, TunnelReady(p) PROVE WakeupInv'
    BY <2>11, PublishWakes DEF TunnelReady
  <2>12. ASSUME NEW p \in Procs, TunnelDown(p) PROVE WakeupInv'
    BY <2>12, PublishWakes DEF TunnelDown, StillWarming
  <2>13. ASSUME NEW c \in Calls, RereadStatus(c) PROVE WakeupInv'
    BY <2>13 DEF RereadStatus
  <2>14. ASSUME NEW p \in Procs, finish_bootstrap(p) PROVE WakeupInv'
    BY <2>14, PublishWakes DEF finish_bootstrap
  <2>15. ASSUME NEW t \in Tasks, Poll(t) PROVE WakeupInv'
    BY <2>15 DEF Poll, GiveUp
  <2>16. ASSUME NEW c \in Calls, BorrowWaiting(c) PROVE WakeupInv'
    BY <2>16 DEF BorrowWaiting
  <2>17. ASSUME NEW c \in Calls, CheckBootstrap(c) PROVE WakeupInv'
    <3>1. pc[c] = "check" /\ UNCHANGED <<status, bootstrap>>
      BY <2>17 DEF CheckBootstrap
    <3>2. ASSUME NEW d, EndWait(c, d) PROVE WakeupInv'
      BY <3>1, <3>2 DEF EndWait
    <3>3. CASE \E d : EndWait(c, d)
      BY <3>2, <3>3
    <3>4. CASE ~\E d : EndWait(c, d)
      <4>1. pc' = [pc EXCEPT ![c] = "blocked"] /\ UNCHANGED <<unseen, snap>>
        BY <2>17, <3>4 DEF CheckBootstrap
      <4>2. ~bootstrap.active => ~Decisive(snap[c])
        BY <2>17, <3>4 DEF CheckBootstrap, Decisive
      <4>. QED BY <3>1, <4>1, <4>2
    <3>. QED BY <3>3, <3>4
  <2>18. ASSUME NEW c \in Calls, StatusChanged(c) PROVE WakeupInv'
    BY <2>18 DEF StatusChanged
  <2>19. ASSUME NEW c \in Calls, WaitTimesOut(c) PROVE WakeupInv'
    BY <2>19 DEF WaitTimesOut
  <2>20. ASSUME NEW c \in Calls, ReturnWarming(c) PROVE WakeupInv'
    BY <2>20 DEF ReturnWarming, EndWait
  <2>21. ASSUME NEW c \in Calls, Answer(c) PROVE WakeupInv'
    BY <2>21 DEF Answer, Finished
  <2>22. ASSUME NEW c \in Calls, UpstreamUnreachable(c) PROVE WakeupInv'
    BY <2>22 DEF UpstreamUnreachable, Forwards
  <2>23. ASSUME NEW c \in Calls, mark_warming(c) PROVE WakeupInv'
    BY <2>23, PublishWakes DEF mark_warming
  <2>24. ASSUME NEW c \in Calls, EmbeddingsUnsupported(c) PROVE WakeupInv'
    BY <2>24 DEF EmbeddingsUnsupported, Forwards
  <2>25. ASSUME NEW c \in Calls, degrade_embeddings(c) PROVE WakeupInv'
    BY <2>25, PublishWakes DEF degrade_embeddings
  <2>26. ASSUME NEW c \in Calls, Drop(c) PROVE WakeupInv'
    BY <2>26 DEF Drop, Finished, AwaitPc
  <2>28. ASSUME HostCalms PROVE WakeupInv'
    BY <2>28 DEF HostCalms
  <2>29. ASSUME UNCHANGED vars PROVE WakeupInv'
    BY <2>29 DEF vars
  <2>. HIDE DEF WakeupInv, Goto, Hold, Release
  <2>. QED
    BY <2>1, <2>2, <2>3, <2>4, <2>5, <2>6, <2>7, <2>8, <2>9, <2>10, <2>11, <2>12, <2>13, <2>14, <2>15, <2>16, <2>17, <2>18, <2>19, <2>20, <2>21, <2>22, <2>23, <2>24, <2>25, <2>26, <2>28, <2>29
       DEF Next, ProxyStep, CallStep, TaskStep, OwnerStep
<1>3. WakeupInv => NoLostWakeup
  BY DEF WakeupInv, NoLostWakeup
<1>. QED BY <1>1, <1>2, <1>3, TypeCorrect, PTL DEF Spec

-----------------------------------------------------------------------------
(* As long as no request is dropped, a bootstrap that is marked active has  *)
(* an owner that will end it: ownership is never lost on the way from a     *)
(* call to its task, nor on any failure path.                               *)
THEOREM Ownership == Spec => []NoOrphanedBootstrap
<1> USE LifecycleAssumption DEF Procs
<1>1. Init => NoOrphanedBootstrap
  BY DEF Init, NoOrphanedBootstrap
<1>2. TypeOK /\ NoOrphanedBootstrap /\ [Next]_vars => NoOrphanedBootstrap'
  <2> SUFFICES ASSUME TypeOK, NoOrphanedBootstrap, [Next]_vars, Droppable = {}
               PROVE  bootstrap'.active => \E p \in Procs : pc'[p] \in OwnerPc
    BY DEF NoOrphanedBootstrap, Owners
  <2>. /\ pc \in [Procs -> CallPc \cup TaskPc] /\ \A t \in Tasks : pc[t] \in TaskPc
       /\ bootstrap.active => \E p \in Procs : pc[p] \in OwnerPc
    BY DEF TypeOK, NoOrphanedBootstrap, Owners
  <2> DEFINE Owned == bootstrap.active => \E p \in Procs : pc[p] \in OwnerPc
  <2> USE DEF OwnerPc, TaskPc, Goto
  <2>1. ASSUME NEW c \in Calls, Arrive(c) \/ EnsureAgain(c) PROVE Owned'
    BY <2>1 DEF Arrive, EnsureAgain, Borrow
  <2>2. ASSUME NEW c \in Calls, ReadyGate(c) PROVE Owned'
    BY <2>2 DEF ReadyGate
  <2>3. ASSUME NEW c \in Calls, start_or_join_bootstrap(c) PROVE Owned'
    <3>1. CASE should_start
      BY <2>3, <3>1 DEF start_or_join_bootstrap
    <3>2. CASE ~should_start
      BY <2>3, <3>2 DEF start_or_join_bootstrap, should_start
    <3>. QED BY <3>1, <3>2
  <2>4. ASSUME NEW p \in Procs, bootstrap_observe_request(p) PROVE Owned'
    BY <2>4 DEF bootstrap_observe_request
  <2>5. ASSUME NEW p \in Procs, SshReady(p) PROVE Owned'
    BY <2>5 DEF SshReady
  <2>6. ASSUME NEW p \in Procs, SshDown(p) PROVE Owned'
    <3>1. CASE WakesHost(p)
      BY <2>6, <3>1 DEF SshDown
    <3>2. CASE ~WakesHost(p)
      BY <2>6, <3>2 DEF SshDown, StillWarming
    <3>. QED BY <3>1, <3>2
  <2>7. ASSUME NEW p \in Procs, SshError(p) \/ ObservedError(p) \/ TunnelError(p) PROVE Owned'
    BY <2>7 DEF SshError, ObservedError, TunnelError, FailBootstrap
  <2>8. ASSUME NEW c \in Calls, request_wake(c) PROVE Owned'
    BY <2>8 DEF request_wake, FailBootstrap, StillWarming
  <2>9. ASSUME NEW p \in Procs, ObservedReady(p) PROVE Owned'
    BY <2>9 DEF ObservedReady
  <2>10. ASSUME NEW p \in Procs, ObservedWarming(p) PROVE Owned'
    BY <2>10 DEF ObservedWarming, StillWarming
  <2>11. ASSUME NEW p \in Procs, TunnelReady(p) PROVE Owned'
    BY <2>11 DEF TunnelReady
  <2>12. ASSUME NEW p \in Procs, TunnelDown(p) PROVE Owned'
    BY <2>12 DEF TunnelDown, StillWarming
  <2>13. ASSUME NEW c \in Calls, RereadStatus(c) PROVE Owned'
    BY <2>13 DEF RereadStatus
  <2>14. ASSUME NEW p \in Procs, finish_bootstrap(p) PROVE Owned'
    <3>1. bootstrap'.active = FALSE
      BY <2>14 DEF finish_bootstrap, TypeOK
    <3>. QED BY <3>1
  <2>15. ASSUME NEW t \in Tasks, Poll(t) PROVE Owned'
    BY <2>15 DEF Poll, GiveUp
  <2>16. ASSUME NEW c \in Calls, BorrowWaiting(c) PROVE Owned'
    BY <2>16 DEF BorrowWaiting
  <2>17. ASSUME NEW c \in Calls, CheckBootstrap(c) PROVE Owned'
    BY <2>17 DEF CheckBootstrap, EndWait
  <2>18. ASSUME NEW c \in Calls, StatusChanged(c) PROVE Owned'
    BY <2>18 DEF StatusChanged
  <2>19. ASSUME NEW c \in Calls, WaitTimesOut(c) PROVE Owned'
    BY <2>19 DEF WaitTimesOut
  <2>20. ASSUME NEW c \in Calls, ReturnWarming(c) PROVE Owned'
    BY <2>20 DEF ReturnWarming, EndWait
  <2>21. ASSUME NEW c \in Calls, Answer(c) PROVE Owned'
    BY <2>21 DEF Answer, Finished
  <2>22. ASSUME NEW c \in Calls, UpstreamUnreachable(c) PROVE Owned'
    BY <2>22 DEF UpstreamUnreachable, Forwards
  <2>23. ASSUME NEW c \in Calls, mark_warming(c) PROVE Owned'
    BY <2>23 DEF mark_warming
  <2>24. ASSUME NEW c \in Calls, EmbeddingsUnsupported(c) PROVE Owned'
    BY <2>24 DEF EmbeddingsUnsupported, Forwards
  <2>25. ASSUME NEW c \in Calls, degrade_embeddings(c) PROVE Owned'
    BY <2>25 DEF degrade_embeddings
  <2>26. ASSUME NEW c \in Calls, Drop(c) PROVE Owned'
    BY <2>26 DEF Drop, Finished, AwaitPc
  <2>28. ASSUME HostCalms PROVE Owned'
    BY <2>28 DEF HostCalms
  <2>29. ASSUME UNCHANGED vars PROVE Owned'
    BY <2>29 DEF vars
  <2>. HIDE DEF OwnerPc, TaskPc, Goto
  <2>. QED
    BY <2>1, <2>2, <2>3, <2>4, <2>5, <2>6, <2>7, <2>8, <2>9, <2>10, <2>11, <2>12, <2>13, <2>14, <2>15, <2>16, <2>17, <2>18, <2>19, <2>20, <2>21, <2>22, <2>23, <2>24, <2>25, <2>26, <2>28, <2>29
       DEF Next, ProxyStep, CallStep, TaskStep, OwnerStep
<1>. QED BY <1>1, <1>2, TypeCorrect, PTL DEF Spec

-----------------------------------------------------------------------------
(* With chat requests only, an Error that outlives its bootstrap has its    *)
(* cause: the copy a bootstrap commits as ready is never an Error, because  *)
(* nobody else can publish one while it owns the flag.                      *)
CauseInv ==
    EmbeddingsCalls = {} =>
        /\ status.lifecycle = "Error" /\ ~bootstrap.active => bootstrap.lastError = "Cause"
        /\ \A p \in Procs : /\ pc[p] = "finish" => status.lifecycle # "Error"
                            /\ pc[p] = "commit" => snap[p].lifecycle # "Error"
                            /\ pc[p] = "mark" => snap[p].lifecycle = "Warming"
                            /\ pc[p] # "degrade"

(* Answering Warming in observe_once leaves no Error without its cause.    *)
LEMMA WarmingCause ==
    ASSUME TypeOK, CauseInv, NEW p \in Procs, NEW s \in Statuses, StillWarming(p, Warm(s))
    PROVE  CauseInv'
<1>1. /\ bootstrap' = bootstrap /\ status'.lifecycle = "Warming"
      /\ \A q \in Procs : (pc'[q] = pc[q] /\ snap'[q] = snap[q]) \/ pc'[q] \in {"wait", "poll"}
  BY LifecycleAssumption DEF StillWarming, publish, Release, Hold, Goto, Warm, Statuses, TypeOK, Procs
<1>. QED BY <1>1 DEF CauseInv

(* A failure in observe_once publishes Error and keeps the cause in hand   *)
(* until finish_bootstrap records it.                                      *)
LEMMA FailCause ==
    ASSUME TypeOK, CauseInv, NEW p \in Procs, FailBootstrap(p)
    PROVE  CauseInv'
<1>1. /\ UNCHANGED <<bootstrap, status>>
      /\ \A q \in Procs : (pc'[q] = pc[q] /\ snap'[q] = snap[q]) \/ pc'[q] = "fail"
  BY DEF FailBootstrap, Hold, Goto, TypeOK
<1>. QED BY <1>1 DEF CauseInv

(* With chat requests alone, an Error that finish_bootstrap leaves behind  *)
(* has its cause in last_error, so a later waiter can report it.           *)
THEOREM Cause == Spec => []ErrorHasCause
<1> USE LifecycleAssumption DEF Procs
<1>1. Init => CauseInv
  BY DEF Init, CauseInv, Cold
<1>2. TypeOK /\ SingleBootstrap /\ CoherentInv /\ CauseInv /\ [Next]_vars => CauseInv'
  <2> SUFFICES ASSUME TypeOK, SingleBootstrap, CoherentInv, CauseInv, [Next]_vars PROVE CauseInv'
    OBVIOUS
  <2>. /\ pc \in [Procs -> CallPc \cup TaskPc] /\ \A t \in Tasks : pc[t] \in TaskPc
       /\ snap \in [Procs -> Statuses] /\ status \in Statuses
    BY DEF TypeOK
  <2> USE DEF CauseInv, Goto, Hold, Release, publish, TaskPc, OwnerPc
  <2>1. ASSUME NEW c \in Calls, Arrive(c) \/ EnsureAgain(c) PROVE CauseInv'
    BY <2>1 DEF Arrive, EnsureAgain, Borrow
  <2>2. ASSUME NEW c \in Calls, ReadyGate(c) PROVE CauseInv'
    BY <2>2 DEF ReadyGate
  <2>3. ASSUME NEW c \in Calls, start_or_join_bootstrap(c) PROVE CauseInv'
    <3>1. /\ status' = status
          /\ pc' = [pc EXCEPT ![c] = "obs"] \/ pc' = [pc EXCEPT ![c] = "wait"]
          /\ snap' = snap \/ snap' = [snap EXCEPT ![c] = Cold]
      BY <2>3 DEF start_or_join_bootstrap
    <3>2. bootstrap'.active
      <4>1. \/ bootstrap' = [active |-> TRUE, lastError |-> "None", observe |-> KindOf(c)]
            \/ bootstrap.active /\ bootstrap' = bootstrap
            \/ bootstrap.active /\ bootstrap' = [bootstrap EXCEPT !.observe = KindOf(c)]
        BY <2>3 DEF start_or_join_bootstrap, should_start
      <4>. QED BY <4>1 DEF TypeOK
    <3>. QED BY <3>1, <3>2
  <2>4. ASSUME NEW p \in Procs, bootstrap_observe_request(p) PROVE CauseInv'
    BY <2>4 DEF bootstrap_observe_request
  <2>5. ASSUME NEW p \in Procs, SshReady(p) PROVE CauseInv'
    BY <2>5 DEF SshReady
  <2>6. ASSUME NEW p \in Procs, SshDown(p) PROVE CauseInv'
    <3>1. CASE WakesHost(p)
      BY <2>6, <3>1 DEF SshDown
    <3>2. CASE ~WakesHost(p)
      BY <2>6, <3>2, WarmingCause DEF SshDown
    <3>. QED BY <3>1, <3>2
  <2>7. ASSUME NEW p \in Procs, SshError(p) \/ ObservedError(p) \/ TunnelError(p) PROVE CauseInv'
    <3>1. FailBootstrap(p)
      BY <2>7 DEF SshError, ObservedError, TunnelError
    <3>. QED BY <3>1, FailCause
  <2>8. ASSUME NEW c \in Calls, request_wake(c) PROVE CauseInv'
    <3>1. StillWarming(c, Warm(snap[c])) \/ FailBootstrap(c)
      BY <2>8 DEF request_wake
    <3>. QED BY <3>1, WarmingCause, FailCause
  <2>9. ASSUME NEW p \in Procs, ObservedReady(p) PROVE CauseInv'
    BY <2>9 DEF ObservedReady
  <2>10. ASSUME NEW p \in Procs, ObservedWarming(p) PROVE CauseInv'
    <3>1. [snap[p] EXCEPT !.embeddings = "Ready"] \in Statuses
      BY StatusEdits
    <3>. QED BY <2>10, <3>1, WarmingCause DEF ObservedWarming
  <2>11. ASSUME NEW p \in Procs, TunnelReady(p) PROVE CauseInv'
    <3> DEFINE s == [snap[p] EXCEPT !.tunnel = "Ready"]
    <3>1. s.lifecycle = "Ready"
      BY <2>11 DEF TunnelReady, CoherentInv, CopiesCoherent, Statuses
    <3>2. /\ status' = s /\ snap' = [snap EXCEPT ![p] = s] /\ bootstrap' = bootstrap
          /\ pc' = [pc EXCEPT ![p] = "finish"] \/ pc' = [pc EXCEPT ![p] = "commit"]
      BY <2>11 DEF TunnelReady
    <3>. HIDE DEF s
    <3>. QED BY <3>1, <3>2
  <2>12. ASSUME NEW p \in Procs, TunnelDown(p) PROVE CauseInv'
    BY <2>12, WarmingCause DEF TunnelDown
  <2>13. ASSUME NEW c \in Calls, RereadStatus(c) PROVE CauseInv'
    BY <2>13 DEF RereadStatus
  <2>14. ASSUME NEW p \in Procs, finish_bootstrap(p) PROVE CauseInv'
    <3>1. \A q \in Procs : pc'[q] # "finish"
      BY <2>14 DEF finish_bootstrap, SingleBootstrap, Owners
    <3>2. /\ status' = snap[p] /\ snap' = [snap EXCEPT ![p] = Cold]
          /\ pc' = [pc EXCEPT ![p] = "decided"] \/ pc' = [pc EXCEPT ![p] = "idle"]
      BY <2>14 DEF finish_bootstrap
    <3>3. pc[p] = "commit" \/ (pc[p] = "fail" /\ bootstrap'.lastError = "Cause")
      BY <2>14 DEF finish_bootstrap, Recorded, TypeOK
    <3>. QED BY <3>1, <3>2, <3>3
  <2>15. ASSUME NEW t \in Tasks, Poll(t) PROVE CauseInv'
    BY <2>15 DEF Poll, GiveUp
  <2>16. ASSUME NEW c \in Calls, BorrowWaiting(c) PROVE CauseInv'
    BY <2>16 DEF BorrowWaiting
  <2>17. ASSUME NEW c \in Calls, CheckBootstrap(c) PROVE CauseInv'
    <3>1. UNCHANGED <<status, bootstrap>>
      BY <2>17 DEF CheckBootstrap
    <3>2. /\ pc' = [pc EXCEPT ![c] = "decided"] \/ pc' = [pc EXCEPT ![c] = "blocked"]
          /\ snap' = [snap EXCEPT ![c] = Cold] \/ snap' = snap
      BY <2>17 DEF CheckBootstrap, EndWait
    <3>. QED BY <3>1, <3>2
  <2>18. ASSUME NEW c \in Calls, StatusChanged(c) PROVE CauseInv'
    BY <2>18 DEF StatusChanged
  <2>19. ASSUME NEW c \in Calls, WaitTimesOut(c) PROVE CauseInv'
    BY <2>19 DEF WaitTimesOut
  <2>20. ASSUME NEW c \in Calls, ReturnWarming(c) PROVE CauseInv'
    BY <2>20 DEF ReturnWarming, EndWait
  <2>21. ASSUME NEW c \in Calls, Answer(c) PROVE CauseInv'
    BY <2>21 DEF Answer, Finished
  <2>22. ASSUME NEW c \in Calls, UpstreamUnreachable(c) PROVE CauseInv'
    <3>1. Warm(status).lifecycle = "Warming"
      BY DEF Warm, Statuses
    <3>. QED BY <2>22, <3>1 DEF UpstreamUnreachable
  <2>23. ASSUME NEW c \in Calls, mark_warming(c) PROVE CauseInv'
    BY <2>23 DEF mark_warming
  <2>24. ASSUME NEW c \in Calls, EmbeddingsUnsupported(c) PROVE CauseInv'
    BY <2>24 DEF EmbeddingsUnsupported, Forwards
  <2>25. ASSUME NEW c \in Calls, degrade_embeddings(c) PROVE CauseInv'
    BY <2>25 DEF degrade_embeddings
  <2>26. ASSUME NEW c \in Calls, Drop(c) PROVE CauseInv'
    BY <2>26 DEF Drop, Finished, AwaitPc
  <2>28. ASSUME HostCalms PROVE CauseInv'
    BY <2>28 DEF HostCalms
  <2>29. ASSUME UNCHANGED vars PROVE CauseInv'
    BY <2>29 DEF vars
  <2>. HIDE DEF CauseInv, Goto, Hold, Release, publish, TaskPc, OwnerPc
  <2>. QED
    BY <2>1, <2>2, <2>3, <2>4, <2>5, <2>6, <2>7, <2>8, <2>9, <2>10, <2>11, <2>12, <2>13, <2>14, <2>15, <2>16, <2>17, <2>18, <2>19, <2>20, <2>21, <2>22, <2>23, <2>24, <2>25, <2>26, <2>28, <2>29
       DEF Next, ProxyStep, CallStep, TaskStep, OwnerStep
<1>3. CauseInv => ErrorHasCause
  BY DEF CauseInv, ErrorHasCause
<1>. QED BY <1>1, <1>2, <1>3, TypeCorrect, Mutex, CoherentAlways, PTL DEF Spec

-----------------------------------------------------------------------------
(* A backend is Cold only until something was published of it: so nobody    *)
(* has seen it Ready, and the copies that are published are not Cold.  And  *)
(* only embeddings requests degrade the embeddings.                        *)
GateInv ==
    /\ status.lifecycle = "Cold" =>
          /\ \A c \in Calls : decision[c].kind # "Ready"
          /\ \A p \in Procs : /\ pc[p] \notin {"finish", "mark", "degrade"}
                              /\ pc[p] \in {"gate", "check"} => ~backend_is_ready(snap[p])
    /\ \A p \in Procs :
          /\ pc[p] \in {"commit", "fail", "mark", "degrade"} => snap[p].lifecycle # "Cold"
          /\ pc[p] = "mark" => snap[p].lifecycle = "Warming"
          /\ pc[p] = "tunnel" => snap[p].embeddings = "Ready"
          /\ pc[p] = "degrade" => snap[p].embeddings = "Degraded" /\ EmbeddingsCalls # {}
    /\ EmbeddingsCalls = {} =>
          /\ status.embeddings = "Ready"
          /\ \A p \in Procs : snap[p].embeddings = "Ready"

(* A process that observes a backend still warming publishes that.         *)
LEMMA WarmingGate ==
    ASSUME TypeOK, GateInv, NEW p \in Procs, NEW s \in Statuses, StillWarming(p, Warm(s)),
           EmbeddingsCalls = {} => s.embeddings = "Ready"
    PROVE  GateInv'
<1>1. /\ status'.lifecycle = "Warming" /\ status'.embeddings = s.embeddings
      /\ \A q \in Procs : \/ pc'[q] = pc[q] /\ snap'[q] = snap[q]
                          \/ pc'[q] \in {"wait", "poll"} /\ snap'[q] \in {snap[q], Cold}
  BY LifecycleAssumption DEF StillWarming, publish, Release, Hold, Goto, Warm, Statuses, TypeOK, Procs
<1>2. Cold.embeddings = "Ready"
  BY DEF Cold
<1> QED
  BY <1>1, <1>2 DEF GateInv

(* A failed step of a bootstrap prepares an Error to be published.         *)
LEMMA FailGate ==
    ASSUME TypeOK, GateInv, NEW p \in Procs, FailBootstrap(p), pc[p] # "wait"
    PROVE  GateInv'
<1>1. /\ UNCHANGED <<status, decision>>
      /\ Failing(snap[p]).lifecycle = "Error" /\ Failing(snap[p]).embeddings = snap[p].embeddings
      /\ snap' = [snap EXCEPT ![p] = Failing(snap[p])] /\ pc' = [pc EXCEPT ![p] = "fail"]
  BY DEF FailBootstrap, Hold, Goto, TypeOK, Failing, Statuses
<1>2. \A q \in Procs : \/ pc'[q] = pc[q] /\ snap'[q] = snap[q]
                       \/ pc'[q] = "fail" /\ snap'[q].lifecycle = "Error"
                            /\ snap'[q].embeddings = snap[q].embeddings
  BY <1>1 DEF TypeOK
<1> QED
  BY <1>1, <1>2 DEF GateInv

LEMMA GateAlways == Spec => []GateInv
<1> USE LifecycleAssumption DEF Procs
<1>1. Init => GateInv
  BY DEF Init, GateInv, Cold, NoDecision
<1>2. TypeOK /\ CoherentInv /\ GateInv /\ [Next]_vars => GateInv'
  <2> SUFFICES ASSUME TypeOK, CoherentInv, GateInv, [Next]_vars PROVE GateInv'
    OBVIOUS
  <2>. /\ pc \in [Procs -> CallPc \cup TaskPc] /\ \A t \in Tasks : pc[t] \in TaskPc
       /\ snap \in [Procs -> Statuses] /\ decision \in [Calls -> Decisions] /\ status \in Statuses
    BY DEF TypeOK
  <2>a. Cold.embeddings = "Ready" /\ ~backend_is_ready(Cold) /\ NoDecision.kind = "Warming"
        /\ \A k, s, e : Decided(k, s, e).kind = k
    BY DEF Cold, NoDecision, Decided, backend_is_ready
  <2>b. \A s : backend_is_ready(s) => s.lifecycle = "Ready"
    BY DEF backend_is_ready
  <2> USE DEF GateInv, Goto, Hold, Release, Decide, publish, TaskPc, OwnerPc
  <2>1. ASSUME NEW c \in Calls, Arrive(c) \/ EnsureAgain(c) PROVE GateInv'
    BY <2>1, <2>b DEF Arrive, EnsureAgain, Borrow
  <2>2. ASSUME NEW c \in Calls, ReadyGate(c) PROVE GateInv'
    <3>1. /\ UNCHANGED status
          /\ \/ /\ backend_is_ready(snap[c]) /\ pc[c] = "gate"
                /\ pc' = [pc EXCEPT ![c] = "decided"] /\ snap' = [snap EXCEPT ![c] = Cold]
             \/ /\ pc' = [pc EXCEPT ![c] = "join"] /\ UNCHANGED <<snap, decision>>
      BY <2>2 DEF ReadyGate
    <3>2. status.lifecycle = "Cold" => decision' = decision
      BY <2>2 DEF ReadyGate
    <3> QED BY <2>a, <3>1, <3>2
  <2>3. ASSUME NEW c \in Calls, start_or_join_bootstrap(c) PROVE GateInv'
    BY <2>3, <2>a DEF start_or_join_bootstrap
  <2>4. ASSUME NEW p \in Procs, bootstrap_observe_request(p) PROVE GateInv'
    BY <2>4 DEF bootstrap_observe_request
  <2>5. ASSUME NEW p \in Procs, SshReady(p) PROVE GateInv'
    BY <2>5 DEF SshReady
  <2>6. ASSUME NEW p \in Procs, SshDown(p) PROVE GateInv'
    <3>1. CASE WakesHost(p)
      <4> DEFINE s == [snap[p] EXCEPT !.tunnel = "Down"]
      <4>1. s.embeddings = snap[p].embeddings
        BY DEF Statuses
      <4>2. /\ UNCHANGED <<status, decision>> /\ pc[p] = "probe"
            /\ pc' = [pc EXCEPT ![p] = "wake"] /\ snap' = [snap EXCEPT ![p] = s]
        BY <2>6, <3>1 DEF SshDown
      <4> HIDE DEF s
      <4> QED BY <4>1, <4>2
    <3>2. CASE ~WakesHost(p)
      BY <2>6, <3>2, WarmingGate DEF SshDown
    <3>. QED BY <3>1, <3>2
  <2>7. ASSUME NEW p \in Procs, SshError(p) \/ ObservedError(p) \/ TunnelError(p) PROVE GateInv'
    <3>1. FailBootstrap(p) /\ pc[p] # "wait"
      BY <2>7 DEF SshError, ObservedError, TunnelError
    <3>. QED BY <3>1, FailGate
  <2>8. ASSUME NEW c \in Calls, request_wake(c) PROVE GateInv'
    <3>1. (StillWarming(c, Warm(snap[c])) \/ FailBootstrap(c)) /\ pc[c] # "wait"
      BY <2>8 DEF request_wake
    <3>. QED BY <3>1, WarmingGate, FailGate
  <2>9. ASSUME NEW p \in Procs, ObservedReady(p) PROVE GateInv'
    <3>1. [snap[p] EXCEPT !.lifecycle = "Ready", !.embeddings = "Ready"].embeddings = "Ready"
      BY DEF Statuses
    <3> QED BY <2>9, <3>1 DEF ObservedReady
  <2>10. ASSUME NEW p \in Procs, ObservedWarming(p) PROVE GateInv'
    <3> DEFINE s == [snap[p] EXCEPT !.embeddings = "Ready"]
    <3>1. s \in Statuses
      BY StatusEdits
    <3>0. s.embeddings = "Ready"
      BY DEF Statuses
    <3>2. StillWarming(p, Warm(s))
      BY <2>10 DEF ObservedWarming
    <3> HIDE DEF s
    <3>. QED BY <3>0, <3>1, <3>2, WarmingGate
  <2>11. ASSUME NEW p \in Procs, TunnelReady(p) PROVE GateInv'
    <3> DEFINE s == [snap[p] EXCEPT !.tunnel = "Ready"]
    <3>1. s.lifecycle = "Ready" /\ s.embeddings = snap[p].embeddings
      BY <2>11 DEF TunnelReady, CoherentInv, CopiesCoherent, Statuses
    <3>2. /\ status' = s /\ snap' = [snap EXCEPT ![p] = s]
          /\ pc' = [pc EXCEPT ![p] = "finish"] \/ pc' = [pc EXCEPT ![p] = "commit"]
      BY <2>11 DEF TunnelReady
    <3>. HIDE DEF s
    <3>. QED BY <3>1, <3>2
  <2>12. ASSUME NEW p \in Procs, TunnelDown(p) PROVE GateInv'
    BY <2>12, WarmingGate DEF TunnelDown
  <2>13. ASSUME NEW c \in Calls, RereadStatus(c) PROVE GateInv'
    BY <2>13 DEF RereadStatus
  <2>14. ASSUME NEW p \in Procs, finish_bootstrap(p) PROVE GateInv'
    <3>1. /\ status' = snap[p] /\ snap[p].lifecycle # "Cold"
          /\ snap' = [snap EXCEPT ![p] = Cold]
          /\ pc' = [pc EXCEPT ![p] = "decided"] \/ pc' = [pc EXCEPT ![p] = "idle"]
      BY <2>14 DEF finish_bootstrap
    <3>. QED BY <2>a, <3>1
  <2>15. ASSUME NEW t \in Tasks, Poll(t) PROVE GateInv'
    <3>1. Failing(status).lifecycle = "Error" /\ Failing(status).embeddings = status.embeddings
      BY DEF Failing, Statuses
    <3>. QED BY <2>15, <3>1 DEF Poll, GiveUp
  <2>16. ASSUME NEW c \in Calls, BorrowWaiting(c) PROVE GateInv'
    BY <2>16, <2>b DEF BorrowWaiting
  <2>17. ASSUME NEW c \in Calls, CheckBootstrap(c) PROVE GateInv'
    <3>1. pc[c] = "check" /\ UNCHANGED status
      BY <2>17 DEF CheckBootstrap
    <3>2. /\ pc' = [pc EXCEPT ![c] = "decided"] \/ pc' = [pc EXCEPT ![c] = "blocked"]
          /\ snap' = [snap EXCEPT ![c] = Cold] \/ snap' = snap
      BY <2>17 DEF CheckBootstrap, EndWait
    <3>3. \/ decision' = decision
          \/ backend_is_ready(snap[c])
          \/ \E d : decision' = [decision EXCEPT ![c] = d] /\ d.kind # "Ready"
      BY <2>17, <2>a DEF CheckBootstrap, EndWait
    <3>. QED BY <2>a, <3>1, <3>2, <3>3
  <2>18. ASSUME NEW c \in Calls, StatusChanged(c) PROVE GateInv'
    BY <2>18, <2>a DEF StatusChanged
  <2>19. ASSUME NEW c \in Calls, WaitTimesOut(c) PROVE GateInv'
    BY <2>19, <2>a DEF WaitTimesOut
  <2>20. ASSUME NEW c \in Calls, ReturnWarming(c) PROVE GateInv'
    BY <2>20, <2>a DEF ReturnWarming, EndWait
  <2>21. ASSUME NEW c \in Calls, Answer(c) PROVE GateInv'
    BY <2>21, <2>a DEF Answer, Finished
  <2>22. ASSUME NEW c \in Calls, UpstreamUnreachable(c) PROVE GateInv'
    <3>1. Warm(status).lifecycle = "Warming" /\ Warm(status).embeddings = status.embeddings
      BY DEF Warm, Statuses
    <3>2. status.lifecycle # "Cold"
      BY <2>22 DEF UpstreamUnreachable, Forwards
    <3>. QED BY <2>22, <3>1, <3>2 DEF UpstreamUnreachable
  <2>23. ASSUME NEW c \in Calls, mark_warming(c) PROVE GateInv'
    BY <2>23, <2>a DEF mark_warming
  <2>24. ASSUME NEW c \in Calls, EmbeddingsUnsupported(c) PROVE GateInv'
    <3>1. [status EXCEPT !.embeddings = "Degraded"].lifecycle = status.lifecycle
      BY DEF Statuses
    <3>2. status.lifecycle # "Cold" /\ EmbeddingsCalls # {}
      BY <2>24 DEF EmbeddingsUnsupported, Forwards
    <3>. QED BY <2>24, <3>1, <3>2 DEF EmbeddingsUnsupported
  <2>25. ASSUME NEW c \in Calls, degrade_embeddings(c) PROVE GateInv'
    BY <2>25, <2>a DEF degrade_embeddings
  <2>26. ASSUME NEW c \in Calls, Drop(c) PROVE GateInv'
    BY <2>26, <2>a DEF Drop, Finished, AwaitPc
  <2>28. ASSUME HostCalms PROVE GateInv'
    BY <2>28 DEF HostCalms
  <2>29. ASSUME UNCHANGED vars PROVE GateInv'
    BY <2>29 DEF vars
  <2>. HIDE DEF GateInv, Goto, Hold, Release, Decide, publish, TaskPc, OwnerPc
  <2>. QED
    BY <2>1, <2>2, <2>3, <2>4, <2>5, <2>6, <2>7, <2>8, <2>9, <2>10, <2>11, <2>12, <2>13, <2>14, <2>15, <2>16, <2>17, <2>18, <2>19, <2>20, <2>21, <2>22, <2>23, <2>24, <2>25, <2>26, <2>28, <2>29
       DEF Next, ProxyStep, CallStep, TaskStep, OwnerStep
<1>. QED BY <1>1, <1>2, TypeCorrect, CoherentAlways, PTL DEF Spec

-----------------------------------------------------------------------------
(* A step that leaves the status, the flag and the owners alone.            *)
LEMMA QuietStep ==
    ASSUME status' = status, bootstrap'.active = bootstrap.active,
           \A q \in Procs : pc'[q] \in OwnerPc <=> pc[q] \in OwnerPc
    PROVE  UNCHANGED Gate!vars
<1>1. Owners' = Owners
  BY DEF Owners
<1> QED
  BY <1>1 DEF Gate!vars

(* A process at a program point of the bootstrap owns it, alone.           *)
LEMMA OwnedBy ==
    ASSUME SingleBootstrap, NEW p \in Procs, pc[p] \in OwnerPc
    PROVE  Owners = {p} /\ bootstrap.active
BY DEF SingleBootstrap, Owners

(* observe_once answers Warming: the owner reports it, and a call hands the *)
(* bootstrap over to its task.                                             *)
LEMMA WarmingReports ==
    ASSUME TypeOK, SingleBootstrap, GateInv, NEW p \in Procs, pc[p] \in OwnerPc,
           NEW s \in Statuses, StillWarming(p, Warm(s)),
           EmbeddingsCalls = {} => s.embeddings = "Ready"
    PROVE  Gate!Next
<1> USE LifecycleAssumption DEF Procs
<1>1. Owners = {p} /\ bootstrap' = bootstrap
  BY OwnedBy DEF StillWarming
<1>2. status'.lifecycle = "Warming" /\ status'.embeddings \in Gate!Capabilities
  BY DEF StillWarming, publish, Warm, Statuses, Capability, Gate!Capabilities
<1>3. pc \in [Procs -> CallPc \cup TaskPc]
  BY DEF TypeOK
<1>4. CASE p \in Tasks
  <2>1. Owners' = {p}
    BY <1>1, <1>3, <1>4 DEF StillWarming, Goto, Owners, OwnerPc
  <2> QED
    BY <1>1, <1>2, <2>1 DEF Gate!Report, Gate!Publish, Gate!boot, Gate!Next
<1>5. CASE p \notin Tasks
  <2>1. PICK t \in Tasks : pc' = [pc EXCEPT ![p] = "wait", ![t] = "poll"]
    BY <1>5 DEF StillWarming
  <2>2. Owners' = {t}
    BY <1>1, <1>3, <1>5, <2>1 DEF Owners, OwnerPc
  <2>3. Gate!HandOver(p, t)
    BY <1>1, <1>2, <2>2 DEF Gate!HandOver, Gate!Publish
  <2> QED
    BY <2>3 DEF Gate!Next
<1> QED
  BY <1>4, <1>5

(* Every step of the lifecycle manager and its callers is a step of what   *)
(* the callers take it for, or none of it.                                 *)
THEOREM Refinement == Spec => ImplementsBackendGate
<1> USE LifecycleAssumption DEF Procs
<1>1. Init => Gate!Init
  BY DEF Init, Gate!Init, Cold, Owners, OwnerPc
<1>2. TypeOK /\ SingleBootstrap /\ CoherentInv /\ GateInv /\ [Next]_vars => [Gate!Next]_Gate!vars
  <2> SUFFICES ASSUME TypeOK, SingleBootstrap, CoherentInv, GateInv, [Next]_vars
               PROVE  Gate!Next \/ UNCHANGED Gate!vars
    OBVIOUS
  <2>. /\ pc \in [Procs -> CallPc \cup TaskPc] /\ \A t \in Tasks : pc[t] \in TaskPc
       /\ snap \in [Procs -> Statuses] /\ status \in Statuses
       /\ bootstrap \in [active : BOOLEAN, lastError : {"None", "Cause"}, observe : {"Chat", "Embeddings"}]
    BY DEF TypeOK
  <2> DEFINE Simulated == Gate!Next \/ UNCHANGED Gate!vars
  <2> USE QuietStep DEF Goto, TaskPc, OwnerPc
  <2>1. ASSUME NEW c \in Calls, Arrive(c) \/ EnsureAgain(c) PROVE Simulated
    BY <2>1 DEF Arrive, EnsureAgain, Borrow
  <2>2. ASSUME NEW c \in Calls, ReadyGate(c) PROVE Simulated
    BY <2>2 DEF ReadyGate
  <2>3. ASSUME NEW c \in Calls, start_or_join_bootstrap(c) PROVE Simulated
    <3>1. CASE should_start
      <4>1. bootstrap'.active /\ pc' = [pc EXCEPT ![c] = "obs"] /\ status' = status /\ Owners = {}
        BY <2>3, <3>1 DEF start_or_join_bootstrap, should_start, SingleBootstrap
      <4>2. Owners' = {c}
        BY <4>1 DEF Owners
      <4>3. Gate!Begin(c)
        BY <2>3, <3>1, <4>1, <4>2 DEF start_or_join_bootstrap, should_start, Gate!Begin, Gate!status
      <4> QED BY <4>3 DEF Gate!Next
    <3>2. CASE ~should_start
      <4>1. bootstrap' = bootstrap \/ bootstrap' = [bootstrap EXCEPT !.observe = KindOf(c)]
        BY <2>3, <3>2 DEF start_or_join_bootstrap
      <4>2. pc' = [pc EXCEPT ![c] = "wait"] /\ status' = status /\ pc[c] = "join"
        BY <2>3, <3>2 DEF start_or_join_bootstrap
      <4>3. bootstrap'.active = bootstrap.active
        BY <4>1
      <4> QED BY <4>2, <4>3
    <3> QED BY <3>1, <3>2
  <2>4. ASSUME NEW p \in Procs, bootstrap_observe_request(p) PROVE Simulated
    BY <2>4 DEF bootstrap_observe_request
  <2>5. ASSUME NEW p \in Procs, SshReady(p) PROVE Simulated
    BY <2>5 DEF SshReady
  <2>6. ASSUME NEW p \in Procs, SshDown(p) PROVE Simulated
    <3>1. CASE WakesHost(p)
      BY <2>6, <3>1 DEF SshDown
    <3>2. CASE ~WakesHost(p)
      BY <2>6, <3>2, WarmingReports DEF SshDown, GateInv
    <3>. QED BY <3>1, <3>2
  <2>7. ASSUME NEW p \in Procs, FailBootstrap(p), pc[p] \in OwnerPc PROVE Simulated
    BY <2>7 DEF FailBootstrap
  <2>8. ASSUME NEW p \in Procs, SshError(p) \/ ObservedError(p) \/ TunnelError(p) PROVE Simulated
    BY <2>7, <2>8 DEF SshError, ObservedError, TunnelError
  <2>9. ASSUME NEW c \in Calls, request_wake(c) PROVE Simulated
    <3>1. pc[c] \in OwnerPc /\ (StillWarming(c, Warm(snap[c])) \/ FailBootstrap(c))
      BY <2>9 DEF request_wake
    <3>. QED BY <2>7, <3>1, WarmingReports DEF GateInv
  <2>10. ASSUME NEW p \in Procs, ObservedReady(p) PROVE Simulated
    BY <2>10 DEF ObservedReady
  <2>11. ASSUME NEW p \in Procs, ObservedWarming(p) PROVE Simulated
    <3> DEFINE s == [snap[p] EXCEPT !.embeddings = "Ready"]
    <3>1. s \in Statuses
      BY StatusEdits
    <3>2. s.embeddings = "Ready"
      BY DEF Statuses
    <3>3. StillWarming(p, Warm(s)) /\ pc[p] \in OwnerPc
      BY <2>11 DEF ObservedWarming
    <3> HIDE DEF s
    <3>. QED BY <3>1, <3>2, <3>3, WarmingReports
  <2>12. ASSUME NEW p \in Procs, TunnelDown(p) PROVE Simulated
    BY <2>12, WarmingReports DEF TunnelDown, GateInv
  <2>13. ASSUME NEW p \in Procs, TunnelReady(p) PROVE Simulated
    <3> DEFINE s == [snap[p] EXCEPT !.tunnel = "Ready"]
    <3>1. s.lifecycle = "Ready" /\ s.embeddings = snap[p].embeddings
      BY <2>13 DEF TunnelReady, CoherentInv, CopiesCoherent, Statuses
    <3>2. s.embeddings = "Ready" /\ pc[p] = "tunnel"
      BY <2>13, <3>1 DEF TunnelReady, GateInv
    <3>3. /\ status' = s /\ bootstrap' = bootstrap
          /\ pc' = [pc EXCEPT ![p] = "finish"] \/ pc' = [pc EXCEPT ![p] = "commit"]
      BY <2>13 DEF TunnelReady, publish
    <3> HIDE DEF s
    <3>4. Owners = {p} /\ Owners' = {p}
      BY <3>2, <3>3, OwnedBy DEF Owners
    <3>5. Gate!Report(p)
      BY <3>1, <3>2, <3>3, <3>4 DEF Gate!Report, Gate!Publish, Gate!boot
    <3> QED BY <3>5 DEF Gate!Next
  <2>14. ASSUME NEW c \in Calls, RereadStatus(c) PROVE Simulated
    BY <2>14 DEF RereadStatus
  <2>15. ASSUME NEW p \in Procs, finish_bootstrap(p) PROVE Simulated
    <3>1. Owners = {p}
      BY <2>15, OwnedBy DEF finish_bootstrap
    <3>2. Owners' = {}
      BY <2>15, <3>1 DEF finish_bootstrap, Owners
    <3>3. status' = snap[p] /\ snap[p].lifecycle # "Cold" /\ bootstrap'.active = FALSE
      BY <2>15 DEF finish_bootstrap, publish, GateInv
    <3>4. status'.lifecycle \in Gate!Seen /\ status'.embeddings \in Gate!Capabilities
      BY <3>3 DEF GateInv, Statuses, LifecycleState, Capability, Gate!Seen, Gate!Capabilities
    <3>5. Gate!Commit(p)
      BY <3>1, <3>2, <3>3, <3>4 DEF Gate!Commit, Gate!Publish
    <3> QED BY <3>5 DEF Gate!Next
  <2>16. ASSUME NEW t \in Tasks, Poll(t) PROVE Simulated
    BY <2>16 DEF Poll, GiveUp
  <2>17. ASSUME NEW c \in Calls, BorrowWaiting(c) PROVE Simulated
    BY <2>17 DEF BorrowWaiting
  <2>18. ASSUME NEW c \in Calls, CheckBootstrap(c) PROVE Simulated
    BY <2>18 DEF CheckBootstrap, EndWait
  <2>19. ASSUME NEW c \in Calls, StatusChanged(c) \/ WaitTimesOut(c) PROVE Simulated
    BY <2>19 DEF StatusChanged, WaitTimesOut
  <2>20. ASSUME NEW c \in Calls, ReturnWarming(c) PROVE Simulated
    BY <2>20 DEF ReturnWarming, EndWait
  <2>21. ASSUME NEW c \in Calls, Answer(c) PROVE Simulated
    BY <2>21 DEF Answer
  <2>22. ASSUME NEW c \in Calls, UpstreamUnreachable(c) PROVE Simulated
    BY <2>22 DEF UpstreamUnreachable, Forwards
  <2>23. ASSUME NEW c \in Calls, mark_warming(c) PROVE Simulated
    <3>1. /\ status' = snap[c] /\ snap[c].lifecycle = "Warming" /\ status.lifecycle # "Cold"
          /\ bootstrap' = bootstrap /\ pc' = [pc EXCEPT ![c] = "again"] /\ pc[c] = "mark"
      BY <2>23 DEF mark_warming, publish, GateInv
    <3>2. status'.embeddings \in Gate!Capabilities
      BY <3>1 DEF GateInv, Statuses, Capability, Gate!Capabilities
    <3>3. Owners' = Owners
      BY <3>1 DEF Owners
    <3>4. Gate!MarkWarming
      BY <3>1, <3>2, <3>3 DEF Gate!MarkWarming, Gate!Publish, Gate!boot
    <3> QED BY <3>4 DEF Gate!Next
  <2>24. ASSUME NEW c \in Calls, EmbeddingsUnsupported(c) PROVE Simulated
    BY <2>24 DEF EmbeddingsUnsupported, Forwards
  <2>25. ASSUME NEW c \in Calls, degrade_embeddings(c) PROVE Simulated
    <3>1. /\ status' = snap[c] /\ snap[c].embeddings = "Degraded" /\ EmbeddingsCalls # {}
          /\ snap[c].lifecycle # "Cold" /\ status.lifecycle # "Cold"
          /\ bootstrap' = bootstrap /\ pc' = [pc EXCEPT ![c] = "idle"] /\ pc[c] = "degrade"
      BY <2>25 DEF degrade_embeddings, publish, GateInv
    <3>2. status'.lifecycle \in Gate!Seen
      BY <3>1 DEF Statuses, LifecycleState, Gate!Seen
    <3>3. Owners' = Owners
      BY <3>1 DEF Owners
    <3>4. Gate!Degrade
      BY <3>1, <3>2, <3>3 DEF Gate!Degrade, Gate!Publish, Gate!boot
    <3> QED BY <3>4 DEF Gate!Next
  <2>26. ASSUME NEW c \in Calls, Drop(c) PROVE Simulated
    <3>1. CASE pc[c] \in OwnerPc
      <4>1. Owners = {c}
        BY <3>1, OwnedBy
      <4>2. Owners' = {}
        BY <2>26, <4>1 DEF Drop, Owners
      <4>3. Gate!Abandon(c) /\ c \in Droppable
        BY <2>26, <4>1, <4>2 DEF Drop, Gate!Abandon, Gate!status
      <4> QED BY <4>3 DEF Gate!Next
    <3>2. CASE pc[c] \notin OwnerPc
      BY <2>26, <3>2 DEF Drop
    <3> QED BY <3>1, <3>2
  <2>28. ASSUME HostCalms PROVE Simulated
    BY <2>28 DEF HostCalms
  <2>29. ASSUME UNCHANGED vars PROVE Simulated
    BY <2>29 DEF vars
  <2>. HIDE DEF Goto, TaskPc, OwnerPc, Simulated
  <2>30. Simulated
    BY <2>1, <2>2, <2>3, <2>4, <2>5, <2>6, <2>8, <2>9, <2>10, <2>11, <2>12, <2>13, <2>14, <2>15, <2>16, <2>17, <2>18, <2>19, <2>20, <2>21, <2>22, <2>23, <2>24, <2>25, <2>26, <2>28, <2>29
       DEF Next, ProxyStep, CallStep, TaskStep, OwnerStep
  <2>. QED BY <2>30 DEF Simulated
<1>. QED
  BY <1>1, <1>2, TypeCorrect, Mutex, CoherentAlways, GateAlways, PTL DEF Spec, ImplementsBackendGate, Gate!Spec
=============================================================================
