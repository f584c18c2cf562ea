------------------------------- MODULE Lifecycle -------------------------------
(***************************************************************************)
(* The lifecycle manager of one backend (src/lifecycle.rs) and the caller  *)
(* protocol around it (src/orchestrate.rs): concurrent HTTP requests call  *)
(* ensure_backend, one of them owns the bootstrap, makes the first         *)
(* observation of the host and hands a slow boot to a spawned task; the    *)
(* others wait on a watch channel.  Callers forward to the backend, and    *)
(* mark it warming or its embeddings degraded when forwarding fails.       *)
(*                                                                         *)
(* A step is the code between two await points, or between two accesses   *)
(* of shared state that other threads can separate: reading the status and *)
(* publishing an edited copy of it are two steps.  The mutex around the    *)
(* bootstrap state is never held over an await, so each use is one step.   *)
(* Time is abstracted: the wait budget and the boot deadline may have      *)
(* passed whenever the code looks at them.                                 *)
(***************************************************************************)
EXTENDS Integers, FiniteSets

CONSTANTS Calls,            \* requests in flight (a slot is reused when its request ends)
          Tasks,            \* ids of spawned start_bootstrap tasks
          EmbeddingsCalls,  \* the calls that are embeddings requests; the others are chat
          Droppable         \* the calls whose future the server may drop (client disconnects)

ASSUME LifecycleAssumption ==
    /\ Calls \cap Tasks = {}
    /\ EmbeddingsCalls \subseteq Calls
    /\ Droppable \subseteq Calls

VARIABLES
    status,     \* the published BackendStatus, the value in the watch channel
    bootstrap,  \* BootstrapState, behind the mutex
    unseen,     \* the watch receivers (by call) with a version not yet seen
    pc,         \* where each call and task is
    snap,       \* the BackendStatus each process holds as a local variable
    observe,    \* the observe_request each owner holds as a local variable
    stale,      \* the blocked calls with stale_bootstrap_view
    decision,   \* the LifecycleDecision of each call
    retried,    \* the calls in the retry after UpstreamUnreachable
    host        \* once it is calm: whether the GPU host is awake, and the tunnel to it works

vars == <<status, bootstrap, unseen, pc, snap, observe, stale, decision, retried, host>>

Procs == Calls \cup Tasks
KindOf(c) == IF c \in EmbeddingsCalls THEN "Embeddings" ELSE "Chat"

LifecycleState == {"Cold", "Warming", "Ready", "Error"}
Capability == {"Ready", "Degraded"}
Statuses == [lifecycle : LifecycleState, embeddings : Capability, tunnel : {"Down", "Ready"}]
Cold == [lifecycle |-> "Cold", embeddings |-> "Ready", tunnel |-> "Down"]

(***************************************************************************)
(* Errors: "Cause" is an error a bootstrap recorded, "Generic" the text    *)
(* "backend reported error state" used when none was recorded.             *)
(***************************************************************************)
Decisions == [kind : {"Ready", "Warming", "Failed"}, status : Statuses,
              error : {"None", "Cause", "Generic"}]
NoDecision == [kind |-> "Warming", status |-> Cold, error |-> "None"]
Decided(kind, s, error) == [kind |-> kind, status |-> s, error |-> error]

OnceListening == {"obs", "probe", "wake", "observe", "tunnel", "finish", "commit", "fail",
                  "wait", "check", "blocked", "expired"}
OwnerPc == {"poll", "obs", "probe", "wake", "observe", "tunnel", "finish", "commit", "fail"}
CallPc == {"idle", "gate", "join", "decided", "mark", "degrade", "again"} \cup OnceListening
TaskPc == {"idle"} \cup (OwnerPc \ {"wake", "finish"})

Priority(kind) == IF kind = "Embeddings" THEN 1 ELSE 0
WakesOnlyCold(lifecycle) == lifecycle = "Cold"
should_request_wake(lifecycle) == lifecycle \in {"Cold", "Ready", "Error"}
backend_is_ready(s) == s.lifecycle = "Ready" /\ s.tunnel = "Ready"
Failing(s) == [s EXCEPT !.lifecycle = "Error", !.tunnel = "Down"]
WarmKeepsTunnel(s) == [s EXCEPT !.lifecycle = "Warming"]
Warm(s) == [s EXCEPT !.lifecycle = "Warming", !.tunnel = "Down"]
bootstrap_wait_status(s, isStale) == IF isStale THEN Warm(s) ELSE s

Init ==
    /\ status = Cold
    /\ bootstrap = [active |-> FALSE, lastError |-> "None", observe |-> "Chat"]
    /\ unseen = {}
    /\ pc = [p \in Procs |-> "idle"]
    /\ snap = [p \in Procs |-> Cold]
    /\ observe = [p \in Procs |-> "Chat"]
    /\ stale = {}
    /\ decision = [c \in Calls |-> NoDecision]
    /\ retried = {}
    /\ host = [calm |-> FALSE, awake |-> FALSE, link |-> FALSE]

Goto(p, l) == pc' = [pc EXCEPT ![p] = l]
Hold(p, s) == snap' = [snap EXCEPT ![p] = s]
Release(p) == /\ Hold(p, Cold)
              /\ observe' = [observe EXCEPT ![p] = "Chat"]
Decide(c, d) == decision' = [decision EXCEPT ![c] = d]

(***************************************************************************)
(* send_replace: every receiver that is still subscribed after the step    *)
(* has a version to see.                                                   *)
(***************************************************************************)
PublishIfModified(s) == /\ status' = s
                        /\ unseen' = IF s = status THEN unseen
                                     ELSE {c \in Calls : pc'[c] \in OnceListening}
publish(s) == /\ status' = s
              /\ unseen' = {c \in Calls : pc'[c] \in OnceListening}

-----------------------------------------------------------------------------
(* ensure_backend: the status is borrowed, then the mutex is taken for the *)
(* active flag, then taken again by start_or_join_bootstrap.               *)

Borrow(c, from) ==
    /\ pc[c] = from
    /\ Goto(c, "gate")
    /\ Hold(c, status)
    /\ UNCHANGED <<status, bootstrap, unseen, observe, stale, decision, retried, host>>

Arrive(c) == Borrow(c, "idle")
EnsureAgain(c) == Borrow(c, "again")

ReadyGate(c) ==
    /\ pc[c] = "gate"
    /\ IF ~bootstrap.active /\ backend_is_ready(snap[c])
         THEN Goto(c, "decided") /\ Decide(c, Decided("Ready", snap[c], "None")) /\ Hold(c, Cold)
         ELSE Goto(c, "join") /\ UNCHANGED <<decision, snap>>
    /\ UNCHANGED <<status, bootstrap, unseen, observe, stale, retried, host>>

AlwaysStart == TRUE
should_start == ~bootstrap.active

start_or_join_bootstrap(c) ==
    /\ pc[c] = "join"
    /\ unseen' = unseen \ {c}
    /\ \/ /\ should_start
          /\ bootstrap' = [active |-> TRUE, lastError |-> "None", observe |-> KindOf(c)]
          /\ Goto(c, "obs")
          /\ UNCHANGED snap
       \/ /\ ~should_start
          /\ bootstrap' = IF Priority(KindOf(c)) > Priority(bootstrap.observe)
                            THEN [bootstrap EXCEPT !.observe = KindOf(c)] ELSE bootstrap
          /\ Goto(c, "wait")
          /\ Hold(c, Cold)
    /\ UNCHANGED <<status, observe, stale, decision, retried, host>>

-----------------------------------------------------------------------------
(* observe_once, by the call that owns the bootstrap (with a wake request) *)
(* or by its task (without).  Each await on the host is a step.  A host    *)
(* that is not calm falls asleep, wakes and breaks between any two of them,*)
(* so that its answers are arbitrary and its state need not be kept; a     *)
(* calm host answers by whether it is awake.                               *)

May(cond) == host.calm => cond

bootstrap_observe_request(p) ==
    /\ pc[p] = "obs"
    /\ observe' = [observe EXCEPT ![p] = bootstrap.observe]
    /\ Goto(p, "probe")
    /\ UNCHANGED <<status, bootstrap, unseen, snap, stale, decision, retried, host>>

FailBootstrap(p) ==
    /\ Goto(p, "fail")
    /\ Hold(p, Failing(snap[p]))
    /\ UNCHANGED <<status, bootstrap, unseen, observe, stale, decision, retried>>

(* A Warming observation: a call spawns start_bootstrap and starts waiting, *)
(* a task polls again.                                                      *)
StillWarming(p, s) ==
    /\ \/ p \in Tasks /\ Goto(p, "poll")
       \/ /\ p \in Calls
          /\ \E t \in Tasks : /\ pc[t] = "idle"
                              /\ pc' = [pc EXCEPT ![p] = "wait", ![t] = "poll"]
    /\ publish(s)
    /\ Release(p)
    /\ UNCHANGED <<bootstrap, stale, decision, retried>>

WakesHost(p) == p \in Calls /\ should_request_wake(snap[p].lifecycle)

SshReady(p) ==
    /\ pc[p] = "probe"
    /\ May(host.awake)
    /\ Goto(p, "observe")
    /\ UNCHANGED <<status, bootstrap, unseen, snap, observe, stale, decision, retried, host>>

SshDown(p) ==
    /\ pc[p] = "probe"
    /\ May(~host.awake)
    /\ IF WakesHost(p)
         THEN /\ Goto(p, "wake")
              /\ Hold(p, [snap[p] EXCEPT !.tunnel = "Down"])
              /\ UNCHANGED <<status, bootstrap, unseen, observe, stale, decision, retried>>
         ELSE StillWarming(p, Warm(snap[p]))
    /\ UNCHANGED host

SshError(p) == pc[p] = "probe" /\ ~host.calm /\ FailBootstrap(p) /\ UNCHANGED host

request_wake(c) ==
    /\ pc[c] = "wake"
    /\ \/ /\ StillWarming(c, Warm(snap[c]))
          /\ host' = [host EXCEPT !.awake = host.calm]
       \/ ~host.calm /\ FailBootstrap(c) /\ UNCHANGED host

(* The helper's answer: started and verified, still starting, or an error. *)
(* SshHelperRpc reports embeddings ready whatever the observe_request.     *)
ObservedReady(p) ==
    /\ pc[p] = "observe"
    /\ May(host.awake)
    /\ Goto(p, "tunnel")
    /\ Hold(p, [snap[p] EXCEPT !.lifecycle = "Ready", !.embeddings = "Ready"])
    /\ UNCHANGED <<status, bootstrap, unseen, observe, stale, decision, retried, host>>

ObservedWarming(p) ==
    /\ pc[p] = "observe"
    /\ ~host.calm
    /\ StillWarming(p, Warm([snap[p] EXCEPT !.embeddings = "Ready"]))
    /\ UNCHANGED host

ObservedError(p) ==
    pc[p] = "observe" /\ May(~host.awake) /\ FailBootstrap(p) /\ UNCHANGED host

TunnelReady(p) ==
    /\ pc[p] = "tunnel"
    /\ May(host.awake)
    /\ host' = [host EXCEPT !.link = host.calm]
    /\ LET s == [snap[p] EXCEPT !.tunnel = "Ready"] IN
         /\ IF p \in Calls THEN Goto(p, "finish") /\ Decide(p, Decided("Ready", s, "None"))
                           ELSE Goto(p, "commit") /\ UNCHANGED decision
         /\ publish(s)
         /\ Hold(p, s)
    /\ UNCHANGED <<bootstrap, observe, stale, retried>>

TunnelDown(p) ==
    pc[p] = "tunnel" /\ ~host.calm /\ StillWarming(p, Warm(snap[p])) /\ UNCHANGED host

TunnelError(p) ==
    pc[p] = "tunnel" /\ May(~host.awake) /\ FailBootstrap(p) /\ UNCHANGED host

(* The owning call reads the status again before it commits the result.    *)
RereadStatus(c) ==
    /\ pc[c] = "finish"
    /\ Goto(c, "commit")
    /\ Hold(c, status)
    /\ UNCHANGED <<status, bootstrap, unseen, observe, stale, decision, retried, host>>

RecordFallback(p) == IF pc[p] = "fail" THEN "Generic" ELSE "None"
ForgetError(p) == "None"
Recorded(p) == IF pc[p] = "fail" THEN "Cause" ELSE "None"

finish_bootstrap(p) ==
    /\ pc[p] \in {"commit", "fail"}
    /\ bootstrap' = [bootstrap EXCEPT !.active = FALSE, !.lastError = Recorded(p)]
    /\ Goto(p, IF p \in Calls THEN "decided" ELSE "idle")
    /\ publish(snap[p])
    /\ IF p \in Calls /\ pc[p] = "fail" THEN Decide(p, Decided("Failed", snap[p], "Cause"))
                                        ELSE UNCHANGED decision
    /\ Release(p)
    /\ UNCHANGED <<stale, retried, host>>

-----------------------------------------------------------------------------
(* start_bootstrap: the task polls until a result or its boot deadline.    *)

QuitSilently(t) == Goto(t, "idle") /\ UNCHANGED snap
KeepPolling(t) == Goto(t, "obs") /\ Hold(t, status)
GiveUp(t) == Goto(t, "fail") /\ Hold(t, Failing(status))

Poll(t) ==
    /\ pc[t] = "poll"
    /\ GiveUp(t) \/ (Goto(t, "obs") /\ Hold(t, status))
    /\ UNCHANGED <<status, bootstrap, unseen, observe, stale, decision, retried, host>>

-----------------------------------------------------------------------------
(* wait_for_ready_or_timeout *)

BorrowWaiting(c) ==
    /\ pc[c] = "wait"
    /\ Goto(c, "check")
    /\ Hold(c, status)
    /\ UNCHANGED <<status, bootstrap, unseen, observe, stale, decision, retried, host>>

(* The wait returns: the receiver is dropped with the future's locals.     *)
EndWait(c, d) ==
    /\ Goto(c, "decided")
    /\ Decide(c, d)
    /\ Hold(c, Cold)
    /\ unseen' = unseen \ {c}
    /\ stale' = stale \ {c}

CheckBootstrap(c) ==
    LET s == snap[c]
        isStale == bootstrap.active /\ s.lifecycle # "Warming"
        error == IF bootstrap.lastError = "None" THEN "Generic" ELSE bootstrap.lastError
    IN  /\ pc[c] = "check"
        /\ CASE ~isStale /\ backend_is_ready(s)    -> EndWait(c, Decided("Ready", s, "None"))
             [] ~isStale /\ s.lifecycle = "Error"  -> EndWait(c, Decided("Failed", s, error))
             [] OTHER ->
                  \/ EndWait(c, Decided("Warming", bootstrap_wait_status(s, isStale), "None"))
                  \/ /\ Goto(c, "blocked")
                     /\ stale' = IF isStale THEN stale \cup {c} ELSE stale
                     /\ UNCHANGED <<unseen, snap, decision>>
        /\ UNCHANGED <<status, bootstrap, observe, retried, host>>

StatusChanged(c) ==
    /\ pc[c] = "blocked"
    /\ c \in unseen
    /\ Goto(c, "wait")
    /\ unseen' = unseen \ {c}
    /\ stale' = stale \ {c}
    /\ Hold(c, Cold)
    /\ UNCHANGED <<status, bootstrap, observe, decision, retried, host>>

NeverTimesOut(c) == FALSE
WaitTimesOut(c) ==
    /\ pc[c] = "blocked"
    /\ c \notin unseen
    /\ Goto(c, "expired")
    /\ Hold(c, Cold)
    /\ UNCHANGED <<status, bootstrap, unseen, observe, stale, decision, retried, host>>

ReturnWarming(c) ==
    /\ pc[c] = "expired"
    /\ EndWait(c, Decided("Warming", bootstrap_wait_status(status, c \in stale), "None"))
    /\ UNCHANGED <<status, bootstrap, observe, retried, host>>

-----------------------------------------------------------------------------
(* The caller, src/orchestrate.rs: answer the client, or forward and act   *)
(* on what forwarding shows.  A request is retried once after a failure to *)
(* reach the backend, and its second failure is answered as it is.         *)

Forwards(c) ==
    /\ pc[c] = "decided"
    /\ decision[c].kind = "Ready"
    /\ c \in retried \/ c \notin EmbeddingsCalls \/ decision[c].status.embeddings = "Ready"

Finished(c) == /\ Decide(c, NoDecision)
               /\ retried' = retried \ {c}

Answer(c) ==
    /\ pc[c] = "decided"
    /\ Forwards(c) => May(host.link) \/ c \in retried
    /\ Goto(c, "idle")
    /\ Finished(c)
    /\ UNCHANGED <<status, bootstrap, unseen, snap, observe, stale, host>>

UpstreamUnreachable(c) ==
    /\ Forwards(c)
    /\ c \notin retried
    /\ May(~host.link)
    /\ Goto(c, "mark")
    /\ Hold(c, Warm(status))
    /\ Decide(c, NoDecision)
    /\ retried' = retried \cup {c}
    /\ UNCHANGED <<status, bootstrap, unseen, observe, stale, host>>

mark_warming(c) ==
    /\ pc[c] = "mark"
    /\ Goto(c, "again")
    /\ publish(snap[c])
    /\ Hold(c, Cold)
    /\ UNCHANGED <<bootstrap, observe, stale, decision, retried, host>>

EmbeddingsUnsupported(c) ==
    /\ Forwards(c)
    /\ c \in EmbeddingsCalls \ retried
    /\ May(host.link)
    /\ Goto(c, "degrade")
    /\ Hold(c, [status EXCEPT !.embeddings = "Degraded"])
    /\ Decide(c, NoDecision)
    /\ UNCHANGED <<status, bootstrap, unseen, observe, stale, retried, host>>

degrade_embeddings(c) ==
    /\ pc[c] = "degrade"
    /\ Goto(c, "idle")
    /\ publish(snap[c])
    /\ Hold(c, Cold)
    /\ UNCHANGED <<bootstrap, observe, stale, decision, retried, host>>

(* The server drops the future of a request whose client went away, at     *)
(* whichever await it is suspended.                                        *)
AwaitPc == {"gate", "join", "obs", "probe", "wake", "observe", "tunnel", "commit", "fail",
            "check", "blocked", "decided"}

Drop(c) ==
    /\ c \in Droppable
    /\ pc[c] \in AwaitPc
    /\ ~host.calm
    /\ Goto(c, "idle")
    /\ Finished(c)
    /\ Release(c)
    /\ unseen' = unseen \ {c}
    /\ stale' = stale \ {c}
    /\ UNCHANGED <<status, bootstrap, host>>

-----------------------------------------------------------------------------
(* The host stops misbehaving, asleep or awake, with a tunnel that works or *)
(* does not.                                                                *)
HostCalms ==
    /\ ~host.calm
    /\ \E up, linked \in BOOLEAN : /\ linked => up
                                   /\ host' = [calm |-> TRUE, awake |-> up, link |-> linked]
    /\ UNCHANGED <<status, bootstrap, unseen, pc, snap, observe, stale, decision, retried>>

-----------------------------------------------------------------------------
OwnerStep(p) ==
    \/ bootstrap_observe_request(p)
    \/ SshReady(p) \/ SshDown(p) \/ SshError(p)
    \/ ObservedReady(p) \/ ObservedWarming(p) \/ ObservedError(p)
    \/ TunnelReady(p) \/ TunnelDown(p) \/ TunnelError(p)
    \/ finish_bootstrap(p)

CallStep(c) ==
    \/ EnsureAgain(c) \/ ReadyGate(c) \/ start_or_join_bootstrap(c)
    \/ OwnerStep(c) \/ request_wake(c) \/ RereadStatus(c)
    \/ BorrowWaiting(c) \/ CheckBootstrap(c) \/ StatusChanged(c)
    \/ WaitTimesOut(c) \/ ReturnWarming(c)
    \/ Answer(c) \/ UpstreamUnreachable(c) \/ mark_warming(c)
    \/ EmbeddingsUnsupported(c) \/ degrade_embeddings(c)

TaskStep(t) == Poll(t) \/ OwnerStep(t)

ProxyStep ==
    \/ \E c \in Calls : Arrive(c) \/ CallStep(c) \/ Drop(c)
    \/ \E t \in Tasks : TaskStep(t)

Next == ProxyStep \/ HostCalms

Spec == Init /\ [][Next]_vars

(***************************************************************************)
(* The runtime polls every ready future, and clients retry.  A deadline    *)
(* that is looked at again and again passes in the end: strong fairness.   *)
(* Nothing is assumed of the host, nor of dropped requests.                *)
(***************************************************************************)
WaitExpires(c) == WaitTimesOut(c) \/ (CheckBootstrap(c) /\ pc'[c] = "decided")
BootExpires(t) == Poll(t) /\ pc'[t] = "fail"

Fairness ==
    /\ \A c \in Calls : WF_vars(CallStep(c)) /\ WF_vars(Arrive(c)) /\ SF_vars(WaitExpires(c))
    /\ \A t \in Tasks : WF_vars(TaskStep(t)) /\ SF_vars(BootExpires(t))

FairSpec == Spec /\ Fairness

(* A host that is never calm: all of its answers stay possible. *)
RestlessSpec == Init /\ [][ProxyStep]_vars /\ Fairness

-----------------------------------------------------------------------------
(* Properties *)

TypeOK ==
    /\ status \in Statuses
    /\ bootstrap \in [active : BOOLEAN, lastError : {"None", "Cause"},
                      observe : {"Chat", "Embeddings"}]
    /\ unseen \subseteq Calls
    /\ pc \in [Procs -> CallPc \cup TaskPc]
    /\ \A t \in Tasks : pc[t] \in TaskPc
    /\ \A c \in Calls : pc[c] \in CallPc
    /\ snap \in [Procs -> Statuses]
    /\ observe \in [Procs -> {"Chat", "Embeddings"}]
    /\ stale \subseteq Calls
    /\ decision \in [Calls -> Decisions]
    /\ retried \subseteq Calls
    /\ host \in [awake : BOOLEAN, link : BOOLEAN, calm : BOOLEAN]

Owners == {p \in Procs : pc[p] \in OwnerPc}

(* The manager is what its callers take it for (BackendGate): whatever the  *)
(* awaits, the drops and the edits of old copies, the status is changed     *)
(* only by the one owner of the bootstrap and by those edits, and a backend *)
(* that was ever observed is not Cold again (lifecycle.rs, all publishes).  *)
Gate == INSTANCE BackendGate WITH
            lifecycle <- status.lifecycle, embeddings <- status.embeddings,
            active <- bootstrap.active, owner <- Owners, Embeds <- EmbeddingsCalls # {}
ImplementsBackendGate == Gate!Spec

(* The active flag is a lock on bootstrapping: at most one call or task     *)
(* observes the host and commits a result, and only while the flag is set  *)
(* (lifecycle.rs start_or_join_bootstrap, finish_bootstrap).                *)
SingleBootstrap ==
    /\ \A p, q \in Owners : p = q
    /\ Owners # {} => bootstrap.active

(* If no request is dropped, an active bootstrap has someone to finish it.  *)
NoOrphanedBootstrap == bootstrap.active /\ Droppable = {} => Owners # {}

(* The published status and every published decision agree on the backend  *)
(* and the tunnel: Ready exactly when the tunnel is, however the           *)
(* unsynchronised mark_warming and degrade_embeddings interleave.          *)
Coherent(s) == s.lifecycle = "Ready" <=> s.tunnel = "Ready"
StatusCoherent ==
    /\ Coherent(status)
    /\ \A c \in Calls : pc[c] = "decided" => Coherent(decision[c].status)

(* A waiter asleep with nothing to wake it is never sitting on an answer:  *)
(* once no bootstrap runs, the status it would see is undecided            *)
(* (lifecycle.rs wait_for_ready_or_timeout and the publish in              *)
(* finish_bootstrap, which wakes waiters even when the status is the same).*)
Decisive(s) == backend_is_ready(s) \/ s.lifecycle = "Error"
NoLostWakeup ==
    \A c \in Calls \ unseen :
        pc[c] = "blocked" /\ ~bootstrap.active => ~Decisive(status)

(* An Error left behind by a bootstrap has its cause recorded for the       *)
(* waiters that have not looked yet.  Chat requests only: the unguarded     *)
(* read-modify-write of degrade_embeddings can republish an old Error.      *)
ErrorHasCause ==
    /\ EmbeddingsCalls = {}
    /\ status.lifecycle = "Error"
    /\ ~bootstrap.active
    => bootstrap.lastError = "Cause"

(* CONTEXT.md: the proxy cold-starts the host on the next request if the     *)
(* tunnel is broken, so the request that could not reach the backend, when it *)
(* starts the bootstrap and finds the host asleep, sends a wake-up.           *)
NextRequestWakes ==
    [][\A c \in retried : pc[c] = "probe" => pc'[c] # "wait"]_vars

(* Every boot task ends, whatever the host does: the boot deadline bounds   *)
(* its polling (lifecycle.rs start_bootstrap).                              *)
BootTaskEnds == \A t \in Tasks : pc[t] # "idle" ~> pc[t] = "idle"

(* Every request is answered, whoever else disconnects: the wait budget     *)
(* bounds a waiter even behind a bootstrap that never finishes.             *)
EveryCallAnswered == \A c \in Calls : pc[c] # "idle" ~> pc[c] = "idle"

(* Once the host stops misbehaving, a Ready status is reached with the host *)
(* awake and the tunnel up, from whatever state the faults left: asleep     *)
(* behind a Ready status, an Error, a bootstrap half way.                   *)
Recovered == backend_is_ready(status) /\ host.awake /\ host.link
StartsFresh ==
    \A c \in Calls : pc[c] = "join" /\ pc'[c] = "obs" => snap[c] = status
Recovery == <>[][StartsFresh]_vars => (host.calm ~> Recovered)
=============================================================================
