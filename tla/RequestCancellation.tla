------------------------ MODULE RequestCancellation ------------------------
(***************************************************************************)
(* The cancellation token of one running request (src/scheduler.rs): an    *)
(* atomic flag and a Notify.  cancel() may be called by several holders of *)
(* the token and raises the flag, then notifies; cancelled() creates its   *)
(* Notified future, looks at the flag, and only then waits.  A Notified    *)
(* future completes once notify_waiters has been called after its creation,*)
(* even if it had not been polled yet.  Forwarder composes the token with  *)
(* the forwarding operations that watch it.                                *)
(***************************************************************************)
EXTENDS Naturals

CONSTANTS Watchers, Cancellers

ASSUME CancellationAssumption == Watchers \cap Cancellers = {}

VARIABLES
    cancelled,  \* the AtomicBool
    calls,      \* how often notify_waiters was called
    pc,         \* where each cancelled() and each cancel() is
    seen        \* calls at the creation of the Notified future of each watcher

token == <<cancelled, calls, pc, seen>>

TokenInit ==
    /\ cancelled = FALSE
    /\ calls = 0
    /\ pc = [p \in Watchers \cup Cancellers |-> "start"]
    /\ seen = [w \in Watchers |-> 0]

Goto(p, l) == pc' = [pc EXCEPT ![p] = l]

(* cancel(): only the call that raises the flag notifies. *)
NotifyAlways(k) == cancelled' = TRUE /\ Goto(k, "notify")
NotifyWithoutFlag(k) == UNCHANGED cancelled /\ Goto(k, IF cancelled THEN "done" ELSE "notify")
RaiseFlag(k) == /\ cancelled' = TRUE
                /\ Goto(k, IF cancelled THEN "done" ELSE "notify")

Swap(k) ==
    /\ pc[k] = "start"
    /\ RaiseFlag(k)
    /\ UNCHANGED <<calls, seen>>

WakeNobody(k) == Goto(k, "done") /\ UNCHANGED calls
notify_waiters(k) == Goto(k, "done") /\ calls' = calls + 1

Notify(k) ==
    /\ pc[k] = "notify"
    /\ notify_waiters(k)
    /\ UNCHANGED <<cancelled, seen>>

(* cancelled() *)
CreateNotified(w) ==
    /\ pc[w] = "start"
    /\ seen' = [seen EXCEPT ![w] = calls]
    /\ Goto(w, "check")
    /\ UNCHANGED <<cancelled, calls>>

CheckFlag(w) ==
    /\ pc[w] = "check"
    /\ Goto(w, IF cancelled THEN "returned" ELSE "await")
    /\ UNCHANGED <<cancelled, calls, seen>>

(* The future is polled for the first time, then when it is woken. *)
FreshNotified(w) == seen' = [seen EXCEPT ![w] = calls]
SameNotified(w) == UNCHANGED seen

FirstPoll(w) ==
    /\ pc[w] = "await"
    /\ Goto(w, "pending")
    /\ SameNotified(w)
    /\ UNCHANGED <<cancelled, calls>>

Woken(w) ==
    /\ pc[w] = "pending"
    /\ seen[w] # calls
    /\ Goto(w, "returned")
    /\ UNCHANGED <<cancelled, calls, seen>>

(* The select that polls the watch takes its other branch and drops it.    *)
Unwatch(w) ==
    /\ pc[w] = "pending"
    /\ Goto(w, "dropped")
    /\ UNCHANGED <<cancelled, calls, seen>>

CancelStep(k) == Swap(k) \/ Notify(k)
WatchStep(w) == CreateNotified(w) \/ CheckFlag(w) \/ FirstPoll(w) \/ Woken(w)

-----------------------------------------------------------------------------
(* The flag is raised once, so the waiters are notified at most once.      *)
TokenTypeOK ==
    /\ cancelled \in BOOLEAN
    /\ calls \in {0, 1}
    /\ pc \in [Watchers \cup Cancellers ->
                 {"start", "check", "await", "pending", "returned", "dropped", "notify", "done"}]
    /\ \A k \in Cancellers : pc[k] \in {"start", "notify", "done"}
    /\ \A w \in Watchers : pc[w] \notin {"notify", "done"}
    /\ seen \in [Watchers -> {0, 1}]

(* A watcher that waits for a notification although the flag is up has one *)
(* coming or already there: the one cancel() call that raised the flag     *)
(* notifies after it did (scheduler.rs cancel, cancelled).                 *)
NoMissedCancel ==
    \A w \in Watchers :
        cancelled /\ pc[w] \in {"await", "pending"} =>
            seen[w] # calls \/ \E k \in Cancellers : pc[k] = "notify"

(* Only a cancelled request is told so (scheduler.rs cancelled returns on  *)
(* a notification without looking at the flag again).                      *)
NoFalseCancel == \A w \in Watchers : pc[w] = "returned" => cancelled

(* A request that was cancelled while somebody watched is noticed, or its  *)
(* watch is over (scheduler.rs cancelled, as forward.rs selects on it).    *)
CancelNoticed ==
    \A w \in Watchers : cancelled /\ pc[w] = "pending" ~> pc[w] # "pending"
=============================================================================
