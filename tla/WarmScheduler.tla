---------------------------- MODULE WarmScheduler ----------------------------
(***************************************************************************)
(* The warm execution scheduler (src/scheduler.rs): requests that found    *)
(* the backend ready share MaxActive permits of a tokio semaphore, at most *)
(* MaxQueued of the others wait for one, each no longer than the queue     *)
(* timeout, and a client may disconnect at any await.                      *)
(*                                                                         *)
(* A step is one access to the semaphore or to the queue mutex.  The       *)
(* semaphore is tokio's: a released permit goes straight to the request at *)
(* the head of the wait queue, and a wait that is dropped after a permit   *)
(* was assigned to it gives the permit back.                               *)
(***************************************************************************)
EXTENDS Integers, Sequences, FiniteSets, SequencesExt

CONSTANTS Requests,     \* requests in flight (a slot is reused when its request ends)
          MaxActive,    \* WARM_MAX_ACTIVE_REQUESTS
          MaxQueued     \* WARM_MAX_QUEUED_REQUESTS, 0 for no queue

ASSUME SchedulerAssumption ==
    /\ IsFiniteSet(Requests)
    /\ MaxActive \in Nat \ {0}
    /\ MaxQueued \in Nat

VARIABLES
    permits,    \* free permits of the semaphore
    waiters,    \* the semaphore's wait queue
    assigned,   \* waits a permit has been handed to, not polled since
    queued,     \* QueueState.queued, behind the mutex
    pc          \* where each request is

vars == <<permits, waiters, assigned, queued, pc>>

Init ==
    /\ permits = MaxActive
    /\ waiters = <<>>
    /\ assigned = {}
    /\ queued = 0
    /\ pc = [r \in Requests |-> "idle"]

Goto(r, l) == pc' = [pc EXCEPT ![r] = l]

-----------------------------------------------------------------------------
(* The semaphore.  Release hands a permit to the head of the queue, given  *)
(* the waits it had been handed to before.                                 *)

HasPermit == permits > 0

PushFront(r) == waiters' = <<r>> \o waiters
Enqueue(r) == waiters' = Append(waiters, r)

Barge(given) == /\ permits' = permits + 1
                /\ assigned' = given
                /\ UNCHANGED waiters
Release(given) ==
    \/ /\ waiters = <<>>
       /\ permits' = permits + 1
       /\ assigned' = given
       /\ UNCHANGED waiters
    \/ /\ waiters # <<>>
       /\ waiters' = Tail(waiters)
       /\ assigned' = given \cup {Head(waiters)}
       /\ UNCHANGED permits

Unlink(r) == /\ \E i \in 1..Len(waiters) : /\ waiters[i] = r
                                           /\ waiters' = RemoveAt(waiters, i)
             /\ UNCHANGED <<permits, assigned>>

LoseAssigned(r) == \/ r \notin assigned /\ Unlink(r)
                   \/ r \in assigned /\ assigned' = assigned \ {r}
                                     /\ UNCHANGED <<permits, waiters>>
(* The drop of an Acquire future. *)
GiveUp(r) == \/ r \notin assigned /\ Unlink(r)
             \/ r \in assigned /\ Release(assigned \ {r})

-----------------------------------------------------------------------------
(* execute *)

try_acquire(r) ==
    /\ pc[r] = "idle"
    /\ \/ HasPermit /\ permits' = permits - 1 /\ Goto(r, "run")
       \/ ~HasPermit /\ UNCHANGED permits /\ Goto(r, "reserve")
    /\ UNCHANGED <<waiters, assigned, queued>>

RoomForOneMore == queued <= MaxQueued
QueueHasRoom == queued < MaxQueued

(* QueueTicket::reserve, or the answer QueueFull. *)
reserve(r) ==
    /\ pc[r] = "reserve"
    /\ \/ QueueHasRoom /\ queued' = queued + 1 /\ Goto(r, "acquire")
       \/ ~QueueHasRoom /\ UNCHANGED queued /\ Goto(r, "idle")
    /\ UNCHANGED <<permits, waiters, assigned>>

(* The first poll of the timed wait, in the same poll of the request: it   *)
(* takes a permit that was released meanwhile.                             *)
StartWaiting(r) ==
    /\ pc[r] = "acquire"
    /\ \/ HasPermit /\ permits' = permits - 1 /\ Goto(r, "got") /\ UNCHANGED waiters
       \/ ~HasPermit /\ UNCHANGED permits /\ Goto(r, "wait") /\ Enqueue(r)
    /\ UNCHANGED <<assigned, queued>>

AcquireReady(r) ==
    /\ pc[r] = "wait"
    /\ r \in assigned
    /\ assigned' = assigned \ {r}
    /\ Goto(r, "got")
    /\ UNCHANGED <<permits, waiters, queued>>

(* The timer is looked at only when no permit is there; the wait is still  *)
(* linked, and may be handed a permit before it is dropped.                *)
QueueTimeout(r) ==
    /\ pc[r] = "wait"
    /\ r \notin assigned
    /\ Goto(r, "leave")
    /\ UNCHANGED <<permits, waiters, assigned, queued>>

DropWait(r) ==
    /\ pc[r] = "leave"
    /\ GiveUp(r)
    /\ Goto(r, "ticket")
    /\ UNCHANGED queued

KeepTicket(r) == UNCHANGED queued
ReturnTicket(r) == queued' = IF queued = 0 THEN 0 ELSE queued - 1

(* The ticket goes back after the wait, whether it got a permit or not.    *)
DropTicket(r) ==
    /\ pc[r] \in {"got", "ticket"}
    /\ ReturnTicket(r)
    /\ Goto(r, IF pc[r] = "got" THEN "run" ELSE "idle")
    /\ UNCHANGED <<permits, waiters, assigned>>

(* The operation ends, or it is dropped with its request: either way the   *)
(* permit is dropped.                                                      *)
EndOperation(r) ==
    /\ pc[r] = "run"
    /\ Release(assigned)
    /\ Goto(r, "idle")
    /\ UNCHANGED queued

(* The client disconnects while its request waits. *)
Disconnect(r) ==
    /\ pc[r] = "wait"
    /\ Goto(r, "leave")
    /\ UNCHANGED <<permits, waiters, assigned, queued>>

Step(r) ==
    \/ reserve(r) \/ StartWaiting(r) \/ AcquireReady(r)
    \/ DropWait(r) \/ DropTicket(r) \/ EndOperation(r)

Next == \E r \in Requests : try_acquire(r) \/ Step(r) \/ QueueTimeout(r) \/ Disconnect(r)

Spec == Init /\ [][Next]_vars

(* Ready futures are polled and operations end (the upstream client has a  *)
(* timeout of its own).  Neither the queue timeout nor a disconnect is     *)
(* needed for progress, so neither is fair.                                *)
FairSpec == Spec /\ \A r \in Requests : WF_vars(Step(r))

-----------------------------------------------------------------------------
(* Properties *)

TypeOK ==
    /\ permits \in 0..MaxActive
    /\ waiters \in Seq(Requests)
    /\ assigned \subseteq Requests
    /\ queued \in 0..MaxQueued
    /\ pc \in [Requests -> {"idle", "reserve", "acquire", "wait", "got", "leave", "ticket", "run"}]

Holders == {r \in Requests : pc[r] \in {"got", "run"}} \cup assigned
Ticketed == {r \in Requests : pc[r] \in {"acquire", "wait", "got", "leave", "ticket"}}

(* No permit is lost or forged, whichever of the release, the timeout and  *)
(* the disconnect comes first: so at most MaxActive operations run, and in *)
(* the end all MaxActive slots can be used again (scheduler.rs execute).   *)
SlotsAccounted == permits + Cardinality(Holders) = MaxActive

(* No request waits while a slot is free: a request that failed to get a   *)
(* permit before it took its ticket does not sleep on one released since.  *)
NoIdleSlot == permits > 0 => waiters = <<>>

(* The counter of queued requests counts the tickets held, whichever way   *)
(* each request leaves the queue, so saturating_sub never saturates.       *)
TicketsExact == queued = Cardinality(Ticketed)

(* Nobody starves: every request ends though the queue timeout never fires.*)
EveryRequestEnds == \A r \in Requests : pc[r] # "idle" ~> pc[r] = "idle"

(* What the scheduler promises: see FairGate.                              *)
Gate == INSTANCE FairGate WITH Slots <- MaxActive, inside <- Holders, line <- waiters
ImplementsGate == Gate!Spec
=============================================================================
