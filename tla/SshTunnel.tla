------------------------------ MODULE SshTunnel ------------------------------
(***************************************************************************)
(* The ssh tunnel of one backend (src/host.rs, SshTunnelManager).          *)
(*                                                                         *)
(* ensure_tunnel holds the manager's lock while it spawns an ssh process   *)
(* and watches it for half a second.  ssh authenticates, binds the local   *)
(* port and carries requests; it exits when that fails, when the port is   *)
(* taken, or when it notices that the connection broke.  It is killed when *)
(* its Child is dropped, and dies in its own time.  The ssh processes and  *)
(* the network are the environment.                                        *)
(***************************************************************************)
EXTENDS Naturals, FiniteSets

CONSTANTS Callers,      \* ensure_tunnel calls that may overlap
          Children,     \* ids of ssh processes, reused when one is reaped
          NoChild, Nobody

ASSUME TunnelAssumption == NoChild \notin Children /\ Nobody \notin Callers

VARIABLES
    child,  \* the state of each ssh process
    port,   \* the ssh process that listens on the local port
    proc,   \* the Child the manager keeps
    lock,   \* who holds the mutex around proc
    pc,     \* where each call is
    fresh,  \* the Child create_tunnel holds as a local variable, by call
    link,   \* the network to the host works
    calm    \* it keeps working, and clients stay

vars == <<child, port, proc, lock, pc, fresh, link, calm>>
net == <<link, calm>>

Live == {"connecting", "up", "hung"}

Init ==
    /\ child = [k \in Children |-> "none"]
    /\ port = NoChild
    /\ proc = NoChild
    /\ lock = Nobody
    /\ pc = [c \in Callers |-> "idle"]
    /\ fresh = [c \in Callers |-> NoChild]
    /\ link \in BOOLEAN
    /\ calm = FALSE

Goto(c, l) == pc' = [pc EXCEPT ![c] = l]
ChildTo(k, s) == child' = [child EXCEPT ![k] = s]
ReturnLocked(c, l) == Goto(c, l) /\ UNCHANGED lock
Return(c, l) == Goto(c, l) /\ lock' = Nobody

-----------------------------------------------------------------------------
(* ensure_tunnel *)

Unlocked == TRUE
LockFree == lock = Nobody

Lock(c) ==
    /\ pc[c] = "idle"
    /\ LockFree
    /\ lock' = c
    /\ Goto(c, "try_wait")
    /\ UNCHANGED <<child, port, proc, fresh, net>>

NeverExited(k) == FALSE
Exited(k) == child[k] = "exited"

(* No tunnel yet, or one that exited and is reaped here. *)
FindNoTunnel(c) ==
    /\ pc[c] = "try_wait"
    /\ \/ proc = NoChild /\ UNCHANGED child
       \/ proc # NoChild /\ Exited(proc) /\ ChildTo(proc, "none")
    /\ proc' = NoChild
    /\ Goto(c, "spawn")
    /\ UNCHANGED <<port, lock, fresh, net>>

(* A process that runs is a tunnel that is Ready; not knowing is Down.     *)
FindTunnel(c) ==
    /\ pc[c] = "try_wait"
    /\ proc # NoChild
    /\ ~Exited(proc)
    /\ \/ Return(c, "ready")
       \/ ~calm /\ Return(c, "down")
    /\ UNCHANGED <<child, port, proc, fresh, net>>

(* create_tunnel *)
Spawn(c) ==
    /\ pc[c] = "spawn"
    /\ \/ /\ \E k \in Children : /\ child[k] = "none"
                                 /\ ChildTo(k, "connecting")
                                 /\ fresh' = [fresh EXCEPT ![c] = k]
          /\ Goto(c, "sleep")
          /\ UNCHANGED lock
       \/ ~calm /\ Return(c, "failed") /\ UNCHANGED <<child, fresh>>
    /\ UNCHANGED <<port, proc, net>>

LeaveRunning(k) == UNCHANGED child
kill_on_drop(k) == ChildTo(k, IF child[k] \in Live THEN "dying" ELSE "none")

(* After half a second: an ssh that has not exited is taken for a tunnel,  *)
(* and one of which that cannot be known is dropped.                       *)
Keep(c) ==
    /\ pc[c] = "sleep"
    /\ \/ /\ ~Exited(fresh[c])
          /\ proc' = fresh[c]
          /\ Return(c, "ready")
          /\ UNCHANGED child
       \/ /\ Exited(fresh[c])
          /\ ChildTo(fresh[c], "none")
          /\ Return(c, "failed")
          /\ UNCHANGED proc
       \/ /\ ~calm
          /\ kill_on_drop(fresh[c])
          /\ Return(c, "failed")
          /\ UNCHANGED proc
    /\ fresh' = [fresh EXCEPT ![c] = NoChild]
    /\ UNCHANGED <<port, net>>

Done(c) ==
    /\ pc[c] \in {"ready", "down", "failed"}
    /\ Goto(c, "idle")
    /\ UNCHANGED <<child, port, proc, lock, fresh, net>>

(* The future of the request is dropped while it sleeps in create_tunnel.  *)
Drop(c) ==
    /\ pc[c] = "sleep"
    /\ ~calm
    /\ kill_on_drop(fresh[c])
    /\ fresh' = [fresh EXCEPT ![c] = NoChild]
    /\ Return(c, "idle")
    /\ UNCHANGED <<port, proc, net>>

-----------------------------------------------------------------------------
(* The environment *)

Freed(k) == IF port = k THEN NoChild ELSE port

Connects(k) ==
    /\ child[k] = "connecting"
    /\ link
    /\ \/ port = NoChild /\ ChildTo(k, "up") /\ port' = k
       \/ port # NoChild /\ ChildTo(k, "exited") /\ UNCHANGED port
ConnectFails(k) ==
    child[k] = "connecting" /\ ~link /\ ChildTo(k, "exited") /\ UNCHANGED port
(* A connection that broke may live again with the network, and is noticed *)
(* in the end.                                                             *)
Revives(k) == child[k] = "hung" /\ link /\ ChildTo(k, "up") /\ UNCHANGED port
NoticesBreak(k) == child[k] = "hung" /\ ChildTo(k, "exited") /\ port' = Freed(k)
Dies(k) == child[k] = "dying" /\ ChildTo(k, "none") /\ port' = Freed(k)

ChildStep(k) ==
    /\ Connects(k) \/ ConnectFails(k) \/ Revives(k) \/ NoticesBreak(k) \/ Dies(k)
    /\ UNCHANGED <<proc, lock, pc, fresh, net>>

LinkBreaks ==
    /\ link
    /\ link' = FALSE
    /\ child' = [k \in Children |-> IF child[k] = "up" THEN "hung" ELSE child[k]]
    /\ UNCHANGED calm
LinkReturns == ~link /\ link' = TRUE /\ UNCHANGED <<calm, child>>
Calms == link /\ calm' = TRUE /\ UNCHANGED <<link, child>>

NetStep == /\ ~calm
           /\ LinkBreaks \/ LinkReturns \/ Calms
           /\ UNCHANGED <<port, proc, lock, pc, fresh>>

-----------------------------------------------------------------------------
CallStep(c) == Lock(c) \/ FindNoTunnel(c) \/ FindTunnel(c) \/ Spawn(c) \/ Keep(c) \/ Done(c)

Next == \/ \E c \in Callers : CallStep(c) \/ Drop(c)
        \/ \E k \in Children : ChildStep(k)
        \/ NetStep

Spec == Init /\ [][Next]_vars

(* Calls run on and keep coming, and ssh goes on; nothing is assumed of a  *)
(* network that is not calm.                                               *)
FairSpec ==
    /\ Spec
    /\ \A c \in Callers : WF_vars(CallStep(c))
    /\ \A k \in Children : WF_vars(ChildStep(k))

-----------------------------------------------------------------------------
(* Properties *)

(* The lock is held by the call that looks at the tunnel or makes one, and  *)
(* given back however that call ends.                                      *)
TypeOK ==
    /\ child \in [Children -> Live \cup {"none", "dying", "exited"}]
    /\ port \in Children \cup {NoChild}
    /\ proc \in Children \cup {NoChild}
    /\ lock \in Callers \cup {Nobody}
    /\ pc \in [Callers -> {"idle", "try_wait", "spawn", "sleep", "ready", "down", "failed"}]
    /\ \A c \in Callers : pc[c] \in {"try_wait", "spawn", "sleep"} <=> lock = c
    /\ fresh \in [Callers -> Children \cup {NoChild}]
    /\ link \in BOOLEAN /\ calm \in BOOLEAN

(* At most one ssh process tries to be the tunnel: two would fight for the  *)
(* local port, and the loser's exit would fail a healthy backend (host.rs   *)
(* ensure_tunnel holds its lock across create_tunnel).                      *)
LiveChildren == {k \in Children : child[k] \in Live}
OneTunnel == \A j, k \in LiveChildren : j = k

(* No ssh process is forgotten: a live one is the manager's, or that of a   *)
(* call still watching it, whoever is dropped meanwhile.                    *)
NoLeakedTunnel == \A k \in LiveChildren : k = proc \/ \E c \in Callers : fresh[c] = k

(* Once the network is calm and calls keep coming, the tunnel works again:  *)
(* a broken ssh is replaced, and a port still held by a dying one is only   *)
(* waited for.                                                              *)
TunnelRepaired == calm ~> (proc # NoChild /\ child[proc] = "up" /\ port = proc)
=============================================================================
