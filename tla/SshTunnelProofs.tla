--------------------------- MODULE SshTunnelProofs ---------------------------
(***************************************************************************)
(* Proofs about SshTunnel, for any set of callers and of ssh processes.    *)
(*                                                                         *)
(* Every ssh process that lives has an owner: the manager's slot, or the   *)
(* local variable of a call that watches it.  A call watches one only with *)
(* the lock held and the slot empty, so there is one owner at a time.      *)
(***************************************************************************)
EXTENDS SshTunnel, TLAPS

Owned == Live \cup {"exited"}

(* A call holds a Child exactly while it sleeps in create_tunnel.          *)
FreshWhileAsleep == \A c \in Callers : fresh[c] # NoChild <=> pc[c] = "sleep"

(* A new ssh is made only after the old one was found gone.                *)
SlotEmptyWhileMaking == \A c \in Callers : pc[c] \in {"spawn", "sleep"} => proc = NoChild

(* What is owned was not reaped: it runs, or its exit was not seen yet.    *)
OwnedNotReaped ==
    /\ proc # NoChild => child[proc] \in Owned
    /\ \A c \in Callers : fresh[c] # NoChild => child[fresh[c]] \in Owned

Ownership == FreshWhileAsleep /\ SlotEmptyWhileMaking /\ OwnedNotReaped /\ NoLeakedTunnel

IInv == TypeOK /\ Ownership

-----------------------------------------------------------------------------
LEMMA InitIInv == Init => IInv
<1> SUFFICES ASSUME Init PROVE IInv
  OBVIOUS
<1> USE DEF Init
<1>1. TypeOK
  <2>1. \A c \in Callers : pc[c] \in {"try_wait", "spawn", "sleep"} <=> lock = c
    BY TunnelAssumption
  <2> QED BY <2>1 DEF TypeOK, Live
<1>2. LiveChildren = {}
  BY DEF LiveChildren, Live
<1>3. Ownership
  BY <1>2 DEF Ownership, FreshWhileAsleep, SlotEmptyWhileMaking, OwnedNotReaped, NoLeakedTunnel
<1> QED BY <1>1, <1>3 DEF IInv

(* The lock follows the program points under it, whatever a step does.     *)
LEMMA TypeInductive == TypeOK /\ [Next]_vars => TypeOK'
<1> SUFFICES ASSUME TypeOK, [Next]_vars PROVE TypeOK'
  OBVIOUS
<1> USE TunnelAssumption DEF TypeOK, Live, net, Goto, ChildTo, Return, ReturnLocked
<1>1. ASSUME NEW c \in Callers, Lock(c) PROVE TypeOK'
  BY <1>1 DEF Lock, LockFree
<1>2. ASSUME NEW c \in Callers, FindNoTunnel(c) PROVE TypeOK'
  BY <1>2 DEF FindNoTunnel, Exited
<1>3. ASSUME NEW c \in Callers, FindTunnel(c) PROVE TypeOK'
  BY <1>3 DEF FindTunnel, Exited
<1>4. ASSUME NEW c \in Callers, Spawn(c) PROVE TypeOK'
  BY <1>4 DEF Spawn
<1>5. ASSUME NEW c \in Callers, Keep(c) PROVE TypeOK'
  BY <1>5 DEF Keep, Exited, kill_on_drop
<1>6. ASSUME NEW c \in Callers, Done(c) PROVE TypeOK'
  BY <1>6 DEF Done
<1>7. ASSUME NEW c \in Callers, Drop(c) PROVE TypeOK'
  BY <1>7 DEF Drop, kill_on_drop
<1>8. ASSUME NEW k \in Children, ChildStep(k) PROVE TypeOK'
  BY <1>8 DEF ChildStep, Connects, ConnectFails, Revives, NoticesBreak, Dies, Freed
<1>9. CASE NetStep
  BY <1>9 DEF NetStep, LinkBreaks, LinkReturns, Calms
<1>10. CASE UNCHANGED vars
  BY <1>10 DEF vars
<1> QED
  BY <1>1, <1>2, <1>3, <1>4, <1>5, <1>6, <1>7, <1>8, <1>9, <1>10 DEF Next, CallStep

(* Only the call with the lock can own a fresh ssh.                        *)
LEMMA OnlyHolderOwns ==
  ASSUME IInv, NEW c \in Callers, lock = c
  PROVE  \A d \in Callers : fresh[d] # NoChild => d = c
  BY DEF IInv, Ownership, FreshWhileAsleep, TypeOK

(* What ssh and the network do revives nobody and reaps nobody who is owned. *)
LEMMA WorldKeepsOwnership ==
  ASSUME IInv, UNCHANGED <<proc, pc, fresh>>,
         \A k \in Children : child'[k] \in Live => child[k] \in Live,
         \A k \in Children : child[k] \in Owned => child'[k] \in Owned
  PROVE  Ownership'
<1> USE DEF IInv, Ownership
<1>1. FreshWhileAsleep'
  BY DEF FreshWhileAsleep
<1>2. SlotEmptyWhileMaking'
  BY DEF SlotEmptyWhileMaking
<1>3. OwnedNotReaped'
  BY DEF OwnedNotReaped, TypeOK
<1>4. NoLeakedTunnel'
  BY DEF NoLeakedTunnel, LiveChildren
<1> QED BY <1>1, <1>2, <1>3, <1>4

-----------------------------------------------------------------------------
LEMMA OwnershipInductive == IInv /\ [Next]_vars => Ownership'
<1> SUFFICES ASSUME IInv, [Next]_vars PROVE Ownership'
  OBVIOUS
<1> USE TunnelAssumption
<1> TypeOK
  BY DEF IInv
<1> USE DEF Goto, ChildTo, Return, ReturnLocked
<1>1. ASSUME NEW c \in Callers, Lock(c) \/ FindTunnel(c) \/ Done(c) PROVE Ownership'
  <2>1. UNCHANGED <<child, proc, fresh>>
    BY <1>1 DEF Lock, FindTunnel, Done
  <2>2. fresh[c] = NoChild /\ pc'[c] \notin {"spawn", "sleep"}
    BY <1>1 DEF Lock, FindTunnel, Done, IInv, Ownership, FreshWhileAsleep, TypeOK
  <2>3. \A d \in Callers \ {c} : pc'[d] = pc[d]
    BY <1>1 DEF Lock, FindTunnel, Done, TypeOK
  <2> QED
    BY <2>1, <2>2, <2>3 DEF IInv, Ownership, FreshWhileAsleep, SlotEmptyWhileMaking,
                            OwnedNotReaped, NoLeakedTunnel, LiveChildren
<1>2. ASSUME NEW c \in Callers, FindNoTunnel(c) PROVE Ownership'
  <2>1. lock = c
    BY <1>2 DEF FindNoTunnel, TypeOK
  <2>2. \A d \in Callers : fresh'[d] = NoChild
    BY <1>2, <2>1, OnlyHolderOwns DEF FindNoTunnel, IInv, Ownership, FreshWhileAsleep, TypeOK
  <2>3. FreshWhileAsleep'
    BY <1>2, <2>2 DEF FindNoTunnel, IInv, Ownership, FreshWhileAsleep, TypeOK
  <2>4. proc' = NoChild
    BY <1>2 DEF FindNoTunnel
  <2>5. LiveChildren = {}
    (* the slot is empty or holds an ssh that exited, and no call owns one *)
    BY <1>2, <2>2 DEF FindNoTunnel, Exited, IInv, Ownership, NoLeakedTunnel, LiveChildren, Live
  <2>6. LiveChildren' = {}
    BY <1>2, <2>5 DEF FindNoTunnel, LiveChildren, Live, TypeOK
  <2> QED
    BY <2>2, <2>3, <2>4, <2>6 DEF Ownership, SlotEmptyWhileMaking, OwnedNotReaped, NoLeakedTunnel
<1>3. ASSUME NEW c \in Callers, Spawn(c) PROVE Ownership'
  <2>1. proc = NoChild /\ proc' = NoChild /\ lock = c
    BY <1>3 DEF Spawn, IInv, Ownership, SlotEmptyWhileMaking, TypeOK
  <2>2. \A d \in Callers : fresh[d] = NoChild
    BY <1>3, <2>1, OnlyHolderOwns DEF Spawn, IInv, Ownership, FreshWhileAsleep, TypeOK
  <2>3. LiveChildren = {}
    BY <2>1, <2>2 DEF IInv, Ownership, NoLeakedTunnel, LiveChildren
  <2>4. CASE UNCHANGED <<child, fresh>> /\ pc' = [pc EXCEPT ![c] = "failed"]
    <3>1. LiveChildren' = {}
      BY <2>3, <2>4 DEF LiveChildren
    <3>2. FreshWhileAsleep'
      BY <2>2, <2>4 DEF IInv, Ownership, FreshWhileAsleep, TypeOK
    <3> QED
      BY <2>1, <2>2, <2>4, <3>1, <3>2
      DEF Ownership, SlotEmptyWhileMaking, OwnedNotReaped, NoLeakedTunnel
  <2>5. ASSUME NEW k \in Children,
               child' = [child EXCEPT ![k] = "connecting"],
               fresh' = [fresh EXCEPT ![c] = k],
               pc' = [pc EXCEPT ![c] = "sleep"]
        PROVE  Ownership'
    <3>1. fresh'[c] = k /\ \A d \in Callers \ {c} : fresh'[d] = NoChild
      BY <2>2, <2>5 DEF TypeOK
    <3>2. LiveChildren' = {k} /\ child'[k] \in Owned
      BY <2>3, <2>5 DEF LiveChildren, Live, Owned, TypeOK
    <3>3. FreshWhileAsleep'
      BY <2>2, <2>5, <3>1 DEF IInv, Ownership, FreshWhileAsleep, TypeOK
    <3> QED
      BY <2>1, <3>1, <3>2, <3>3
      DEF Ownership, SlotEmptyWhileMaking, OwnedNotReaped, NoLeakedTunnel
  <2> QED
    BY <1>3, <2>4, <2>5 DEF Spawn
<1>4. ASSUME NEW c \in Callers, Keep(c) \/ Drop(c) PROVE Ownership'
  <2>1. pc[c] = "sleep" /\ lock = c /\ fresh[c] \in Children /\ proc = NoChild
    BY <1>4 DEF Keep, Drop, IInv, Ownership, FreshWhileAsleep, SlotEmptyWhileMaking, TypeOK
  <2>2. child[fresh[c]] \in Owned
    BY <2>1 DEF IInv, Ownership, OwnedNotReaped
  <2>3. \A d \in Callers : fresh'[d] = NoChild
    BY <1>4, <2>1, OnlyHolderOwns DEF Keep, Drop, TypeOK
  <2>4. \A d \in Callers : pc'[d] \notin {"spawn", "sleep"}
    BY <1>4, <2>1 DEF Keep, Drop, TypeOK
  <2>5. LiveChildren \subseteq {fresh[c]}
    BY <2>1, OnlyHolderOwns DEF IInv, Ownership, NoLeakedTunnel, LiveChildren
  <2>6. CASE proc' = fresh[c] /\ child' = child
    <3>1. LiveChildren' \subseteq {proc'} /\ child'[proc'] \in Owned
      BY <2>2, <2>5, <2>6 DEF LiveChildren
    <3> QED
      BY <2>3, <2>4, <3>1
      DEF Ownership, FreshWhileAsleep, SlotEmptyWhileMaking, OwnedNotReaped, NoLeakedTunnel
  <2>7. CASE proc' = NoChild /\ child'[fresh[c]] \notin Live
             /\ \A j \in Children : j # fresh[c] => child'[j] = child[j]
    <3>1. LiveChildren' = {}
      BY <2>5, <2>7 DEF LiveChildren
    <3> QED
      BY <2>3, <2>4, <2>7, <3>1
      DEF Ownership, FreshWhileAsleep, SlotEmptyWhileMaking, OwnedNotReaped, NoLeakedTunnel
  <2>8. CASE Keep(c)
    BY <2>1, <2>6, <2>7, <2>8 DEF Keep, Exited, kill_on_drop, Live, TypeOK
  <2>9. CASE Drop(c)
    BY <2>1, <2>7, <2>9 DEF Drop, kill_on_drop, Live, TypeOK
  <2> QED BY <1>4, <2>8, <2>9
<1>5. ASSUME NEW k \in Children, ChildStep(k) PROVE Ownership'
  <2>1. UNCHANGED <<proc, pc, fresh>>
    BY <1>5 DEF ChildStep
  <2>2. \A j \in Children : child'[j] \in Live => child[j] \in Live
    BY <1>5 DEF ChildStep, Connects, ConnectFails, Revives, NoticesBreak, Dies, Live, TypeOK
  <2>3. \A j \in Children : child[j] \in Owned => child'[j] \in Owned
    BY <1>5 DEF ChildStep, Connects, ConnectFails, Revives, NoticesBreak, Dies, Live, Owned, TypeOK
  <2> QED BY <2>1, <2>2, <2>3, WorldKeepsOwnership
<1>6. CASE NetStep
  <2>1. UNCHANGED <<proc, pc, fresh>>
    BY <1>6 DEF NetStep
  <2>2. \A j \in Children : child'[j] \in Live => child[j] \in Live
    BY <1>6 DEF NetStep, LinkBreaks, LinkReturns, Calms, Live, TypeOK
  <2>3. \A j \in Children : child[j] \in Owned => child'[j] \in Owned
    BY <1>6 DEF NetStep, LinkBreaks, LinkReturns, Calms, Live, Owned, TypeOK
  <2> QED BY <2>1, <2>2, <2>3, WorldKeepsOwnership
<1>7. CASE UNCHANGED vars
  BY <1>7 DEF vars, IInv, Ownership, FreshWhileAsleep, SlotEmptyWhileMaking,
              OwnedNotReaped, NoLeakedTunnel, LiveChildren
<1> QED
  BY <1>1, <1>2, <1>3, <1>4, <1>5, <1>6, <1>7 DEF Next, CallStep

-----------------------------------------------------------------------------
(* The strengthened invariant holds of every behaviour of ensure_tunnel.   *)
THEOREM Invariance == Spec => []IInv
<1>1. IInv /\ [Next]_vars => IInv'
  BY TypeInductive, OwnershipInductive DEF IInv
<1> QED BY InitIInv, <1>1, PTL DEF Spec

(* The mutex around the Child is held at exactly the program points of     *)
(* ensure_tunnel that use it (host.rs SshTunnelManager).                   *)
THEOREM TypeCorrect == Spec => []TypeOK
<1>1. IInv => TypeOK
  BY DEF IInv
<1> QED BY Invariance, <1>1, PTL

(* Every ssh that lives is known to the manager or to the call that watches *)
(* it, also when the request behind that call is dropped.                  *)
THEOREM NoneLeaked == Spec => []NoLeakedTunnel
<1>1. IInv => NoLeakedTunnel
  BY DEF IInv, Ownership
<1> QED BY Invariance, <1>1, PTL

(* However many requests call ensure_tunnel at once, one ssh at a time      *)
(* competes for the local port.                                            *)
THEOREM AtMostOne == Spec => []OneTunnel
<1>1. IInv => OneTunnel
  <2> SUFFICES ASSUME IInv, NEW j \in LiveChildren, NEW k \in LiveChildren PROVE j = k
    BY DEF OneTunnel
  <2> USE TunnelAssumption DEF IInv, Ownership, NoLeakedTunnel, LiveChildren
  <2>1. CASE \E c \in Callers : pc[c] = "sleep"
    <3>1. PICK c \in Callers : pc[c] = "sleep"
      BY <2>1
    <3>2. proc = NoChild /\ lock = c
      BY <3>1 DEF SlotEmptyWhileMaking, TypeOK
    <3>3. \A d \in Callers : fresh[d] # NoChild => d = c
      BY <3>2, OnlyHolderOwns
    <3> QED BY <3>2, <3>3
  <2>2. CASE ~\E c \in Callers : pc[c] = "sleep"
    BY <2>2 DEF FreshWhileAsleep
  <2> QED BY <2>1, <2>2
<1> QED BY Invariance, <1>1, PTL
=============================================================================
