---------------------------- MODULE HostLeaseProofs ----------------------------
(***************************************************************************)
(* Proofs about HostLease, for any number of helper processes and any ttl: *)
(* type correctness, and that a lease that was granted lasts as its holder *)
(* was told.                                                               *)
(***************************************************************************)
EXTENDS HostLease, TLAPS

Holds(h) == since[h] # NotItsOwn

(* The process that made the unit there is has not ended, and time is      *)
(* counted from the start of its unit.                                     *)
SinceOK ==
    \A h \in Helpers :
        Holds(h) => since[h] \in Nat /\ pc[h] \in {"verify", "acquired", "renewed", "failed"}

(* Until the unit is verified it may have died at birth; afterwards the     *)
(* time left and the time gone make up the ttl.                            *)
LeaseCounts ==
    \A h \in Helpers :
        Holds(h) =>
            /\ pc[h] = "verify" => left = 0 \/ left + since[h] = ttl_secs[h]
            /\ pc[h] \in {"acquired", "renewed"} => left + since[h] = ttl_secs[h]

IInv == TypeOK /\ SinceOK /\ LeaseCounts

-----------------------------------------------------------------------------
(* Whatever text it is given, lease acquire asks for a ttl within the       *)
(* limits (helper.rs lease_acquire, bin/helper.rs parse_ttl_arg).           *)
LEMMA TtlClamped ==
    ASSUME NEW text \in Texts
    PROVE  clamp(parse_ttl_arg(text)) \in MinTtl..MaxTtl
<1>1. parse_ttl_arg(text) \in Nat
  BY LeaseAssumption DEF parse_ttl_arg
<1> QED
  BY <1>1, LeaseAssumption DEF clamp

LEMMA InitIInv == Init => IInv
<1> SUFFICES ASSUME Init PROVE IInv
  OBVIOUS
<1>1. TypeOK
  BY LeaseAssumption DEF Init, TypeOK, Nobodys, NotItsOwn
<1>2. SinceOK /\ LeaseCounts
  BY DEF Init, SinceOK, LeaseCounts, Holds, Nobodys, NotItsOwn
<1> QED
  BY <1>1, <1>2 DEF IInv

(* A step after which no unit has a process that made it says nothing of    *)
(* any lease.                                                               *)
LEMMA NobodyHolds ==
    ASSUME since' = Nobodys
    PROVE  SinceOK' /\ LeaseCounts'
  BY DEF SinceOK, LeaseCounts, Holds, Nobodys, NotItsOwn

(* A step of a process that made no unit, and leaves the unit and the       *)
(* others alone, keeps what is known of the leases.                         *)
LEMMA BystanderSteps ==
    ASSUME IInv, NEW h \in Helpers, ~Holds(h), NEW l,
           pc' = [pc EXCEPT ![h] = l],
           UNCHANGED <<left, since>>,
           \A g \in Helpers \ {h} : ttl_secs'[g] = ttl_secs[g]
    PROVE  SinceOK' /\ LeaseCounts'
<1>1. ASSUME NEW g \in Helpers, Holds(g)'
      PROVE  Holds(g) /\ pc'[g] = pc[g] /\ ttl_secs'[g] = ttl_secs[g]
  BY <1>1 DEF Holds, IInv, TypeOK
<1> QED
  BY <1>1 DEF IInv, SinceOK, LeaseCounts, Holds

-----------------------------------------------------------------------------
LEMMA TypeInductive == TypeOK /\ SinceOK /\ [Next]_vars => TypeOK'
<1> SUFFICES ASSUME TypeOK, SinceOK, [Next]_vars PROVE TypeOK'
  OBVIOUS
<1> USE LeaseAssumption
<1>0. Nobodys \in [Helpers -> Int]
  BY DEF Nobodys, NotItsOwn
<1>1. CASE UNCHANGED vars
  BY <1>1 DEF vars, TypeOK
<1>2. ASSUME NEW h \in Helpers, lease_acquire(h) PROVE TypeOK'
  <2>1. PICK text \in Texts :
          ttl_secs' = [ttl_secs EXCEPT ![h] = clamp(parse_ttl_arg(text))]
    BY <1>2 DEF lease_acquire
  <2>2. ttl_secs' \in [Helpers -> MinTtl..MaxTtl]
    BY <2>1, TtlClamped DEF TypeOK
  <2> QED
    BY <1>2, <2>2 DEF lease_acquire, Goto, TypeOK
<1>3. ASSUME NEW h \in Helpers, is_active(h) PROVE TypeOK'
  <2>1. PICK active \in {left > 0, FALSE} : was_active' = [was_active EXCEPT ![h] = active]
    BY <1>3, Zenon DEF is_active
  <2>2. (left > 0) \in BOOLEAN
    BY <1>3 DEF TypeOK
  <2>3. active \in BOOLEAN
    BY <2>1, <2>2, Zenon
  <2>4. was_active' \in [Helpers -> BOOLEAN]
    BY <2>1, <2>3, Zenon DEF TypeOK
  <2> QED
    BY <1>3, <2>4 DEF is_active, Goto, TypeOK
<1>4. ASSUME NEW h \in Helpers, replace_transient_unit(h) \/ ReplaceFails(h) PROVE TypeOK'
  <2>1. left' \in 0..MaxTtl
    BY <1>4 DEF replace_transient_unit, ReplaceFails, TypeOK
  <2>2. since' \in [Helpers -> Int]
    BY <1>0, <1>4 DEF replace_transient_unit, ReplaceFails, TypeOK
  <2> QED
    BY <1>4, <2>1, <2>2 DEF replace_transient_unit, ReplaceFails, Goto, Answers, TypeOK
<1>5. ASSUME NEW h \in Helpers, Verify(h) \/ VerifyFails(h) PROVE TypeOK'
  BY <1>5 DEF Verify, VerifyFails, Goto, Answers, TypeOK
<1>6. ASSUME NEW h \in Helpers, lease_release(h) \/ ReleaseFails(h) \/ lease_inspect(h)
      PROVE TypeOK'
  BY <1>0, <1>6 DEF lease_release, ReleaseFails, lease_inspect, Goto, Answers, TypeOK
<1>7. ASSUME NEW h \in Helpers, Exit(h) PROVE TypeOK'
  BY <1>7 DEF Exit, Goto, NotItsOwn, TypeOK
<1>8. CASE Tick
  <2>1. since' \in [Helpers -> Int]
    BY <1>8 DEF Tick, NotItsOwn, TypeOK
  <2> QED
    BY <1>8, <2>1 DEF Tick, TypeOK
<1>9. CASE UnitDies \/ Reboot
  <2>1. left' = 0 /\ since' \in [Helpers -> Int]
    BY <1>0, <1>9 DEF UnitDies, Reboot
  <2>2. CASE UnitDies
    BY <2>1, <2>2 DEF UnitDies, TypeOK
  <2>3. CASE Reboot
    <3>1. Default \in MinTtl..MaxTtl
      OBVIOUS
    <3>2. /\ pc' \in [Helpers -> {"idle", "is_active", "replace", "verify"} \cup Answers]
          /\ ttl_secs' \in [Helpers -> MinTtl..MaxTtl]
          /\ was_active' \in [Helpers -> BOOLEAN]
      BY <2>3, <3>1, Zenon DEF Reboot
    <3>3. left' \in 0..MaxTtl
      BY <2>1
    <3> QED
      BY <2>1, <3>2, <3>3 DEF TypeOK
  <2> QED
    BY <1>9, <2>2, <2>3
<1> QED
  BY <1>1, <1>2, <1>3, <1>4, <1>5, <1>6, <1>7, <1>8, <1>9 DEF Next, Step, Acquire

LEMMA LeaseInductive == IInv /\ [Next]_vars => SinceOK' /\ LeaseCounts'
<1> SUFFICES ASSUME IInv, [Next]_vars PROVE SinceOK' /\ LeaseCounts'
  OBVIOUS
<1> USE LeaseAssumption
<1>0. ASSUME NEW h \in Helpers, pc[h] \in {"idle", "is_active", "replace"} PROVE ~Holds(h)
  BY <1>0 DEF IInv, SinceOK
<1>1. CASE UNCHANGED vars
  BY <1>1 DEF vars, IInv, SinceOK, LeaseCounts, Holds
<1>2. ASSUME NEW h \in Helpers, lease_acquire(h) PROVE SinceOK' /\ LeaseCounts'
  <2>1. \A g \in Helpers \ {h} : ttl_secs'[g] = ttl_secs[g]
    BY <1>2 DEF lease_acquire, IInv, TypeOK
  <2> QED
    BY <1>0, <1>2, <2>1, BystanderSteps DEF lease_acquire, Goto
<1>3. ASSUME NEW h \in Helpers, is_active(h) \/ ReleaseFails(h) \/ lease_inspect(h)
      PROVE  SinceOK' /\ LeaseCounts'
  <2>1. \A g \in Helpers \ {h} : ttl_secs'[g] = ttl_secs[g]
    BY <1>3 DEF is_active, ReleaseFails, lease_inspect
  <2> QED
    BY <1>0, <1>3, <2>1, BystanderSteps DEF is_active, ReleaseFails, lease_inspect, Goto
<1>4. ASSUME NEW h \in Helpers, replace_transient_unit(h) PROVE SinceOK' /\ LeaseCounts'
  <2>1. since'[h] = 0 /\ \A g \in Helpers \ {h} : since'[g] = NotItsOwn
    BY <1>4 DEF replace_transient_unit, Nobodys
  <2>2. pc'[h] = "verify" /\ ttl_secs'[h] = ttl_secs[h] /\ ttl_secs[h] \in Int
    BY <1>4 DEF replace_transient_unit, Goto, IInv, TypeOK
  <2>3. left' = 0 \/ left' + since'[h] = ttl_secs'[h]
    BY <1>4, <2>1, <2>2 DEF replace_transient_unit
  <2> QED
    BY <2>1, <2>2, <2>3 DEF SinceOK, LeaseCounts, Holds
<1>5. ASSUME NEW h \in Helpers, ReplaceFails(h) PROVE SinceOK' /\ LeaseCounts'
  <2>1. CASE UNCHANGED <<left, since>>
    BY <1>0, <1>5, <2>1, BystanderSteps DEF ReplaceFails, Goto
  <2>2. CASE since' = Nobodys
    BY <2>2, NobodyHolds
  <2> QED
    BY <1>5, <2>1, <2>2 DEF ReplaceFails
<1>6. ASSUME NEW h \in Helpers, Verify(h) \/ VerifyFails(h) PROVE SinceOK' /\ LeaseCounts'
  <2>1. pc'[h] \in {"acquired", "renewed", "failed"}
        /\ \A g \in Helpers \ {h} : pc'[g] = pc[g]
    BY <1>6 DEF Verify, VerifyFails, Goto, IInv, TypeOK
  <2>2. pc[h] = "verify" /\ (pc'[h] # "failed" => left > 0)
        /\ UNCHANGED <<left, ttl_secs, since>>
    BY <1>6, <2>1 DEF Verify, VerifyFails, is_verified_active, Goto, IInv, TypeOK
  <2> QED
    BY <2>1, <2>2 DEF IInv, TypeOK, SinceOK, LeaseCounts, Holds
<1>7. ASSUME NEW h \in Helpers, lease_release(h) PROVE SinceOK' /\ LeaseCounts'
  BY <1>7, NobodyHolds DEF lease_release
<1>8. ASSUME NEW h \in Helpers, Exit(h) PROVE SinceOK' /\ LeaseCounts'
  <2>1. \A g \in Helpers \ {h} : pc'[g] = pc[g] /\ ttl_secs'[g] = ttl_secs[g] /\ since'[g] = since[g]
    BY <1>8 DEF Exit, Goto, IInv, TypeOK
  <2>2. since'[h] = NotItsOwn /\ left' = left
    BY <1>8 DEF Exit, IInv, TypeOK
  <2> QED
    BY <2>1, <2>2 DEF IInv, SinceOK, LeaseCounts, Holds
<1>9. CASE Tick
  <2>1. ASSUME NEW h \in Helpers, Holds(h)'
        PROVE  Holds(h) /\ since'[h] = since[h] + 1 /\ since[h] \in Nat
    BY <1>9, <2>1 DEF Tick, Holds, IInv, TypeOK, SinceOK
  <2>2. left \in Int /\ left > 0 /\ left' = left - 1 /\ UNCHANGED <<pc, ttl_secs>>
    BY <1>9 DEF Tick, IInv, TypeOK
  <2> QED
    BY <2>1, <2>2 DEF IInv, TypeOK, SinceOK, LeaseCounts
<1>10. CASE UnitDies \/ Reboot
  BY <1>10, NobodyHolds DEF UnitDies, Reboot
<1> QED
  BY <1>1, <1>2, <1>3, <1>4, <1>5, <1>6, <1>7, <1>8, <1>9, <1>10 DEF Next, Step, Acquire

THEOREM Invariance == Spec => []IInv
<1>1. IInv /\ [Next]_vars => IInv'
  BY TypeInductive, LeaseInductive DEF IInv
<1> QED
  BY InitIInv, <1>1, PTL DEF Spec

(* The time left, the ttl of every process and the clocks stay within their *)
(* ranges: the clamp is never passed (helper.rs lease_acquire).             *)
THEOREM TypeCorrect == Spec => []TypeOK
<1>1. IInv => TypeOK
  BY DEF IInv
<1> QED
  BY <1>1, Invariance, PTL

(* A holder that was told it has the lease has all of it, whatever the      *)
(* other processes did before and after it, as long as the unit is its own  *)
(* (helper.rs lease_acquire).                                               *)
THEOREM Granted == Spec => []GrantLasts
<1>1. IInv => GrantLasts
  BY DEF IInv, LeaseCounts, GrantLasts, Holds
<1> QED
  BY <1>1, Invariance, PTL
=============================================================================
