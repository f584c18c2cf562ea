------------------------------- MODULE HostLease -------------------------------
(***************************************************************************)
(* The lease that keeps the host awake (src/helper.rs, src/bin/helper.rs): *)
(* helper processes acquire, renew, release and inspect one transient      *)
(* systemd unit, systemd-inhibit around a sleep of ttl seconds.  There is  *)
(* no lock: each process runs one systemctl or systemd-run command after   *)
(* another, and the others', the end of the sleep, the death of the unit   *)
(* and a reboot come between any two.                                      *)
(*                                                                         *)
(* The unit is the time its sleep has left, 0 when no unit is loaded       *)
(* (--collect unloads one that ended or failed).                           *)
(***************************************************************************)
EXTENDS Integers

CONSTANTS
    Helpers,        \* helper processes (a slot is reused when its process ends)
    Texts,          \* the values of --ttl
    NotANumber,     \* one that is no number of seconds, or none at all
    MinTtl,         \* 60 seconds
    MaxTtl,         \* 86400 seconds
    Default,        \* 900 seconds
    Huge            \* a sleep of which nobody sees the end

ASSUME LeaseAssumption ==
    /\ Texts \ {NotANumber} \subseteq Nat
    /\ MinTtl \in Nat \ {0} /\ MaxTtl \in Nat /\ Default \in MinTtl..MaxTtl
    /\ Huge \in Nat /\ MaxTtl < Huge

VARIABLES
    left,       \* the time left to the inhibit unit
    pc,         \* where each helper process is
    ttl_secs,   \* the ttl of each lease acquire
    was_active, \* its local variable
    since       \* history: the time since each process made the unit there is, or NotItsOwn

vars == <<left, pc, ttl_secs, was_active, since>>

NotItsOwn == -1
Nobodys == [h \in Helpers |-> NotItsOwn]

Init ==
    /\ left = 0
    /\ pc = [h \in Helpers |-> "idle"]
    /\ ttl_secs = [h \in Helpers |-> Default]
    /\ was_active = [h \in Helpers |-> FALSE]
    /\ since = Nobodys

Goto(h, l) == pc' = [pc EXCEPT ![h] = l]

-----------------------------------------------------------------------------
(* lease acquire *)

parse_ttl_arg(text) == IF text = NotANumber THEN Default ELSE text

NoLess(ttl) == IF ttl < MinTtl THEN MinTtl ELSE ttl
NoMore(ttl) == IF ttl > MaxTtl THEN MaxTtl ELSE ttl
clamp(ttl) == IF ttl < MinTtl THEN MinTtl ELSE IF ttl > MaxTtl THEN MaxTtl ELSE ttl

lease_acquire(h) ==
    /\ pc[h] = "idle"
    /\ \E text \in Texts : ttl_secs' = [ttl_secs EXCEPT ![h] = clamp(parse_ttl_arg(text))]
    /\ Goto(h, "is_active")
    /\ UNCHANGED <<left, was_active, since>>

(* An is-active that cannot be run counts as inactive.                     *)
is_active(h) ==
    /\ pc[h] = "is_active"
    /\ \E active \in {left > 0, FALSE} : was_active' = [was_active EXCEPT ![h] = active]
    /\ Goto(h, "replace")
    /\ UNCHANGED <<left, ttl_secs, since>>

(* systemd-run --replace stops the old unit and starts the new one.  The    *)
(* new unit may die at once, which systemd-run does not notice; and the     *)
(* command may fail, before or after it has stopped the old unit.           *)
replace_transient_unit(h) ==
    /\ pc[h] = "replace"
    /\ left' \in {ttl_secs[h], 0}
    /\ since' = [Nobodys EXCEPT ![h] = 0]
    /\ Goto(h, "verify")
    /\ UNCHANGED <<ttl_secs, was_active>>

ReplaceFails(h) ==
    /\ pc[h] = "replace"
    /\ \/ UNCHANGED <<left, since>>
       \/ left' = 0 /\ since' = Nobodys
    /\ Goto(h, "failed")
    /\ UNCHANGED <<ttl_secs, was_active>>

Unverified == TRUE
is_verified_active == left > 0

Verify(h) ==
    /\ pc[h] = "verify"
    /\ is_verified_active
    /\ Goto(h, IF was_active[h] THEN "renewed" ELSE "acquired")
    /\ UNCHANGED <<left, ttl_secs, was_active, since>>

(* show_unit may fail as well, and then the unit counts as inactive.       *)
VerifyFails(h) ==
    /\ pc[h] = "verify"
    /\ Goto(h, "failed")
    /\ UNCHANGED <<left, ttl_secs, was_active, since>>

-----------------------------------------------------------------------------
(* lease release, lease inspect *)

lease_release(h) ==
    /\ pc[h] = "idle"
    /\ left > 0
    /\ left' = 0
    /\ since' = Nobodys
    /\ Goto(h, "released")
    /\ UNCHANGED <<ttl_secs, was_active>>

(* A unit that is not loaded cannot be stopped.                            *)
ReleaseFails(h) ==
    /\ pc[h] = "idle"
    /\ Goto(h, "failed")
    /\ UNCHANGED <<left, ttl_secs, was_active, since>>

lease_inspect(h) ==
    /\ pc[h] = "idle"
    /\ Goto(h, IF left > 0 THEN "active" ELSE "inactive")
    /\ UNCHANGED <<left, ttl_secs, was_active, since>>

(* The process prints its answer and ends.                                 *)
Answers == {"acquired", "renewed", "released", "failed", "active", "inactive"}

Exit(h) ==
    /\ pc[h] \in Answers
    /\ Goto(h, "idle")
    /\ ttl_secs' = [ttl_secs EXCEPT ![h] = Default]
    /\ was_active' = [was_active EXCEPT ![h] = FALSE]
    /\ since' = [since EXCEPT ![h] = NotItsOwn]
    /\ UNCHANGED left

-----------------------------------------------------------------------------
(* systemd and the host *)

Tick ==
    /\ left \in 1..(Huge - 1)
    /\ left' = left - 1
    /\ since' = [h \in Helpers |-> IF since[h] = NotItsOwn THEN NotItsOwn ELSE since[h] + 1]
    /\ UNCHANGED <<pc, ttl_secs, was_active>>

UnitDies ==
    /\ left > 0
    /\ left' = 0
    /\ since' = Nobodys
    /\ UNCHANGED <<pc, ttl_secs, was_active>>

Reboot ==
    /\ left' = 0
    /\ pc' = [h \in Helpers |-> "idle"]
    /\ ttl_secs' = [h \in Helpers |-> Default]
    /\ was_active' = [h \in Helpers |-> FALSE]
    /\ since' = Nobodys

-----------------------------------------------------------------------------
Acquire(h) == lease_acquire(h) \/ is_active(h) \/ replace_transient_unit(h) \/ ReplaceFails(h)
              \/ Verify(h) \/ VerifyFails(h)

Step(h) == Acquire(h) \/ lease_release(h) \/ ReleaseFails(h) \/ lease_inspect(h) \/ Exit(h)

Next == (\E h \in Helpers : Step(h)) \/ Tick \/ UnitDies \/ Reboot

Spec == Init /\ [][Next]_vars

(* Time passes; nobody need release a lease, and a holder may be gone.     *)
FairSpec == Spec /\ WF_vars(Tick)

-----------------------------------------------------------------------------
(* Properties *)

TypeOK ==
    /\ left \in 0..MaxTtl
    /\ pc \in [Helpers -> {"idle", "is_active", "replace", "verify"} \cup Answers]
    /\ ttl_secs \in [Helpers -> MinTtl..MaxTtl]
    /\ was_active \in [Helpers -> BOOLEAN]
    /\ since \in [Helpers -> Int]

(* A holder told that it has the lease is kept awake for exactly the         *)
(* ttl_secs it was told, counted from the start of the unit, and never for   *)
(* no time at all: unless a unit of its own dies or is replaced, nothing     *)
(* that ran meanwhile took time away, and a unit that died at birth is not   *)
(* taken for a lease (helper.rs lease_acquire).                              *)
GrantLasts ==
    \A h \in Helpers :
        pc[h] \in {"acquired", "renewed"} /\ since[h] # NotItsOwn => left + since[h] = ttl_secs[h]

(* However long a ttl was asked for, and though its holder is gone without   *)
(* a release, the lease ends once nobody makes a new one, and the host can   *)
(* sleep (helper.rs lease_acquire: the clamp).                               *)
Replaced == \E h \in Helpers : pc[h] = "replace" /\ pc'[h] = "verify"
LeaseEnds == <>[][~Replaced]_vars => <>[](left = 0)
=============================================================================
