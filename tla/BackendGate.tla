------------------------------ MODULE BackendGate ------------------------------
(***************************************************************************)
(* What a lifecycle manager (src/lifecycle.rs) promises the callers that   *)
(* share it.  One of them at a time owns the bootstrap of the backend; the *)
(* owner reports what it observes, may hand the bootstrap over to a boot   *)
(* task, and ends it with a result, unless its request is dropped.         *)
(*                                                                         *)
(* Callers that have reached the backend edit the status without asking    *)
(* anyone, from copies that may be old: one marks it Warming, the other    *)
(* only degrades the embeddings, but puts back an old lifecycle with it.   *)
(* Nobody ever makes a backend Cold again.                                 *)
(***************************************************************************)
CONSTANTS Procs,        \* who may own a bootstrap
          Droppable,    \* the owners that may vanish
          Embeds        \* whether the backend takes embeddings requests

VARIABLES lifecycle, embeddings,    \* the published status
          active,                   \* a bootstrap was begun and not ended
          owner                     \* the process that is to end it

vars == <<lifecycle, embeddings, active, owner>>
status == <<lifecycle, embeddings>>
boot == <<active, owner>>

Init ==
    /\ lifecycle = "Cold" /\ embeddings = "Ready"
    /\ active = FALSE /\ owner = {}

Seen == {"Warming", "Ready", "Error"}
Capabilities == IF Embeds THEN {"Ready", "Degraded"} ELSE {"Ready"}

Publish(lifecycles, capabilities) ==
    lifecycle' \in lifecycles /\ embeddings' \in capabilities

Begin(p) ==
    /\ ~active
    /\ active' = TRUE /\ owner' = {p}
    /\ UNCHANGED status

(* A backend that is observed ready has its embeddings back.               *)
Report(p) ==
    /\ owner = {p}
    /\ Publish({"Warming"}, Capabilities) \/ Publish({"Ready"}, {"Ready"})
    /\ UNCHANGED boot

HandOver(p, q) ==
    /\ owner = {p}
    /\ owner' = {q}
    /\ Publish({"Warming"}, Capabilities)
    /\ UNCHANGED active

Commit(p) ==
    /\ owner = {p}
    /\ active' = FALSE /\ owner' = {}
    /\ Publish(Seen, Capabilities)

Abandon(p) ==
    /\ owner = {p}
    /\ owner' = {}
    /\ UNCHANGED <<status, active>>

MarkWarming ==
    /\ lifecycle # "Cold"
    /\ Publish({"Warming"}, Capabilities)
    /\ UNCHANGED boot

Degrade ==
    /\ Embeds
    /\ lifecycle # "Cold"
    /\ Publish(Seen, {"Degraded"})
    /\ UNCHANGED boot

Next ==
    \/ \E p \in Procs : Begin(p) \/ Report(p) \/ Commit(p)
    \/ \E p, q \in Procs : HandOver(p, q)
    \/ \E p \in Droppable : Abandon(p)
    \/ MarkWarming \/ Degrade

Spec == Init /\ [][Next]_vars
=============================================================================
