------------------------------ MODULE FairGate ------------------------------
(***************************************************************************)
(* What the warm execution scheduler (src/scheduler.rs) promises: at most  *)
(* Slots requests are inside, a request lines up only when all slots are   *)
(* taken, and a slot that is left goes to the request longest in line.  A  *)
(* request may quit the line.                                              *)
(***************************************************************************)
EXTENDS Integers, Sequences, FiniteSets, SequencesExt

CONSTANTS Requests, Slots

VARIABLES inside, line

Init == inside = {} /\ line = <<>>

Full == Cardinality(inside) >= Slots
InLine == {line[i] : i \in 1..Len(line)}
Outside(r) == r \notin inside /\ r \notin InLine

Enter(r) ==
    /\ Outside(r)
    /\ ~Full /\ line = <<>>
    /\ inside' = inside \cup {r}
    /\ UNCHANGED line

LineUp(r) ==
    /\ Outside(r)
    /\ Full
    /\ line' = Append(line, r)
    /\ UNCHANGED inside

LeaveSlot(r) ==
    /\ r \in inside
    /\ \/ line = <<>> /\ inside' = inside \ {r} /\ UNCHANGED line
       \/ /\ line # <<>>
          /\ inside' = (inside \ {r}) \cup {Head(line)}
          /\ line' = Tail(line)

QuitLine(r) ==
    \E i \in 1..Len(line) : /\ line[i] = r
                            /\ line' = RemoveAt(line, i)
                            /\ UNCHANGED inside

Next == \E r \in Requests : Enter(r) \/ LineUp(r) \/ LeaveSlot(r) \/ QuitLine(r)

Spec == /\ Init /\ [][Next]_<<inside, line>>
        /\ \A r \in Requests : WF_<<inside, line>>(LeaveSlot(r))
=============================================================================
