-------------------------- MODULE OrchestratorProofs --------------------------
(***************************************************************************)
(* Proofs about Orchestrator, for any finite sets of requests and limits:  *)
(* type correctness, which says that the cold permits stay within their    *)
(* limit and come back with the response, and that the scheduler has       *)
(* exactly the requests that are being executed; and that the counters add *)
(* up to the requests whose outcome is known.                              *)
(***************************************************************************)
EXTENDS Orchestrator, FiniteSetTheorems, SequenceTheorems, TLAPS

(* Nobody is in line twice, nor in line and inside.                        *)
GateOK ==
    /\ inside \subseteq Requests
    /\ line \in Seq(Requests)
    /\ \A i \in 1..Len(line) : line[i] \notin inside
    /\ \A i, j \in 1..Len(line) : line[i] = line[j] => i = j

Gated == inside \cup Gate!InLine

IInv == TypeOK /\ GateOK

-----------------------------------------------------------------------------
(* The gate: what its operations do to the requests it has.                *)

(* Removing one element of a sequence keeps the others, in their order.    *)
LEMMA RemovedAt ==
    ASSUME NEW S, NEW s \in Seq(S), NEW i \in 1..Len(s)
    PROVE  /\ Gate!RemoveAt(s, i) \in Seq(S)
           /\ Len(Gate!RemoveAt(s, i)) = Len(s) - 1
           /\ \A j \in 1..Len(s) - 1 :
                Gate!RemoveAt(s, i)[j] = IF j < i THEN s[j] ELSE s[j + 1]
<1> DEFINE a == SubSeq(s, 1, i - 1)
           b == SubSeq(s, i + 1, Len(s))
<1>1. a \in Seq(S) /\ Len(a) = i - 1 /\ \A j \in 1..i-1 : a[j] = s[j]
  BY SubSeqProperties
<1>2. b \in Seq(S) /\ Len(b) = Len(s) - i /\ \A j \in 1..Len(s)-i : b[j] = s[i + j]
  BY SubSeqProperties
<1> HIDE DEF a, b
<1>3. Len(s) \in Nat /\ i \in 1..Len(s)
  BY LenProperties
<1>4. /\ a \o b \in Seq(S) /\ Len(a \o b) = Len(a) + Len(b)
      /\ \A j \in 1..Len(a) + Len(b) : (a \o b)[j] = IF j <= Len(a) THEN a[j] ELSE b[j - Len(a)]
  BY <1>1, <1>2, ConcatProperties
<1>5. ASSUME NEW j \in 1..Len(s) - 1
      PROVE  (a \o b)[j] = IF j < i THEN s[j] ELSE s[j + 1]
  <2>1. (a \o b)[j] = IF j <= i - 1 THEN a[j] ELSE b[j - (i - 1)]
    BY <1>1, <1>2, <1>3, <1>4
  <2>2. CASE j < i
    BY <2>1, <2>2, <1>1, <1>3
  <2>3. CASE ~(j < i)
    <3>1. j - (i - 1) \in 1..Len(s) - i /\ i + (j - (i - 1)) = j + 1
      BY <2>3, <1>3
    <3> QED BY <2>1, <2>3, <3>1, <1>2, <1>3
  <2> QED BY <2>2, <2>3
<1>6. Len(a \o b) = Len(s) - 1
  BY <1>1, <1>2, <1>3, <1>4
<1> QED BY <1>4, <1>5, <1>6 DEF Gate!RemoveAt, a, b

LEMMA Admits ==
    ASSUME GateOK, NEW r \in Requests, Gate!Enter(r) \/ Gate!LineUp(r)
    PROVE  GateOK' /\ Gated' = Gated \cup {r}
<1>1. CASE Gate!Enter(r)
  BY <1>1 DEF GateOK, Gated, Gate!Enter, Gate!Outside, Gate!InLine
<1>2. CASE Gate!LineUp(r)
  <2>1. /\ line' \in Seq(Requests) /\ Len(line') = Len(line) + 1
        /\ line'[Len(line) + 1] = r
        /\ \A i \in 1..Len(line) : line'[i] = line[i]
        /\ Len(line) \in Nat /\ inside' = inside
    BY <1>2, AppendProperties, LenProperties DEF GateOK, Gate!LineUp
  <2>2. r \notin inside /\ \A i \in 1..Len(line) : line[i] # r
    BY <1>2 DEF Gate!LineUp, Gate!Outside, Gate!InLine
  <2>3. GateOK'
    BY <2>1, <2>2 DEF GateOK
  <2>4. Gate!InLine' = Gate!InLine \cup {r}
    BY <2>1 DEF Gate!InLine
  <2> QED BY <2>1, <2>3, <2>4 DEF Gated
<1> QED BY <1>1, <1>2

LEMMA Leaves ==
    ASSUME GateOK, NEW r \in Requests, Gate!LeaveSlot(r)
    PROVE  GateOK' /\ Gated' = Gated \ {r}
<1>1. r \in inside /\ r \notin Gate!InLine
  BY DEF GateOK, Gate!LeaveSlot, Gate!InLine
<1>2. CASE line = <<>>
  BY <1>1, <1>2, EmptySeq DEF GateOK, Gated, Gate!LeaveSlot, Gate!InLine
<1>3. CASE line # <<>>
  <2>1. /\ Head(line) = line[1] /\ 1 \in 1..Len(line) /\ Len(line) \in Nat
        /\ Tail(line) \in Seq(Requests) /\ Len(Tail(line)) = Len(line) - 1
        /\ \A k \in 1..Len(Tail(line)) : Tail(line)[k] = line[k + 1]
    BY <1>3, HeadTailProperties, EmptySeq, LenProperties DEF GateOK
  <2>2. inside' = (inside \ {r}) \cup {line[1]} /\ line' = Tail(line)
    BY <1>3, <2>1 DEF Gate!LeaveSlot
  <2>3. /\ line[1] \in Requests
        /\ \A k \in 1..Len(line') : line'[k] = line[k + 1] /\ k + 1 \in 1..Len(line)
    BY <2>1, <2>2 DEF GateOK
  <2>4. \A i, j \in 1..Len(line') : line'[i] = line'[j] => i = j
    BY <2>1, <2>2, <2>3 DEF GateOK
  <2>5. \A i \in 1..Len(line') : line'[i] \notin inside'
    BY <2>1, <2>2, <2>3 DEF GateOK
  <2>6. GateOK'
    BY <2>1, <2>2, <2>3, <2>4, <2>5 DEF GateOK
  <2>7. Gate!InLine' \cup {line[1]} = Gate!InLine
    <3>1. \A i \in 1..Len(line) : i = 1 \/ (i - 1 \in 1..Len(line') /\ line'[i - 1] = line[i])
      BY <2>1, <2>2
    <3> QED BY <2>1, <2>3, <3>1 DEF Gate!InLine
  <2> QED BY <1>1, <2>2, <2>6, <2>7 DEF Gated
<1> QED BY <1>2, <1>3

LEMMA Quits ==
    ASSUME GateOK, NEW r \in Requests, Gate!QuitLine(r)
    PROVE  GateOK' /\ Gated' = Gated \ {r}
<1>1. PICK i \in 1..Len(line) : line[i] = r /\ line' = Gate!RemoveAt(line, i) /\ inside' = inside
  BY DEF Gate!QuitLine
<1>2. /\ line' \in Seq(Requests) /\ Len(line) \in Nat
      /\ Len(line') = Len(line) - 1
      /\ \A j \in 1..Len(line) - 1 : line'[j] = IF j < i THEN line[j] ELSE line[j + 1]
  BY <1>1, RemovedAt, LenProperties DEF GateOK
<1>3. \A j \in 1..Len(line') : \E k \in 1..Len(line) : k # i /\ line'[j] = line[k]
  BY <1>2
<1>4. \A k \in 1..Len(line) : k # i => \E j \in 1..Len(line') : line'[j] = line[k]
  <2> SUFFICES ASSUME NEW k \in 1..Len(line), k # i
               PROVE  \E j \in 1..Len(line') : line'[j] = line[k]
    OBVIOUS
  <2>1. CASE k < i
    BY <1>2, <2>1
  <2>2. CASE k > i
    <3>1. k - 1 \in 1..Len(line') /\ line'[k - 1] = line[k]
      BY <1>2, <2>2
    <3> QED BY <3>1
  <2> QED BY <2>1, <2>2
<1>5. ASSUME NEW j \in 1..Len(line'), NEW k \in 1..Len(line'), line'[j] = line'[k]
      PROVE  j = k
  <2> DEFINE From(x) == IF x < i THEN x ELSE x + 1
  <2>1. \A x \in 1..Len(line') : From(x) \in 1..Len(line) /\ line'[x] = line[From(x)]
    BY <1>2
  <2>2. From(j) = From(k) => j = k
    BY <1>2
  <2> HIDE DEF From
  <2> QED BY <1>5, <2>1, <2>2 DEF GateOK
<1>6. GateOK'
  <2>1. \A j \in 1..Len(line') : line'[j] \notin inside'
    BY <1>1, <1>3 DEF GateOK
  <2>2. inside' \subseteq Requests
    BY <1>1 DEF GateOK
  <2> QED BY <1>2, <1>5, <2>1, <2>2 DEF GateOK
<1>7. r \notin inside /\ \A k \in 1..Len(line) : line[k] = r => k = i
  BY <1>1 DEF GateOK
<1>8. Gate!InLine' = Gate!InLine \ {r}
  <2>1. ASSUME NEW j \in 1..Len(line') PROVE line'[j] \in Gate!InLine \ {r}
    <3>1. PICK k \in 1..Len(line) : k # i /\ line'[j] = line[k]
      BY <1>3
    <3> QED BY <1>7, <3>1 DEF Gate!InLine
  <2>2. ASSUME NEW k \in 1..Len(line), line[k] # r PROVE line[k] \in Gate!InLine'
    <3>1. PICK j \in 1..Len(line') : line'[j] = line[k]
      BY <1>1, <1>4, <2>2
    <3> QED BY <3>1 DEF Gate!InLine
  <2> QED BY <2>1, <2>2 DEF Gate!InLine
<1>9. r \notin inside /\ inside' = inside
  BY <1>1, <1>7
<1> QED BY <1>6, <1>8, <1>9 DEF Gated
-----------------------------------------------------------------------------
(* The cold permits: giving one back, or holding on to it, keeps the limit. *)
LEMMA PermitsKept ==
    ASSUME TypeOK, NEW r, cold' = cold \/ cold' = cold \ {r}
    PROVE  cold' \subseteq Requests /\ Cardinality(cold') <= ColdMax
<1>1. IsFiniteSet(cold) /\ cold' \subseteq cold
  BY FS_Subset, OrchestratorAssumption DEF TypeOK, Requests
<1>2. Cardinality(cold') <= Cardinality(cold)
  BY <1>1, FS_Subset
<1>3. IsFiniteSet(cold')
  BY <1>1, FS_Subset
<1>4. Cardinality(cold) \in Nat /\ Cardinality(cold') \in Nat /\ ColdMax \in Nat
  BY <1>1, <1>3, FS_CardinalityType, OrchestratorAssumption
<1> QED BY <1>1, <1>2, <1>4 DEF TypeOK

LEMMA PermitTaken ==
    ASSUME TypeOK, NEW r \in Requests, r \notin cold, Cardinality(cold) < ColdMax
    PROVE  Cardinality(cold \cup {r}) <= ColdMax
<1>1. IsFiniteSet(cold)
  BY FS_Subset, OrchestratorAssumption DEF TypeOK, Requests
<1>2. Cardinality(cold \cup {r}) = Cardinality(cold) + 1 /\ Cardinality(cold) \in Nat
  BY <1>1, FS_AddElement, FS_CardinalityType
<1> QED BY <1>2, OrchestratorAssumption

(* The types of what a backend publishes, whatever its gate allows.         *)
BackendOK ==
    /\ lifecycle \in [Backends -> {"Cold", "Warming", "Ready", "Error"}]
    /\ degraded \in BOOLEAN
    /\ boot \in [Backends -> {"none", "owned", "abandoned"}]

LEMMA PublishKeeps ==
    ASSUME BackendOK, NEW b, Publish(b),
           \/ UNCHANGED boot
           \/ \E o \in {"none", "owned", "abandoned"} : boot' = [boot EXCEPT ![b] = o]
    PROVE  BackendOK'
<1>1. lifecycle' \in [Backends -> {"Cold", "Warming", "Ready", "Error"}] /\ degraded' \in BOOLEAN
  BY DEF BackendOK, Publish
<1>2. boot' \in [Backends -> {"none", "owned", "abandoned"}]
  BY DEF BackendOK
<1> QED BY <1>1, <1>2 DEF BackendOK

LEMMA Counted == ASSUME metrics \in [Counters -> Nat], NEW m \in Counters, Count(m)
                 PROVE  metrics' \in [Counters -> Nat]
BY DEF Count

-----------------------------------------------------------------------------
LEMMA InitIInv == Init => IInv
<1> SUFFICES ASSUME Init PROVE IInv
  OBVIOUS
<1>1. inside = {} /\ line = <<>> /\ Len(line) = 0
  BY EmptySeq DEF Init, Gate!Init
<1>2. GateOK
  BY <1>1, EmptySeq DEF GateOK
<1>3. Cardinality({}) = 0
  BY FS_EmptySet
<1>4. Gate!InLine = {}
  BY <1>1 DEF Gate!InLine
<1>5. TypeOK
  <2>1. /\ pc \in [Requests -> {"new"}] /\ lifecycle \in [Backends -> {"Cold"}]
        /\ metrics \in [Counters -> {0}] /\ degraded = FALSE
        /\ cold = {} /\ uncounted = {} /\ boot \in [Backends -> {"none"}]
    BY DEF Init
  <2>2. {r \in Requests : pc[r] = "execute"} = inside \cup Gate!InLine
    BY <1>1, <1>4, <2>1
  <2>3. Cardinality(cold) <= ColdMax
    BY <1>3, <2>1, OrchestratorAssumption
  <2>4. pc \in [Requests -> {"new", "permit", "ensure", "handle", "execute", "again",
                            "retry", "body", "done"}]
    BY <2>1
  <2>5. lifecycle \in [Backends -> {"Cold", "Warming", "Ready", "Error"}]
    BY <2>1
  <2>6. metrics \in [Counters -> Nat] /\ boot \in [Backends -> {"none", "owned", "abandoned"}]
    BY <2>1
  <2>7. \A r \in cold : pc[r] \notin {"new", "permit", "body", "done"}
    BY <2>1
  <2> QED BY <2>1, <2>2, <2>3, <2>4, <2>5, <2>6, <2>7 DEF TypeOK
<1> QED BY <1>2, <1>5 DEF IInv

(* What a step of a request does to the parts of the state, on the way from *)
(* one program point to another.                                           *)
Moves(r, l) ==
    /\ Goto(r, l)
    /\ cold' = cold \/ cold' = cold \ {r}
    /\ l \in {"body", "done"} => r \notin cold'

(* The gate has the requests at "execute", and the permits belong to        *)
(* requests between their admission and their response.                    *)
LEMMA MovesKeep ==
    ASSUME IInv, NEW r \in Requests, NEW l, Moves(r, l),
           l \in {"permit", "ensure", "handle", "execute", "again", "retry", "body", "done"},
           l = "permit" => r \notin cold,
           GateOK',
           Gated' = IF l = "execute" THEN Gated \cup {r} ELSE Gated \ {r},
           BackendOK',
           metrics' \in [Counters -> Nat],
           uncounted' \subseteq Requests
    PROVE  IInv'
<1> TypeOK
  BY DEF IInv
<1>1. pc' = [pc EXCEPT ![r] = l]
  BY DEF Moves, Goto
<1>2. pc' \in [Requests -> {"new", "permit", "ensure", "handle", "execute", "again",
                            "retry", "body", "done"}]
  BY <1>1 DEF TypeOK
<1>3. \A q \in Requests : pc'[q] = IF q = r THEN l ELSE pc[q]
  BY <1>1 DEF TypeOK
<1>4. cold' \subseteq Requests /\ Cardinality(cold') <= ColdMax
  BY PermitsKept DEF Moves
<1>5. \A q \in cold' : pc'[q] \notin {"new", "permit", "body", "done"}
  BY <1>3, <1>4 DEF Moves, TypeOK
<1>6. {q \in Requests : pc'[q] = "execute"} = Gated'
  BY <1>3 DEF TypeOK, Gated
<1> QED BY <1>2, <1>4, <1>5, <1>6 DEF IInv, TypeOK, BackendOK, Gated

(* A request that is not executed is not in the gate, which it leaves alone. *)
LEMMA OutsideGate ==
    ASSUME IInv, NEW r \in Requests, pc[r] # "execute", UNCHANGED <<inside, line>>
    PROVE  GateOK' /\ Gated' = Gated \ {r}
<1>1. r \notin Gated
  BY DEF IInv, TypeOK, Gated
<1>2. GateOK' /\ Gated' = Gated
  BY DEF IInv, GateOK, Gated, Gate!InLine
<1> QED BY <1>1, <1>2

-----------------------------------------------------------------------------
LEMMA StepInductive == ASSUME IInv, NEW r \in Requests, Step(r) PROVE IInv'
<1> TypeOK /\ GateOK
  BY DEF IInv
<1>t. BackendOK /\ metrics \in [Counters -> Nat] /\ uncounted \subseteq Requests
  BY DEF TypeOK, BackendOK
<1>b. UNCHANGED backend => BackendOK'
  BY <1>t DEF BackendOK, backend
<1>c. /\ \A m \in Counters : Count(m) => metrics' \in [Counters -> Nat]
      /\ {"cold_starts", "warm_requests", "queue_full_rejections", "queue_timeouts",
          "wake_failures", "embeddings_degraded", "forwarding_errors"} \subseteq Counters
  BY <1>t, Counted DEF Counters
<1>1. CASE is_cold(r)
  <2>1. r \notin cold
    BY <1>1 DEF is_cold, TypeOK
  <2>2. PICK l \in {"permit", "ensure"} : Moves(r, l)
    BY <1>1 DEF is_cold, Moves
  <2>3. GateOK' /\ Gated' = Gated \ {r}
    BY <1>1, OutsideGate DEF is_cold
  <2> QED BY <1>1, <1>t, <1>b, <2>1, <2>2, <2>3, MovesKeep DEF is_cold
<1>2. CASE acquire_cold_permit(r)
  <2>1. r \notin cold /\ GateOK' /\ Gated' = Gated \ {r}
    BY <1>2, OutsideGate DEF acquire_cold_permit, TypeOK
  <2>2. CASE cold' = cold \cup {r} /\ Cardinality(cold) < ColdMax /\ Goto(r, "ensure")
             /\ UNCHANGED uncounted
    <3>1. \A q \in Requests : pc'[q] = IF q = r THEN "ensure" ELSE pc[q]
      BY <2>2 DEF Goto, TypeOK
    <3>2. pc' \in [Requests -> {"new", "permit", "ensure", "handle", "execute", "again",
                                "retry", "body", "done"}]
      BY <2>2 DEF Goto, TypeOK
    <3>3. cold' \subseteq Requests /\ Cardinality(cold') <= ColdMax
      BY <2>1, <2>2, PermitTaken DEF TypeOK
    <3>4. \A q \in cold' : pc'[q] \notin {"new", "permit", "body", "done"}
      BY <2>2, <3>1 DEF TypeOK
    <3>5. {q \in Requests : pc'[q] = "execute"} = Gated'
      BY <2>1, <3>1 DEF TypeOK, Gated
    <3>6. BackendOK' /\ UNCHANGED <<metrics, uncounted>>
      BY <1>2, <1>b, <2>2 DEF acquire_cold_permit
    <3> QED BY <1>t, <2>1, <3>2, <3>3, <3>4, <3>5, <3>6 DEF IInv, TypeOK, BackendOK, Gated
  <2>3. CASE Respond(r, "done") /\ uncounted' = uncounted \cup {r}
    <3>1. Moves(r, "done")
      BY <2>3 DEF Respond, Moves
    <3> QED BY <1>2, <1>t, <1>b, <2>1, <2>3, <3>1, MovesKeep DEF acquire_cold_permit
  <2> QED BY <1>2, <2>2, <2>3 DEF acquire_cold_permit
<1>3. CASE DecidedReady(r)
  <2>1. PICK l \in {"handle", "done"} : Moves(r, l)
    BY <1>3 DEF DecidedReady, Respond, Moves
  <2>2. GateOK' /\ Gated' = Gated \ {r}
    BY <1>3, OutsideGate DEF DecidedReady
  <2>3. uncounted' \subseteq Requests
    BY <1>3, <1>t DEF DecidedReady
  <2> QED BY <1>3, <1>t, <1>b, <2>1, <2>2, <2>3, MovesKeep DEF DecidedReady
<1>4. CASE DecidedOther(r)
  <2>1. Moves(r, "done")
    BY <1>4 DEF DecidedOther, Respond, Moves
  <2>2. GateOK' /\ Gated' = Gated \ {r}
    BY <1>4, OutsideGate DEF DecidedOther
  <2>3. metrics' \in [Counters -> Nat]
    BY <1>4, <1>c DEF DecidedOther
  <2> QED BY <1>4, <1>t, <1>b, <2>1, <2>2, <2>3, MovesKeep DEF DecidedOther
<1>5. CASE Execute(r)
  <2>1. CASE (Gate!Enter(r) \/ Gate!LineUp(r)) /\ Goto(r, "execute") /\ UNCHANGED <<cold, metrics>>
    <3>1. Moves(r, "execute") /\ GateOK' /\ Gated' = Gated \cup {r}
      BY <2>1, Admits DEF Moves
    <3> QED BY <1>5, <1>t, <1>b, <2>1, <3>1, MovesKeep DEF Execute
  <2>2. CASE Count("queue_full_rejections") /\ Respond(r, "done") /\ UNCHANGED <<inside, line>>
    <3>1. Moves(r, "done") /\ GateOK' /\ Gated' = Gated \ {r}
      BY <1>5, <2>2, OutsideGate DEF Execute, Respond, Moves
    <3>2. metrics' \in [Counters -> Nat]
      BY <2>2, <1>c
    <3> QED BY <1>5, <1>t, <1>b, <3>1, <3>2, MovesKeep DEF Execute
  <2> QED BY <1>5, <2>1, <2>2 DEF Execute
<1>6. CASE QueueTimeout(r)
  <2>1. Moves(r, "done") /\ GateOK' /\ Gated' = Gated \ {r}
    BY <1>6, Quits DEF QueueTimeout, Respond, Moves
  <2>2. metrics' \in [Counters -> Nat]
    BY <1>6, <1>c DEF QueueTimeout
  <2> QED BY <1>6, <1>t, <1>b, <2>1, <2>2, MovesKeep DEF QueueTimeout
<1>7. CASE EndOperation(r)
  <2>1. GateOK' /\ Gated' = Gated \ {r}
    BY <1>7, Leaves DEF EndOperation, Forwarded, EmbeddingsUnsupported, UpstreamUnreachable,
                        UpstreamError, FreeSlot
  <2>2. PICK l \in {"again", "body", "done"} : Moves(r, l)
    BY <1>7 DEF EndOperation, Forwarded, EmbeddingsUnsupported, UpstreamUnreachable,
                UpstreamError, Respond, Moves
  <2>3. metrics' \in [Counters -> Nat]
    BY <1>7, <1>c DEF EndOperation, Forwarded, EmbeddingsUnsupported, UpstreamUnreachable,
                      UpstreamError
  <2>4. BackendOK'
    <3>1. CASE UNCHANGED backend
      BY <1>b, <3>1
    <3>2. CASE UNCHANGED boot /\ \E b \in {EmbeddingsBackend, lifecycle_for(r)} : Publish(b)
      BY <1>t, <3>2, PublishKeeps
    <3> QED
      BY <1>7, <3>1, <3>2 DEF EndOperation, Forwarded, EmbeddingsUnsupported,
                              UpstreamUnreachable, UpstreamError
  <2>5. uncounted' \subseteq Requests
    BY <1>7, <1>t DEF EndOperation
  <2> QED BY <2>1, <2>2, <2>3, <2>4, <2>5, MovesKeep
<1>8. CASE Retry(r)
  <2>1. PICK l \in {"retry", "done"} : Moves(r, l)
    BY <1>8 DEF Retry, Respond, Moves
  <2>2. GateOK' /\ Gated' = Gated \ {r}
    BY <1>8, OutsideGate DEF Retry
  <2>3. metrics' = metrics
    BY <1>8 DEF Retry, CountRetry
  <2> QED BY <1>8, <1>t, <1>b, <2>1, <2>2, <2>3, MovesKeep DEF Retry
<1>9. CASE EndRetry(r) \/ EndBody(r)
  <2>1. r \notin cold \/ EndRetry(r)
    BY <1>9 DEF EndBody, TypeOK
  <2>2. PICK l \in {"body", "done"} : Moves(r, l)
    BY <1>9, <2>1 DEF EndRetry, EndBody, Respond, Moves
  <2>3. GateOK' /\ Gated' = Gated \ {r}
    BY <1>9, OutsideGate DEF EndRetry, EndBody
  <2> QED BY <1>9, <1>t, <1>b, <2>2, <2>3, MovesKeep DEF EndRetry, EndBody
<1>10. CASE Disconnect(r)
  <2>1. GateOK' /\ Gated' = Gated \ {r}
    BY <1>10, Leaves, Quits, OutsideGate DEF Disconnect
  <2>2. Moves(r, "done")
    BY <1>10 DEF Disconnect, Respond, Moves
  <2>3. uncounted' \subseteq Requests
    BY <1>10, <1>t DEF Disconnect
  <2>4. BackendOK'
    BY <1>10, <1>t, <1>b DEF Disconnect, LeaveBackend, BackendOK
  <2> QED BY <1>10, <1>t, <2>1, <2>2, <2>3, <2>4, MovesKeep DEF Disconnect
<1> QED
  BY <1>1, <1>2, <1>3, <1>4, <1>5, <1>6, <1>7, <1>8, <1>9, <1>10 DEF Step

LEMMA BootstrapInductive == ASSUME IInv, NEW b \in Backends, Bootstrap(b) PROVE IInv'
<1> TypeOK
  BY DEF IInv
<1>1. UNCHANGED <<pc, cold, inside, line, metrics, uncounted>>
  BY DEF Bootstrap
<1>2. BackendOK
  BY DEF TypeOK, BackendOK
<1>3. BackendOK'
  <2>1. CASE UNCHANGED <<lifecycle, degraded>> /\ boot' = [boot EXCEPT ![b] = "owned"]
    BY <1>2, <2>1 DEF BackendOK
  <2>2. CASE Publish(b) /\ (UNCHANGED boot \/ boot' = [boot EXCEPT ![b] = "none"])
    BY <1>2, <2>2, PublishKeeps
  <2> QED BY <2>1, <2>2 DEF Bootstrap
<1>4. GateOK' /\ Gate!InLine' = Gate!InLine
  BY <1>1 DEF IInv, GateOK, Gate!InLine
<1> QED BY <1>1, <1>3, <1>4 DEF IInv, TypeOK, BackendOK

-----------------------------------------------------------------------------
(* The strengthened invariant holds of every behaviour of the orchestrator. *)
THEOREM Invariance == Spec => []IInv
<1>1. IInv /\ [Next]_vars => IInv'
  <2> SUFFICES ASSUME IInv, [Next]_vars PROVE IInv'
    OBVIOUS
  <2>1. CASE UNCHANGED vars
    <3>1. GateOK' /\ Gate!InLine' = Gate!InLine
      BY <2>1 DEF vars, IInv, GateOK, Gate!InLine
    <3>2. TypeOK'
      BY <2>1, <3>1, Zenon DEF vars, IInv, TypeOK
    <3> QED BY <3>1, <3>2 DEF IInv
  <2> QED BY <2>1, StepInductive, BootstrapInductive DEF Next
<1> QED BY InitIInv, <1>1, PTL DEF Spec

(* The cold permits in use stay within COLD_START_MAX_WAITING and none is   *)
(* kept past its response, and the scheduler has exactly the requests that  *)
(* are being executed, however forwarding, timeouts, retries and            *)
(* disconnects interleave (orchestrate.rs execute, forward_via_scheduler).  *)
THEOREM TypeCorrect == Spec => []TypeOK
<1>1. IInv => TypeOK
  BY DEF IInv
<1> QED BY Invariance, <1>1, PTL
-----------------------------------------------------------------------------
(* The counters.  A step of a request either leaves alone what became of    *)
(* it, or is the first outcome: then one counter moves, or none does and    *)
(* the request is noted.                                                   *)

Past(l) == l \in {"again", "retry", "body", "done"}

Settles(r) ==
    \E l \in {"permit", "ensure", "handle", "execute", "again", "retry", "body", "done"} :
        /\ Goto(r, l)
        /\ \/ /\ Past(pc[r]) <=> Past(l)
              /\ UNCHANGED <<metrics, uncounted>>
           \/ /\ ~Past(pc[r]) /\ Past(l)
              /\ \E m \in Counters : Count(m)
              /\ UNCHANGED uncounted
           \/ /\ ~Past(pc[r]) /\ Past(l)
              /\ uncounted' = uncounted \cup {r}
              /\ UNCHANGED metrics

LEMMA StepSettles == ASSUME NEW r \in Requests, Step(r) PROVE Settles(r)
<1>1. CASE is_cold(r) \/ acquire_cold_permit(r)
  BY <1>1 DEF is_cold, acquire_cold_permit, Respond, Settles, Past
<1>2. CASE DecidedReady(r)
  BY <1>2 DEF DecidedReady, Respond, Settles, Past
<1>3. CASE DecidedOther(r)
  BY <1>3 DEF DecidedOther, Respond, Settles, Past, Counters
<1>4. CASE Execute(r)
  BY <1>4 DEF Execute, Respond, Settles, Past, Counters
<1>5. CASE QueueTimeout(r)
  BY <1>5 DEF QueueTimeout, Respond, Settles, Past, Counters
<1>6. CASE EndOperation(r)
  BY <1>6 DEF EndOperation, Forwarded, EmbeddingsUnsupported, UpstreamUnreachable,
              UpstreamError, Respond, Settles, Past, Counters
<1>7. CASE Retry(r)
  BY <1>7 DEF Retry, CountRetry, Respond, Settles, Past
<1>8. CASE EndRetry(r) \/ EndBody(r)
  BY <1>8 DEF EndRetry, EndBody, Respond, Settles, Past
<1>9. CASE Disconnect(r)
  BY <1>9 DEF Disconnect, Respond, Settles, Past
<1> QED BY <1>1, <1>2, <1>3, <1>4, <1>5, <1>6, <1>7, <1>8, <1>9 DEF Step

LEMMA OneMore ==
    ASSUME metrics \in [Counters -> Nat], NEW m \in Counters, Count(m)
    PROVE  CounterSum' = CounterSum + 1
<1>1. /\ metrics'[m] = metrics[m] + 1
      /\ \A n \in Counters \ {m} : metrics'[n] = metrics[n]
  BY DEF Count
<1>2. \A n \in Counters : metrics[n] \in Nat
  OBVIOUS
<1> QED BY <1>1, <1>2 DEF CounterSum, Counters

(* The requests that were noted are among those whose outcome is known.     *)
CountInv == OutcomesCounted /\ uncounted \subseteq Outcomes

LEMMA InitCountInv == Init => CountInv
<1> SUFFICES ASSUME Init PROVE CountInv
  OBVIOUS
<1>1. Outcomes = {} /\ uncounted = {}
  BY DEF Init, Outcomes
<1>2. CounterSum = 0
  BY DEF Init, CounterSum, Counters
<1> QED BY <1>1, <1>2, FS_EmptySet DEF CountInv, OutcomesCounted

LEMMA StepCounts == ASSUME TypeOK, CountInv, NEW r \in Requests, Settles(r) PROVE CountInv'
<1>1. PICK l : /\ Goto(r, l)
               /\ \/ (Past(pc[r]) <=> Past(l)) /\ UNCHANGED <<metrics, uncounted>>
                  \/ /\ ~Past(pc[r]) /\ Past(l)
                     /\ \E m \in Counters : Count(m)
                     /\ UNCHANGED uncounted
                  \/ /\ ~Past(pc[r]) /\ Past(l)
                     /\ uncounted' = uncounted \cup {r}
                     /\ UNCHANGED metrics
  BY DEF Settles
<1>2. \A q \in Requests : pc'[q] = IF q = r THEN l ELSE pc[q]
  BY <1>1 DEF Goto, TypeOK
<1>3. IsFiniteSet(Outcomes) /\ IsFiniteSet(uncounted)
  <2>1. Outcomes \subseteq Requests /\ uncounted \subseteq Requests
    BY DEF Outcomes, TypeOK
  <2> QED BY <2>1, FS_Subset, OrchestratorAssumption DEF Requests
<1>4. Cardinality(Outcomes) \in Nat /\ Cardinality(uncounted) \in Nat
  BY <1>3, FS_CardinalityType
<1>5. CounterSum \in Nat
  BY DEF CounterSum, Counters, TypeOK
<1>6. CASE (Past(pc[r]) <=> Past(l)) /\ UNCHANGED <<metrics, uncounted>>
  <2>1. Outcomes' = Outcomes
    BY <1>2, <1>6 DEF Outcomes, Past
  <2>2. CounterSum' = CounterSum
    BY <1>6 DEF CounterSum
  <2> QED BY <1>6, <2>1, <2>2 DEF CountInv, OutcomesCounted
<1>7. CASE ~Past(pc[r]) /\ Past(l)
  <2>1. Outcomes' = Outcomes \cup {r} /\ r \notin Outcomes
    BY <1>2, <1>7 DEF Outcomes, Past
  <2>2. Cardinality(Outcomes') = Cardinality(Outcomes) + 1
    BY <1>3, <2>1, FS_AddElement
  <2>3. CASE (\E m \in Counters : Count(m)) /\ UNCHANGED uncounted
    <3>1. CounterSum' = CounterSum + 1
      BY <2>3, OneMore DEF TypeOK
    <3> QED BY <1>4, <1>5, <2>1, <2>2, <2>3, <3>1 DEF CountInv, OutcomesCounted
  <2>4. CASE uncounted' = uncounted \cup {r} /\ UNCHANGED metrics
    <3>1. Cardinality(uncounted') = Cardinality(uncounted) + 1
      BY <1>3, <2>1, <2>4, FS_AddElement DEF CountInv
    <3>2. CounterSum' = CounterSum
      BY <2>4 DEF CounterSum
    <3> QED BY <1>4, <1>5, <2>1, <2>2, <2>4, <3>1, <3>2 DEF CountInv, OutcomesCounted
  <2> QED BY <1>1, <1>7, <2>3, <2>4
<1> QED BY <1>1, <1>6, <1>7

(* However requests are refused, forwarded, timed out, retried or dropped,  *)
(* the counters add up to the requests whose outcome is known, less those   *)
(* that ended without one: none is counted twice, by its retry or its body, *)
(* and none is missed (orchestrate.rs forward_via_scheduler, metrics.rs).   *)
THEOREM Outcome == Spec => []OutcomesCounted
<1>1. TypeOK /\ CountInv /\ [Next]_vars => CountInv'
  <2> SUFFICES ASSUME TypeOK, CountInv, [Next]_vars PROVE CountInv'
    OBVIOUS
  <2>1. CASE \E r \in Requests : Step(r)
    BY <2>1, StepSettles, StepCounts
  <2>2. CASE UNCHANGED <<pc, metrics, uncounted>>
    BY <2>2 DEF CountInv, OutcomesCounted, CounterSum, Outcomes
  <2>3. CASE \E b \in Backends : Bootstrap(b)
    BY <2>2, <2>3 DEF Bootstrap
  <2> QED BY <2>1, <2>2, <2>3 DEF Next, vars
<1>2. CountInv => OutcomesCounted
  BY DEF CountInv
<1> QED BY InitCountInv, <1>1, <1>2, TypeCorrect, PTL DEF Spec
=============================================================================
