------------------------- MODULE WarmSchedulerProofs -------------------------
(***************************************************************************)
(* Proofs about the warm execution scheduler, for every finite set of      *)
(* requests and all limits.  The wait queue is first shown to hold exactly *)
(* waits no permit was handed to, each once (LineOK); from there the       *)
(* permits and the tickets are counted, and every step is mapped to a step *)
(* of FairGate.                                                            *)
(***************************************************************************)
EXTENDS WarmScheduler, FiniteSetTheorems, SequenceTheorems, TLAPS

(* Who is in the semaphore's queue, and who was handed a permit.           *)
LineOK ==
    /\ \A i \in 1..Len(waiters) : /\ pc[waiters[i]] \in {"wait", "leave"}
                                  /\ waiters[i] \notin assigned
    /\ \A i, j \in 1..Len(waiters) : waiters[i] = waiters[j] => i = j
    /\ \A r \in assigned : pc[r] \in {"wait", "leave"}

Shape ==
    /\ permits \in Int
    /\ waiters \in Seq(Requests)
    /\ assigned \subseteq Requests
    /\ queued \in 0..MaxQueued
    /\ pc \in [Requests -> {"idle", "reserve", "acquire", "wait", "got", "leave", "ticket", "run"}]

(* Removing one element of a sequence keeps the others, in their order.    *)
LEMMA RemoveAtKeeps ==
    ASSUME NEW S, NEW s \in Seq(S), NEW i \in 1..Len(s)
    PROVE  /\ RemoveAt(s, i) \in Seq(S)
           /\ Len(RemoveAt(s, i)) = Len(s) - 1
           /\ \A j \in 1..Len(s) - 1 :
                RemoveAt(s, i)[j] = IF j < i THEN s[j] ELSE s[j + 1]
<1> DEFINE a == SubSeq(s, 1, i - 1)
           b == SubSeq(s, i + 1, Len(s))
<1>1. /\ a \in Seq(S) /\ Len(a) = i - 1
      /\ \A j \in 1..i-1 : a[j] = s[j]
  BY SubSeqProperties
<1>2. /\ b \in Seq(S) /\ Len(b) = Len(s) - i
      /\ \A j \in 1..Len(s)-i : b[j] = s[i + j]
  BY SubSeqProperties
<1> HIDE DEF a, b
<1>3. Len(s) \in Nat /\ i \in 1..Len(s)  BY LenProperties
<1>4. /\ a \o b \in Seq(S) /\ Len(a \o b) = Len(a) + Len(b)
      /\ \A j \in 1..Len(a) + Len(b) : (a \o b)[j] = IF j <= Len(a) THEN a[j] ELSE b[j - Len(a)]
  BY <1>1, <1>2, ConcatProperties
<1>5. Len(a) + Len(b) = Len(s) - 1  BY <1>1, <1>2, <1>3
<1>6. ASSUME NEW j \in 1..Len(s) - 1
      PROVE  (a \o b)[j] = IF j < i THEN s[j] ELSE s[j + 1]
  <2>0. (a \o b)[j] = IF j <= i - 1 THEN a[j] ELSE b[j - (i - 1)]  BY <1>1, <1>4, <1>5
  <2>1. CASE j < i  BY <2>0, <2>1, <1>1, <1>3
  <2>2. CASE ~(j < i)
    <3>1. j - (i - 1) \in 1..Len(s) - i  BY <2>2, <1>3
    <3>2. i + (j - (i - 1)) = j + 1  BY <1>3
    <3> QED  BY <2>0, <2>2, <3>1, <3>2, <1>2, <1>3
  <2> QED  BY <2>1, <2>2
<1> QED  BY <1>4, <1>5, <1>6 DEF RemoveAt, a, b

(* Unlink takes its request, and nobody else, out of the queue.            *)
LEMMA UnlinkKeeps ==
    ASSUME NEW r \in Requests, waiters \in Seq(Requests), Unlink(r),
           \A i, j \in 1..Len(waiters) : waiters[i] = waiters[j] => i = j
    PROVE  /\ waiters' \in Seq(Requests)
           /\ \A k \in 1..Len(waiters') :
                /\ waiters'[k] # r
                /\ \E m \in 1..Len(waiters) : waiters[m] = waiters'[k]
           /\ \A k, m \in 1..Len(waiters') : waiters'[k] = waiters'[m] => k = m
           /\ waiters # <<>>
<1>1. PICK i \in 1..Len(waiters) : waiters[i] = r /\ waiters' = RemoveAt(waiters, i)
  BY DEF Unlink
<1>2. /\ waiters' \in Seq(Requests)
      /\ Len(waiters') = Len(waiters) - 1
      /\ \A j \in 1..Len(waiters) - 1 :
           waiters'[j] = IF j < i THEN waiters[j] ELSE waiters[j + 1]
  BY <1>1, RemoveAtKeeps
<1> DEFINE From(k) == IF k < i THEN k ELSE k + 1
<1>3. Len(waiters) \in Nat /\ i \in 1..Len(waiters)  BY <1>1, LenProperties
<1>4. ASSUME NEW k \in 1..Len(waiters')
      PROVE  From(k) \in 1..Len(waiters) /\ From(k) # i /\ waiters'[k] = waiters[From(k)]
  <2>1. k \in 1..Len(waiters) - 1  BY <1>2
  <2>2. From(k) \in 1..Len(waiters) /\ From(k) # i  BY <2>1, <1>3
  <2> QED  BY <1>2, <2>1, <2>2
<1>5. \A k, m \in 1..Len(waiters') : From(k) = From(m) => k = m
  BY <1>2, <1>3
<1> HIDE DEF From
<1>6. ASSUME NEW k \in 1..Len(waiters')
      PROVE  waiters'[k] # r /\ \E m \in 1..Len(waiters) : waiters[m] = waiters'[k]
  BY <1>1, <1>4
<1>7. ASSUME NEW k \in 1..Len(waiters'), NEW m \in 1..Len(waiters'), waiters'[k] = waiters'[m]
      PROVE  k = m
  BY <1>4, <1>5, <1>7
<1>8. waiters # <<>>  BY <1>3
<1> QED  BY <1>2, <1>6, <1>7, <1>8

(* The queue after its head was handed the released permit.                *)
LEMMA TailKeeps ==
    ASSUME waiters \in Seq(Requests), waiters # <<>>
    PROVE  /\ Head(waiters) = waiters[1] /\ Head(waiters) \in Requests
           /\ 1 \in 1..Len(waiters)
           /\ Tail(waiters) \in Seq(Requests)
           /\ Len(Tail(waiters)) = Len(waiters) - 1
           /\ \A k \in 1..Len(Tail(waiters)) : /\ Tail(waiters)[k] = waiters[k + 1]
                                               /\ k + 1 \in 1..Len(waiters)
  BY HeadTailProperties, EmptySeq

(* Shape and LineOK are inductive.                                         *)
LEMMA LineInductive == Shape /\ LineOK /\ [Next]_vars => Shape' /\ LineOK'
<1> SUFFICES ASSUME Shape, LineOK, [Next]_vars PROVE Shape' /\ LineOK'
  OBVIOUS
<1> USE SchedulerAssumption
<1>0. CASE UNCHANGED vars  BY <1>0 DEF vars, Shape, LineOK
<1>1. ASSUME NEW r \in Requests, try_acquire(r) PROVE Shape' /\ LineOK'
  BY <1>1 DEF try_acquire, Goto, Shape, LineOK
<1>2. ASSUME NEW r \in Requests, reserve(r) PROVE Shape' /\ LineOK'
  BY <1>2 DEF reserve, QueueHasRoom, Goto, Shape, LineOK
<1>3. ASSUME NEW r \in Requests, StartWaiting(r) PROVE Shape' /\ LineOK'
  <2>1. CASE HasPermit /\ Goto(r, "got") /\ UNCHANGED waiters /\ permits' = permits - 1
    BY <1>3, <2>1 DEF StartWaiting, Goto, Shape, LineOK
  <2>2. CASE Goto(r, "wait") /\ Enqueue(r) /\ UNCHANGED permits
    <3>1. /\ waiters' \in Seq(Requests) /\ Len(waiters') = Len(waiters) + 1
          /\ waiters'[Len(waiters) + 1] = r
          /\ \A i \in 1..Len(waiters) : waiters'[i] = waiters[i]
      BY <2>2, AppendProperties DEF Enqueue, Shape
    <3>2. \A i \in 1..Len(waiters) : waiters[i] # r
      BY <1>3 DEF StartWaiting, LineOK
    <3>3. /\ pc' = [pc EXCEPT ![r] = "wait"] /\ pc[r] = "acquire"
          /\ assigned' = assigned /\ queued' = queued /\ permits' = permits
      BY <1>3, <2>2 DEF StartWaiting, Goto
    <3>4. Len(waiters) \in Nat
      BY LenProperties DEF Shape
    <3>5. Shape'
      BY <3>1, <3>3 DEF Shape
    <3>6. r \notin assigned
      BY <3>3 DEF LineOK
    <3>7. pc'[r] = "wait" /\ \A q \in Requests : q # r => pc'[q] = pc[q]
      BY <3>3 DEF Shape
    <3>8. ASSUME NEW i \in 1..Len(waiters')
          PROVE  pc'[waiters'[i]] \in {"wait", "leave"} /\ waiters'[i] \notin assigned'
      <4>1. CASE i = Len(waiters) + 1
        BY <3>1, <3>3, <3>6, <3>7, <4>1
      <4>2. CASE i \in 1..Len(waiters)
        <5>1. waiters[i] \in Requests /\ waiters'[i] = waiters[i] /\ waiters[i] # r
          BY <3>1, <3>2, <4>2, ElementOfSeq DEF Shape
        <5> QED  BY <3>3, <3>7, <4>2, <5>1 DEF LineOK
      <4> QED  BY <3>1, <3>4, <4>1, <4>2
    <3>9. \A i, j \in 1..Len(waiters') : waiters'[i] = waiters'[j] => i = j
      BY <3>1, <3>2, <3>4 DEF LineOK
    <3>10. \A q \in assigned' : pc'[q] \in {"wait", "leave"}
      BY <3>3, <3>6, <3>7 DEF LineOK, Shape
    <3> QED  BY <3>5, <3>8, <3>9, <3>10 DEF LineOK
  <2> QED  BY <1>3, <2>1, <2>2 DEF StartWaiting
<1>4. ASSUME NEW r \in Requests, AcquireReady(r) PROVE Shape' /\ LineOK'
  BY <1>4 DEF AcquireReady, Goto, Shape, LineOK
<1>5. ASSUME NEW r \in Requests, QueueTimeout(r) \/ Disconnect(r) PROVE Shape' /\ LineOK'
  BY <1>5 DEF QueueTimeout, Disconnect, Goto, Shape, LineOK
<1>6. ASSUME NEW r \in Requests, NEW given \in SUBSET assigned, Release(given),
             pc[r] \in {"leave", "run"}, r \notin given,
             \/ pc[r] = "run" 
             \/ r \in assigned,
             NEW l \in {"idle", "ticket"}, Goto(r, l), UNCHANGED queued
      PROVE  Shape' /\ LineOK'
  <2>1. CASE waiters = <<>>
    BY <1>6, <2>1, EmptySeq DEF Release, Goto, Shape, LineOK
  <2>2. CASE waiters # <<>>
    <3>1. waiters' = Tail(waiters) /\ assigned' = given \cup {waiters[1]} /\ permits' = permits
      BY <1>6, <2>2, TailKeeps DEF Release, Shape
    <3>2. Shape'  BY <1>6, <2>2, <3>1, TailKeeps DEF Shape, Goto
    <3>3. LineOK'  BY <1>6, <2>2, <3>1, TailKeeps DEF Shape, Goto, LineOK
    <3> QED  BY <3>2, <3>3
  <2> QED  BY <2>1, <2>2
<1>7. ASSUME NEW r \in Requests, DropWait(r) PROVE Shape' /\ LineOK'
  <2>1. CASE r \in assigned
    BY <1>6, <1>7, <2>1 DEF DropWait, GiveUp
  <2>2. CASE r \notin assigned
    <3>1. Unlink(r) /\ Goto(r, "ticket") /\ pc[r] = "leave" /\ UNCHANGED queued
      BY <1>7, <2>2 DEF DropWait, GiveUp
    <3>2. UNCHANGED <<permits, assigned>>  BY <3>1 DEF Unlink
    <3> QED  BY <2>2, <3>1, <3>2, UnlinkKeeps DEF Goto, Shape, LineOK
  <2> QED  BY <2>1, <2>2
<1>8. ASSUME NEW r \in Requests, DropTicket(r) PROVE Shape' /\ LineOK'
  BY <1>8 DEF DropTicket, ReturnTicket, Goto, Shape, LineOK
<1>9. ASSUME NEW r \in Requests, EndOperation(r) PROVE Shape' /\ LineOK'
  <2>1. r \notin assigned  BY <1>9 DEF EndOperation, LineOK
  <2> QED  BY <1>6, <1>9, <2>1 DEF EndOperation
<1> QED
  BY <1>0, <1>1, <1>2, <1>3, <1>4, <1>5, <1>7, <1>8, <1>9 DEF Next, Step

-----------------------------------------------------------------------------
(* Counting permits *)

(* How each step changes the set of requests that hold a permit.           *)
LEMMA HoldersMove ==
    ASSUME Shape, LineOK, NEW r \in Requests
    PROVE  /\ try_acquire(r) =>
                \/ HasPermit /\ permits' = permits - 1 /\ waiters' = waiters
                     /\ r \notin Holders /\ Holders' = Holders \cup {r}
                \/ UNCHANGED <<permits, waiters>> /\ Holders' = Holders
           /\ StartWaiting(r) =>
                \/ HasPermit /\ permits' = permits - 1 /\ waiters' = waiters
                     /\ r \notin Holders /\ Holders' = Holders \cup {r}
                \/ ~HasPermit /\ permits' = permits /\ Enqueue(r)
                     /\ r \notin Holders /\ Holders' = Holders
           /\ reserve(r) \/ AcquireReady(r) \/ QueueTimeout(r) \/ Disconnect(r) \/ DropTicket(r) =>
                UNCHANGED <<permits, waiters>> /\ Holders' = Holders
           /\ DropWait(r) \/ EndOperation(r) =>
                \/ r \notin assigned /\ Unlink(r) /\ Holders' = Holders
                \/ r \in Holders /\ waiters = <<>> /\ permits' = permits + 1
                     /\ waiters' = waiters /\ Holders' = Holders \ {r}
                \/ r \in Holders /\ waiters # <<>> /\ permits' = permits
                     /\ waiters' = Tail(waiters) /\ Head(waiters) \notin Holders
                     /\ Holders' = (Holders \ {r}) \cup {Head(waiters)}
<1> DEFINE Hold(f) == {q \in Requests : f[q] \in {"got", "run"}}
<1>1. try_acquire(r) =>
                \/ HasPermit /\ permits' = permits - 1 /\ waiters' = waiters
                     /\ r \notin Holders /\ Holders' = Holders \cup {r}
                \/ UNCHANGED <<permits, waiters>> /\ Holders' = Holders
  BY DEF try_acquire, HasPermit, Goto, Holders, Shape, LineOK
<1>2. StartWaiting(r) =>
                \/ HasPermit /\ permits' = permits - 1 /\ waiters' = waiters
                     /\ r \notin Holders /\ Holders' = Holders \cup {r}
                \/ ~HasPermit /\ permits' = permits /\ Enqueue(r)
                     /\ r \notin Holders /\ Holders' = Holders
  BY DEF StartWaiting, HasPermit, Goto, Holders, Shape, LineOK
<1>3. reserve(r) \/ AcquireReady(r) \/ QueueTimeout(r) \/ Disconnect(r) \/ DropTicket(r) =>
                UNCHANGED <<permits, waiters>> /\ Holders' = Holders
  BY DEF reserve, AcquireReady, QueueTimeout, Disconnect, DropTicket, Goto, Holders, Shape, LineOK
<1>4. ASSUME NEW given, given = assigned \ {r}, Release(given), r \in Holders,
             NEW l \in {"idle", "ticket"}, Goto(r, l)
      PROVE  \/ r \in Holders /\ waiters = <<>> /\ permits' = permits + 1
                     /\ waiters' = waiters /\ Holders' = Holders \ {r}
             \/ r \in Holders /\ waiters # <<>> /\ permits' = permits
                     /\ waiters' = Tail(waiters) /\ Head(waiters) \notin Holders
                     /\ Holders' = (Holders \ {r}) \cup {Head(waiters)}
  <2>1. Hold(pc') = Hold(pc) \ {r}  BY <1>4 DEF Goto, Shape
  <2>2. CASE waiters = <<>>
    <3>1. assigned' = assigned \ {r} /\ permits' = permits + 1 /\ waiters' = waiters
      BY <1>4, <2>2 DEF Release
    <3> QED  BY <1>4, <2>1, <2>2, <3>1 DEF Holders
  <2>3. CASE waiters # <<>>
    <3>1. /\ assigned' = (assigned \ {r}) \cup {Head(waiters)}
          /\ permits' = permits /\ waiters' = Tail(waiters)
      BY <1>4, <2>3 DEF Release
    <3>2. Head(waiters) \in Requests /\ Head(waiters) \notin Holders
      BY <2>3, TailKeeps DEF Holders, Shape, LineOK
    <3>3. Head(waiters) # r  BY <1>4, <3>2
    <3> QED  BY <1>4, <2>1, <2>3, <3>1, <3>2, <3>3 DEF Holders
  <2> QED  BY <2>2, <2>3
<1>5. ASSUME EndOperation(r)
      PROVE  r \notin assigned /\ r \in Holders /\ Release(assigned \ {r}) /\ Goto(r, "idle")
  <2>1. r \notin assigned  BY <1>5 DEF EndOperation, LineOK
  <2>2. assigned \ {r} = assigned  BY <2>1
  <2> QED  BY <1>5, <2>1, <2>2 DEF EndOperation, Holders
<1>6. ASSUME DropWait(r), r \in assigned
      PROVE  r \in Holders /\ Release(assigned \ {r}) /\ Goto(r, "ticket")
  BY <1>6 DEF DropWait, GiveUp, Holders
<1>7. ASSUME DropWait(r), r \notin assigned
      PROVE  Unlink(r) /\ Holders' = Holders
  <2>1. Unlink(r) /\ Goto(r, "ticket") /\ pc[r] = "leave"  BY <1>7 DEF DropWait, GiveUp
  <2>2. assigned' = assigned  BY <2>1 DEF Unlink
  <2> QED  BY <2>1, <2>2 DEF Goto, Holders, Shape
<1> QED  BY <1>1, <1>2, <1>3, <1>4, <1>5, <1>6, <1>7

(* The sizes of finite sets the steps make.                                *)
LEMMA Sizes ==
    ASSUME NEW S, IsFiniteSet(S), NEW x
    PROVE  /\ Cardinality(S) \in Nat
           /\ x \notin S => Cardinality(S \cup {x}) = Cardinality(S) + 1
           /\ x \in S => Cardinality(S \ {x}) = Cardinality(S) - 1
<1>1. Cardinality(S) \in Nat  BY FS_CardinalityType
<1>2. x \notin S => Cardinality(S \cup {x}) = Cardinality(S) + 1  BY FS_AddElement
<1>3. x \in S => Cardinality(S \ {x}) = Cardinality(S) - 1  BY FS_RemoveElement
<1> QED  BY <1>1, <1>2, <1>3

(* A permit that passes from one to another changes no size.               *)
LEMMA HandOverSize ==
    ASSUME NEW S, IsFiniteSet(S), NEW x \in S, NEW y, y \notin S
    PROVE  Cardinality((S \ {x}) \cup {y}) = Cardinality(S)
<1>1. IsFiniteSet(S \ {x}) /\ Cardinality(S \ {x}) = Cardinality(S) - 1
  BY FS_RemoveElement
<1>2. Cardinality((S \ {x}) \cup {y}) = Cardinality(S \ {x}) + 1
  BY <1>1, FS_AddElement
<1>3. Cardinality(S) \in Nat  BY FS_CardinalityType
<1> QED  BY <1>1, <1>2, <1>3

(* The requests that hold a permit are finitely many.                      *)
LEMMA HoldersFinite == Shape => IsFiniteSet(Holders)
<1>1. Shape => Holders \in SUBSET Requests  BY DEF Shape, Holders
<1> QED  BY <1>1, FS_Subset, SchedulerAssumption

(* Every step keeps the sum of free and held permits, and lets nobody sleep *)
(* beside a free one.                                                       *)
LEMMA SlotsInductive ==
    Shape /\ LineOK /\ SlotsAccounted /\ NoIdleSlot /\ permits >= 0 /\ [Next]_vars
        => SlotsAccounted' /\ NoIdleSlot' /\ permits' >= 0
<1> SUFFICES ASSUME Shape, LineOK, SlotsAccounted, NoIdleSlot, permits >= 0, [Next]_vars
             PROVE  SlotsAccounted' /\ NoIdleSlot' /\ permits' >= 0
  OBVIOUS
<1> USE SchedulerAssumption
<1>1. IsFiniteSet(Holders) /\ permits \in Int /\ Cardinality(Holders) \in Nat
  BY HoldersFinite, FS_CardinalityType DEF Shape
<1>2. CASE UNCHANGED vars
  BY <1>2 DEF vars, SlotsAccounted, NoIdleSlot, Holders
<1>3. ASSUME NEW r \in Requests, try_acquire(r) \/ StartWaiting(r)
      PROVE  SlotsAccounted' /\ NoIdleSlot' /\ permits' >= 0
  <2>1. CASE HasPermit /\ permits' = permits - 1 /\ waiters' = waiters
             /\ r \notin Holders /\ Holders' = Holders \cup {r}
    BY <1>1, <2>1, Sizes DEF SlotsAccounted, NoIdleSlot, HasPermit
  <2>2. CASE UNCHANGED <<permits, waiters>> /\ Holders' = Holders
    BY <2>2 DEF SlotsAccounted, NoIdleSlot
  <2>3. CASE ~HasPermit /\ permits' = permits /\ Holders' = Holders
    BY <1>1, <2>3 DEF SlotsAccounted, NoIdleSlot, HasPermit
  <2> QED  BY <1>3, <2>1, <2>2, <2>3, HoldersMove
<1>4. ASSUME NEW r \in Requests, reserve(r) \/ AcquireReady(r) \/ QueueTimeout(r)
                                 \/ Disconnect(r) \/ DropTicket(r)
      PROVE  SlotsAccounted' /\ NoIdleSlot' /\ permits' >= 0
  <2>1. UNCHANGED <<permits, waiters>> /\ Holders' = Holders  BY <1>4, HoldersMove
  <2> QED  BY <2>1 DEF SlotsAccounted, NoIdleSlot
<1>5. ASSUME NEW r \in Requests, DropWait(r) \/ EndOperation(r)
      PROVE  SlotsAccounted' /\ NoIdleSlot' /\ permits' >= 0
  <2>1. CASE r \notin assigned /\ Unlink(r) /\ Holders' = Holders
    <3>1. permits' = permits  BY <2>1 DEF Unlink
    <3>2. waiters # <<>>
      <4>1. PICK i \in 1..Len(waiters) : TRUE  BY <2>1 DEF Unlink
      <4> QED  BY <4>1, EmptySeq
    <3> QED  BY <1>1, <2>1, <3>1, <3>2 DEF SlotsAccounted, NoIdleSlot
  <2>2. CASE r \in Holders /\ waiters = <<>> /\ permits' = permits + 1
             /\ waiters' = waiters /\ Holders' = Holders \ {r}
    BY <1>1, <2>2, Sizes DEF SlotsAccounted, NoIdleSlot
  <2>3. CASE r \in Holders /\ waiters # <<>> /\ permits' = permits
             /\ Head(waiters) \notin Holders
             /\ Holders' = (Holders \ {r}) \cup {Head(waiters)}
    <3>1. IsFiniteSet(Holders) /\ r \in Holders /\ Head(waiters) \notin Holders
      BY <1>1, <2>3
    <3>2. Cardinality((Holders \ {r}) \cup {Head(waiters)}) = Cardinality(Holders)
      BY <3>1, HandOverSize, Zenon
    <3> QED  BY <1>1, <2>3, <3>2 DEF SlotsAccounted, NoIdleSlot
  <2> QED  BY <1>5, <2>1, <2>2, <2>3, HoldersMove
<1> QED  BY <1>2, <1>3, <1>4, <1>5 DEF Next, Step

-----------------------------------------------------------------------------
(* Counting tickets *)

(* Every step that takes or returns a ticket counts it.                    *)
LEMMA TicketsInductive ==
    Shape /\ TicketsExact /\ [Next]_vars => TicketsExact'
<1> SUFFICES ASSUME Shape, TicketsExact, [Next]_vars PROVE TicketsExact'
  OBVIOUS
<1> USE SchedulerAssumption
<1>1. IsFiniteSet(Ticketed) /\ Cardinality(Ticketed) \in Nat
  <2>1. Ticketed \in SUBSET Requests  BY DEF Ticketed
  <2> QED  BY <2>1, FS_Subset, FS_CardinalityType
<1>2. CASE UNCHANGED vars  BY <1>2 DEF vars, TicketsExact, Ticketed
<1>3. ASSUME NEW r \in Requests, reserve(r) PROVE TicketsExact'
  <2>1. CASE queued' = queued + 1 /\ Goto(r, "acquire")
    <3>1. r \notin Ticketed /\ Ticketed' = Ticketed \cup {r}
      BY <1>3, <2>1 DEF reserve, Goto, Ticketed, Shape
    <3> QED  BY <1>1, <2>1, <3>1, Sizes DEF TicketsExact, Shape
  <2>2. CASE queued' = queued /\ Goto(r, "idle")
    <3>1. Ticketed' = Ticketed  BY <1>3, <2>2 DEF reserve, Goto, Ticketed, Shape
    <3> QED  BY <2>2, <3>1 DEF TicketsExact
  <2> QED  BY <1>3, <2>1, <2>2 DEF reserve
<1>4. ASSUME NEW r \in Requests, DropTicket(r) PROVE TicketsExact'
  <2>1. r \in Ticketed /\ Ticketed' = Ticketed \ {r}
    BY <1>4 DEF DropTicket, Goto, Ticketed, Shape
  <2>2. Cardinality(Ticketed') = Cardinality(Ticketed) - 1  BY <1>1, <2>1, Sizes
  <2>3. Cardinality(Ticketed) # 0  BY <1>1, <2>1, FS_EmptySet
  <2> QED  BY <1>1, <1>4, <2>2, <2>3 DEF DropTicket, ReturnTicket, TicketsExact, Shape
<1>5. ASSUME NEW r \in Requests,
             \/ try_acquire(r) \/ StartWaiting(r) \/ AcquireReady(r) \/ QueueTimeout(r)
             \/ Disconnect(r) \/ DropWait(r) \/ EndOperation(r)
      PROVE  TicketsExact'
  <2>1. queued' = queued /\ Ticketed' = Ticketed
    BY <1>5 DEF try_acquire, StartWaiting, AcquireReady, QueueTimeout, Disconnect, DropWait,
                EndOperation, Goto, Ticketed, Shape
  <2> QED  BY <2>1 DEF TicketsExact
<1> QED  BY <1>2, <1>3, <1>4, <1>5 DEF Next, Step

-----------------------------------------------------------------------------
(* The theorems *)

IInv == /\ Shape /\ LineOK /\ SlotsAccounted /\ NoIdleSlot /\ permits >= 0 /\ TicketsExact

(* The invariant the theorems follow from holds in every reachable state.  *)
LEMMA Invariance == Spec => []IInv
<1> USE SchedulerAssumption
<1>1. Init => IInv
  <2> SUFFICES ASSUME Init PROVE IInv  OBVIOUS
  <2>1. Holders = {} /\ Ticketed = {}  BY DEF Init, Holders, Ticketed
  <2>2. Shape /\ LineOK  BY EmptySeq DEF Init, Shape, LineOK
  <2> QED  BY <2>1, <2>2, FS_EmptySet DEF Init, IInv, SlotsAccounted, NoIdleSlot, TicketsExact
<1>2. IInv /\ [Next]_vars => IInv'
  BY LineInductive, SlotsInductive, TicketsInductive DEF IInv
<1> QED  BY <1>1, <1>2, PTL DEF Spec

(* The scheduler's state is well formed: free permits stay within the      *)
(* limit and the queue counter within WARM_MAX_QUEUED_REQUESTS.            *)
THEOREM TypeCorrect == Spec => []TypeOK
<1>1. IInv => TypeOK
  <2> SUFFICES ASSUME IInv PROVE TypeOK  OBVIOUS
  <2>1. Cardinality(Holders) \in Nat  BY HoldersFinite, FS_CardinalityType DEF IInv
  <2> QED  BY <2>1, SchedulerAssumption DEF IInv, SlotsAccounted, Shape, TypeOK
<1> QED  BY <1>1, Invariance, PTL

(* However releases, queue timeouts and disconnects race, no permit is lost *)
(* or forged, so at most MaxActive operations run.                          *)
THEOREM Slots == Spec => []SlotsAccounted
<1>1. IInv => SlotsAccounted  BY DEF IInv
<1> QED  BY <1>1, Invariance, PTL

(* No request sleeps in the queue while a slot is free.                    *)
THEOREM WorkConserving == Spec => []NoIdleSlot
<1>1. IInv => NoIdleSlot  BY DEF IInv
<1> QED  BY <1>1, Invariance, PTL

(* The queue counter counts the tickets held, so its saturating_sub never  *)
(* saturates.                                                              *)
THEOREM Tickets == Spec => []TicketsExact
<1>1. IInv => TicketsExact  BY DEF IInv
<1> QED  BY <1>1, Invariance, PTL

(* The scheduler implements the fair gate (its safety part): every step of *)
(* the scheduler enters, lines up, leaves a slot to the head of the line,  *)
(* quits the line, or is a stutter.                                        *)
THEOREM Refinement == Spec => Gate!Init /\ [][Gate!Next]_<<Holders, waiters>>
<1>1. Init => Gate!Init  BY DEF Init, Gate!Init, Holders
<1>2. IInv /\ [Next]_vars => [Gate!Next]_<<Holders, waiters>>
  <2> SUFFICES ASSUME IInv, [Next]_vars PROVE [Gate!Next]_<<Holders, waiters>>
    OBVIOUS
  <2> USE DEF IInv
  <2>0. permits \in Nat /\ Cardinality(Holders) \in Nat /\ MaxActive \in Nat
    BY HoldersFinite, FS_CardinalityType, SchedulerAssumption DEF Shape
  <2>c. Gate!Cardinality(Holders) = Cardinality(Holders)
    BY DEF Gate!Cardinality, Cardinality
  <2>1. CASE UNCHANGED vars  BY <2>1 DEF vars, Holders
  <2>2. ASSUME NEW r \in Requests, try_acquire(r) \/ StartWaiting(r)
        PROVE  [Gate!Next]_<<Holders, waiters>>
    <3>1. pc[r] \in {"idle", "acquire"}  BY <2>2 DEF try_acquire, StartWaiting
    <3>2. r \notin Gate!InLine  BY <3>1 DEF Gate!InLine, LineOK
    <3>3. CASE HasPermit /\ permits' = permits - 1 /\ waiters' = waiters
               /\ r \notin Holders /\ Holders' = Holders \cup {r}
      <4>1. Gate!Enter(r)
        BY <2>0, <2>c, <3>2, <3>3 DEF Gate!Enter, Gate!Outside, Gate!Full, SlotsAccounted, NoIdleSlot, HasPermit
      <4> QED  BY <4>1 DEF Gate!Next
    <3>4. CASE UNCHANGED <<permits, waiters>> /\ Holders' = Holders  BY <3>4
    <3>5. CASE ~HasPermit /\ permits' = permits /\ Enqueue(r)
               /\ r \notin Holders /\ Holders' = Holders
      <4>1. Gate!LineUp(r)
        BY <2>0, <2>c, <3>2, <3>5 DEF Gate!LineUp, Gate!Outside, Gate!Full, SlotsAccounted, HasPermit, Enqueue
      <4> QED  BY <4>1 DEF Gate!Next
    <3> QED  BY <2>2, <3>3, <3>4, <3>5, HoldersMove
  <2>3. ASSUME NEW r \in Requests, reserve(r) \/ AcquireReady(r) \/ QueueTimeout(r)
                                   \/ Disconnect(r) \/ DropTicket(r)
        PROVE  [Gate!Next]_<<Holders, waiters>>
    BY <2>3, HoldersMove
  <2>4. ASSUME NEW r \in Requests, DropWait(r) \/ EndOperation(r)
        PROVE  [Gate!Next]_<<Holders, waiters>>
    <3>1. CASE r \notin assigned /\ Unlink(r) /\ Holders' = Holders
      <4>1. Gate!QuitLine(r)  BY <3>1 DEF Gate!QuitLine, Unlink, RemoveAt, Gate!RemoveAt
      <4> QED  BY <4>1 DEF Gate!Next
    <3>2. CASE r \in Holders /\ waiters = <<>> /\ permits' = permits + 1
               /\ waiters' = waiters /\ Holders' = Holders \ {r}
      <4>1. Gate!LeaveSlot(r)  BY <3>2 DEF Gate!LeaveSlot
      <4> QED  BY <4>1 DEF Gate!Next
    <3>3. CASE r \in Holders /\ waiters # <<>> /\ permits' = permits
               /\ waiters' = Tail(waiters) /\ Head(waiters) \notin Holders
               /\ Holders' = (Holders \ {r}) \cup {Head(waiters)}
      <4>1. Gate!LeaveSlot(r)  BY <3>3 DEF Gate!LeaveSlot
      <4> QED  BY <4>1 DEF Gate!Next
    <3> QED  BY <2>4, <3>1, <3>2, <3>3, HoldersMove
  <2> QED  BY <2>1, <2>2, <2>3, <2>4 DEF Next, Step
<1> QED  BY <1>1, <1>2, Invariance, PTL DEF Spec
=============================================================================
