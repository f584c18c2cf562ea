---------------------------- MODULE ForwarderProofs ----------------------------
(***************************************************************************)
(* Proofs about the forwarding operations and the cancellation token they  *)
(* watch, for any number of operations and of holders that cancel: the     *)
(* protocol of the flag and the notification misses no cancel, and reports *)
(* none that was not made.  And about the bodies, for any number of lines: *)
(* what reaches a client is the upstream's text so far, and renamed where  *)
(* no chunk cut a line in two.                                             *)
(***************************************************************************)
EXTENDS Forwarder, SequenceTheorems, TLAPS

(* Between the swap of the flag and the notification there is exactly one   *)
(* notifier, and there is none at any other time.                          *)
NotifierOK ==
    /\ ~cancelled => calls = 0 /\ \A k \in Cancellers : pc[k] = "start"
    /\ cancelled /\ calls = 0 => \E k \in Cancellers : pc[k] = "notify"
    /\ calls = 1 => \A k \in Cancellers : pc[k] # "notify"
    /\ \A j, k \in Cancellers : pc[j] = "notify" /\ pc[k] = "notify" => j = k

(* A watcher waits only if its Notified future is older than any             *)
(* notification, and returns only from a cancelled token.                  *)
WatchersOK ==
    \A w \in Watchers :
        /\ pc[w] = "check" /\ ~cancelled => seen[w] = 0
        /\ pc[w] \in {"await", "pending"} => seen[w] = 0
        /\ pc[w] = "returned" => cancelled

TokenInv == TokenTypeOK /\ NotifierOK /\ WatchersOK

(* Nothing is sent before the body, and the body comes after the watch.     *)
AnswersOK ==
    /\ answer \in [Watchers -> Answers]
    /\ sent = [w \in Watchers |-> sent[w]]
    /\ \A w \in Watchers :
          answer[w] \in {"none", "reading"} \cup ForwardError => sent[w] = <<>>
    /\ \A w \in Watchers : answer[w] \notin {"none", "Cancelled"} => pc[w] = "dropped"

IInv == TokenInv /\ AnswersOK

-----------------------------------------------------------------------------
LEMMA InitIInv == Init => IInv
<1> SUFFICES ASSUME Init PROVE IInv
  OBVIOUS
<1>1. TokenTypeOK
  BY CancellationAssumption DEF Init, TokenInit, TokenTypeOK
<1>2. NotifierOK /\ WatchersOK
  BY DEF Init, TokenInit, NotifierOK, WatchersOK
<1>3. AnswersOK
  BY DEF Init, TokenInit, AnswersOK, Answers, ForwardError
<1> QED
  BY <1>1, <1>2, <1>3 DEF IInv, TokenInv

(* cancel(): scheduler.rs swap, then notify_waiters.                       *)
LEMMA CancelKeeps ==
    ASSUME TokenInv, NEW k \in Cancellers, CancelStep(k)
    PROVE  TokenInv'
<1> USE CancellationAssumption
<1>1. CASE Swap(k)
  <2>1. /\ cancelled' = TRUE /\ calls' = calls /\ seen' = seen
        /\ pc' = [pc EXCEPT ![k] = IF cancelled THEN "done" ELSE "notify"]
        /\ pc[k] = "start"
    BY <1>1 DEF Swap, RaiseFlag, Goto
  <2>2. TokenTypeOK'
    BY <2>1 DEF TokenInv, TokenTypeOK
  <2>3. NotifierOK'
    <3>1. CASE cancelled
      BY <2>1, <3>1 DEF TokenInv, TokenTypeOK, NotifierOK
    <3>2. CASE ~cancelled
      BY <2>1, <3>2 DEF TokenInv, TokenTypeOK, NotifierOK
    <3> QED
      BY <3>1, <3>2
  <2>4. WatchersOK'
    BY <2>1 DEF TokenInv, TokenTypeOK, WatchersOK
  <2> QED
    BY <2>2, <2>3, <2>4 DEF TokenInv
<1>2. CASE Notify(k)
  <2>1. /\ pc[k] = "notify" /\ pc' = [pc EXCEPT ![k] = "done"]
        /\ calls' = calls + 1 /\ cancelled' = cancelled /\ seen' = seen
    BY <1>2 DEF Notify, notify_waiters, Goto
  <2>2. cancelled /\ calls = 0
    BY <2>1 DEF TokenInv, TokenTypeOK, NotifierOK
  <2>3. TokenTypeOK'
    BY <2>1, <2>2 DEF TokenInv, TokenTypeOK
  <2>4. NotifierOK'
    BY <2>1, <2>2 DEF TokenInv, TokenTypeOK, NotifierOK
  <2>5. WatchersOK'
    BY <2>1 DEF TokenInv, TokenTypeOK, WatchersOK
  <2> QED
    BY <2>3, <2>4, <2>5 DEF TokenInv
<1> QED
  BY <1>1, <1>2 DEF CancelStep

(* A step of cancelled(), or the end of its watch, moves one watcher.      *)
LEMMA WatchKeeps ==
    ASSUME TokenInv, NEW w \in Watchers, WatchStep(w) \/ Unwatch(w)
    PROVE  TokenInv'
<1> USE CancellationAssumption
<1>1. PICK l \in {"check", "await", "pending", "returned", "dropped"} :
        pc' = [pc EXCEPT ![w] = l]
  BY DEF WatchStep, CreateNotified, CheckFlag, FirstPoll, SameNotified, Woken, Unwatch, Goto
<1>2. /\ cancelled' = cancelled /\ calls' = calls
      /\ seen' = [seen EXCEPT ![w] = seen'[w]] /\ seen'[w] \in {calls, seen[w]}
  BY DEF WatchStep, CreateNotified, CheckFlag, FirstPoll, SameNotified, Woken, Unwatch,
         TokenInv, TokenTypeOK
<1>3. TokenTypeOK'
  BY <1>1, <1>2 DEF TokenInv, TokenTypeOK
<1>4. NotifierOK'
  BY <1>1, <1>2 DEF TokenInv, TokenTypeOK, NotifierOK
<1>5. \A v \in Watchers \ {w} : pc'[v] = pc[v] /\ seen'[v] = seen[v]
  BY <1>1, <1>2 DEF TokenInv, TokenTypeOK
<1>6. /\ pc'[w] = "check" /\ ~cancelled => seen'[w] = 0
      /\ pc'[w] \in {"await", "pending"} => seen'[w] = 0
      /\ pc'[w] = "returned" => cancelled
  <2>1. CASE CreateNotified(w)
    BY <2>1 DEF CreateNotified, Goto, TokenInv, TokenTypeOK, NotifierOK
  <2>2. CASE CheckFlag(w)
    BY <2>2 DEF CheckFlag, Goto, TokenInv, TokenTypeOK, WatchersOK
  <2>3. CASE FirstPoll(w)
    BY <2>3 DEF FirstPoll, SameNotified, Goto, TokenInv, TokenTypeOK, WatchersOK
  <2>4. CASE Woken(w)
    BY <2>4 DEF Woken, Goto, TokenInv, TokenTypeOK, NotifierOK, WatchersOK
  <2>5. CASE Unwatch(w)
    BY <2>5 DEF Unwatch, Goto, TokenInv, TokenTypeOK
  <2> QED
    BY <2>1, <2>2, <2>3, <2>4, <2>5 DEF WatchStep
<1>7. WatchersOK'
  BY <1>2, <1>5, <1>6 DEF TokenInv, WatchersOK
<1> QED
  BY <1>3, <1>4, <1>7 DEF TokenInv

(* A step of the token alone answers nobody, and ends no watch.            *)
LEMMA TokenStepKeepsAnswers ==
    ASSUME AnswersOK, UNCHANGED <<answer, body>>,
           \A w \in Watchers : pc[w] = "dropped" => pc'[w] = "dropped"
    PROVE  AnswersOK'
  BY DEF AnswersOK, body

(* A step that answers one client, after its watch is over.                *)
LEMMA AnswerKeeps ==
    ASSUME AnswersOK, NEW w \in Watchers, NEW a \in Answers, AnswerWith(w, a),
           NEW s, sent' = [sent EXCEPT ![w] = s],
           a \in {"none", "reading"} \cup ForwardError => s = <<>>,
           pc'[w] = "dropped" \/ a = "Cancelled",
           \A v \in Watchers : pc[v] = "dropped" => pc'[v] = "dropped"
    PROVE  AnswersOK'
<1>1. /\ answer'[w] = a /\ sent'[w] = s
      /\ \A v \in Watchers \ {w} : answer'[v] = answer[v] /\ sent'[v] = sent[v]
  BY DEF AnswerWith, AnswersOK
<1>2. answer' \in [Watchers -> Answers]
  BY DEF AnswerWith, AnswersOK
<1>3. sent' = [v \in Watchers |-> sent'[v]]
  BY DEF AnswersOK
<1> QED
  BY <1>1, <1>2, <1>3 DEF AnswersOK

(* The same, when nothing is sent by the step.                             *)
LEMMA SilentAnswerKeeps ==
    ASSUME AnswersOK, NEW w \in Watchers, NEW a \in Answers, AnswerWith(w, a),
           UNCHANGED body,
           a \in {"none", "reading"} \cup ForwardError => sent[w] = <<>>,
           pc'[w] = "dropped" \/ a = "Cancelled",
           \A v \in Watchers : pc[v] = "dropped" => pc'[v] = "dropped"
    PROVE  AnswersOK'
<1>1. sent' = [sent EXCEPT ![w] = sent[w]]
  BY DEF AnswersOK, body
<1> QED
  BY <1>1, AnswerKeeps

LEMMA OperationKeeps ==
    ASSUME IInv, NEW w \in Watchers, Operation(w)
    PROVE  IInv'
<1> USE CancellationAssumption DEF IInv
<1>1. CASE Watch(w)
  <2>1. TokenInv'
    BY <1>1, WatchKeeps DEF Watch
  <2>2. \A v \in Watchers : pc[v] = "dropped" => pc'[v] = "dropped"
    BY <1>1 DEF Watch, WatchStep, CreateNotified, CheckFlag, FirstPoll, Woken, Goto,
                TokenInv, TokenTypeOK
  <2> QED
    BY <1>1, <2>1, <2>2, TokenStepKeepsAnswers DEF Watch
<1>2. CASE ReturnCancelled(w)
  <2>1. TokenInv'
    BY <1>2 DEF ReturnCancelled, token, TokenInv, TokenTypeOK, NotifierOK, WatchersOK
  <2> QED
    BY <1>2, <2>1, SilentAnswerKeeps
    DEF ReturnCancelled, token, AnswersOK, Answers, ForwardError
<1>3. ASSUME Unwatch(w), UNCHANGED body, NEW a \in Answers, AnswerWith(w, a)
      PROVE  IInv'
  <2>1. TokenInv'
    BY <1>3, WatchKeeps
  <2>2. /\ pc[w] = "pending" /\ pc'[w] = "dropped"
        /\ \A v \in Watchers \ {w} : pc'[v] = pc[v]
    BY <1>3 DEF Unwatch, Goto, TokenInv, TokenTypeOK
  <2>3. answer[w] \in {"none", "Cancelled"}
    BY <2>2 DEF AnswersOK
  <2>4. sent[w] = <<>>
    BY <2>3 DEF AnswersOK, ForwardError
  <2> QED
    BY <1>3, <2>1, <2>2, <2>4, SilentAnswerKeeps
<1>4. CASE SendFails(w) \/ HeadArrives(w) \/ RefusalArrives(w)
  <2>1. PICK a \in Answers : AnswerWith(w, a)
    BY <1>4 DEF SendFails, HeadArrives, RefusalArrives, Answers, ForwardError
  <2> QED
    BY <1>3, <1>4, <2>1 DEF SendFails, HeadArrives, RefusalArrives
<1>5. ASSUME UNCHANGED token PROVE TokenInv'
  BY <1>5 DEF token, TokenInv, TokenTypeOK, NotifierOK, WatchersOK
<1>6. CASE answer[w] \in {"reading", "streaming"}
  <2>1. pc[w] = "dropped"
    BY <1>6 DEF AnswersOK
  <2>2. CASE ReadText(w)
    <3>1. PICK chunk : Forward(w, chunk)
      BY <2>2 DEF ReadText
    <3>2. UNCHANGED token /\ AnswerWith(w, "Ok")
      BY <2>2 DEF ReadText
    <3>3. TokenInv' /\ pc' = pc
      BY <1>5, <3>2 DEF token
    <3>4. PICK s : sent' = [sent EXCEPT ![w] = s]
      BY <3>1 DEF Forward
    <3>5. "Ok" \in Answers /\ "Ok" \notin {"none", "reading"} \cup ForwardError
      BY DEF Answers, ForwardError
    <3> QED
      BY <2>1, <3>2, <3>3, <3>4, <3>5, AnswerKeeps
  <2>3. CASE NextChunk(w)
    <3>1. PICK chunk : Forward(w, chunk)
      BY <2>3 DEF NextChunk
    <3>2. UNCHANGED token /\ UNCHANGED answer /\ answer[w] = "streaming"
      BY <2>3 DEF NextChunk
    <3>3. AnswerWith(w, "streaming")
      BY <3>2 DEF AnswerWith, AnswersOK
    <3>4. TokenInv' /\ pc' = pc
      BY <1>5, <3>2 DEF token
    <3>5. PICK s : sent' = [sent EXCEPT ![w] = s]
      BY <3>1 DEF Forward
    <3>6. "streaming" \in Answers /\ "streaming" \notin {"none", "reading"} \cup ForwardError
      BY DEF Answers, ForwardError
    <3> QED
      BY <2>1, <3>3, <3>4, <3>5, <3>6, AnswerKeeps
  <2>4. CASE BodyBreaks(w) \/ BodyEnds(w)
    <3>1. UNCHANGED <<token, body>> /\ (AnswerWith(w, "Broken") \/ AnswerWith(w, "Ok"))
      BY <2>4 DEF BodyBreaks, PassError, BodyEnds
    <3> QED
      BY <1>5, <2>1, <3>1, SilentAnswerKeeps DEF token, Answers, ForwardError
  <2>5. \/ ReadText(w) \/ NextChunk(w) \/ BodyBreaks(w) \/ BodyEnds(w)
        \/ Watch(w) \/ ReturnCancelled(w)
        \/ SendFails(w) \/ HeadArrives(w) \/ RefusalArrives(w)
    BY DEF Operation
  <2> QED
    BY <1>1, <1>2, <1>4, <2>2, <2>3, <2>4, <2>5
<1> QED
  BY <1>1, <1>2, <1>4, <1>6
  DEF Operation, ReadText, NextChunk, BodyBreaks, BodyEnds

LEMMA Inductive == IInv /\ [Next]_vars => IInv'
<1> SUFFICES ASSUME IInv, [Next]_vars PROVE IInv'
  OBVIOUS
<1>1. CASE UNCHANGED vars
  BY <1>1 DEF vars, token, body, IInv, TokenInv, TokenTypeOK, NotifierOK, WatchersOK, AnswersOK
<1>2. ASSUME NEW k \in Cancellers, Cancel(k) PROVE IInv'
  <2>1. TokenInv'
    BY <1>2, CancelKeeps DEF Cancel, IInv
  <2>2. \A w \in Watchers : pc[w] = "dropped" => pc'[w] = "dropped"
    BY <1>2, CancellationAssumption
    DEF Cancel, CancelStep, Swap, RaiseFlag, Notify, notify_waiters, Goto, IInv, TokenInv, TokenTypeOK
  <2> QED
    BY <1>2, <2>1, <2>2, TokenStepKeepsAnswers DEF Cancel, IInv
<1>3. ASSUME NEW w \in Watchers, Operation(w) PROVE IInv'
  BY <1>3, OperationKeeps
<1> QED
  BY <1>1, <1>2, <1>3 DEF Next

THEOREM Invariance == Spec => []IInv
  BY InitIInv, Inductive, PTL DEF Spec

(* The token and the answers have their types; an operation that was not    *)
(* cancelled has stopped watching when it answers, and an error answer has  *)
(* no body (forward.rs, both forwarding functions).                        *)
THEOREM TypeCorrect == Spec => []TypeOK
<1>1. IInv => TypeOK
  BY DEF IInv, TokenInv, AnswersOK, TypeOK
<1> QED
  BY <1>1, Invariance, PTL

(* The order of the two steps on either side suffices: no operation waits   *)
(* for a notification that has gone by (scheduler.rs cancel, cancelled).    *)
THEOREM NoneMissed == Spec => []NoMissedCancel
<1>1. IInv => NoMissedCancel
  BY DEF IInv, TokenInv, TokenTypeOK, NotifierOK, WatchersOK, NoMissedCancel
<1> QED
  BY <1>1, Invariance, PTL

(* cancelled() returns only if cancel() was called.                        *)
THEOREM NoneFalse == Spec => []NoFalseCancel
<1>1. IInv => NoFalseCancel
  BY DEF IInv, TokenInv, WatchersOK, NoFalseCancel
<1> QED
  BY <1>1, Invariance, PTL
-----------------------------------------------------------------------------
(* The body.  The parts of line l are at 3*l - 2, 3*l - 1 and 3*l.          *)

Size == 3 * Lines
Piece == [line : Nat, part : {"open", "lead", "rest"}, renamed : BOOLEAN, intact : BOOLEAN]

LEMMA TextAt ==
    /\ Size \in Nat \ {0} /\ DOMAIN Text = 1..Size /\ Text \in Seq(Piece) /\ Len(Text) = Size
    /\ \A i \in 1..Size :
          /\ Text[i].line \in 1..Lines
          /\ 3 * Text[i].line - 2 <= i /\ i <= 3 * Text[i].line
          /\ Text[i].part = "open" <=> i = 3 * Text[i].line - 2
          /\ Text[i].part = "lead" <=> i = 3 * Text[i].line - 1
          /\ Text[i].part = "rest" <=> i = 3 * Text[i].line
          /\ Text[i].renamed = FALSE /\ Text[i].intact = TRUE
          /\ Text[i] \in Piece
<1> USE ForwarderAssumption
<1>1. Size \in Nat \ {0} /\ DOMAIN Text = 1..Size
  BY DEF Size, Text
<1>2. ASSUME NEW i \in 1..Size
      PROVE  /\ Text[i].line \in 1..Lines
             /\ 3 * Text[i].line - 2 <= i /\ i <= 3 * Text[i].line
             /\ Text[i].part = "open" <=> i = 3 * Text[i].line - 2
             /\ Text[i].part = "lead" <=> i = 3 * Text[i].line - 1
             /\ Text[i].part = "rest" <=> i = 3 * Text[i].line
             /\ Text[i].renamed = FALSE /\ Text[i].intact = TRUE
             /\ Text[i] \in Piece
  <2> DEFINE l == 1 + ((i - 1) \div 3)
             k == 1 + ((i - 1) % 3)
  <2>1. Text[i] = [line |-> l, part |-> Parts[k], renamed |-> FALSE, intact |-> TRUE]
    BY DEF Text, Size
  <2>2. l \in 1..Lines /\ 3 * l - 2 <= i /\ i <= 3 * l
    BY DEF Size
  <2>3. k \in 1..3 /\ k = i - 3 * (l - 1)
    BY DEF Size
  <2>4. Parts[1] = "open" /\ Parts[2] = "lead" /\ Parts[3] = "rest"
    BY DEF Parts
  <2> HIDE DEF l, k
  <2>5. \/ k = 1 /\ i = 3 * l - 2 /\ Parts[k] = "open"
        \/ k = 2 /\ i = 3 * l - 1 /\ Parts[k] = "lead"
        \/ k = 3 /\ i = 3 * l /\ Parts[k] = "rest"
    BY <2>2, <2>3, <2>4
  <2> QED
    BY <2>1, <2>2, <2>5 DEF Piece
<1>3. Text \in [1..Size -> Piece]
  BY <1>1, <1>2 DEF Text, Size
<1>4. Text \in Seq(Piece)
  BY <1>1, <1>3, SeqDef
<1>5. Len(Text) \in Nat /\ 1..Len(Text) = 1..Size
  BY <1>1, <1>4, LenProperties
<1>6. Len(Text) = Size
  BY <1>1, <1>5
<1> QED
  BY <1>1, <1>2, <1>4, <1>6

(* What is sent of a chunk: its parts, of which those of a line that is all *)
(* there are renamed and not damaged.                                      *)
LEMMA ChunkSent ==
    ASSUME NEW m \in 0..Size, NEW n \in m..Size,
           NEW out, out = rewrite_model_alias(from_utf8_lossy(SubSeq(Text, m + 1, n)))
    PROVE  /\ out \in Seq(Piece) /\ Len(out) = n - m
           /\ \A i \in 1..(n - m) :
                 LET l == Text[m + i].line IN
                     /\ out[i].line = l /\ out[i].part = Text[m + i].part
                     /\ m < 3 * l - 2 /\ 3 * l <= n => out[i].renamed /\ out[i].intact
<1> DEFINE c == SubSeq(Text, m + 1, n)
           d == from_utf8_lossy(c)
<1>0. Size \in Nat /\ m \in Nat /\ n \in Nat /\ m <= n /\ n <= Size
  BY TextAt
<1>1. /\ c \in Seq(Piece) /\ Len(c) = n - m /\ DOMAIN c = 1..(n - m)
      /\ \A i \in 1..(n - m) : c[i] = Text[m + i] /\ m + i \in 1..Size
  <2>1. \A i \in (m + 1)..n : i \in 1..Size /\ Text[i] \in Piece
    BY <1>0, TextAt
  <2>2. /\ c \in Seq(Piece) /\ Len(c) = IF m + 1 <= n THEN n - (m + 1) + 1 ELSE 0
        /\ \A i \in 1..(n - (m + 1) + 1) : c[i] = Text[m + 1 + i - 1]
    BY <1>0, <2>1, SubSeqProperties
  <2>3. Len(c) = n - m /\ n - (m + 1) + 1 = n - m
    BY <1>0, <2>2
  <2>4. \A i \in 1..(n - m) : m + 1 + i - 1 = m + i /\ m + i \in 1..Size
    BY <1>0
  <2> QED
    BY <2>2, <2>3, <2>4, LenProperties
<1> HIDE DEF c
<1>2. DOMAIN d = 1..(n - m) /\ \A i \in 1..(n - m) :
        d[i] = [c[i] EXCEPT !.intact = /\ c[i].part = "lead" => i < Len(c)
                                       /\ c[i].part = "rest" => i > 1]
  BY <1>1 DEF from_utf8_lossy
<1>3. \A i \in 1..(n - m) :
        /\ d[i] \in Piece /\ d[i].line = c[i].line /\ d[i].part = c[i].part
        /\ d[i].intact <=> (c[i].part = "lead" => i < n - m) /\ (c[i].part = "rest" => i > 1)
  <2> SUFFICES ASSUME NEW i \in 1..(n - m)
               PROVE  /\ d[i] \in Piece /\ d[i].line = c[i].line /\ d[i].part = c[i].part
                      /\ d[i].intact <=> (c[i].part = "lead" => i < n - m)
                                         /\ (c[i].part = "rest" => i > 1)
    OBVIOUS
  <2> DEFINE b == (c[i].part = "lead" => i < n - m) /\ (c[i].part = "rest" => i > 1)
  <2>1. c[i] \in Piece
    BY <1>1, TextAt
  <2>2. d[i] = [c[i] EXCEPT !.intact = b]
    BY <1>1, <1>2
  <2>3. b \in BOOLEAN
    OBVIOUS
  <2> HIDE DEF b
  <2>4. d[i] \in Piece /\ d[i].line = c[i].line /\ d[i].part = c[i].part /\ d[i].intact = b
    BY <2>1, <2>2, <2>3 DEF Piece
  <2> QED
    BY <2>4 DEF b
<1> HIDE DEF d
<1>4. DOMAIN out = 1..(n - m) /\ \A i \in 1..(n - m) :
        out[i] = [d[i] EXCEPT !.renamed = WholeLine(d, d[i].line)]
  BY <1>2 DEF rewrite_model_alias, c, d
<1>5. \A i \in 1..(n - m) :
        /\ out[i] \in Piece /\ out[i].line = c[i].line /\ out[i].part = c[i].part
        /\ out[i].intact = d[i].intact
        /\ out[i].renamed <=> WholeLine(d, d[i].line)
  <2> SUFFICES ASSUME NEW i \in 1..(n - m)
               PROVE  /\ out[i] \in Piece /\ out[i].line = c[i].line /\ out[i].part = c[i].part
                      /\ out[i].intact = d[i].intact
                      /\ out[i].renamed <=> WholeLine(d, d[i].line)
    OBVIOUS
  <2> DEFINE b == WholeLine(d, d[i].line)
  <2>1. d[i] \in Piece /\ d[i].line = c[i].line /\ d[i].part = c[i].part
    BY <1>3
  <2>2. out[i] = [d[i] EXCEPT !.renamed = b]
    BY <1>4
  <2>3. b \in BOOLEAN
    BY DEF WholeLine
  <2> HIDE DEF b
  <2>4. /\ out[i] \in Piece /\ out[i].line = d[i].line /\ out[i].part = d[i].part
        /\ out[i].intact = d[i].intact /\ out[i].renamed = b
    BY <2>1, <2>2, <2>3 DEF Piece
  <2> QED
    BY <2>1, <2>4 DEF b
<1>6. out \in Seq(Piece) /\ Len(out) = n - m
  <2>1. out \in [1..(n - m) -> Piece]
    BY <1>4, <1>5 DEF rewrite_model_alias
  <2> QED
    BY <1>0, <2>1, SeqDef
<1>7. ASSUME NEW i \in 1..(n - m), NEW l, l = Text[m + i].line, m < 3 * l - 2, 3 * l <= n
      PROVE  out[i].renamed /\ out[i].intact
  <2>1. /\ l \in 1..Lines /\ m + i \in 1..Size
        /\ 3 * l - 2 <= m + i /\ m + i <= 3 * l
    BY <1>1, <1>7, TextAt
  <2>2. \A j \in {3 * l - 2, 3 * l - 1, 3 * l} : j - m \in 1..(n - m) /\ j \in 1..Size
    BY <1>0, <1>7, <2>1
  <2>3. \A j \in {3 * l - 2, 3 * l - 1, 3 * l} :
          d[j - m].line = Text[j].line /\ d[j - m].part = Text[j].part
    <3> SUFFICES ASSUME NEW j \in {3 * l - 2, 3 * l - 1, 3 * l}
                 PROVE  d[j - m].line = Text[j].line /\ d[j - m].part = Text[j].part
      OBVIOUS
    <3> DEFINE x == j - m
    <3>1. x \in 1..(n - m) /\ m + x = j
      BY <1>0, <2>1, <2>2
    <3> HIDE DEF x
    <3>2. c[x] = Text[j] /\ d[x].line = c[x].line /\ d[x].part = c[x].part
      BY <1>1, <1>3, <3>1
    <3> QED
      BY <3>2 DEF x
  <2>4. ASSUME NEW j \in 1..Size, 3 * l - 2 <= j, j <= 3 * l PROVE Text[j].line = l
    <3>1. Text[j].line \in Nat /\ 3 * Text[j].line - 2 <= j /\ j <= 3 * Text[j].line
      BY TextAt
    <3> QED
      BY <2>1, <2>4, <3>1
  <2>5. WholeLine(d, l)
    <3> DEFINE at == {j \in DOMAIN d : d[j].line = l}
    <3>1. \A j \in at : d[j].part \in {"open", "lead", "rest"}
      BY <1>2, <1>3 DEF Piece
    <3>2. /\ 3 * l - 2 - m \in at /\ d[3 * l - 2 - m].part = "open"
          /\ 3 * l - 1 - m \in at /\ d[3 * l - 1 - m].part = "lead"
          /\ 3 * l - m \in at /\ d[3 * l - m].part = "rest"
      <4>1. /\ Text[3 * l - 2].part = "open" /\ Text[3 * l - 2].line = l
            /\ Text[3 * l - 1].part = "lead" /\ Text[3 * l - 1].line = l
            /\ Text[3 * l].part = "rest" /\ Text[3 * l].line = l
        BY <2>1, <2>2, <2>4, TextAt
      <4> QED
        BY <1>2, <2>2, <2>3, <4>1
    <3> HIDE DEF at
    <3>3. {d[j].part : j \in at} = {"open", "lead", "rest"}
      BY <3>1, <3>2
    <3> QED
      BY <3>3 DEF WholeLine, at
  <2>6. out[i].renamed
    BY <1>1, <1>3, <1>5, <1>7, <2>5
  <2>7. out[i].intact
    <3>1. c[i].part = "lead" => i < n - m
      BY <1>0, <1>1, <1>7, <2>1, TextAt
    <3>2. c[i].part = "rest" => i > 1
      BY <1>0, <1>1, <1>7, <2>1, TextAt
    <3> QED
      BY <1>3, <1>5, <3>1, <3>2
  <2> QED
    BY <2>6, <2>7
<1> QED
  BY <1>1, <1>5, <1>6, <1>7

-----------------------------------------------------------------------------
(* What is known of the body between chunks: it is the text so far, and     *)
(* each line that is all there was renamed, or has a cut in it.            *)

Cut(w, l) == \E k \in cuts[w] : 3 * l - 2 <= k /\ k < 3 * l

BodyAt(w) ==
    /\ sent[w] \in Seq(Piece) /\ Len(sent[w]) <= Size
    /\ cuts[w] \subseteq Nat
    /\ \A i \in 1..Len(sent[w]) :
          /\ sent[w][i].line = Text[i].line /\ sent[w][i].part = Text[i].part
          /\ 3 * Text[i].line <= Len(sent[w]) =>
                (sent[w][i].renamed /\ sent[w][i].intact) \/ Cut(w, Text[i].line)

EndsWhole(w) ==
    /\ answer[w] = "reading" => w \notin Streams
    /\ answer[w] = "Ok" => Len(sent[w]) \in {0, Size} /\ (w \in Streams => Len(sent[w]) = Size)

BodyOK ==
    /\ sent = [w \in Watchers |-> sent[w]] /\ cuts = [w \in Watchers |-> cuts[w]]
    /\ \A w \in Watchers : BodyAt(w) /\ EndsWhole(w)

LEMMA InitBodyOK == Init => BodyOK
<1> SUFFICES ASSUME Init PROVE BodyOK
  OBVIOUS
<1>1. \A w \in Watchers : sent[w] = <<>> /\ cuts[w] = {} /\ answer[w] = "none"
  BY DEF Init
<1>2. <<>> \in Seq(Piece) /\ Len(<<>>) = 0 /\ Size \in Nat
  BY EmptySeq, TextAt
<1>3. ASSUME NEW w \in Watchers PROVE BodyAt(w) /\ EndsWhole(w)
  <2>1. sent[w] \in Seq(Piece) /\ Len(sent[w]) = 0 /\ cuts[w] = {} /\ answer[w] = "none"
    BY <1>1, <1>2
  <2>2. 1..Len(sent[w]) = {} /\ Len(sent[w]) <= Size
    BY <1>2, <2>1
  <2>3. BodyAt(w)
    BY <2>1, <2>2 DEF BodyAt
  <2> QED
    BY <2>1, <2>3 DEF EndsWhole
<1> QED
  BY <1>3 DEF BodyOK, Init

(* A chunk that starts where the last one ended.                           *)
LEMMA ForwardKeeps ==
    ASSUME BodyOK, NEW w \in Watchers, NEW n \in Len(sent[w])..Size,
           Forward(w, SubSeq(Text, Len(sent[w]) + 1, n))
    PROVE  BodyAt(w)' /\ Len(sent'[w]) = n
<1> DEFINE m == Len(sent[w])
           out == rewrite_model_alias(from_utf8_lossy(SubSeq(Text, m + 1, n)))
<1>1. sent[w] \in Seq(Piece) /\ m \in 0..Size /\ n \in m..Size /\ n \in Nat
  BY TextAt, LenProperties DEF BodyOK, BodyAt
<1>2. /\ sent'[w] = sent[w] \o out
      /\ cuts'[w] = cuts[w] \cup {m}
  BY DEF Forward, BodyOK
<1>3. /\ out \in Seq(Piece) /\ Len(out) = n - m
      /\ \A i \in 1..(n - m) :
            LET l == Text[m + i].line IN
                /\ out[i].line = l /\ out[i].part = Text[m + i].part
                /\ m < 3 * l - 2 /\ 3 * l <= n => out[i].renamed /\ out[i].intact
  BY <1>1, ChunkSent
<1> HIDE DEF m, out
<1>4. /\ sent'[w] \in Seq(Piece) /\ Len(sent'[w]) = n
      /\ \A i \in 1..n : sent'[w][i] = IF i <= m THEN sent[w][i] ELSE out[i - m]
  <2>1. m = Len(sent[w])
    BY DEF m
  <2>2. /\ sent[w] \o out \in Seq(Piece) /\ Len(sent[w] \o out) = m + Len(out)
        /\ \A i \in 1..m + Len(out) :
              (sent[w] \o out)[i] = IF i <= m THEN sent[w][i] ELSE out[i - m]
    BY <1>1, <1>3, <2>1, ConcatProperties
  <2>3. m + Len(out) = n
    BY <1>1, <1>3
  <2> QED
    BY <1>2, <2>2, <2>3
<1>5. ASSUME NEW i \in 1..n
      PROVE  /\ sent'[w][i].line = Text[i].line /\ sent'[w][i].part = Text[i].part
             /\ 3 * Text[i].line <= n =>
                  \/ sent'[w][i].renamed /\ sent'[w][i].intact
                  \/ \E k \in cuts'[w] : 3 * Text[i].line - 2 <= k /\ k < 3 * Text[i].line
  <2> DEFINE l == Text[i].line
  <2>0. i \in 1..Size /\ l \in Nat /\ 3 * l - 2 <= i /\ i <= 3 * l
    BY <1>1, TextAt
  <2>1. CASE i <= m
    <3>1. /\ sent'[w][i] = sent[w][i]
          /\ sent[w][i].line = l /\ sent[w][i].part = Text[i].part
          /\ 3 * l <= m => (sent[w][i].renamed /\ sent[w][i].intact) \/ Cut(w, l)
      BY <1>1, <1>4, <2>1 DEF BodyOK, BodyAt, m
    <3>2. CASE 3 * l <= m
      BY <1>2, <3>1, <3>2 DEF Cut
    <3>3. CASE 3 * l > m
      <4>1. m \in cuts'[w] /\ 3 * l - 2 <= m /\ m < 3 * l
        BY <1>1, <1>2, <2>0, <2>1, <3>3
      <4> QED
        BY <3>1, <4>1
    <3> QED
      BY <1>1, <2>0, <3>2, <3>3
  <2>2. CASE i > m
    <3>1. i - m \in 1..(n - m) /\ m + (i - m) = i
      BY <1>1, <2>2
    <3>2. /\ sent'[w][i] = out[i - m]
          /\ out[i - m].line = l /\ out[i - m].part = Text[i].part
          /\ m < 3 * l - 2 /\ 3 * l <= n => out[i - m].renamed /\ out[i - m].intact
      BY <1>1, <1>3, <1>4, <2>2, <3>1
    <3>3. CASE m < 3 * l - 2
      BY <3>2, <3>3
    <3>4. CASE 3 * l - 2 <= m
      <4>1. m \in cuts'[w] /\ 3 * l - 2 <= m /\ m < 3 * l
        BY <1>1, <1>2, <2>0, <2>2, <3>4
      <4> QED
        BY <3>2, <4>1
    <3> QED
      BY <1>1, <2>0, <3>3, <3>4
  <2> QED
    BY <1>1, <2>0, <2>1, <2>2
<1>6. cuts'[w] \subseteq Nat
  BY <1>1, <1>2 DEF BodyOK, BodyAt
<1> QED
  BY <1>1, <1>4, <1>5, <1>6 DEF BodyAt, Cut

(* A step of one operation leaves the bodies of the others alone.          *)
LEMMA BodyKeeps ==
    ASSUME IInv, BodyOK, NEW w \in Watchers, Operation(w)
    PROVE  BodyOK'
<1> USE DEF IInv
<1>1. /\ sent' = [v \in Watchers |-> sent'[v]] /\ cuts' = [v \in Watchers |-> cuts'[v]]
      /\ answer' \in [Watchers -> Answers]
      /\ \A v \in Watchers \ {w} :
            sent'[v] = sent[v] /\ cuts'[v] = cuts[v] /\ answer'[v] = answer[v]
  <2>1. IInv'
    BY OperationKeeps
  <2>2. \/ UNCHANGED body
        \/ \E chunk : Forward(w, chunk)
    BY DEF Operation, Watch, ReturnCancelled, SendFails, HeadArrives, RefusalArrives,
           ReadText, NextChunk, BodyBreaks, BodyEnds
  <2>3. UNCHANGED answer \/ \E a : AnswerWith(w, a)
    BY DEF Operation, Watch, ReturnCancelled, SendFails, HeadArrives, RefusalArrives,
           ReadText, NextChunk, BodyBreaks, PassError, BodyEnds
  <2>4. /\ sent' = [v \in Watchers |-> sent'[v]] /\ cuts' = [v \in Watchers |-> cuts'[v]]
        /\ \A v \in Watchers \ {w} : sent'[v] = sent[v] /\ cuts'[v] = cuts[v]
    BY <2>2 DEF body, Forward, BodyOK
  <2>5. \A v \in Watchers \ {w} : answer'[v] = answer[v]
    BY <2>3 DEF AnswerWith, AnswersOK
  <2> QED
    BY <2>1, <2>4, <2>5 DEF AnswersOK
<1>2. \A v \in Watchers \ {w} : BodyAt(v)' /\ EndsWhole(v)'
  BY <1>1 DEF BodyOK, BodyAt, Cut, EndsWhole
<1>3. BodyAt(w) /\ EndsWhole(w)
  BY DEF BodyOK
<1>4. ASSUME UNCHANGED body PROVE BodyAt(w)'
  BY <1>3, <1>4 DEF body, BodyAt, Cut
<1> SUFFICES BodyAt(w)' /\ EndsWhole(w)'
  BY <1>1, <1>2 DEF BodyOK
<1>5. CASE Watch(w)
  BY <1>3, <1>4, <1>5 DEF Watch, EndsWhole, body
<1>6. CASE ReturnCancelled(w) \/ SendFails(w) \/ RefusalArrives(w)
  <2>1. UNCHANGED body /\ answer'[w] \notin {"reading", "Ok"}
    BY <1>6 DEF ReturnCancelled, SendFails, RefusalArrives, AnswerWith, AnswersOK
  <2> QED
    BY <1>4, <2>1 DEF EndsWhole
<1>7. CASE HeadArrives(w)
  <2>1. UNCHANGED body /\ answer'[w] = IF w \in Streams THEN "streaming" ELSE "reading"
    BY <1>7 DEF HeadArrives, AnswerWith, AnswersOK
  <2> QED
    BY <1>4, <2>1 DEF EndsWhole
<1>8. CASE ReadText(w)
  <2>1. w \notin Streams /\ answer'[w] = "Ok" /\ sent[w] = <<>> /\ Len(sent[w]) = 0
    BY <1>3, <1>8, EmptySeq DEF ReadText, AnswerWith, AnswersOK, EndsWhole
  <2>2. PICK n \in {0, Size} : Forward(w, SubSeq(Text, 1, n))
    BY <1>8, TextAt DEF ReadText
  <2>3. n \in Len(sent[w])..Size /\ Len(sent[w]) + 1 = 1
    BY <2>1, TextAt
  <2>4. BodyAt(w)' /\ Len(sent'[w]) = n
    BY <2>2, <2>3, ForwardKeeps
  <2> QED
    BY <2>1, <2>4 DEF EndsWhole
<1>9. CASE NextChunk(w)
  <2>1. PICK n \in (Len(sent[w]) + 1)..Size : Forward(w, SubSeq(Text, Len(sent[w]) + 1, n))
    BY <1>9, TextAt DEF NextChunk
  <2>2. n \in Len(sent[w])..Size
    BY <1>3, TextAt, LenProperties DEF BodyAt
  <2>3. BodyAt(w)'
    BY <2>1, <2>2, ForwardKeeps
  <2>4. answer'[w] = "streaming"
    BY <1>9 DEF NextChunk
  <2> QED
    BY <2>3, <2>4 DEF EndsWhole
<1>10. CASE BodyBreaks(w)
  <2>1. UNCHANGED body /\ answer'[w] = "Broken"
    BY <1>10 DEF BodyBreaks, PassError, AnswerWith, AnswersOK
  <2> QED
    BY <1>4, <2>1 DEF EndsWhole
<1>11. CASE BodyEnds(w)
  <2>1. UNCHANGED body /\ answer'[w] = "Ok" /\ Len(sent[w]) = Size
    BY <1>11, TextAt DEF BodyEnds, AnswerWith, AnswersOK
  <2> QED
    BY <1>4, <2>1 DEF EndsWhole, body
<1> QED
  BY <1>5, <1>6, <1>7, <1>8, <1>9, <1>10, <1>11 DEF Operation

(* What was sent of a body is the text, in order, with every line that came *)
(* whole renamed, and Ok is answered where it is complete, or where a plain *)
(* body could not be read (forward.rs, both forwarding functions).          *)
THEOREM BodyInvariance == Spec => []BodyOK
<1>1. IInv /\ BodyOK /\ [Next]_vars => BodyOK'
  <2> SUFFICES ASSUME IInv, BodyOK, [Next]_vars PROVE BodyOK'
    OBVIOUS
  <2>1. CASE UNCHANGED <<answer, body>>
    BY <2>1 DEF body, BodyOK, BodyAt, Cut, EndsWhole
  <2>2. CASE \E k \in Cancellers : Cancel(k)
    BY <2>1, <2>2 DEF Cancel
  <2>3. CASE \E w \in Watchers : Operation(w)
    BY <2>3, BodyKeeps
  <2> QED
    BY <2>1, <2>2, <2>3 DEF Next, vars
<1> QED
  BY InitBodyOK, <1>1, Invariance, PTL DEF Spec

(* What a client has is the upstream's text so far, in order; a clean end   *)
(* of a stream comes after all of it, and one of a whole body after all or  *)
(* nothing of it (forward.rs, both forwarding functions).                  *)
THEOREM CleanEnds == Spec => []CleanEndIsComplete
<1>1. BodyOK => CleanEndIsComplete
  <2> SUFFICES ASSUME BodyOK, NEW w \in Watchers
               PROVE  /\ Plain(sent[w]) = SubSeq(Text, 1, Len(sent[w]))
                      /\ answer[w] = "Ok" => Len(sent[w]) \in {0, Len(Text)}
                      /\ answer[w] = "Ok" /\ w \in Streams => Len(sent[w]) = Len(Text)
    BY DEF CleanEndIsComplete
  <2>1. BodyAt(w) /\ EndsWhole(w)
    BY DEF BodyOK
  <2> DEFINE n == Len(sent[w])
             s == SubSeq(Text, 1, n)
  <2>2. /\ n \in Nat /\ n <= Size /\ Size \in Nat
        /\ sent[w] \in [1..n -> Piece] /\ DOMAIN sent[w] = 1..n
    BY <2>1, TextAt, LenProperties DEF BodyAt
  <2>3. /\ s \in Seq(Piece) /\ Len(s) = n
        /\ \A i \in 1..n : s[i] = Text[i]
    <3>1. \A i \in 1..n : Text[i] \in Piece
      BY <2>2, TextAt
    <3>2. /\ s \in Seq(Piece) /\ Len(s) = IF 1 <= n THEN n - 1 + 1 ELSE 0
          /\ \A i \in 1..(n - 1 + 1) : s[i] = Text[1 + i - 1]
      BY <2>2, <3>1, SubSeqProperties
    <3> QED
      BY <2>2, <3>2
  <2>4. s = [i \in 1..n |-> s[i]]
    BY <2>3, LenProperties
  <2>5. Plain(sent[w]) = [i \in 1..n |-> [sent[w][i] EXCEPT !.renamed = FALSE, !.intact = TRUE]]
    BY <2>2 DEF Plain
  <2>6. ASSUME NEW i \in 1..n
        PROVE  [sent[w][i] EXCEPT !.renamed = FALSE, !.intact = TRUE] = s[i]
    <3>1. sent[w][i] \in Piece /\ Text[i] \in Piece /\ s[i] = Text[i]
      BY <2>2, <2>3, TextAt
    <3>2. sent[w][i].line = Text[i].line /\ sent[w][i].part = Text[i].part
      BY <2>1 DEF BodyAt
    <3>3. Text[i].renamed = FALSE /\ Text[i].intact = TRUE
      BY <2>2, TextAt
    <3> QED
      BY <3>1, <3>2, <3>3 DEF Piece
  <2> HIDE DEF n, s
  <2>7. Plain(sent[w]) = s
    BY <2>4, <2>5, <2>6
  <2> QED
    BY <2>1, <2>7, TextAt DEF EndsWhole, n, s
<1> QED
  BY <1>1, BodyInvariance, PTL

(* However the body was cut, every line that came whole in one chunk names  *)
(* the proxy's model and is not damaged (forward.rs rewrite_model_alias).   *)
THEOREM Renamed == Spec => []RenamedUnlessCut
<1>1. BodyOK => RenamedUnlessCut
  <2> SUFFICES ASSUME BodyOK, NEW w \in Watchers, NEW i \in DOMAIN sent[w],
                      NEW j \in DOMAIN sent[w],
                      sent[w][j].line = sent[w][i].line, sent[w][j].part = "rest"
               PROVE  \/ sent[w][i].renamed /\ sent[w][i].intact
                      \/ CutThrough(w, sent[w][i].line)
    BY DEF RenamedUnlessCut
  <2>1. BodyAt(w)
    BY DEF BodyOK
  <2> DEFINE n == Len(sent[w])
             l == Text[i].line
  <2>2. n \in Nat /\ n <= Size /\ Size \in Nat /\ DOMAIN sent[w] = 1..n
    BY <2>1, TextAt, LenProperties DEF BodyAt
  <2>3. \A x \in 1..n : x \in 1..Size /\ sent[w][x].line = Text[x].line /\ sent[w][x].part = Text[x].part
    BY <2>1, <2>2 DEF BodyAt
  <2>4. 3 * l <= n /\ l \in Nat /\ l >= 1
    <3>1. i \in 1..n /\ j \in 1..n
      BY <2>2
    <3>2. i \in 1..Size /\ j \in 1..Size /\ Text[j].line = l /\ Text[j].part = "rest"
      BY <2>3, <3>1
    <3>3. j = 3 * l /\ l \in 1..Lines
      BY <3>2, TextAt
    <3> QED
      BY <2>2, <3>1, <3>3
  <2>5. (sent[w][i].renamed /\ sent[w][i].intact) \/ Cut(w, l)
    BY <2>1, <2>2, <2>4 DEF BodyAt
  <2>6. ASSUME Cut(w, l) PROVE CutThrough(w, l)
    <3>1. PICK k \in cuts[w] : 3 * l - 2 <= k /\ k < 3 * l
      BY <2>6 DEF Cut
    <3>2. k \in Nat /\ k \in 1..n
      <4>1. k \in Nat
        BY <2>1 DEF BodyAt
      <4> HIDE DEF n, l
      <4> QED
        BY <2>2, <2>4, <3>1, <4>1
    <3>0. k \in 1..Size
      BY <2>3, <3>2
    <3>3. /\ Text[k].line \in Nat /\ 3 * Text[k].line - 2 <= k /\ k <= 3 * Text[k].line
          /\ Text[k].part = "rest" => k = 3 * Text[k].line
      BY <3>0, TextAt
    <3>4. Text[k].line = l
      BY <2>4, <3>1, <3>2, <3>3
    <3>5. sent[w][k].line = l /\ sent[w][k].part # "rest"
      BY <2>3, <3>1, <3>2, <3>3, <3>4
    <3> QED
      BY <2>2, <3>1, <3>2, <3>5 DEF CutThrough
  <2>7. sent[w][i].line = l
    BY <2>2, <2>3
  <2> QED
    BY <2>5, <2>6, <2>7
<1> QED
  BY <1>1, BodyInvariance, PTL
=============================================================================
