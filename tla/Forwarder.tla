------------------------------- MODULE Forwarder -------------------------------
(***************************************************************************)
(* Forwarding one request to llama-server (src/forward.rs): each operation *)
(* selects between the cancellation token and the head of the upstream's   *)
(* response, classifies what came of it, and passes the body on with the   *)
(* model renamed, in one piece or chunk by chunk as it streams.            *)
(*                                                                         *)
(* The body is a sequence of lines, each one server-sent event, cut by the *)
(* network into chunks of any length.  A line has three parts: up to the   *)
(* first byte of a character of several bytes ("open", with the model's    *)
(* name), that byte ("lead"), and the rest of the line ("rest").           *)
(***************************************************************************)
EXTENDS RequestCancellation, Integers, Sequences

CONSTANTS Streams,      \* the operations that are forward_streaming; the others read the body whole
          Embeddings,   \* the operations that post to /v1/embeddings
          Lines         \* how many lines the upstream sends

ASSUME ForwarderAssumption ==
    /\ Streams \subseteq Watchers
    /\ Embeddings \subseteq Watchers \ Streams
    /\ Lines \in Nat \ {0}

VARIABLES
    answer,     \* what each operation answers its client, so far
    sent,       \* what was sent to its client of the body
    cuts        \* history: how much had been sent when each chunk came

body == <<sent, cuts>>
vars == <<token, answer, body>>

ForwardError == {"UpstreamUnreachable", "UpstreamError", "Cancelled", "EmbeddingsUnsupported"}
Answers == {"none", "reading", "streaming", "Ok", "Broken"} \cup ForwardError

Parts == <<"open", "lead", "rest">>
Text == [i \in 1..(3 * Lines) |->
           [line |-> 1 + ((i - 1) \div 3), part |-> Parts[1 + ((i - 1) % 3)],
            renamed |-> FALSE, intact |-> TRUE]]

Init ==
    /\ TokenInit
    /\ answer = [w \in Watchers |-> "none"]
    /\ sent = [w \in Watchers |-> <<>>]
    /\ cuts = [w \in Watchers |-> {}]

AnswerWith(w, a) == answer' = [answer EXCEPT ![w] = a]

-----------------------------------------------------------------------------
(* The body *)

(* A character whose bytes lie in two chunks is replaced in both.          *)
from_utf8_lossy(chunk) ==
    [i \in DOMAIN chunk |->
       [chunk[i] EXCEPT !.intact = /\ chunk[i].part = "lead" => i < Len(chunk)
                                   /\ chunk[i].part = "rest" => i > 1]]

(* A line is renamed where it is a JSON value by itself: all of it is there. *)
WholeLine(chunk, l) == {chunk[i].part : i \in {j \in DOMAIN chunk : chunk[j].line = l}}
                         = {"open", "lead", "rest"}
RenameFirstLine(chunk) ==
    [i \in DOMAIN chunk |->
       [chunk[i] EXCEPT !.renamed = WholeLine(chunk, chunk[i].line) /\ chunk[i].line = chunk[1].line]]
rewrite_model_alias(chunk) ==
    [i \in DOMAIN chunk |-> [chunk[i] EXCEPT !.renamed = WholeLine(chunk, chunk[i].line)]]

Forward(w, chunk) ==
    /\ sent' = [sent EXCEPT ![w] = @ \o rewrite_model_alias(from_utf8_lossy(chunk))]
    /\ cuts' = [cuts EXCEPT ![w] = @ \cup {Len(sent[w])}]

-----------------------------------------------------------------------------
(* Up to the head of the response: the select.  Its branches may both be   *)
(* ready, and then either is taken.                                        *)

Watch(w) == WatchStep(w) /\ UNCHANGED <<answer, body>>

Cancel(k) == CancelStep(k) /\ UNCHANGED <<answer, body>>

ReturnCancelled(w) ==
    /\ pc[w] = "returned"
    /\ answer[w] = "none"
    /\ AnswerWith(w, "Cancelled")
    /\ UNCHANGED <<token, body>>

(* No connection or no head in 300 seconds, and any other failure.         *)
SendFails(w) ==
    /\ Unwatch(w)
    /\ \E e \in {"UpstreamUnreachable", "UpstreamError"} : AnswerWith(w, e)
    /\ UNCHANGED body

HeadArrives(w) ==
    /\ Unwatch(w)
    /\ AnswerWith(w, IF w \in Streams THEN "streaming" ELSE "reading")
    /\ UNCHANGED body

(* A status other than success; only embeddings tell a 404 from the rest.  *)
RefusalArrives(w) ==
    /\ Unwatch(w)
    /\ \/ AnswerWith(w, "UpstreamError")
       \/ w \in Embeddings /\ AnswerWith(w, "EmbeddingsUnsupported")
    /\ UNCHANGED body

-----------------------------------------------------------------------------
(* The body.  The token is not watched any more. *)

(* A body that cannot be read to its end is taken for an empty one.        *)
ReadText(w) ==
    /\ answer[w] = "reading"
    /\ \E n \in {0, Len(Text)} : Forward(w, SubSeq(Text, 1, n))
    /\ AnswerWith(w, "Ok")
    /\ UNCHANGED token

NextChunk(w) ==
    /\ answer[w] = "streaming"
    /\ \E n \in (Len(sent[w]) + 1)..Len(Text) : Forward(w, SubSeq(Text, Len(sent[w]) + 1, n))
    /\ UNCHANGED <<token, answer>>

EndQuietly(w) == AnswerWith(w, "Ok")
PassError(w) == AnswerWith(w, "Broken")

BodyBreaks(w) ==
    /\ answer[w] = "streaming"
    /\ PassError(w)
    /\ UNCHANGED <<token, body>>

BodyEnds(w) ==
    /\ answer[w] = "streaming"
    /\ Len(sent[w]) = Len(Text)
    /\ AnswerWith(w, "Ok")
    /\ UNCHANGED <<token, body>>

-----------------------------------------------------------------------------
Operation(w) ==
    \/ Watch(w) \/ ReturnCancelled(w)
    \/ SendFails(w) \/ HeadArrives(w) \/ RefusalArrives(w)
    \/ ReadText(w) \/ NextChunk(w) \/ BodyBreaks(w) \/ BodyEnds(w)

Next == (\E k \in Cancellers : Cancel(k)) \/ (\E w \in Watchers : Operation(w))

(* Every future that is ready is polled, and a cancel() that began ends;   *)
(* whether anybody cancels, and whether the upstream answers, is left open.*)
Spec == /\ Init /\ [][Next]_vars
        /\ \A k \in Cancellers : WF_vars(Notify(k) /\ UNCHANGED <<answer, body>>)
        /\ \A w \in Watchers : WF_vars(Watch(w))

-----------------------------------------------------------------------------
(* Properties *)

TypeOK ==
    /\ TokenTypeOK
    /\ answer \in [Watchers -> Answers]
    /\ \A w \in Watchers : answer[w] \in ForwardError => sent[w] = <<>>
    /\ \A w \in Watchers : answer[w] \notin {"none", "Cancelled"} => pc[w] = "dropped"

(* A client that sees a clean end of a stream has all of it, in order; a    *)
(* body cut short by the upstream ends in an error it can see.  A response  *)
(* that is not streamed may be empty instead, since a failure to read it is *)
(* dropped (forward.rs forward_streaming, forward_non_streaming).           *)
Plain(chunk) == [i \in DOMAIN chunk |-> [chunk[i] EXCEPT !.renamed = FALSE, !.intact = TRUE]]
CleanEndIsComplete ==
    \A w \in Watchers :
        /\ Plain(sent[w]) = SubSeq(Text, 1, Len(sent[w]))
        /\ answer[w] = "Ok" => Len(sent[w]) \in {0, Len(Text)}
        /\ answer[w] = "Ok" /\ w \in Streams => Len(sent[w]) = Len(Text)

(* However the body was cut, the client reads the upstream's model name, or *)
(* a damaged character, only in a line that a cut went through; every other *)
(* line names the model of the proxy (forward.rs rewrite_model_alias).      *)
CutThrough(w, l) == \E i \in cuts[w] \cap DOMAIN sent[w] :
    sent[w][i].line = l /\ sent[w][i].part # "rest"
RenamedUnlessCut ==
    \A w \in Watchers : \A i \in DOMAIN sent[w] :
        LET x == sent[w][i] IN
            (\E j \in DOMAIN sent[w] : sent[w][j].line = x.line /\ sent[w][j].part = "rest") =>
                (x.renamed /\ x.intact) \/ CutThrough(w, x.line)
=============================================================================
