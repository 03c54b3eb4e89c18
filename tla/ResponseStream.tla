---------------------------- MODULE ResponseStream ----------------------------
(***************************************************************************)
(* One streamed response: stream_responses of src/server.cpp in the thread *)
(* of its connection, and the cancellation check it gives the batcher,     *)
(* which the batcher's worker runs between tokens and which writes         *)
(* keep-alive comments to the same socket.                                 *)
(*                                                                         *)
(* The batcher is as GenerationService promises: pieces reach the callback *)
(* in order, all of them before the result.  Text is a sequence of         *)
(* characters: "a" a whole one, "l" and "c" the two bytes of another, "k"  *)
(* a </think> and "m" the <tool_call> marker; "r" is the replacement.      *)
(*                                                                         *)
(* send_all writes a frame in two halves under the connection's mutex, so  *)
(* that a frame may be cut, and two frames mixed where the mutex fails.    *)
(*                                                                         *)
(* A definition whose comment begins with "Mutant" is a slip the code does *)
(* not make, for the property that would find it; no other one uses it.    *)
(***************************************************************************)
EXTENDS Naturals, FiniteSets, Sequences, SequencesExt

CONSTANTS
    Pieces,     \* texts of the tokens that may be sampled
    MaxPieces,  \* bound: max_output_tokens of the request
    MaxCalls,   \* bound: function calls parsed from one text
    MaxProbes   \* bound: keep-alive comments of one response

ASSUME StreamAssumption ==
    /\ Pieces \subseteq Seq({"a", "l", "c", "k", "m"}) \ {<<>>}
    /\ MaxPieces \in Nat \ {0} /\ MaxCalls \in Nat \ {0} /\ MaxProbes \in Nat

VARIABLES
    \* the connection
    sendMutex, \* Connection::send_mutex: "free" or its owner
    wire,      \* the half frames the peer has been sent
    peer,      \* open, stalled (no progress for 15 s), resumed or reset
    expired,   \* Connection::deadline has passed
    \* stream_responses
    toolsEnabled, cpc, outbox, then, sequence, messageStarted,
    toolMarkerSeen, streamedText, pendingText,
    \* the batcher, for this request
    wpc, pieces, generated, tokens, outcome, callbackFailed, probes

connVars  == <<sendMutex, wire>>
envVars   == <<peer, expired>>
sendVars  == <<cpc, outbox, then, sequence>>
textVars  == <<messageStarted, toolMarkerSeen, streamedText, pendingText>>
batchVars == <<wpc, pieces, generated, tokens, outcome, callbackFailed, probes>>
vars == <<connVars, envVars, toolsEnabled, sendVars, textVars, batchVars>>

-----------------------------------------------------------------------------
(***************************************************************************)
(* Text.                                                                   *)
(***************************************************************************)
Whole(s, i) ==
    CASE s[i] = "l" -> i < Len(s) /\ s[i + 1] = "c"
      [] s[i] = "c" -> i > 1 /\ s[i - 1] = "l"
      [] OTHER      -> TRUE

\* sanitize_utf8: a byte that is not part of a character is replaced.
Sanitized(s) == [i \in 1..Len(s) |-> IF Whole(s, i) THEN s[i] ELSE "r"]

\* scan_utf8: the length of the longest prefix of whole characters.
ValidPrefix(s) ==
    CHOOSE n \in 0..Len(s) :
      /\ \A i \in 1..n : Whole(SubSeq(s, 1, n), i)
      /\ \A k \in (n + 1)..Len(s) : \E i \in 1..k : ~Whole(SubSeq(s, 1, k), i)

\* Mutant: what was emitted stays in `pending`.
DrainedKeeping(s, final) == [deltas |-> <<s>>, rest |-> s]
\* drain_pending: the deltas it emits and the text it leaves for the next piece.
Drained(s, final) ==
    LET from[i \in 1..(Len(s) + 1)] ==
          LET text  == SubSeq(s, i, Len(s))
              n     == ValidPrefix(text)
              bad   == i + n
              valid == IF n = 0 THEN <<>> ELSE <<SubSeq(text, 1, n)>>
          IN CASE bad > Len(s) -> [deltas |-> valid, rest |-> <<>>]
               [] bad = Len(s) /\ s[bad] = "l" ->  \* incomplete
                    IF final THEN [deltas |-> valid \o <<<<"r">>>>, rest |-> <<>>]
                             ELSE [deltas |-> valid, rest |-> <<"l">>]
               [] OTHER -> [deltas |-> valid \o <<<<"r">>>> \o from[bad + 1].deltas,
                            rest |-> from[bad + 1].rest]
    IN from[1]

\* The position of the marker, or one past the end.
Marker(s) ==
    CHOOSE n \in 1..(Len(s) + 1) :
      /\ \A i \in 1..(n - 1) : s[i] # "m"
      /\ n <= Len(s) => s[n] = "m"
HasMarker(s) == Marker(s) <= Len(s)
BeforeMarker(s) == SubSeq(s, 1, Marker(s) - 1)

\* The text parse_tool_calls keeps: an open thought is closed before a call.
ParsedText(s) ==
    LET text == BeforeMarker(s) IN
    IF HasMarker(s) /\ text # <<>> /\ ~Contains(text, "k")
    THEN Append(text, "k") ELSE text

-----------------------------------------------------------------------------
(***************************************************************************)
(* Events.                                                                 *)
(***************************************************************************)
Event(name, text) == [event |-> name, text |-> text]
Plain(names) == [i \in 1..Len(names) |-> Event(names[i], <<>>)]
MessageStart == Plain(<<"item_added", "part_added">>)
Deltas(texts) == [i \in 1..Len(texts) |-> Event("delta", texts[i])]
MessageDone(text) ==
    <<Event("text_done", text), Event("part_done", text), Event("item_done", text)>>
FunctionCalls(n) ==
    LET names == <<"call_added", "arguments_delta", "arguments_done", "call_done">>
    IN Plain([i \in 1..(4 * n) |-> names[((i - 1) % 4) + 1]])
Terminal == {"completed", "incomplete", "error"}
Unnumbered == {"headers", "keepalive"}
Comment(name) == [event |-> name, text |-> <<>>, seq |-> 0]

Init ==
    /\ sendMutex = "free" /\ wire = <<>> /\ peer = "open" /\ expired = FALSE
    /\ toolsEnabled \in BOOLEAN
    /\ cpc = "send" /\ outbox = <<Comment("headers")>> /\ then = "begin"
    /\ sequence = 0
    /\ messageStarted = ~toolsEnabled /\ toolMarkerSeen = FALSE
    /\ streamedText = <<>> /\ pendingText = <<>>
    /\ wpc = "none" /\ pieces = <<>> /\ generated = <<>> /\ tokens = 0
    /\ outcome = [kind |-> "none"] /\ callbackFailed = FALSE /\ probes = 0

-----------------------------------------------------------------------------
(***************************************************************************)
(* send_all, by the thread of the connection.                              *)
(***************************************************************************)
Writable == peer \in {"open", "resumed"} /\ ~expired

\* Mutant: the sender does not look at the mutex.
NoMutex == TRUE
MutexFree == sendMutex = "free"

\* The events get the next sequence numbers and are sent one by one.
Emit(events, next) ==
    /\ outbox' = [i \in 1..Len(events) |->
         [event |-> events[i].event, text |-> events[i].text,
          seq |-> sequence + i - 1]]
    /\ sequence' = sequence + Len(events)
    /\ IF events = <<>> THEN cpc' = next /\ then' = then
                        ELSE cpc' = "send" /\ then' = next

SendHead ==
    /\ cpc = "send" /\ MutexFree /\ Writable
    /\ sendMutex' = "client"
    /\ wire' = Append(wire, <<Head(outbox), 1>>)
    /\ cpc' = "tail"
    /\ UNCHANGED <<envVars, toolsEnabled, outbox, then, sequence, textVars,
                   batchVars>>

SendTail ==
    /\ cpc = "tail" /\ Writable
    /\ sendMutex' = "free"
    /\ wire' = Append(wire, <<Head(outbox), 2>>)
    /\ outbox' = Tail(outbox)
    /\ cpc' = IF Len(outbox) = 1 THEN then ELSE "send"
    /\ UNCHANGED <<envVars, toolsEnabled, then, sequence, textVars, batchVars>>

\* SocketFailure, before any byte or within a frame: the response is given up.
\* Thrown by the token callback, it also tells the batcher.
SendFails ==
    /\ \/ cpc = "send" /\ MutexFree
       \/ cpc = "tail"
    /\ ~Writable
    /\ sendMutex' = "free"
    /\ cpc' = "returned"
    /\ callbackFailed' = (then = "generate" /\ wpc # "none")
    /\ UNCHANGED <<wire, envVars, toolsEnabled, outbox, then, sequence, textVars,
                   wpc, pieces, generated, tokens, outcome, probes>>

-----------------------------------------------------------------------------
(***************************************************************************)
(* stream_responses.                                                       *)
(***************************************************************************)
Begin ==
    /\ cpc = "begin"
    /\ Emit(Plain(<<"created", "in_progress">>)
              \o (IF toolsEnabled THEN <<>> ELSE MessageStart), "submit")
    /\ UNCHANGED <<connVars, envVars, toolsEnabled, textVars, batchVars>>

\* generate_from_prompt is entered.
Submit ==
    /\ cpc = "submit"
    /\ cpc' = "generate" /\ then' = "generate" /\ wpc' = "check"
    /\ UNCHANGED <<connVars, envVars, toolsEnabled, outbox, sequence, textVars,
                   pieces, generated, tokens, outcome, callbackFailed, probes>>

\* Mutant: message_started is not looked at.
OpeningAgain == MessageStart
Opening == IF messageStarted THEN <<>> ELSE MessageStart

\* Mutant: the marker is not searched for.
WholePiece(piece) == piece
VisiblePart(piece) == BeforeMarker(piece)

\* The two token callbacks.
Callback ==
    /\ cpc = "generate" /\ pieces # <<>>
    /\ pieces' = Tail(pieces)
    /\ LET piece == Head(pieces)
           visible == IF toolsEnabled THEN VisiblePart(piece) ELSE piece
           drained == Drained(pendingText \o visible, FALSE)
       IN IF toolMarkerSeen \/ visible = <<>>
          THEN /\ Emit(<<>>, "generate")
               /\ UNCHANGED <<messageStarted, streamedText, pendingText>>
          ELSE /\ Emit(Opening \o Deltas(drained.deltas), "generate")
               /\ messageStarted' = TRUE
               /\ streamedText' = streamedText \o visible
               /\ pendingText' = drained.rest
    /\ toolMarkerSeen' = (toolMarkerSeen
                            \/ (toolsEnabled /\ HasMarker(Head(pieces))))
    /\ UNCHANGED <<connVars, envVars, toolsEnabled, wpc, generated, tokens,
                   outcome, callbackFailed, probes>>

\* The result is there: what is pending is drained for good.
Result ==
    /\ cpc = "generate" /\ pieces = <<>> /\ outcome.kind = "value"
    /\ Emit(Deltas(Drained(pendingText, TRUE).deltas), "parse")
    /\ pendingText' = <<>>
    /\ UNCHANGED <<connVars, envVars, toolsEnabled, messageStarted,
                   toolMarkerSeen, streamedText, batchVars>>

Error == Emit(Plain(<<"error">>), "returned")

\* Mutant: the whole text is sent again after the streamed part.
AllText(text) == <<text>>
Unstreamed(text) ==
    IF Len(text) = Len(streamedText) THEN <<>>
    ELSE <<SubSeq(text, Len(streamedText) + 1, Len(text))>>

\* The rest of the events, once the result is parsed into a text and n calls.
Finish ==
    LET text == IF toolsEnabled THEN ParsedText(Sanitized(generated))
                ELSE Sanitized(generated)
        calls == IF toolsEnabled /\ HasMarker(generated) THEN 1..MaxCalls ELSE {0}
        terminal == IF outcome.reason = "length" THEN "incomplete" ELSE "completed"
        rest  == IF toolsEnabled THEN Deltas(Unstreamed(text)) ELSE <<>>
    IN
    /\ cpc = "parse"
    /\ IF text # <<>> /\ toolsEnabled /\ ~IsPrefix(streamedText, text)
       THEN Error
       ELSE \E n \in calls :
              Emit((IF text # <<>> \/ n = 0
                    THEN Opening \o rest \o MessageDone(text) ELSE <<>>)
                     \o FunctionCalls(n) \o Plain(<<terminal>>), "returned")
    /\ UNCHANGED <<connVars, envVars, toolsEnabled, textVars, batchVars>>

\* parse_tool_calls finds no well-formed call after the marker.
ParseThrows ==
    /\ cpc = "parse" /\ toolsEnabled /\ HasMarker(generated)
    /\ Error
    /\ UNCHANGED <<connVars, envVars, toolsEnabled, textVars, batchVars>>

\* Mutant: every exception of the generation is taken for a SocketFailure.
Silent(kind) == kind # "value"
\* catch (const SocketFailure &)
SilentFailure(kind) == kind = "socket"

\* The result is an exception.
Failed ==
    /\ cpc = "generate" /\ pieces = <<>>
    /\ outcome.kind \in {"socket", "deadline", "error"}
    /\ IF SilentFailure(outcome.kind) THEN Emit(<<>>, "returned") ELSE Error
    /\ UNCHANGED <<connVars, envVars, toolsEnabled, textVars, batchVars>>

-----------------------------------------------------------------------------
(***************************************************************************)
(* The batcher's worker: the cancellation check, and what it produces.     *)
(***************************************************************************)
Settle(result) == outcome' = result /\ wpc' = "settled"
Exception(kind) == [kind |-> kind]

\* Request::is_cancelled and the checks that throw.
CheckFails ==
    /\ wpc = "check"
    /\ \/ callbackFailed /\ Settle(Exception("error"))
       \/ ~callbackFailed /\ expired /\ Settle(Exception("deadline"))
       \* the deadline passes, or the peer is found gone, in connection_cancelled
       \/ ~callbackFailed /\ (expired \/ peer = "reset") /\ Settle(Exception("socket"))
    /\ UNCHANGED <<connVars, envVars, toolsEnabled, sendVars, textVars, pieces,
                   generated, tokens, callbackFailed, probes>>

\* It passes, and a keep-alive comment may be due.
CheckPasses ==
    /\ wpc = "check" /\ ~callbackFailed /\ ~expired /\ peer # "reset"
    /\ \/ wpc' = "sample" /\ probes' = probes
       \/ probes < MaxProbes /\ wpc' = "probe" /\ probes' = probes + 1
    /\ UNCHANGED <<connVars, envVars, toolsEnabled, sendVars, textVars, pieces,
                   generated, tokens, outcome, callbackFailed>>

ProbeHead ==
    /\ wpc = "probe" /\ MutexFree /\ Writable
    /\ sendMutex' = "worker"
    /\ wire' = Append(wire, <<Comment("keepalive"), 1>>)
    /\ wpc' = "tail"
    /\ UNCHANGED <<envVars, toolsEnabled, sendVars, textVars, pieces, generated,
                   tokens, outcome, callbackFailed, probes>>

\* The check was one of a long prefill, or the one before a token.
ProbeTail ==
    /\ wpc = "tail" /\ Writable
    /\ sendMutex' = "free"
    /\ wire' = Append(wire, <<Comment("keepalive"), 2>>)
    /\ wpc' \in {"check", "sample"}
    /\ UNCHANGED <<envVars, toolsEnabled, sendVars, textVars, pieces, generated,
                   tokens, outcome, callbackFailed, probes>>

\* Mutant: the lock is not released when send_all throws.
Held == sendMutex' = sendMutex
Release == sendMutex' = "free"

ProbeFails ==
    /\ \/ wpc = "probe" /\ MutexFree
       \/ wpc = "tail"
    /\ ~Writable
    /\ Release
    /\ Settle(Exception("socket"))
    /\ UNCHANGED <<wire, envVars, toolsEnabled, sendVars, textVars, pieces,
                   generated, tokens, callbackFailed, probes>>

\* A token is sampled and published; the last one ends the request.
Produce(piece) ==
    /\ wpc = "sample"
    /\ pieces' = Append(pieces, piece)
    /\ generated' = generated \o piece
    /\ tokens' = tokens + 1
    /\ IF tokens' = MaxPieces
       THEN Settle([kind |-> "value", reason |-> "length"])
       ELSE wpc' = "check" /\ outcome' = outcome
    /\ UNCHANGED <<connVars, envVars, toolsEnabled, sendVars, textVars,
                   callbackFailed, probes>>

\* The end of the text is sampled, or the request fails.
EndOfText ==
    /\ wpc = "sample"
    /\ \/ Settle([kind |-> "value", reason |-> "stop_token"])
       \/ Settle(Exception("error"))
    /\ UNCHANGED <<connVars, envVars, toolsEnabled, sendVars, textVars, pieces,
                   generated, tokens, callbackFailed, probes>>

-----------------------------------------------------------------------------
(***************************************************************************)
(* The peer and the clock.                                                 *)
(***************************************************************************)
PeerMoves ==
    /\ peer' \in CASE peer = "open"    -> {"stalled", "reset"}
                   [] peer = "stalled" -> {"resumed", "reset"}
                   [] peer = "resumed" -> {"reset"}
                   [] peer = "reset"   -> {}
    /\ UNCHANGED <<connVars, expired, toolsEnabled, sendVars, textVars, batchVars>>

DeadlinePasses ==
    /\ ~expired /\ expired' = TRUE
    /\ UNCHANGED <<connVars, peer, toolsEnabled, sendVars, textVars, batchVars>>

ClientStep ==
    \/ SendHead \/ SendTail \/ SendFails \/ Begin \/ Submit \/ Callback
    \/ Result \/ Finish \/ ParseThrows \/ Failed
WorkerStep ==
    \/ CheckFails \/ CheckPasses \/ ProbeHead \/ ProbeTail \/ ProbeFails
    \/ (\E piece \in Pieces : Produce(piece)) \/ EndOfText

Next == ClientStep \/ WorkerStep \/ PeerMoves \/ DeadlinePasses
Spec == Init /\ [][Next]_vars
\* Both threads are scheduled, and time passes.
FairSpec ==
    Spec /\ WF_vars(ClientStep) /\ WF_vars(WorkerStep) /\ WF_vars(DeadlinePasses)

-----------------------------------------------------------------------------
(***************************************************************************)
(* Properties.                                                             *)
(***************************************************************************)
Chars == {"a", "l", "c", "k", "m", "r"}
Events == {"headers", "keepalive", "created", "in_progress", "item_added",
           "part_added", "delta", "text_done", "part_done", "item_done",
           "call_added", "arguments_delta", "arguments_done", "call_done"}
             \cup Terminal
Frames == [event : Events, text : Seq(Chars), seq : Nat]

\* Every variable has its type; what waits for the next piece is at most the
\* beginning of one character.
TypeOK ==
    /\ sendMutex \in {"free", "client", "worker"}
    /\ wire \in Seq(Frames \X {1, 2}) /\ outbox \in Seq(Frames)
    /\ peer \in {"open", "stalled", "resumed", "reset"}
    /\ {expired, toolsEnabled, messageStarted, toolMarkerSeen, callbackFailed}
         \subseteq BOOLEAN
    /\ cpc \in {"begin", "submit", "generate", "parse", "send", "tail", "returned"}
    /\ then \in {"begin", "submit", "generate", "parse", "returned"}
    /\ wpc \in {"none", "check", "probe", "tail", "sample", "settled"}
    /\ sequence \in Nat /\ tokens \in 0..MaxPieces /\ probes \in 0..MaxProbes
    /\ streamedText \in Seq(Chars) /\ generated \in Seq(Chars)
    /\ pieces \in Seq(Pieces) /\ pendingText \in {<<>>, <<"l">>}
    /\ outcome \in {Exception(kind) : kind \in {"none", "socket", "deadline", "error"}}
         \cup [kind : {"value"}, reason : {"length", "stop_token"}]

\* The halves that ended a frame, by their position, and the events they carry.
Received == {i \in 1..Len(wire) : wire[i][2] = 2}
Name(i) == wire[i][1].event
Before(i, name) == \E j \in Received : j < i /\ Name(j) = name
NumberedBefore(i) == {j \in Received : j < i /\ Name(j) \notin Unnumbered}
Ended(events) ==
    \E i \in Received : Name(i) \in events /\ \A j \in Received : j <= i

\* A stream that ends with a terminal event is well formed: the frames of the two
\* senders are whole and unmixed, and the sequence numbers have no gap.
EndedStreamIsWhole ==
    Ended(Terminal) =>
      /\ Len(wire) % 2 = 0
      /\ \A i \in 1..Len(wire) :
           /\ wire[i][2] = IF i % 2 = 1 THEN 1 ELSE 2
           /\ i % 2 = 0 => wire[i][1] = wire[i - 1][1]
      /\ \A i \in Received :
           Name(i) \notin Unnumbered => wire[i][1].seq = Cardinality(NumberedBefore(i))

\* The texts of the events of one name, one after another.
TextOf(name) ==
    FlattenSeq([i \in 1..Len(wire) |->
      IF i \in Received /\ Name(i) = name THEN wire[i][1].text ELSE <<>>])

\* However the tokens cut the characters and wherever the call begins, the deltas
\* of a successful stream add up to the text of its done event, and to the text
\* of the result: scanning piece by piece is sanitize_utf8 of the whole.
DeltasAreTheText ==
    Ended({"completed", "incomplete"}) =>
      /\ TextOf("delta") = TextOf("text_done")
      /\ ~toolsEnabled => TextOf("delta") = Sanitized(generated)

\* "syntax never has to be exposed as a partial text delta" (server.cpp).
NoToolSyntax ==
    toolsEnabled =>
      \A i \in 1..Len(wire) : ~Contains(wire[i][1].text, "m")

\* The lifecycle clients rely on: a delta or a done event only in an open message,
\* the calls after it, and nothing, not even a comment, after a terminal event.
LifecycleInOrder ==
    \A i \in Received :
      /\ Name(i) \in {"delta", "text_done"} =>
           Before(i, "part_added") /\ ~Before(i, "text_done")
      /\ Name(i) = "part_added" => ~Before(i, "part_added")
      /\ Name(i) = "call_added" =>
           (Before(i, "part_added") => Before(i, "item_done"))
      /\ Name(i) \in Terminal => \A j \in Received : j <= i

\* A response ends without a terminal event only when the peer could not be
\* written to, or too late.
NoSilentEnd ==
    cpc = "returned" => Ended(Terminal) \/ peer # "open" \/ expired

\* The thread of the connection ends, whatever the peer does: a sender that gives
\* up leaves the mutex to the other.
EveryStreamEnds == <>(cpc = "returned")

-----------------------------------------------------------------------------
(***************************************************************************)
(* What docs/api.md says, and the code does not do.  Each is the property  *)
(* of a run of its own that finds it violated.                             *)
(***************************************************************************)

\* "Errors use [...] an SSE error event after streaming headers have been sent":
\* so does a deadline that fails a request while its peer listens.
DeadlineIsReported ==
    cpc = "returned" /\ outcome.kind = "deadline" /\ peer = "open" =>
      Ended({"error"})

\* "Hitting max_output_tokens instead returns [...] a terminal response.incomplete
\* event", when no call was cut.
LimitIsReported ==
    /\ cpc = "returned" /\ peer = "open" /\ ~expired
    /\ outcome = [kind |-> "value", reason |-> "length"] /\ ~HasMarker(generated)
    => Ended({"incomplete"})

=============================================================================
