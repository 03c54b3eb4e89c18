-------------------------- MODULE GenerationService --------------------------
(***************************************************************************)
(* What ContinuousBatcher::generate_from_prompt promises its callers,      *)
(* without threads, batches or decoder states: requests are begun in the   *)
(* order they were accepted, each is settled once, with a text of its own  *)
(* tokens or an error, and a caller that streams sees that text piece by   *)
(* piece before the call returns.                                          *)
(***************************************************************************)
EXTENDS Naturals, Sequences

CONSTANTS
    Requests,   \* the calls
    Streaming,  \* those with a token callback
    MaxTokens   \* bound on the length of a text

VARIABLES
    caller,  \* out, rejected, in, returned or unwound
    queue,   \* accepted requests not begun yet, oldest first
    status,  \* new, queued, running, value or error
    text,    \* what has been generated that a caller may see
    seen     \* the pieces a streaming caller has been given

serviceVars == <<caller, queue, status, text, seen>>

OwnText(r, n) == [k \in 1..n |-> [owner |-> r, at |-> k - 1]]

Init ==
    /\ caller = [r \in Requests |-> "out"]
    /\ queue = <<>>
    /\ status = [r \in Requests |-> "new"]
    /\ text = [r \in Requests |-> <<>>]
    /\ seen = [r \in Requests |-> <<>>]

Reject(r) ==
    /\ caller[r] = "out"
    /\ caller' = [caller EXCEPT ![r] = "rejected"]
    /\ UNCHANGED <<queue, status, text, seen>>

Accept(r) ==
    /\ caller[r] = "out"
    /\ caller' = [caller EXCEPT ![r] = "in"]
    /\ queue' = Append(queue, r)
    /\ status' = [status EXCEPT ![r] = "queued"]
    /\ UNCHANGED <<text, seen>>

Begin(r) ==
    /\ queue # <<>> /\ r = Head(queue)
    /\ queue' = Tail(queue)
    /\ status' = [status EXCEPT ![r] = "running"]
    /\ UNCHANGED <<caller, text, seen>>

\* The next piece of a streamed text exists.
Produce(r) ==
    /\ r \in Streaming /\ status[r] = "running"
    /\ Len(text[r]) < MaxTokens
    /\ text' = [text EXCEPT ![r] = OwnText(r, Len(@) + 1)]
    /\ UNCHANGED <<caller, queue, status, seen>>

\* A streamed text is final as it is; another appears at once.
Succeed(r) ==
    /\ status[r] = "running"
    /\ status' = [status EXCEPT ![r] = "value"]
    /\ IF r \in Streaming
       THEN UNCHANGED text
       ELSE \E n \in 0..MaxTokens : text' = [text EXCEPT ![r] = OwnText(r, n)]
    /\ UNCHANGED <<caller, queue, seen>>

\* A running request, or the oldest one waiting, fails.
Fail(r) ==
    /\ \/ status[r] = "running" /\ UNCHANGED queue
       \/ queue # <<>> /\ r = Head(queue) /\ queue' = Tail(queue)
    /\ status' = [status EXCEPT ![r] = "error"]
    /\ UNCHANGED <<caller, text, seen>>

See(r) ==
    /\ caller[r] = "in" /\ Len(seen[r]) < Len(text[r])
    /\ seen' = [seen EXCEPT ![r] = Append(@, text[r][Len(@) + 1])]
    /\ UNCHANGED <<caller, queue, status, text>>

\* The callback throws on a piece.
Unwind(r) ==
    /\ caller[r] = "in" /\ Len(seen[r]) < Len(text[r])
    /\ caller' = [caller EXCEPT ![r] = "unwound"]
    /\ UNCHANGED <<queue, status, text, seen>>

\* Nothing generated is withheld from a streaming caller, even by an error.
Return(r) ==
    /\ caller[r] = "in" /\ status[r] \in {"value", "error"}
    /\ r \in Streaming => seen[r] = text[r]
    /\ caller' = [caller EXCEPT ![r] = "returned"]
    /\ UNCHANGED <<queue, status, text, seen>>

Next ==
    \E r \in Requests :
       \/ Reject(r) \/ Accept(r) \/ Begin(r) \/ Produce(r) \/ Succeed(r)
       \/ Fail(r) \/ See(r) \/ Unwind(r) \/ Return(r)

Spec == Init /\ [][Next]_serviceVars
=============================================================================
