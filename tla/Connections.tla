------------------------------ MODULE Connections ------------------------------
(***************************************************************************)
(* The accept loop of serve() in src/server.cpp and the detached thread of *)
(* each connection: the count of connections, receive_request, the routes  *)
(* and answers of handle_client, and the errors on every path.             *)
(*                                                                         *)
(* A request is a number of units of headers and of body.  recv returns    *)
(* any part of what the peer has sent, so a request arrives in every       *)
(* segmentation.  Generation and the streamed response are as              *)
(* GenerationService and ResponseStream describe them: they end somehow.   *)
(*                                                                         *)
(* A definition whose comment begins with "Mutant" is a slip the code does *)
(* not make, for the property that would find it; no other one uses it.    *)
(***************************************************************************)
EXTENDS Naturals, Sequences, FiniteSets

CONSTANTS
    Peers,       \* the connections that are made; one peer makes one
    Offers,      \* [Peers -> what each may send]
    Maximum,     \* maximum_connections
    MaxHeaders,  \* maximum_headers, in units
    MaxBody,     \* maximum_body, in units
    Chunk        \* bound: units one recv returns; receive_request's buffer

\* A peer sends `sent` units of headers and body and then waits or shuts down;
\* they may be cut, or go on.
Kinds == {"plain", "stream", "route", "length", "body"}
Requests == [header : Nat \ {0}, body : Nat, sent : Nat, kind : Kinds]
ASSUME ConnectionsAssumption ==
    /\ IsFiniteSet(Peers)
    /\ Offers \in [Peers -> SUBSET Requests]
    /\ Maximum \in Nat \ {0} /\ Chunk \in Nat \ {0}
    /\ MaxHeaders \in Nat /\ MaxBody \in Nat

VARIABLES
    \* shared
    active,   \* active_connections
    serving,  \* serve() has not been left by an exception
    \* the accept loop
    lpc,      \* where it is
    client,   \* the connection it has accepted
    seen,     \* `active` of try_acquire_connection
    \* the connections
    hpc,      \* where the thread of each is, or its place before that
    offer,    \* what its peer sends
    got,      \* the size of `request` in receive_request
    status,   \* of the response that is being sent
    answer    \* what the peer has been sent, in order

loopVars == <<lpc, client, seen>>
handlerVars == <<hpc, offer, got, status, answer>>
vars == <<active, serving, loopVars, handlerVars>>

Init ==
    /\ active = 0 /\ serving = TRUE
    /\ lpc = "accept" /\ client \in Peers /\ seen = 0
    /\ hpc = [c \in Peers |-> "away"]
    /\ offer \in {f \in [Peers -> UNION {Offers[c] : c \in Peers}] :
                    \A c \in Peers : f[c] \in Offers[c]}
    /\ got = [c \in Peers |-> 0]
    /\ status = [c \in Peers |-> 0]
    /\ answer = [c \in Peers |-> <<>>]

Goto(c, pc) == hpc' = [hpc EXCEPT ![c] = pc]
Reply(c, code) ==
    status' = [status EXCEPT ![c] = code] /\ Goto(c, "head")

-----------------------------------------------------------------------------
(***************************************************************************)
(* The accept loop.                                                        *)
(***************************************************************************)
Connect(c) ==
    /\ hpc[c] = "away"
    /\ Goto(c, "backlog")
    /\ UNCHANGED <<active, serving, loopVars, got, status, answer, offer>>

Accept(c) ==
    /\ serving /\ lpc = "accept" /\ hpc[c] = "backlog"
    /\ client' = c /\ lpc' = "configure"
    /\ Goto(c, "accepted")
    /\ UNCHANGED <<active, serving, seen, got, status, answer, offer>>

\* accept() fails, for instance for want of descriptors: serve() is left.  What a
\* thread makes of its locals after that is not modelled: it stops before them.
AcceptFails ==
    /\ serving /\ lpc = "accept"
    /\ serving' = FALSE
    /\ UNCHANGED <<active, loopVars, handlerVars>>

\* setsockopt succeeds, and try_acquire_connection loads the count.
Load ==
    /\ lpc = "configure"
    /\ seen' = active /\ lpc' = "acquire"
    /\ UNCHANGED <<active, serving, client, handlerVars>>

ConfigureFails ==
    /\ lpc = "configure"
    /\ lpc' = "accept" /\ Goto(client, "closed")
    /\ UNCHANGED <<active, serving, client, seen, got, status, answer, offer>>

BelowMaximum == seen < Maximum

\* compare_exchange_weak, which may also fail spuriously and loads the count.
Acquire ==
    /\ lpc = "acquire" /\ BelowMaximum
    /\ \/ active = seen /\ active' = active + 1 /\ lpc' = "start" /\ seen' = seen
       \/ active' = active /\ lpc' = lpc /\ seen' = active
    /\ UNCHANGED <<serving, client, handlerVars>>

\* reject_busy answers in the thread of the accept loop.
Reject ==
    /\ lpc = "acquire" /\ ~BelowMaximum
    /\ lpc' = "reject" /\ Reply(client, 503)
    /\ UNCHANGED <<active, serving, client, seen, got, answer, offer>>

\* Mutant: a rejected connection gives back what it never took.
RejectedReleasing ==
    /\ lpc = "reject" /\ hpc[client] = "release"
    /\ active' = active - 1
    /\ lpc' = "accept" /\ Goto(client, "closed")
    /\ UNCHANGED <<serving, client, seen, got, status, answer, offer>>

\* It returns, whatever became of the answer, and the socket is closed.
Rejected ==
    /\ lpc = "reject" /\ hpc[client] = "release"
    /\ lpc' = "accept" /\ Goto(client, "closed")
    /\ UNCHANGED <<active, serving, client, seen, got, status, answer, offer>>

Start ==
    /\ lpc = "start"
    /\ lpc' = "accept" /\ Goto(client, "headers")
    /\ UNCHANGED <<active, serving, client, seen, got, status, answer, offer>>

\* Mutant: the count is not given back.
StartFailsKeeping ==
    /\ lpc = "start"
    /\ lpc' = "accept" /\ Goto(client, "closed")
    /\ UNCHANGED <<active, serving, client, seen, got, status, answer, offer>>

\* std::thread throws; the connection is closed with the lambda.
StartFails ==
    /\ lpc = "start"
    /\ active' = active - 1
    /\ lpc' = "accept" /\ Goto(client, "closed")
    /\ UNCHANGED <<serving, client, seen, got, status, answer, offer>>

LoopStep ==
    \/ (\E c \in Peers : Accept(c)) \/ Load \/ ConfigureFails \/ Acquire
    \/ Reject \/ Rejected \/ Start \/ StartFails

-----------------------------------------------------------------------------
(***************************************************************************)
(* handle_client, in the thread of connection c.                           *)
(***************************************************************************)
Smaller(m, n) == IF m < n THEN m ELSE n
\* What one recv may return.
Segments(c) == 1..Smaller(Chunk, offer[c].sent - got[c])
Total(c) == offer[c].header + offer[c].body

\* Mutant: the limit is looked at only while the headers are incomplete.
TooLongUnended(c, size) == size > MaxHeaders /\ size < offer[c].header
\* request.size() > maximum_headers, which counts what was read beyond them.
TooLong(c, size) == size > MaxHeaders

\* One receive_some of the headers, and what follows once they are complete.
Headers(c) ==
    /\ hpc[c] = "headers"
    /\ \E n \in Segments(c) :
         LET size == got[c] + n IN
         /\ got' = [got EXCEPT ![c] = size]
         /\ CASE TooLong(c, size) -> Reply(c, 400)
              [] ~TooLong(c, size) /\ size < offer[c].header ->
                   UNCHANGED <<hpc, status>>
              [] OTHER ->
                   IF offer[c].kind = "length" \/ offer[c].body > MaxBody
                   THEN Reply(c, 400)
                   ELSE Goto(c, "body") /\ UNCHANGED status
    /\ UNCHANGED <<active, serving, loopVars, answer, offer>>

\* One receive_some of the body.
Body(c) ==
    /\ hpc[c] = "body" /\ got[c] < Total(c)
    /\ \E n \in Segments(c) : got' = [got EXCEPT ![c] = @ + n]
    /\ UNCHANGED <<active, serving, loopVars, hpc, status, answer, offer>>

\* The request is complete; what was read beyond it is dropped.
Received(c) ==
    /\ hpc[c] = "body" /\ got[c] >= Total(c)
    /\ got' = [got EXCEPT ![c] = Total(c)]
    /\ Goto(c, "parse")
    /\ UNCHANGED <<active, serving, loopVars, status, answer, offer>>

\* Mutant: no deadline for the headers.
ReceiveFailsInBody(c) ==
    /\ hpc[c] = "body" /\ got[c] < Total(c)
    /\ Goto(c, "release")
    /\ UNCHANGED <<active, serving, loopVars, got, status, answer, offer>>

\* SocketFailure while receiving: the peer has closed, or a deadline passed.
ReceiveFails(c) ==
    /\ \/ hpc[c] = "headers"
       \/ hpc[c] = "body" /\ got[c] < Total(c)
    /\ Goto(c, "release")
    /\ UNCHANGED <<active, serving, loopVars, got, status, answer, offer>>

\* The route, the body and its fields.
Parse(c) ==
    /\ hpc[c] = "parse"
    /\ CASE offer[c].kind = "route"  -> Reply(c, 404)
         [] offer[c].kind = "body"   -> Reply(c, 400)
         [] offer[c].kind = "stream" -> Goto(c, "stream") /\ UNCHANGED status
         [] OTHER -> Goto(c, "generate") /\ UNCHANGED status
    /\ UNCHANGED <<active, serving, loopVars, got, answer, offer>>

\* handle_responses returns, throws, or finds that the peer is gone.
Generate(c) ==
    /\ serving /\ hpc[c] = "generate"
    /\ \/ Reply(c, 200) \/ Reply(c, 400)
       \/ Goto(c, "release") /\ UNCHANGED status
    /\ UNCHANGED <<active, serving, loopVars, got, answer, offer>>

\* stream_responses sends its headers, and ends.
Stream(c) ==
    /\ serving /\ hpc[c] = "stream"
    /\ answer' = [answer EXCEPT ![c] = Append(@, <<200, "stream">>)]
    /\ Goto(c, "release")
    /\ UNCHANGED <<active, serving, loopVars, got, status, offer>>

\* send_response, here or in reject_busy: the headers, then the body.
SendHead(c) ==
    /\ hpc[c] = "head"
    /\ answer' = [answer EXCEPT ![c] = Append(@, <<status[c], "head">>)]
    /\ Goto(c, "tail")
    /\ UNCHANGED <<active, serving, loopVars, got, status, offer>>

SendBody(c) ==
    /\ hpc[c] = "tail"
    /\ answer' = [answer EXCEPT ![c] = Append(@, <<status[c], "body">>)]
    /\ Goto(c, "release")
    /\ UNCHANGED <<active, serving, loopVars, got, status, offer>>

\* Mutant: a failed 200 is answered by a 400.
SendFailsTwice(c) ==
    /\ hpc[c] \in {"head", "tail", "stream"}
    /\ IF status[c] = 200 THEN Reply(c, 400)
       ELSE Goto(c, "release") /\ UNCHANGED status
    /\ UNCHANGED <<active, serving, loopVars, got, answer, offer>>

\* SocketFailure, which ends the connection, in the answer to an exception too.
SendFails(c) ==
    /\ hpc[c] \in {"head", "tail", "stream"}
    /\ Goto(c, "release")
    /\ UNCHANGED <<active, serving, loopVars, got, status, answer, offer>>

\* The lambda's fetch_sub; only after it is the socket closed.
Release(c) ==
    /\ hpc[c] = "release" /\ ~(lpc = "reject" /\ client = c)
    /\ active' = active - 1
    /\ Goto(c, "close")
    /\ UNCHANGED <<serving, loopVars, got, status, answer, offer>>

Close(c) ==
    /\ hpc[c] = "close"
    /\ Goto(c, "closed")
    /\ UNCHANGED <<active, serving, loopVars, got, status, answer, offer>>

HandlerStep(c) ==
    \/ Headers(c) \/ Body(c) \/ Received(c) \/ ReceiveFails(c) \/ Parse(c)
    \/ Generate(c) \/ Stream(c) \/ SendHead(c) \/ SendBody(c) \/ SendFails(c)
    \/ Release(c) \/ Close(c)

Next ==
    \/ LoopStep
    \/ AcceptFails
    \/ \E c \in Peers : Connect(c) \/ HandlerStep(c)

Spec == Init /\ [][Next]_vars
\* The accept loop and every thread are scheduled; deadlines end what waits.
FairSpec == Spec /\ WF_vars(LoopStep) /\ \A c \in Peers : WF_vars(HandlerStep(c))

-----------------------------------------------------------------------------
(***************************************************************************)
(* Properties.                                                             *)
(***************************************************************************)
HandlerPcs == {"headers", "body", "parse", "generate", "stream"}
SendPcs == {"head", "tail", "release"}

Codes == {200, 400, 404, 503}
Parts == Codes \X {"head", "body", "stream"}
Answers == Seq(Parts)

\* Every variable has its type: a count never wraps below zero, and every answer
\* has the status of one of the responses.
TypeOK ==
    /\ active \in Nat /\ seen \in Nat
    /\ serving \in BOOLEAN /\ client \in Peers
    /\ lpc \in {"accept", "configure", "acquire", "reject", "start"}
    /\ hpc \in [Peers -> HandlerPcs \cup SendPcs \cup
                  {"away", "backlog", "accepted", "close", "closed"}]
    /\ offer \in [Peers -> Requests] /\ got \in [Peers -> Nat]
    /\ status \in [Peers -> Codes \cup {0}]
    /\ answer \in [Peers -> Answers]

\* The connection is counted: its thread is about to be started, or runs.
Counted(c) ==
    \/ hpc[c] \in HandlerPcs
    \/ hpc[c] \in SendPcs /\ ~(lpc = "reject" /\ client = c)
    \/ lpc = "start" /\ client = c

\* "server is at connection capacity" (src/server.cpp): the atomic counter, moved
\* by the accept loop and by detached threads on every path, is the number of
\* connections being handled, and that never exceeds maximum_connections.
CountIsExact ==
    /\ active = Cardinality({c \in Peers : Counted(c)})
    /\ active <= Maximum

\* However it was segmented, a request that is parsed is the one that was sent,
\* within both limits; one that is refused while receiving breaks a limit, alone
\* or with what followed the headers.
RequestIsWhole ==
    \A c \in Peers : LET r == offer[c] IN
      /\ hpc[c] \in {"parse", "generate", "stream"} =>
           /\ got[c] = Total(c) /\ r.sent >= Total(c)
           /\ r.header <= MaxHeaders /\ r.body <= MaxBody /\ r.kind # "length"
      /\ hpc[c] = "head" /\ status[c] = 400 /\ got[c] # Total(c) =>
           r.kind = "length" \/ r.body > MaxBody \/ got[c] > MaxHeaders

\* The answers a peer may read.
Started(code)  == <<<<code, "head">>>>
Complete(code) == <<<<code, "head">>, <<code, "body">>>>
Streamed       == <<<<200, "stream">>>>

\* A peer reads at most one response, its parts in order: never the answer to an
\* exception after the beginning of another answer.
OneResponse ==
    \A c \in Peers :
      \/ answer[c] \in {<<>>, Streamed}
      \/ \E code \in Codes : answer[c] \in {Started(code), Complete(code)}

\* While serve() runs, a connection that was made ends, served or refused: no
\* path of a thread keeps its place, or the accept loop.
EveryConnectionEnds ==
    \A c \in Peers : hpc[c] = "backlog" ~> hpc[c] = "closed" \/ ~serving
=============================================================================
