-------------------------- MODULE BatcherRefinement --------------------------
(***************************************************************************)
(* The batcher implements GenerationService: the refinement mapping.       *)
(***************************************************************************)
EXTENDS Batcher

\* While run() fails what was left, those requests are still the oldest.
ServiceQueue ==
    IF wpc \in FailPcs /\ resume = "dead" THEN failing \o pending ELSE pending

ServiceCaller(r) ==
    CASE cpc[r] = "idle" -> "out"
      [] cpc[r] = "thrown" -> "unwound"
      [] cpc[r] \in {"rejected", "returned"} -> cpc[r]
      [] OTHER -> "in"

ServiceStatus(r) ==
    CASE ~Accepted(r) -> "new"
      [] promise[r].kind = "value" -> "value"
      [] promise[r].kind = "exception" -> "error"
      [] promise[r].kind = "unset" /\ Accepted(r) ->
           IF \E i \in 1..Len(ServiceQueue) : ServiceQueue[i] = r
           THEN "queued" ELSE "running"

\* The pieces of a stream, wherever they are; a plain call only sees its result.
ServiceText(r) ==
    IF r \in Streaming THEN delivered[r] \o pieces[r] \o streamPieces[r]
    ELSE IF promise[r].kind = "value" THEN promise[r].text ELSE <<>>

Service == INSTANCE GenerationService WITH
    caller <- [r \in Requests |-> ServiceCaller(r)],
    queue  <- ServiceQueue,
    status <- [r \in Requests |-> ServiceStatus(r)],
    text   <- [r \in Requests |-> ServiceText(r)],
    seen   <- delivered

\* Every behaviour of the batcher is one of the service: FIFO begin, one
\* outcome per request, streams that are complete when the call returns.
ImplementsService == Service!Spec
=============================================================================
