------------------------- MODULE BatcherServiceProofs -------------------------
(***************************************************************************)
(* Proofs about the streams of Batcher, and the proof that it implements   *)
(* GenerationService.  They rest on BatchInvariant (what the outputs are)  *)
(* and RequestInvariant (where each request is held).                      *)
(***************************************************************************)
EXTENDS BatcherRequestProofs

USE DEF AdmitPcs, RowPcs, FailPcs, WorkerPcs, ResumePcs, ClientPcs

-----------------------------------------------------------------------------
(***************************************************************************)
(* The inductive invariant.                                                *)
(***************************************************************************)

\* Every piece published for r, in the order of publication: those given to its
\* callback, those its thread has taken, those still queued.
Stream(r) == delivered[r] \o pieces[r] \o streamPieces[r]

\* What submit() knows at each of its locations.
Callers ==
    \A r \in Requests :
      /\ ~Accepted(r) \/ r \notin Streaming =>
           delivered[r] = <<>> /\ pieces[r] = <<>> /\ streamPieces[r] = <<>>
      /\ cpc[r] \in {"wait", "asleep", "deliver", "thrown"} => r \in Streaming
      /\ cpc[r] \notin {"deliver", "thrown"} => pieces[r] = <<>>
      /\ r \in Streaming /\ cpc[r] \in {"get", "returned"} => finished[r]
      /\ finished[r] => streamFinished[r] /\ streamPieces[r] = <<>>

\* A stream is completed once nothing more can be published on it: its request
\* has its outcome, or is about to be failed.
Over(r) == promise[r].kind # "unset" \/ Failing(r)
Completed ==
    /\ \A r \in Requests : streamFinished[r] => Over(r)
    /\ wpc \in {"complete", "notify"} => Over(subject)

\* What has been published is what has been output, up to the token that has
\* been sampled and is about to be published.
PublishedOf(entry) ==
    entry.request \in Streaming => entry.output = Stream(entry.request)
Unpublished(i) == wpc = "publish" /\ i = index
Published ==
    /\ wpc = "publish" =>
         /\ Current \in Streaming
         /\ active[index].output = Append(Stream(Current), LastToken(active[index]))
    /\ \A i \in LiveRows : ~Unpublished(i) => PublishedOf(active[i])
    /\ InRows => \A j \in 1..Len(nextActive) : PublishedOf(nextActive[j])
    /\ \A r \in Streaming :
         /\ Waiting(r) \/ Admitting(r) => Stream(r) = <<>>
         /\ promise[r].kind = "value" => promise[r].text = Stream(r)
         /\ OwnTokens(r, Stream(r)) /\ Len(Stream(r)) <= MaxTokens

StreamInvariant == Callers /\ Completed /\ Published

-----------------------------------------------------------------------------
(***************************************************************************)
(* Streams.                                                                *)
(***************************************************************************)

\* The types the streams need.
LEMMA StreamTypes ==
  ASSUME BatchInvariant
  PROVE  /\ delivered \in [Requests -> Seq(Token)] /\ pieces \in [Requests -> Seq(Token)]
         /\ streamPieces \in [Requests -> Seq(Token)]
         /\ finished \in [Requests -> BOOLEAN]
         /\ streamFinished \in [Requests -> BOOLEAN]
         /\ callbackFailed \in [Requests -> BOOLEAN]
         /\ cpc \in [Requests -> ClientPcs]
         /\ \A r \in Requests : Stream(r) \in Seq(Token)
         /\ Streaming \subseteq Requests /\ MaxTokens \in Nat
  <1>1. /\ delivered \in [Requests -> Seq(Token)] /\ pieces \in [Requests -> Seq(Token)]
        /\ streamPieces \in [Requests -> Seq(Token)]
        /\ finished \in [Requests -> BOOLEAN]
        /\ streamFinished \in [Requests -> BOOLEAN]
        /\ callbackFailed \in [Requests -> BOOLEAN]
        /\ cpc \in [Requests -> ClientPcs]
    BY DEF BatchInvariant, TypeOK, SharedTypeOK, ClientTypeOK
  <1>2. \A r \in Requests : Stream(r) \in Seq(Token)
    BY <1>1 DEF Stream
  <1> QED
    BY <1>1, <1>2, BatcherAssumption

\* A piece that is queued is published after all the others.
LEMMA ConcatAppend ==
  ASSUME NEW S, NEW s \in Seq(S), NEW t \in Seq(S), NEW x \in S
  PROVE  s \o Append(t, x) = Append(s \o t, x)
  <1>1. s \o Append(t, x) \in Seq(S) /\ Append(s \o t, x) \in Seq(S)
    OBVIOUS
  <1>2. Len(s \o Append(t, x)) = Len(s) + Len(t) + 1
        /\ Len(Append(s \o t, x)) = Len(s) + Len(t) + 1
    OBVIOUS
  <1>3. ASSUME NEW i \in 1..Len(s) + Len(t) + 1
        PROVE  (s \o Append(t, x))[i] = Append(s \o t, x)[i]
    OBVIOUS
  <1> QED
    BY <1>1, <1>2, <1>3, SeqEqual

LEMMA StreamAppend ==
  ASSUME NEW d \in Seq(Token), NEW p \in Seq(Token), NEW q \in Seq(Token),
         NEW x \in Token
  PROVE  d \o p \o Append(q, x) = Append(d \o p \o q, x)
  <1> DEFINE s == d \o p
  <1>1. s \in Seq(Token)
    OBVIOUS
  <1> HIDE DEF s
  <1>2. s \o Append(q, x) = Append(s \o q, x)
    BY <1>1, ConcatAppend
  <1> QED
    BY <1>2 DEF s

\* A piece that is delivered keeps its place.
LEMMA ConcatMove ==
  ASSUME NEW S, NEW s \in Seq(S), NEW t \in Seq(S), t # <<>>
  PROVE  Append(s, Head(t)) \o Tail(t) = s \o t
  <1>0. Head(t) \in S /\ Tail(t) \in Seq(S) /\ Len(Tail(t)) = Len(t) - 1
        /\ Len(t) \in Nat \ {0} /\ Len(s) \in Nat
    OBVIOUS
  <1>1. Append(s, Head(t)) \o Tail(t) \in Seq(S) /\ s \o t \in Seq(S)
    BY <1>0
  <1>2. Len(Append(s, Head(t)) \o Tail(t)) = Len(s) + Len(t)
        /\ Len(s \o t) = Len(s) + Len(t)
    BY <1>0
  <1>3. ASSUME NEW i \in 1..Len(s) + Len(t)
        PROVE  (Append(s, Head(t)) \o Tail(t))[i] = (s \o t)[i]
    BY <1>0
  <1> QED
    BY <1>1, <1>2, <1>3, SeqEqual

\* Callers move pieces; they neither lose nor reorder any.
LEMMA CallerKeepsStream ==
  ASSUME BatchInvariant, Callers, NEW r \in Requests,
         SpuriousWakeup \/ Stop \/ SubmitInvalid(r) \/ Submit(r) \/ ClientStep(r)
  PROVE  \A q \in Requests : Stream(q)' = Stream(q)
  <1> USE StreamTypes
  <1>1. CASE StreamWait(r) /\ cpc'[r] = "deliver"
    <2>1. /\ pieces' = [pieces EXCEPT ![r] = streamPieces[r]]
          /\ streamPieces' = [streamPieces EXCEPT ![r] = <<>>]
          /\ delivered' = delivered /\ pieces[r] = <<>>
      <3>1. cpc[r] = "wait" /\ delivered' = delivered
        BY <1>1 DEF StreamWait
      <3>2. pieces[r] = <<>>
        BY <3>1 DEF Callers
      <3>3. streamPieces[r] # <<>> \/ streamFinished[r]
        BY <1>1, <3>1 DEF StreamWait
      <3> QED
        BY <1>1, <3>1, <3>2, <3>3 DEF StreamWait
    <2>2. delivered[r] \o streamPieces[r] \o <<>> = delivered[r] \o streamPieces[r]
          /\ delivered[r] \o <<>> = delivered[r]
      BY ConcatEmptySeq
    <2>3. Stream(r)' = Stream(r)
      BY <2>1, <2>2 DEF Stream
    <2> QED
      BY <2>1, <2>3 DEF Stream
  <1>2. CASE Deliver(r)
    <2>1. /\ delivered' = [delivered EXCEPT ![r] = Append(delivered[r], Head(pieces[r]))]
          /\ pieces' = [pieces EXCEPT ![r] = Tail(pieces[r])]
          /\ streamPieces' = streamPieces /\ pieces[r] # <<>>
      BY <1>2 DEF Deliver, sharedVars, requestVars
    <2>2. Append(delivered[r], Head(pieces[r])) \o Tail(pieces[r])
            = delivered[r] \o pieces[r]
      BY <2>1, ConcatMove
    <2>3. Stream(r)' = Stream(r)
      BY <2>1, <2>2 DEF Stream
    <2> QED
      BY <2>1, <2>3 DEF Stream
  <1>3. CASE ~Deliver(r) /\ ~(StreamWait(r) /\ cpc'[r] = "deliver")
    <2>1. UNCHANGED <<delivered, pieces, streamPieces>>
      BY <1>3 DEF SpuriousWakeup, Stop, SubmitInvalid, Submit, ClientStep,
                  NotifyWorker, StreamWait, CallbackThrows, Delivered, GetResult,
                  sharedVars, requestVars, clientVars, localVars
    <2> QED
      BY <2>1 DEF Stream
  <1> QED
    BY <1>1, <1>2, <1>3

\* What a step of the worker changes of a stream and its caller.
LEMMA WorkerFrame ==
  ASSUME BatchInvariant, WorkerStep
  PROVE  /\ UNCHANGED <<delivered, pieces, finished>>
         /\ ~Publish => streamPieces' = streamPieces
         /\ ~Complete => streamFinished' = streamFinished
         /\ \/ cpc' = cpc
            \/ \E r \in Requests :
                 cpc[r] = "asleep" /\ cpc' = [cpc EXCEPT ![r] = "wait"]
  <1>1. CASE CompleteNotify
    BY <1>1, CensusTypes DEF CompleteNotify, WakeClient, sharedVars, requestVars, localVars
  <1>2. CASE Limit
    <2>1. Current \in Requests
      BY <1>2, CensusTypes DEF Limit
    <2> QED
      BY <1>2, <2>1 DEF Limit, WakeClient, sharedVars, requestVars, localVars
  <1>3. CASE ~CompleteNotify /\ ~Limit
    BY <1>3
    DEF WorkerStep, Fail, Complete, Drain, Start, StartThrows,
         Top, Stopped, Wait, Window, AdmitPending, AdmitLoad, AdmitContinues,
         AdmitThrows, Seat, BeginRows, BeginRowsThrows, NextRow, RowLoad,
         RowContinues, RowThrows, SampleStop, SampleToken, Publish, Finish,
         FinishThrows, EndRows, EndRowsThrows, Decode, DecodeThrows,
         sharedVars, requestVars, clientVars, localVars
  <1> QED
    BY <1>1, <1>2, <1>3

\* A promise that is set keeps its value; a failing request fails.
LEMMA OverStays ==
  ASSUME BatchInvariant, RequestInvariant, [Next]_vars, NEW r \in Requests
  PROVE  /\ promise[r].kind # "unset" => promise'[r] = promise[r]
         /\ Over(r) => Over(r)'
  <1> USE CensusTypes DEF RequestInvariant
  <1>1. CASE Fail /\ failing # <<>>
    <2>1. /\ promise' = [promise EXCEPT ![Head(failing)] =
                           IF @.kind = "unset" THEN Exception ELSE @]
          /\ failing' = Tail(failing) /\ Head(failing) \in Requests
      BY <1>1 DEF Fail
    <2>2. Failing(r) => Failing(r)' \/ r = Head(failing)
      <3>1. Holds(failing, r) => Holds(Tail(failing), r) \/ r = Head(failing)
        BY <1>1, HoldsTail DEF Distinct
      <3> QED
        BY <2>1, <3>1 DEF Failing, Holds
    <2> QED
      BY <2>1, <2>2 DEF Over, Exception
  <1>2. CASE Finish
    <2>1. /\ promise' = [promise EXCEPT ![Current] = Value(active[index].output,
                IF wpc = "finish_stop" THEN "stop_token" ELSE "length")]
          /\ Current \in Requests /\ wpc \in {"finish_stop", "finish_length"}
      BY <1>2 DEF Finish
    <2>2. Unsettled(Current) /\ failing = <<>>
      <3>1. Running(Current)
        BY <2>1 DEF Running, LiveRows, InRows, Current
      <3> QED
        BY <2>1, <3>1 DEF Accounted, Held, Quiet
    <2> QED
      BY <2>1, <2>2, HoldsShort DEF Over, Failing, Unsettled, Value
  <1>3. CASE WorkerStep /\ ~Finish /\ ~(Fail /\ failing # <<>>)
    <2>1. promise' = promise
      BY <1>3 DEF WorkerStep, Fail, Complete, CompleteNotify, Drain, Start,
         StartThrows, Top, Stopped, Wait, Window, AdmitPending, AdmitLoad,
         AdmitContinues, AdmitThrows, Seat, BeginRows, BeginRowsThrows, NextRow,
         RowLoad, RowContinues, RowThrows, SampleStop, SampleToken, Publish, Limit,
         FinishThrows, EndRows, EndRowsThrows, Decode, DecodeThrows,
         sharedVars, requestVars
    <2>2. failing' = failing \/ failing = <<>>
      BY <1>3 DEF Quiet, WorkerStep, Fail, Complete, CompleteNotify, Drain, Start,
         StartThrows, Top, Stopped, Wait, Window, AdmitPending, AdmitLoad,
         AdmitContinues, AdmitThrows, Seat, BeginRows, BeginRowsThrows, NextRow,
         RowLoad, RowContinues, RowThrows, SampleStop, SampleToken, Publish, Limit,
         FinishThrows, EndRows, EndRowsThrows, Decode, DecodeThrows, workVars
    <2> QED
      BY <2>1, <2>2, HoldsShort DEF Over, Failing, Holds
  <1>4. CASE ~WorkerStep
    <2>1. promise' = promise /\ failing' = failing
      BY <1>4, OtherSteps
      DEF Next, vars, sharedVars, requestVars, workerVars, workVars
    <2> QED
      BY <2>1 DEF Over, Failing, Holds
  <1> QED
    BY <1>1, <1>2, <1>3, <1>4

\* Once a stream has been completed nothing is published on it.
LEMMA CompletedStep ==
  ASSUME BatchInvariant, RequestInvariant, Completed, [Next]_vars
  PROVE  Completed'
  <1> USE CensusTypes, StreamTypes
  <1>1. \A r \in Requests : Over(r) => Over(r)'
    BY OverStays
  <1>2. CASE Complete
    <2>1. /\ wpc = "complete" /\ wpc' = "notify" /\ subject' = subject
          /\ streamFinished' = [streamFinished EXCEPT ![subject] = TRUE]
      BY <1>2 DEF Complete, workVars
    <2> QED
      BY <1>1, <2>1 DEF Completed, Over
  <1>3. ASSUME WorkerStep, ~Complete PROVE Completed'
    <2>1. streamFinished' = streamFinished
      BY <1>3, WorkerFrame
    <2>2. wpc' # "notify"
      BY <1>3 DEF WorkerStep, Fail, CompleteNotify, Drain, Start, StartThrows,
         Top, Stopped, Wait, Window, AdmitPending, AdmitLoad, AdmitContinues,
         AdmitThrows, Seat, BeginRows, BeginRowsThrows, NextRow, RowLoad,
         RowContinues, RowThrows, SampleStop, SampleToken, Publish, Limit, Finish,
         FinishThrows, EndRows, EndRowsThrows, Decode, DecodeThrows, LeaveLoop,
         Raise, RaiseRow
    <2>3. wpc' = "complete" => (Fail /\ failing # <<>>) \/ Finish \/ FinishThrows
      BY <1>3 DEF WorkerStep, Fail, CompleteNotify, Drain, Start, StartThrows,
         Top, Stopped, Wait, Window, AdmitPending, AdmitLoad, AdmitContinues,
         AdmitThrows, Seat, BeginRows, BeginRowsThrows, NextRow, RowLoad,
         RowContinues, RowThrows, SampleStop, SampleToken, Publish, Limit, Finish,
         FinishThrows, EndRows, EndRowsThrows, Decode, DecodeThrows, LeaveLoop,
         Raise, RaiseRow
    <2>4. Fail /\ failing # <<>> => Over(subject)'
      BY SMTT(60) DEF Fail, Over, Exception
    <2>5. Finish => Over(subject)'
      BY DEF Finish, Over, Value
    <2>6. FinishThrows => Over(subject)'
      BY HoldsShort DEF FinishThrows, Over, Failing, Holds
    <2> QED
      BY <1>1, <2>1, <2>2, <2>3, <2>4, <2>5, <2>6 DEF Completed
  <1>4. CASE ~WorkerStep
    <2>1. /\ UNCHANGED <<streamFinished, subject>>
          /\ wpc' \in {wpc, "wait"}
      BY <1>4, OtherSteps DEF Next, vars, sharedVars, requestVars, workerVars, workVars
    <2> QED
      BY <1>1, <2>1 DEF Completed, Over
  <1> QED
    BY <1>2, <1>3, <1>4

\* Publishing on a stream that is being streamed and not over.
LEMMA PublishTarget ==
  ASSUME BatchInvariant, RequestInvariant, StreamInvariant, Publish
  PROVE  /\ Current \in Streaming /\ Current \in Requests /\ Running(Current)
         /\ Unsettled(Current) /\ ~Over(Current)
         /\ ~streamFinished[Current] /\ ~finished[Current]
         /\ streamPieces' = [streamPieces EXCEPT
                ![Current] = Append(streamPieces[Current], LastToken(active[index]))]
  <1> USE CensusTypes DEF RequestInvariant, StreamInvariant
  <1>1. /\ Current \in Streaming /\ Current \in Requests /\ wpc = "publish"
        /\ streamPieces' = [streamPieces EXCEPT
                ![Current] = Append(streamPieces[Current], LastToken(active[index]))]
    BY DEF Publish, Published
  <1>2. Running(Current)
    BY <1>1 DEF Running, LiveRows, InRows, Current
  <1>3. Unsettled(Current) /\ ~Failing(Current)
    BY <1>1, <1>2 DEF Accounted, Held, Exclusive
  <1>4. ~Over(Current)
    BY <1>3 DEF Over, Unsettled
  <1> QED
    BY <1>1, <1>2, <1>3, <1>4 DEF Completed, Callers

\* submit() at each of its locations.
LEMMA CallersStep ==
  ASSUME BatchInvariant, RequestInvariant, StreamInvariant, [Next]_vars
  PROVE  Callers'
  <1> USE StreamTypes DEF StreamInvariant
  <1>1. ASSUME WorkerStep PROVE Callers'
    <2>1. UNCHANGED <<delivered, pieces, finished>>
      BY <1>1, WorkerFrame
    <2>2. \A r \in Requests : /\ cpc'[r] \in {cpc[r], "wait"}
                              /\ cpc[r] # "asleep" => cpc'[r] = cpc[r]
                              /\ cpc[r] = "asleep" => cpc'[r] \in {"asleep", "wait"}
                              /\ Accepted(r)' <=> Accepted(r)
      BY <1>1, WorkerFrame DEF Accepted
    <2>3. \A r \in Requests : streamFinished[r] => streamFinished'[r]
      <3>1. CASE Complete
        BY <3>1 DEF Complete
      <3> QED
        BY <1>1, <3>1, WorkerFrame
    <2>4. \A r \in Requests :
            \/ streamPieces'[r] = streamPieces[r]
            \/ r \in Streaming /\ Accepted(r) /\ ~finished[r]
      <3>1. CASE Publish
        BY <3>1, PublishTarget DEF Unsettled
      <3> QED
        BY <1>1, <3>1, WorkerFrame
    <2> QED
      BY <2>1, <2>2, <2>3, <2>4 DEF Callers
  <1>2. ASSUME NEW r \in Requests, SpuriousWakeup \/ Stop PROVE Callers'
    BY <1>2 DEF Callers, Accepted, SpuriousWakeup, Stop, sharedVars, requestVars,
                clientVars, localVars
  <1>3. ASSUME NEW r \in Requests, SubmitInvalid(r) \/ Submit(r) PROVE Callers'
    BY ZenonT(60), <1>3 DEF Callers, Accepted, SubmitInvalid, Submit, sharedVars, requestVars,
                clientVars, localVars
  <1>4. ASSUME NEW r \in Requests, StreamWait(r) PROVE Callers'
    <2>1. CASE streamPieces[r] # <<>> \/ streamFinished[r]
      BY <1>4, <2>1 DEF Callers, Accepted, StreamWait
    <2>2. CASE ~(streamPieces[r] # <<>> \/ streamFinished[r])
      BY <1>4, <2>2 DEF Callers, Accepted, StreamWait
    <2> QED
      BY <2>1, <2>2
  <1>5. ASSUME NEW r \in Requests,
               NotifyWorker(r) \/ Deliver(r) \/ CallbackThrows(r)
        PROVE  Callers'
    BY SMTT(60), <1>5 DEF Callers, Accepted, NotifyWorker, Deliver, CallbackThrows,
                sharedVars, requestVars, clientVars, localVars
  <1>6. ASSUME NEW r \in Requests, Delivered(r) \/ GetResult(r)
        PROVE  Callers'
    BY <1>6 DEF Callers, Accepted, Delivered, GetResult,
                sharedVars, requestVars, clientVars, localVars
  <1>7. CASE UNCHANGED vars
    BY <1>7 DEF Callers, Accepted, vars, sharedVars, requestVars, clientVars, localVars
  <1> QED
    BY <1>1, <1>2, <1>3, <1>4, <1>5, <1>6, <1>7, CensusTypes DEF Next, ClientStep

\* A step of the worker that publishes nothing: it is enough to look at the rows
\* it leaves.
LEMMA PublishedKept ==
  ASSUME BatchInvariant, RequestInvariant, StreamInvariant, WorkerStep, ~Publish,
         wpc' = "publish" =>
           /\ Current' \in Streaming
           /\ active'[index'].output =
                Append(Stream(Current'), LastToken(active'[index'])),
         \A i \in LiveRows' : ~Unpublished(i)' => PublishedOf(active'[i]),
         InRows' => \A j \in 1..Len(nextActive') : PublishedOf(nextActive'[j]),
         \A r \in Streaming :
           promise'[r].kind = "value" =>
             promise'[r] = promise[r] \/ promise'[r].text = Stream(r)
  PROVE  Published'
  <1> USE StreamTypes, CensusTypes DEF StreamInvariant
  <1>1. UNCHANGED <<delivered, pieces, streamPieces>>
    BY WorkerFrame
  <1>2. \A r : Stream(r)' = Stream(r)
    BY <1>1 DEF Stream
  <1>3. \A r \in Streaming : Waiting(r)' \/ Admitting(r)' => Waiting(r) \/ Admitting(r)
    <2>1. CASE AdmitPending /\ pending # <<>>
      <3>1. pending' = Tail(pending) /\ subject' = Head(pending)
        BY <2>1 DEF AdmitPending, TakePending
      <3>2. OneEach(pending)
        BY DEF RequestInvariant, Distinct
      <3>3. /\ \A r : Holds(Tail(pending), r) => Holds(pending, r)
            /\ Holds(pending, Head(pending))
        BY <2>1, <3>2, HoldsTail
      <3> QED
        BY <3>1, <3>3 DEF Waiting, Admitting, Holds
    <2>2. ~(AdmitPending /\ pending # <<>>) =>
            /\ pending' = pending \/ pending' = <<>>
            /\ wpc' \in AdmitPcs => wpc \in AdmitPcs /\ subject' = subject
      BY DEF WorkerStep, Fail, Complete, CompleteNotify, Drain, Start, StartThrows,
         Top, Stopped, Wait, Window, AdmitPending, AdmitLoad, AdmitContinues,
         AdmitThrows, Seat, BeginRows, BeginRowsThrows, NextRow, RowLoad,
         RowContinues, RowThrows, SampleStop, SampleToken, Limit, Finish,
         FinishThrows, EndRows, EndRowsThrows, Decode, DecodeThrows, LeaveLoop,
         Raise, RaiseRow, sharedVars, workVars
    <2> QED
      BY <2>1, <2>2, HoldsShort DEF Waiting, Admitting, Holds
  <1>4. \A entry : PublishedOf(entry)' <=> PublishedOf(entry)
    BY <1>2 DEF PublishedOf
  <1>5. \A r \in Streaming :
          /\ Waiting(r)' \/ Admitting(r)' => Stream(r)' = <<>>
          /\ promise'[r].kind = "value" => promise'[r].text = Stream(r)'
          /\ OwnTokens(r, Stream(r))' /\ Len(Stream(r)') <= MaxTokens
    BY <1>2, <1>3 DEF Published, OwnTokens
  <1>6. wpc' = "publish" =>
          /\ Current' \in Streaming
          /\ active'[index'].output = Append(Stream(Current)', LastToken(active[index])')
    BY <1>2 DEF LastToken, Stream
  <1> QED
    BY <1>1, <1>2, <1>4, <1>5, <1>6 DEF Published, PublishedOf, Stream, LastToken, Unpublished

LEMMA LastIndex ==
  ASSUME NEW n \in Nat
  PROVE  \A i \in 1..n + 1 : i \in 1..n \/ i = n + 1
  OBVIOUS

\* A step that leaves the rows it keeps as they are.
LEMMA RowsKept ==
  ASSUME BatchInvariant, RequestInvariant, StreamInvariant, WorkerStep, ~Publish,
         wpc' # "publish",
         wpc = "publish" => index \notin LiveRows',
         LiveRows' \subseteq LiveRows, \A i \in LiveRows' : active'[i] = active[i],
         InRows' => nextActive' = <<>> \/ (InRows /\ nextActive' = nextActive),
         \A r \in Streaming : promise'[r].kind = "value" => promise'[r] = promise[r]
  PROVE  Published'
  <1>1. \A i \in LiveRows' : PublishedOf(active'[i])
    BY DEF StreamInvariant, Published, Unpublished
  <1>2. InRows' => \A j \in 1..Len(nextActive') : PublishedOf(nextActive'[j])
    BY DEF StreamInvariant, Published
  <1> QED
    BY <1>1, <1>2, PublishedKept

\* The request of the row has output what it has published.
LEMMA CurrentPublished ==
  ASSUME BatchInvariant, StreamInvariant, wpc \in RowPcs \ {"rows", "publish"}
  PROVE  Current \in Streaming => active[index].output = Stream(Current)
  <1>1. index \in LiveRows
    BY CensusTypes DEF LiveRows, InRows
  <1> QED
    BY <1>1 DEF StreamInvariant, Published, PublishedOf, Unpublished, Current

\* A new row has output nothing, and nothing of its request is published.
LEMMA SeatPublished ==
  ASSUME BatchInvariant, RequestInvariant, StreamInvariant, Seat
  PROVE  Published'
  <1> USE CensusTypes, StreamTypes
  <1>0. /\ wpc = "seat" /\ wpc' = "admitted" /\ UNCHANGED <<promise, nextActive>>
        /\ WorkerStep /\ ~Publish
    BY DEF Seat, sharedVars, requestVars, nextVars, workVars, clientVars, WorkerStep,
           Publish
  <1>1. PICK n \in OutputLimits : active' = Append(active,
                       [request |-> subject, output |-> <<>>, limit |-> n])
    BY DEF Seat
  <1>2. /\ ~InRows /\ ~InRows' /\ LiveRows = 1..Len(active)
        /\ LiveRows' = 1..Len(active) + 1
        /\ \A i \in 1..Len(active) : active'[i] = active[i]
        /\ active'[Len(active) + 1].request = subject
        /\ active'[Len(active) + 1].output = <<>>
    BY <1>0, <1>1 DEF InRows, LiveRows
  <1>3. subject \in Streaming => Stream(subject) = <<>>
    BY <1>0 DEF StreamInvariant, Published, Admitting
  <1>4. PublishedOf(active'[Len(active) + 1])
    BY <1>2, <1>3 DEF PublishedOf
  <1>5. \A i \in 1..Len(active) : PublishedOf(active'[i])
    BY <1>0, <1>2 DEF StreamInvariant, Published, Unpublished
  <1>6. \A i \in LiveRows' : PublishedOf(active'[i])
    <2> Len(active) \in Nat
      OBVIOUS
    <2> QED
      BY <1>2, <1>4, <1>5, LastIndex
  <1> QED
    BY <1>0, <1>2, <1>6, PublishedKept

\* The token that has been sampled is the one to be published.
LEMMA SamplePublished ==
  ASSUME BatchInvariant, RequestInvariant, StreamInvariant, SampleToken
  PROVE  Published'
  <1> USE CensusTypes, StreamTypes
  <1> DEFINE token == SampledFrom(RowLogits)
             entry == [active[index] EXCEPT !.output = Append(@, token)]
  <1>0. /\ wpc = "sample" /\ wpc' = IF Current \in Streaming THEN "publish" ELSE "limit"
        /\ active' = [active EXCEPT ![index].output = Append(@, token)]
        /\ UNCHANGED <<promise, nextActive, index>> /\ WorkerStep /\ ~Publish
        /\ index \in 1..Len(active) /\ Current \in Requests
    BY DEF SampleToken, sharedVars, requestVars, nextVars, workVars, WorkerStep, Publish
  <1>1. active' = [active EXCEPT ![index] = entry]
    BY <1>0
  <1> HIDE DEF token
  <1>2. active[index] \in Entry /\ active[index].output \in Seq(Token)
    BY <1>0, EntryType
  <1>3. /\ entry.request = Current /\ entry.output = Append(active[index].output, token)
    BY <1>2 DEF Entry, Current
  <1> HIDE DEF entry
  <1>4. LastToken(entry) = token
    <2>1. /\ Len(Append(active[index].output, token)) = Len(active[index].output) + 1
          /\ Append(active[index].output, token)[Len(active[index].output) + 1] = token
      BY <1>2
    <2> QED
      BY <1>3, <2>1 DEF LastToken
  <1>5. /\ active'[index] = entry /\ Len(active') = Len(active)
        /\ \A i \in 1..Len(active) : i # index => active'[i] = active[i]
    BY SMTT(60), <1>0, <1>1
  <1>6. InRows /\ InRows' /\ LiveRows' = LiveRows
    BY <1>0, <1>5 DEF InRows, LiveRows
  <1>7. Current \in Streaming => active[index].output = Stream(Current)
    BY <1>0, CurrentPublished
  <1>8. wpc' = "publish" =>
          /\ Current' \in Streaming
          /\ active'[index'].output =
               Append(Stream(Current'), LastToken(active'[index']))
    <2>1. Current' = Current /\ active'[index'] = entry
      BY <1>0, <1>3, <1>5 DEF Current
    <2> QED
      BY <1>0, <1>3, <1>4, <1>7, <2>1
  <1>9. \A i \in LiveRows' : ~Unpublished(i)' => PublishedOf(active'[i])
    <2> SUFFICES ASSUME NEW i \in LiveRows', ~Unpublished(i)'
                 PROVE  PublishedOf(active'[i])
      OBVIOUS
    <2>1. CASE i = index
      <3>1. Current \notin Streaming
        BY <1>0, <2>1 DEF Unpublished
      <3> QED
        BY <1>3, <1>5, <2>1, <3>1 DEF PublishedOf
    <2>2. CASE i # index
      <3>1. i \in LiveRows /\ active'[i] = active[i]
        BY <1>5, <1>6, <2>2 DEF LiveRows
      <3> QED
        BY <1>0, <3>1 DEF StreamInvariant, Published, Unpublished
    <2> QED
      BY <2>1, <2>2
  <1>10. \A j \in 1..Len(nextActive') : PublishedOf(nextActive'[j])
    BY <1>0, <1>6 DEF StreamInvariant, Published
  <1> QED
    BY <1>0, <1>8, <1>9, <1>10, PublishedKept

\* The row that survives keeps its output.
LEMMA LimitPublished ==
  ASSUME BatchInvariant, RequestInvariant, StreamInvariant, Limit, wpc' = "rows"
  PROVE  Published'
  <1> USE CensusTypes, StreamTypes
  <1>0. /\ wpc = "limit" /\ index' = index + 1
        /\ nextActive' = Append(nextActive, active[index])
        /\ UNCHANGED <<promise, active>> /\ WorkerStep /\ ~Publish
        /\ active[index] \in Entry
    <2>1. wpc = "limit" /\ UNCHANGED <<promise, active>>
      BY DEF Limit, sharedVars, requestVars, batchVars
    <2>2. index' = index + 1 /\ nextActive' = Append(nextActive, active[index])
      BY DEF Limit, KeepRow
    <2>3. WorkerStep /\ ~Publish
      BY <2>1 DEF WorkerStep, Publish
    <2>4. active[index] \in Entry
      BY <2>1
    <2> QED
      BY <2>1, <2>2, <2>3, <2>4
  <1>1. InRows /\ InRows' /\ LiveRows' \subseteq LiveRows
    BY <1>0 DEF InRows, LiveRows
  <1>2. Current \in Streaming => active[index].output = Stream(Current)
    BY <1>0, CurrentPublished
  <1>3. PublishedOf(active[index])
    BY <1>2 DEF PublishedOf, Current
  <1>4. \A j \in 1..Len(nextActive') : PublishedOf(nextActive'[j])
    <2>1. /\ Len(nextActive') = Len(nextActive) + 1 /\ Len(nextActive) \in Nat
          /\ nextActive'[Len(nextActive) + 1] = active[index]
          /\ \A j \in 1..Len(nextActive) : nextActive'[j] = nextActive[j]
      BY SMTT(60), <1>0
    <2>2. \A j \in 1..Len(nextActive) : PublishedOf(nextActive[j])
      BY <1>1 DEF StreamInvariant, Published
    <2> QED
      BY <1>3, <2>1, <2>2, LastIndex
  <1>5. \A i \in LiveRows' : PublishedOf(active'[i])
    BY <1>0, <1>1 DEF StreamInvariant, Published, Unpublished
  <1> QED
    BY <1>0, <1>4, <1>5, PublishedKept

\* finish() makes the result of what has been published.
LEMMA FinishPublished ==
  ASSUME BatchInvariant, RequestInvariant, StreamInvariant, Finish
  PROVE  Published'
  <1> USE CensusTypes, StreamTypes
  <1>0. /\ wpc \in {"finish_stop", "finish_length"} /\ wpc' = "complete"
        /\ resume' = "rows" /\ index' = index + 1 /\ WorkerStep /\ ~Publish
        /\ promise' = [promise EXCEPT ![Current] = Value(active[index].output,
                IF wpc = "finish_stop" THEN "stop_token" ELSE "length")]
        /\ UNCHANGED <<active, nextActive>>
    BY DEF Finish, sharedVars, requestVars, batchVars, nextVars, WorkerStep, Publish
  <1>1. InRows /\ InRows' /\ LiveRows' \subseteq LiveRows
    BY <1>0 DEF InRows, LiveRows
  <1>2. Current \in Streaming => active[index].output = Stream(Current)
    BY <1>0, CurrentPublished
  <1>3. \A r \in Streaming :
          promise'[r].kind = "value" =>
            promise'[r] = promise[r] \/ promise'[r].text = Stream(r)
    BY <1>0, <1>2 DEF Value
  <1>4. \A i \in LiveRows' : PublishedOf(active'[i])
    BY <1>0, <1>1 DEF StreamInvariant, Published, Unpublished
  <1>5. \A j \in 1..Len(nextActive') : PublishedOf(nextActive'[j])
    BY <1>0, <1>1 DEF StreamInvariant, Published
  <1> QED
    BY <1>0, <1>3, <1>4, <1>5, PublishedKept

\* The survivors become the batch.
LEMMA EndRowsPublished ==
  ASSUME BatchInvariant, RequestInvariant, StreamInvariant, EndRows
  PROVE  Published'
  <1> USE CensusTypes, StreamTypes
  <1>0. /\ wpc = "rows" /\ wpc' \in {"top", "decode"} /\ WorkerStep /\ ~Publish
        /\ active' = nextActive /\ UNCHANGED <<nextActive, promise>>
    BY DEF EndRows, sharedVars, requestVars, nextVars, WorkerStep, Publish
  <1>1. InRows /\ ~InRows' /\ LiveRows' = 1..Len(nextActive)
    BY <1>0 DEF InRows, LiveRows
  <1>2. \A i \in LiveRows' : PublishedOf(active'[i])
    BY <1>0, <1>1 DEF StreamInvariant, Published
  <1> QED
    BY <1>0, <1>1, <1>2, PublishedKept

\* A published piece is the last of the stream.
LEMMA PublishAppends ==
  ASSUME BatchInvariant, Publish, Current \in Requests,
         LastToken(active[index]) \in Token
  PROVE  Stream(Current)' = Append(Stream(Current), LastToken(active[index]))
  <1> DEFINE d == delivered[Current]
             p == pieces[Current]
             q == streamPieces[Current]
             x == LastToken(active[index])
  <1>1. streamPieces \in [Requests -> Seq(Token)]
    BY StreamTypes
  <1>2. /\ Current' = Current /\ UNCHANGED <<delivered, pieces>>
        /\ streamPieces'[Current] = Append(q, x)
    BY <1>1 DEF Publish, Current, batchVars, workVars, localVars
  <1>3. d \in Seq(Token) /\ p \in Seq(Token) /\ q \in Seq(Token) /\ x \in Token
    BY StreamTypes
  <1>4. Stream(Current) = d \o p \o q
    BY DEF Stream
  <1>5. Stream(Current)' = d \o p \o Append(q, x)
    BY <1>2 DEF Stream
  <1> HIDE DEF d, p, q, x
  <1>6. d \o p \o Append(q, x) = Append(d \o p \o q, x)
    BY <1>3, StreamAppend
  <1> QED
    BY <1>4, <1>5, <1>6 DEF x

\* publish() appends the sampled token, and the stream is the output again.
LEMMA PublishPublished ==
  ASSUME BatchInvariant, RequestInvariant, StreamInvariant, Publish
  PROVE  /\ Published'
         /\ Stream(Current)' = active[index].output
         /\ Stream(Current)' = Append(Stream(Current), LastToken(active[index]))
         /\ \A r \in Requests : r # Current => Stream(r)' = Stream(r)
  <1> USE CensusTypes, StreamTypes DEF RequestInvariant, StreamInvariant
  <1>0. /\ wpc = "publish" /\ wpc' = "limit"
        /\ UNCHANGED <<pending, promise, active, nextActive, index, subject, resume,
                       delivered, pieces>>
    BY DEF Publish, batchVars, nextVars, workVars, localVars
  <1>1. /\ Current \in Streaming /\ Current \in Requests /\ Running(Current)
        /\ Unsettled(Current)
        /\ streamPieces' = [streamPieces EXCEPT
               ![Current] = Append(streamPieces[Current], LastToken(active[index]))]
    BY PublishTarget
  <1>2. /\ active[index] \in Entry /\ active[index].output \in Seq(Token)
        /\ index \in LiveRows /\ InRows /\ InRows' /\ LiveRows' = LiveRows
    BY <1>0, EntryType DEF LiveRows, InRows
  <1>3. active[index].output = Append(Stream(Current), LastToken(active[index]))
    BY <1>0 DEF Published
  <1>4. LastToken(active[index]) \in Token
    <2>1. /\ Len(Append(Stream(Current), LastToken(active[index])))
               = Len(Stream(Current)) + 1
          /\ Len(Stream(Current)) \in Nat
      BY <1>1
    <2>2. Len(active[index].output) \in 1..Len(active[index].output)
      BY <1>2, <1>3, <2>1
    <2> QED
      BY <1>2, <2>2 DEF LastToken
  <1>5. Stream(Current)' = Append(Stream(Current), LastToken(active[index]))
    BY <1>1, <1>4, PublishAppends
  <1>6. \A r \in Requests : r # Current => Stream(r)' = Stream(r)
    BY <1>0, <1>1 DEF Stream
  <1>7. Current' = Current
    BY <1>0 DEF Current
  <1>8. \A i \in LiveRows' : PublishedOf(active[i])'
    <2> SUFFICES ASSUME NEW i \in LiveRows PROVE PublishedOf(active[i])'
      BY <1>2
    <2>1. CASE i = index
      BY <1>0, <1>3, <1>5, <1>7, <2>1 DEF PublishedOf, Current, Stream
    <2>2. CASE i # index
      <3>0. active[i].request # Current
        BY <1>2, <2>2 DEF Distinct, Current
      <3>1. active[i].request # Current /\ active[i].request \in Requests
        <4>1. active[i] \in Entry
          BY DEF LiveRows
        <4> QED
          BY <3>0, <4>1, EntryType
      <3>2. PublishedOf(active[i])
        BY <2>2 DEF Published, Unpublished
      <3>3. Stream(active[i].request)' = Stream(active[i].request)
        BY <1>0, <1>6, <3>1 DEF Stream
      <3> QED
        BY <1>0, <3>2, <3>3 DEF PublishedOf
    <2> QED
      BY <2>1, <2>2
  <1>9. \A j \in 1..Len(nextActive') : PublishedOf(nextActive[j])'
    <2> SUFFICES ASSUME NEW j \in 1..Len(nextActive) PROVE PublishedOf(nextActive[j])'
      BY <1>0
    <2>1. nextActive[j].request \in Requests
      BY EntryType
    <2>2. nextActive[j].request # Current
      <3>1. ~Surviving(Current)
        BY <1>1 DEF Exclusive
      <3> QED
        BY <1>2, <3>1, HoldsRequests DEF Surviving
    <2>3. PublishedOf(nextActive[j])
      BY <1>2 DEF Published
    <2>4. Stream(nextActive[j].request)' = Stream(nextActive[j].request)
      BY <1>0, <1>6, <2>1, <2>2 DEF Stream
    <2> QED
      BY <1>0, <2>3, <2>4 DEF PublishedOf
  <1>10. OwnTokens(Current, active[index].output) /\ Len(active[index].output) <= MaxTokens
    <2>1. Len(active[index].output) < active[index].limit + 1
      BY <1>0, <1>2 DEF BatchInvariant, OutputsOwn, Sampled
    <2>2. active[index].limit \in 1..MaxTokens
      BY <1>2, EntryType
    <2>3. OwnTokens(Current, active[index].output)
      BY <1>0 DEF BatchInvariant, OutputsOwn, Current
    <2> QED
      BY SMTT(60), <1>2, <2>1, <2>2, <2>3
  <1>11. \A r \in Streaming :
           /\ (Waiting(r) \/ Admitting(r))' => Stream(r)' = <<>>
           /\ promise'[r].kind = "value" => promise'[r].text = Stream(r)'
           /\ OwnTokens(r, Stream(r)') /\ Len(Stream(r)') <= MaxTokens
    <2> SUFFICES ASSUME NEW r \in Streaming
                 PROVE  /\ (Waiting(r) \/ Admitting(r))' => Stream(r)' = <<>>
                        /\ promise'[r].kind = "value" => promise'[r].text = Stream(r)'
                        /\ OwnTokens(r, Stream(r)') /\ Len(Stream(r)') <= MaxTokens
      OBVIOUS
    <2>1. (Waiting(r)' <=> Waiting(r)) /\ ~Admitting(r)'
      BY <1>0 DEF Waiting, Admitting, Holds
    <2>2. CASE r = Current
      <3>1. ~Waiting(r) /\ promise[r].kind = "unset"
        BY <1>1, <2>2 DEF Exclusive, Unsettled
      <3> QED
        BY <1>0, <1>3, <1>5, <1>7, <1>10, <2>1, <2>2, <3>1 DEF Stream
    <2>3. CASE r # Current
      <3>1. Stream(r)' = Stream(r)
        BY <1>6, <2>3
      <3> QED
        BY <1>0, <2>1, <3>1 DEF Published
    <2> QED
      BY <2>2, <2>3
  <1>12. Published'
    <2>1. \A r \in Streaming : OwnTokens(r, Stream(r)') <=> OwnTokens(r, Stream(r))'
      BY DEF OwnTokens
    <2> QED
      BY <1>0, <1>8, <1>9, <1>11, <2>1 DEF Published
  <1> QED
    BY <1>3, <1>5, <1>6, <1>12

LEMMA PublishedStep ==
  ASSUME BatchInvariant, RequestInvariant, StreamInvariant, [Next]_vars
  PROVE  Published'
  <1> USE CensusTypes, StreamTypes
  <1>1. CASE Publish
    BY <1>1, PublishPublished
  <1>2. CASE Seat \/ SampleToken \/ (Limit /\ wpc' = "rows") \/ Finish \/ EndRows
    BY <1>2, SeatPublished, SamplePublished, LimitPublished, FinishPublished,
       EndRowsPublished
  <1>3. ASSUME WorkerStep,
               ~(Publish \/ Seat \/ SampleToken \/ (Limit /\ wpc' = "rows")
                   \/ Finish \/ EndRows)
        PROVE  Published'
    <2>1. wpc' # "publish"
      BY <1>3 DEF WorkerStep, Fail, Complete, CompleteNotify, Drain, Start, StartThrows,
         Top, Stopped, Wait, Window, AdmitPending, AdmitLoad, AdmitContinues,
         AdmitThrows, BeginRows, BeginRowsThrows, NextRow, RowLoad,
         RowContinues, RowThrows, SampleStop, Limit,
         FinishThrows, EndRowsThrows, Decode, DecodeThrows, LeaveLoop,
         Raise, RaiseRow
    <2>2. \A r \in Streaming : promise'[r].kind = "value" => promise'[r] = promise[r]
      <3>1. CASE Fail /\ failing # <<>>
        <4>1. /\ promise' = [promise EXCEPT ![Head(failing)] =
                               IF @.kind = "unset" THEN Exception ELSE @]
              /\ Head(failing) \in Requests
          BY SMTT(60), <3>1 DEF Fail
        <4> QED
          BY <4>1 DEF Exception
      <3>2. CASE ~(Fail /\ failing # <<>>)
        <4>1. promise' = promise
          BY <1>3, <3>2 DEF WorkerStep, Fail, Complete, CompleteNotify, Drain, Start,
             StartThrows, Top, Stopped, Wait, Window, AdmitPending, AdmitLoad,
             AdmitContinues, AdmitThrows, BeginRows, BeginRowsThrows, NextRow, RowLoad,
             RowContinues, RowThrows, SampleStop, Limit, FinishThrows, EndRowsThrows,
             Decode, DecodeThrows, sharedVars, requestVars
        <4> QED
          BY <4>1
      <3> QED
        BY <3>1, <3>2
    <2>4. \/ active' = <<>> /\ ~InRows' /\ wpc # "publish"
          \/ /\ active' = active
             /\ InRows => InRows' /\ index' \in {index, index + 1}
             /\ InRows' => nextActive' = <<>> \/ (InRows /\ nextActive' = nextActive)
             /\ wpc = "publish" => InRows /\ index' = index + 1
      <3>1. CASE RowThrows \/ FinishThrows
        BY <1>3, <3>1 DEF RowThrows, FinishThrows, RaiseRow, Raise, InRows, batchVars,
                   nextVars
      <3>2. CASE RowLoad \/ NextRow \/ RowContinues \/ SampleStop \/ Limit
        BY <1>3, <3>2 DEF RowLoad, NextRow, RowContinues, SampleStop, Limit,
                   RaiseRow, Raise, InRows, batchVars, nextVars, workVars
      <3>3. CASE BeginRows
        BY <1>3, <3>3 DEF BeginRows, InRows, batchVars, nextVars, workVars
      <3>4. CASE Fail \/ Complete \/ CompleteNotify
        BY <1>3, <3>4 DEF Fail, Complete, CompleteNotify, InRows, batchVars, nextVars,
                   workVars
      <3>5. CASE \/ Drain \/ Start \/ Top \/ Wait \/ Window \/ AdmitPending
                 \/ AdmitLoad \/ AdmitContinues \/ AdmitThrows \/ Decode
        BY <1>3, <3>5 DEF Drain, Start, Top, Wait, Window, AdmitPending, AdmitLoad,
                   AdmitContinues, AdmitThrows, Decode, InRows, Raise, batchVars,
                   nextVars, workVars
      <3>6. CASE \/ StartThrows \/ Stopped \/ BeginRowsThrows \/ EndRowsThrows
                 \/ DecodeThrows
        BY <1>3, <3>6 DEF StartThrows, Stopped, BeginRowsThrows, EndRowsThrows,
                   DecodeThrows, LeaveLoop, InRows
      <3> QED
        BY <1>3, <3>1, <3>2, <3>3, <3>4, <3>5, <3>6 DEF WorkerStep
    <2>5. /\ LiveRows' \subseteq LiveRows /\ \A i \in LiveRows' : active'[i] = active[i]
          /\ wpc = "publish" => index \notin LiveRows'
      BY <2>4 DEF LiveRows
    <2> QED
      BY <1>3, <2>1, <2>2, <2>4, <2>5, RowsKept
  <1>4. ASSUME NEW r \in Requests,
               SpuriousWakeup \/ Stop \/ SubmitInvalid(r) \/ Submit(r) \/ ClientStep(r)
        PROVE  Published'
    <2>1. \A q \in Requests : Stream(q)' = Stream(q)
      BY <1>4, CallerKeepsStream DEF StreamInvariant
    <2>2. /\ UNCHANGED <<promise, active, nextActive, index, subject, resume>>
          /\ wpc' = wpc \/ (wpc = "asleep" /\ wpc' = "wait")
      BY <1>4, OtherSteps DEF batchVars, nextVars, workVars
    <2>3. InRows' = InRows /\ LiveRows' = LiveRows /\ Current' = Current
      BY <2>2 DEF InRows, LiveRows, Current
    <2>4. \A q \in Streaming : Waiting(q)' \/ Admitting(q)' => Stream(q) = <<>>
      <3>1. CASE Submit(r)
        <4>0. pending' = Append(pending, r)
          BY <3>1 DEF Submit
        <4>3. \A q : Holds(Append(pending, r), q) <=> Holds(pending, q) \/ q = r
          BY HoldsAppend
        <4>1. \A q : Waiting(q)' <=> Waiting(q) \/ q = r
          BY <4>0, <4>3 DEF Waiting, Holds
        <4>2. Stream(r) = <<>>
          <5>1. delivered[r] = <<>> /\ pieces[r] = <<>> /\ streamPieces[r] = <<>>
            BY <3>1 DEF Submit, StreamInvariant, Callers, Accepted
          <5> QED
            BY <5>1 DEF Stream
        <4> QED
          BY <2>2, <4>1, <4>2 DEF StreamInvariant, Published, Admitting
      <3>2. CASE ~Submit(r)
        <4>1. pending' = pending
          BY <1>4, <3>2 DEF SpuriousWakeup, Stop, SubmitInvalid, ClientStep,
             NotifyWorker, StreamWait, Deliver, CallbackThrows, Delivered, GetResult,
             sharedVars
        <4> QED
          BY <2>2, <4>1 DEF StreamInvariant, Published, Admitting, Waiting, Holds
      <3> QED
        BY <3>1, <3>2
    <2>5. /\ \A i \in LiveRows : active[i].request \in Requests
          /\ \A j \in 1..Len(nextActive) : nextActive[j].request \in Requests
          /\ wpc = "publish" => Current \in Requests
      BY SMTT(60), EntryType DEF LiveRows
    <2>6. /\ \A i \in LiveRows' : ~Unpublished(i)' => PublishedOf(active[i])'
          /\ InRows' => \A j \in 1..Len(nextActive') : PublishedOf(nextActive[j])'
      <3>1. ASSUME NEW e, e.request \in Requests
            PROVE  Stream(e.request)' = Stream(e.request)
        BY <2>1, <3>1
      <3> QED
        BY ZenonT(60), <2>2, <2>3, <2>5, <3>1 DEF PublishedOf, Unpublished, StreamInvariant,
             Published, Stream
    <2>7. wpc' = "publish" =>
            /\ Current' \in Streaming
            /\ active'[index'].output = Append(Stream(Current)', LastToken(active[index])')
      BY <2>1, <2>2, <2>3, <2>5 DEF StreamInvariant, Published, LastToken, Stream
    <2>8. \A q \in Streaming :
             /\ (Waiting(q) \/ Admitting(q))' => Stream(q)' = <<>>
             /\ promise'[q].kind = "value" => promise'[q].text = Stream(q)'
             /\ OwnTokens(q, Stream(q))' /\ Len(Stream(q)') <= MaxTokens
      BY <2>1, <2>2, <2>4 DEF StreamInvariant, Published, OwnTokens
    <2> QED
      BY <2>6, <2>7, <2>8 DEF Published
  <1>5. CASE UNCHANGED vars
    <2>1. UNCHANGED <<pending, promise, wpc, active, nextActive, index, subject,
                      resume, delivered, pieces, streamPieces>>
      BY <1>5 DEF vars, sharedVars, requestVars, workerVars, batchVars, nextVars,
                  workVars, clientVars, localVars
    <2>2. \A r : /\ Stream(r)' = Stream(r)
                 /\ Waiting(r)' <=> Waiting(r)
                 /\ Admitting(r)' <=> Admitting(r)
      BY <2>1 DEF Stream, Waiting, Admitting, Holds
    <2>3. /\ InRows' = InRows /\ LiveRows' = LiveRows /\ Current' = Current
          /\ \A entry : PublishedOf(entry)' <=> PublishedOf(entry)
      BY <2>1, <2>2 DEF InRows, LiveRows, Current, PublishedOf
    <2>4. \A r : OwnTokens(r, Stream(r))' <=> OwnTokens(r, Stream(r))
      BY <2>2 DEF OwnTokens
    <2> QED
      BY <2>1, <2>2, <2>3, <2>4 DEF StreamInvariant, Published, PublishedOf, LastToken,
         Unpublished, Stream
  <1> QED
    BY <1>1, <1>2, <1>3, <1>4, <1>5 DEF Next

LEMMA StreamInit == Init => StreamInvariant
  <1> SUFFICES ASSUME Init PROVE StreamInvariant
    OBVIOUS
  <1> USE DEF Init
  <1>1. ~InRows /\ LiveRows = {}
    BY DEF InRows, LiveRows
  <1>2. Callers
    BY DEF Callers, Accepted
  <1>3. Completed
    BY DEF Completed
  <1>4. Published
    <2>1. \A r \in Requests : Stream(r) = <<>>
      BY ConcatEmptySeq DEF Stream
    <2>2. \A r : OwnTokens(r, <<>>) /\ Len(<<>>) <= MaxTokens
      BY BatcherAssumption DEF OwnTokens
    <2> QED
      BY <1>1, <2>1, <2>2, BatcherAssumption DEF Published, Unset
  <1> QED
    BY <1>2, <1>3, <1>4 DEF StreamInvariant

ServiceInvariant == BatchInvariant /\ RequestInvariant /\ StreamInvariant

\* The three inductive invariants of the batcher hold together.
THEOREM ServiceInvariantHolds == Spec => []ServiceInvariant
  <1>1. Spec => [](BatchInvariant /\ RequestInvariant)
    BY RequestInvariantHolds
  <1>2. BatchInvariant /\ RequestInvariant /\ StreamInvariant /\ [Next]_vars
          => StreamInvariant'
    BY CallersStep, CompletedStep, PublishedStep DEF StreamInvariant
  <1>3. BatchInvariant /\ RequestInvariant /\ StreamInvariant => ServiceInvariant
    BY DEF ServiceInvariant
  <1> QED
    BY <1>1, <1>2, <1>3, StreamInit, PTL DEF Spec

\* Between publish(), the swap in submit() and the callback no piece is lost,
\* repeated or reordered, and a call that returns a text has delivered all of it.
THEOREM StreamHolds == Spec => []StreamIsResult
  <1>1. ServiceInvariant => StreamIsResult
    <2> SUFFICES ASSUME ServiceInvariant, NEW r \in Streaming,
                        promise[r].kind = "value"
                 PROVE  /\ delivered[r] \o pieces[r] \o streamPieces[r] = promise[r].text
                        /\ cpc[r] \in {"get", "returned"} => delivered[r] = promise[r].text
      BY DEF StreamIsResult
    <2> USE StreamTypes DEF ServiceInvariant, StreamInvariant
    <2>1. r \in Requests /\ promise[r].text = Stream(r)
      BY DEF Published
    <2>2. cpc[r] \in {"get", "returned"} => Stream(r) = delivered[r]
      <3>1. cpc[r] \in {"get", "returned"} => pieces[r] = <<>> /\ streamPieces[r] = <<>>
        BY <2>1 DEF Callers
      <3>2. delivered[r] \o <<>> \o <<>> = delivered[r]
        BY <2>1, ConcatEmptySeq
      <3> QED
        BY <3>1, <3>2 DEF Stream
    <2> QED
      BY <2>1, <2>2 DEF Stream
  <1> QED
    BY <1>1, ServiceInvariantHolds, PTL

-----------------------------------------------------------------------------
(***************************************************************************)
(* The batcher implements GenerationService.  Every step of the batcher is *)
(* one of the service or leaves what the service shows unchanged.          *)
(***************************************************************************)

\* A sequence of r's own tokens is the text the service speaks of.
LEMMA OwnTextIs ==
  ASSUME NEW r, NEW s \in Seq(Token), OwnTokens(r, s)
  PROVE  s = Service!OwnText(r, Len(s))
  <1>1. Len(s) \in Nat /\ s = [k \in 1..Len(s) |-> s[k]]
    BY LenProperties
  <1>2. \A k \in 1..Len(s) : s[k] = [owner |-> r, at |-> k - 1]
    BY DEF OwnTokens
  <1> QED
    BY <1>1, <1>2 DEF Service!OwnText

\* The queue of the service holds the requests that wait, and at the end those
\* run() is failing.
LEMMA ServiceQueueHolds ==
  ASSUME ServiceInvariant
  PROVE  /\ ServiceQueue \in Seq(Requests)
         /\ ~(wpc \in FailPcs /\ resume = "dead") =>
              ServiceQueue = pending /\ \A r : Holds(ServiceQueue, r) <=> Waiting(r)
  BY CensusTypes DEF ServiceInvariant, ServiceQueue, Waiting

\* What the service shows of a request, read off the batcher.
StatusShown ==
    \A r \in Requests :
      /\ ServiceStatus(r) =
           IF ~Accepted(r) THEN "new"
           ELSE IF promise[r].kind = "value" THEN "value"
           ELSE IF promise[r].kind = "exception" THEN "error"
           ELSE IF Holds(ServiceQueue, r) THEN "queued" ELSE "running"
      /\ promise[r].kind \in {"unset", "value", "exception"}

LEMMA ServiceStatusIs == ServiceInvariant => StatusShown
  <1> SUFFICES ASSUME ServiceInvariant, NEW r \in Requests
               PROVE  /\ ServiceStatus(r) =
                           IF ~Accepted(r) THEN "new"
                           ELSE IF promise[r].kind = "value" THEN "value"
                           ELSE IF promise[r].kind = "exception" THEN "error"
                           ELSE IF Holds(ServiceQueue, r) THEN "queued"
                           ELSE "running"
                      /\ promise[r].kind \in {"unset", "value", "exception"}
    BY DEF StatusShown
  <1>1. promise[r].kind \in {"unset", "value", "exception"}
    BY CensusTypes DEF ServiceInvariant, Outcome, Unset, Exception
  <1>2. CASE ~Accepted(r)
    <2>1. promise[r].kind = "unset"
      BY <1>2 DEF ServiceInvariant, RequestInvariant, Quiet, Unset
    <2> QED
      BY <1>1, <1>2, <2>1 DEF ServiceStatus
  <1>3. CASE Accepted(r) /\ promise[r].kind = "value"
    BY <1>1, <1>3 DEF ServiceStatus
  <1>4. CASE Accepted(r) /\ promise[r].kind = "exception"
    BY <1>1, <1>4 DEF ServiceStatus
  <1>5. CASE Accepted(r) /\ promise[r].kind = "unset"
    BY <1>1, <1>5 DEF ServiceStatus, Holds
  <1> QED
    BY <1>1, <1>2, <1>3, <1>4, <1>5

LEMMA ServiceStatusNext == ServiceInvariant' => StatusShown'
  BY ServiceStatusIs, PTL

LEMMA ServiceTextIs ==
  ASSUME NEW r
  PROVE  ServiceText(r) = IF r \in Streaming THEN Stream(r)
                          ELSE IF promise[r].kind = "value" THEN promise[r].text
                          ELSE <<>>
  BY DEF ServiceText, Stream

\* A step that shows nothing.
LEMMA ServiceStutters ==
  ASSUME ServiceInvariant, ServiceInvariant',
         \A r \in Requests : /\ ServiceCaller(r)' = ServiceCaller(r)
                             /\ Accepted(r)' <=> Accepted(r)
                             /\ Stream(r)' = Stream(r),
         UNCHANGED <<promise, delivered>>, ServiceQueue' = ServiceQueue
  PROVE  UNCHANGED Service!serviceVars
  <1>1. \A r \in Requests : ServiceStatus(r)' = ServiceStatus(r)
    <2> SUFFICES ASSUME NEW r \in Requests PROVE ServiceStatus(r)' = ServiceStatus(r)
      OBVIOUS
    <2>1. Holds(ServiceQueue, r)' <=> Holds(ServiceQueue, r)
      BY DEF Holds
    <2> QED
      BY <2>1 DEF ServiceStatus, Holds
  <1>2. \A r \in Requests : ServiceText(r)' = ServiceText(r)
    BY DEF ServiceText, Stream
  <1> QED
    BY <1>1, <1>2 DEF Service!serviceVars

\* The steps of submit().
LEMMA RejectImplemented ==
  ASSUME ServiceInvariant, ServiceInvariant', NEW s \in Requests, SubmitInvalid(s)
  PROVE  Service!Reject(s)
  <1>1. /\ cpc[s] = "idle" /\ cpc' = [cpc EXCEPT ![s] = "rejected"]
        /\ UNCHANGED <<wpc, resume, failing, pending, promise, delivered, pieces,
                       streamPieces>>
    BY DEF SubmitInvalid, sharedVars, requestVars, workerVars, workVars, localVars
  <1>2. cpc \in [Requests -> ClientPcs]
    BY StreamTypes DEF ServiceInvariant
  <1>3. \A r \in Requests :
          ServiceCaller(r)' = IF r = s THEN "rejected" ELSE ServiceCaller(r)
    BY <1>1, <1>2 DEF ServiceCaller
  <1>4. ServiceCaller(s) = "out"
    BY <1>1 DEF ServiceCaller
  <1>5. \A r \in Requests : Accepted(r)' <=> Accepted(r)
    BY <1>1, <1>2 DEF Accepted
  <1>6. ServiceQueue' = ServiceQueue
    BY <1>1 DEF ServiceQueue
  <1>7. \A r \in Requests :
          ServiceStatus(r)' = ServiceStatus(r) /\ ServiceText(r)' = ServiceText(r)
    BY <1>1, <1>5, <1>6 DEF ServiceStatus, ServiceText
  <1> QED
    BY <1>1, <1>3, <1>4, <1>6, <1>7 DEF Service!Reject

LEMMA AcceptImplemented ==
  ASSUME ServiceInvariant, ServiceInvariant', NEW s \in Requests, Submit(s)
  PROVE  Service!Accept(s)
  <1>1. /\ cpc[s] = "idle" /\ cpc' = [cpc EXCEPT ![s] = "notify"]
        /\ pending' = Append(pending, s)
        /\ UNCHANGED <<wpc, resume, failing, promise, delivered, pieces, streamPieces>>
    BY DEF Submit, requestVars, workerVars, workVars, localVars
  <1>2. cpc \in [Requests -> ClientPcs]
    BY StreamTypes DEF ServiceInvariant
  <1>3. \A r \in Requests :
          ServiceCaller(r)' = IF r = s THEN "in" ELSE ServiceCaller(r)
    BY <1>1, <1>2 DEF ServiceCaller
  <1>4. ServiceCaller(s) = "out"
    BY <1>1 DEF ServiceCaller
  <1>5. \A r \in Requests : Accepted(r)' <=> Accepted(r) \/ r = s
    BY <1>1, <1>2 DEF Accepted
  <1>6. ServiceQueue' = Append(ServiceQueue, s)
    <2>1. pending \in Seq(Requests) /\ failing \in Seq(Requests)
      BY CensusTypes DEF ServiceInvariant
    <2>2. failing \o Append(pending, s) = Append(failing \o pending, s)
      BY <2>1, ConcatAppend
    <2> QED
      BY <1>1, <2>2 DEF ServiceQueue
  <1>7. \A r : Holds(ServiceQueue, r)' <=> Holds(ServiceQueue, r) \/ r = s
    <2>1. \A r : Holds(Append(ServiceQueue, s), r) <=> Holds(ServiceQueue, r) \/ r = s
      BY ServiceQueueHolds, HoldsAppend
    <2> QED
      BY <1>6, <2>1 DEF Holds
  <1>8. promise[s].kind = "unset"
    BY <1>1 DEF ServiceInvariant, RequestInvariant, Quiet, Accepted, Unset
  <1>9. \A r \in Requests :
          ServiceStatus(r)' = IF r = s THEN "queued" ELSE ServiceStatus(r)
    BY <1>1, <1>5, <1>7, <1>8, ServiceStatusIs, ServiceStatusNext DEF StatusShown
  <1>10. \A r \in Requests : ServiceText(r)' = ServiceText(r)
    BY <1>1 DEF ServiceText
  <1> QED
    BY <1>1, <1>3, <1>4, <1>6, <1>9, <1>10 DEF Service!Accept

\* A delivered piece is the next of the text.
LEMMA SeeImplemented ==
  ASSUME ServiceInvariant, ServiceInvariant', NEW s \in Requests, Deliver(s)
  PROVE  Service!See(s)
  <1>1. /\ cpc[s] = "deliver" /\ pieces[s] # <<>>
        /\ delivered' = [delivered EXCEPT ![s] = Append(delivered[s], Head(pieces[s]))]
        /\ UNCHANGED <<wpc, resume, failing, pending, promise, cpc>>
    BY DEF Deliver, sharedVars, requestVars, workerVars, workVars
  <1>2. /\ delivered \in [Requests -> Seq(Token)] /\ pieces \in [Requests -> Seq(Token)]
        /\ streamPieces \in [Requests -> Seq(Token)]
    BY StreamTypes DEF ServiceInvariant
  <1>3. s \in Streaming
    BY <1>1 DEF ServiceInvariant, StreamInvariant, Callers
  <1>4. \A r \in Requests : Stream(r)' = Stream(r)
    BY CallerKeepsStream DEF ServiceInvariant, StreamInvariant, ClientStep
  <1>5. /\ ServiceText(s) = Stream(s)
        /\ \A r \in Requests : ServiceText(r)' = ServiceText(r)
    <2>1. ServiceText(s) = Stream(s)
      BY <1>3, ServiceTextIs
    <2>2. ASSUME NEW r \in Requests PROVE ServiceText(r)' = ServiceText(r)
      <3>1. Stream(r)' = Stream(r) /\ promise' = promise
        BY <1>1, <1>4
      <3> QED
        BY <3>1 DEF ServiceText, Stream
    <2> QED
      BY <2>1, <2>2
  <1>6. /\ Len(delivered[s]) < Len(Stream(s))
        /\ Stream(s)[Len(delivered[s]) + 1] = Head(pieces[s])
    <2> DEFINE d == delivered[s]
               p == pieces[s]
               q == streamPieces[s]
    <2>1. d \in Seq(Token) /\ p \in Seq(Token) /\ q \in Seq(Token) /\ p # <<>>
      BY <1>1, <1>2
    <2> HIDE DEF d, p, q
    <2>2. /\ d \o p \in Seq(Token) /\ Len(d \o p) = Len(d) + Len(p)
          /\ \A i \in 1..Len(d) + Len(p) :
               (d \o p)[i] = IF i <= Len(d) THEN d[i] ELSE p[i - Len(d)]
      BY <2>1, ConcatProperties
    <2>3. /\ Len(d \o p \o q) = Len(d \o p) + Len(q)
          /\ \A i \in 1..Len(d \o p) + Len(q) :
               (d \o p \o q)[i] = IF i <= Len(d \o p) THEN (d \o p)[i]
                                  ELSE q[i - Len(d \o p)]
      BY <2>1, <2>2, ConcatProperties
    <2>4. /\ Len(p) \in Nat \ {0} /\ Len(d) \in Nat /\ Len(q) \in Nat /\ Head(p) = p[1]
      BY <2>1
    <2>5. Len(d) < Len(d \o p \o q) /\ (d \o p \o q)[Len(d) + 1] = Head(p)
      BY <2>2, <2>3, <2>4
    <2> QED
      BY <2>5 DEF Stream, d, p, q
  <1>7. ServiceCaller(s) = "in"
    BY <1>1 DEF ServiceCaller
  <1>8. \A r \in Requests : ServiceCaller(r)' = ServiceCaller(r)
    BY <1>1 DEF ServiceCaller
  <1>9. ServiceQueue' = ServiceQueue
    BY <1>1 DEF ServiceQueue
  <1>10. \A r \in Requests : ServiceStatus(r)' = ServiceStatus(r)
    BY <1>1, <1>9 DEF ServiceStatus, Accepted
  <1> QED
    BY <1>1, <1>5, <1>6, <1>7, <1>8, <1>9, <1>10 DEF Service!See

\* A callback throws on the next piece of the text.
LEMMA UnwindImplemented ==
  ASSUME ServiceInvariant, ServiceInvariant', NEW s \in Requests, CallbackThrows(s)
  PROVE  Service!Unwind(s)
  <1>1. /\ cpc[s] = "deliver" /\ pieces[s] # <<>>
        /\ cpc' = [cpc EXCEPT ![s] = "thrown"]
        /\ UNCHANGED <<wpc, resume, failing, pending, promise, delivered, pieces,
                       streamPieces>>
    BY DEF CallbackThrows, workerVars, workVars, localVars
  <1>2. /\ delivered \in [Requests -> Seq(Token)] /\ pieces \in [Requests -> Seq(Token)]
        /\ streamPieces \in [Requests -> Seq(Token)] /\ cpc \in [Requests -> ClientPcs]
    BY StreamTypes DEF ServiceInvariant
  <1>3. s \in Streaming
    BY <1>1 DEF ServiceInvariant, StreamInvariant, Callers
  <1>4. Len(delivered[s]) < Len(Stream(s))
    <2> DEFINE d == delivered[s]
               p == pieces[s]
               q == streamPieces[s]
    <2>1. d \in Seq(Token) /\ p \in Seq(Token) /\ q \in Seq(Token) /\ p # <<>>
      BY <1>1, <1>2
    <2> HIDE DEF d, p, q
    <2>2. Len(d \o p \o q) = Len(d) + Len(p) + Len(q) /\ Len(p) \in Nat \ {0}
          /\ Len(d) \in Nat /\ Len(q) \in Nat
      BY <2>1
    <2>3. Len(d) < Len(d \o p \o q)
      BY <2>2
    <2> QED
      BY <2>3 DEF Stream, d, p, q
  <1>5. /\ ServiceText(s) = Stream(s)
        /\ \A r \in Requests : ServiceText(r)' = ServiceText(r)
    BY <1>1, <1>3, ServiceTextIs DEF ServiceText
  <1>6. /\ ServiceCaller(s) = "in"
        /\ \A r \in Requests :
             ServiceCaller(r)' = IF r = s THEN "unwound" ELSE ServiceCaller(r)
    BY <1>1, <1>2 DEF ServiceCaller
  <1>7. ServiceQueue' = ServiceQueue
    BY <1>1 DEF ServiceQueue
  <1>8. \A r \in Requests : ServiceStatus(r)' = ServiceStatus(r)
    <2>1. \A r \in Requests : Accepted(r)' <=> Accepted(r)
      BY <1>1, <1>2 DEF Accepted
    <2> QED
      BY <1>1, <1>7, <2>1 DEF ServiceStatus
  <1> QED
    BY <1>1, <1>4, <1>5, <1>6, <1>7, <1>8 DEF Service!Unwind

\* submit() returns.
LEMMA ReturnImplemented ==
  ASSUME ServiceInvariant, ServiceInvariant', NEW s \in Requests, GetResult(s)
  PROVE  Service!Return(s)
  <1>1. /\ cpc[s] = "get" /\ promise[s].kind # "unset"
        /\ cpc' = [cpc EXCEPT ![s] = "returned"]
        /\ UNCHANGED <<wpc, resume, failing, pending, promise, delivered, pieces,
                       streamPieces>>
    BY DEF GetResult, sharedVars, requestVars, workerVars, workVars, localVars
  <1>2. /\ delivered \in [Requests -> Seq(Token)] /\ cpc \in [Requests -> ClientPcs]
    BY StreamTypes DEF ServiceInvariant
  <1>3. s \in Streaming => delivered[s] = Stream(s)
    <2> SUFFICES ASSUME s \in Streaming PROVE delivered[s] = Stream(s)
      OBVIOUS
    <2>1. pieces[s] = <<>> /\ streamPieces[s] = <<>>
      BY <1>1 DEF ServiceInvariant, StreamInvariant, Callers
    <2>2. delivered[s] \o <<>> \o <<>> = delivered[s]
      BY <1>2, ConcatEmptySeq
    <2> QED
      BY <2>1, <2>2 DEF Stream
  <1>4. s \in Streaming => delivered[s] = ServiceText(s)
    BY <1>3, ServiceTextIs
  <1>5. \A r \in Requests : ServiceText(r)' = ServiceText(r)
    BY <1>1 DEF ServiceText
  <1>6. /\ ServiceCaller(s) = "in"
        /\ \A r \in Requests :
             ServiceCaller(r)' = IF r = s THEN "returned" ELSE ServiceCaller(r)
    BY <1>1, <1>2 DEF ServiceCaller
  <1>7. ServiceQueue' = ServiceQueue
    BY <1>1 DEF ServiceQueue
  <1>8. ServiceStatus(s) \in {"value", "error"}
    BY <1>1, ServiceStatusIs DEF StatusShown, Accepted
  <1>9. \A r \in Requests : ServiceStatus(r)' = ServiceStatus(r)
    <2>1. \A r \in Requests : Accepted(r)' <=> Accepted(r)
      BY <1>1, <1>2 DEF Accepted
    <2> QED
      BY <1>1, <1>7, <2>1 DEF ServiceStatus
  <1> QED
    BY <1>1, <1>4, <1>5, <1>6, <1>7, <1>8, <1>9 DEF Service!Return
\* The steps of run().  publish() makes one more piece visible.
LEMMA ProduceImplemented ==
  ASSUME ServiceInvariant, ServiceInvariant', Publish
  PROVE  Service!Produce(Current)
  <1>1. /\ wpc = "publish" /\ wpc' = "limit"
        /\ UNCHANGED <<pending, promise, cpc, delivered>>
    BY DEF Publish, localVars
  <1>2. /\ Current \in Streaming /\ Current \in Requests /\ Running(Current)
        /\ Unsettled(Current)
    BY PublishTarget DEF ServiceInvariant
  <1>3. ServiceQueue = pending /\ ServiceQueue' = pending
    BY <1>1 DEF ServiceQueue
  <1>4. ~Waiting(Current)
    BY <1>2 DEF ServiceInvariant, RequestInvariant, Exclusive
  <1>5. ServiceStatus(Current) = "running"
    BY <1>2, <1>3, <1>4, ServiceStatusIs DEF StatusShown, Unsettled, Waiting
  <1>6. /\ Stream(Current)' = Append(Stream(Current), LastToken(active[index]))
        /\ \A r \in Requests : r # Current => Stream(r)' = Stream(r)
        /\ Current' = Current
    BY PublishPublished DEF ServiceInvariant, Publish, Current, batchVars, workVars
  <1>7. Stream(Current)' \in Seq(Token)
    <2>1. active[index].output \in Seq(Token) /\ Stream(Current)' = active[index].output
      BY <1>1, CensusTypes, EntryType, PublishPublished DEF ServiceInvariant
    <2> QED
      BY <2>1
  <1>8. OwnTokens(Current, Stream(Current)') /\ Len(Stream(Current)') <= MaxTokens
    <2>1. \A r \in Streaming : OwnTokens(r, Stream(r))' /\ Len(Stream(r)') <= MaxTokens
      BY DEF ServiceInvariant, StreamInvariant, Published, Stream
    <2> QED
      BY <1>2, <1>6, <2>1 DEF OwnTokens, Stream
  <1>9. /\ Len(Stream(Current)) \in Nat
        /\ Len(Stream(Current)') = Len(Stream(Current)) + 1
    BY <1>2, <1>6, StreamTypes DEF ServiceInvariant
  <1>10. Stream(Current)' = Service!OwnText(Current, Len(Stream(Current)) + 1)
    <2> DEFINE t == Stream(Current)'
               c == Current
    <2>1. t \in Seq(Token) /\ OwnTokens(c, t) /\ Len(t) = Len(Stream(Current)) + 1
      BY <1>7, <1>8, <1>9
    <2> HIDE DEF t, c
    <2>2. t = Service!OwnText(c, Len(t))
      BY <2>1, OwnTextIs
    <2> QED
      BY <2>1, <2>2 DEF t, c
  <1>11. ServiceText(Current) = Stream(Current) /\ Len(Stream(Current)) < MaxTokens
    BY <1>2, <1>8, <1>9, ServiceTextIs, BatcherAssumption
  <1>12. \A r \in Requests :
           ServiceText(r)' = IF r = Current
                             THEN Service!OwnText(Current, Len(ServiceText(Current)) + 1)
                             ELSE ServiceText(r)
    <2> SUFFICES ASSUME NEW r \in Requests
                 PROVE  ServiceText(r)' =
                          IF r = Current
                          THEN Service!OwnText(Current, Len(ServiceText(Current)) + 1)
                          ELSE ServiceText(r)
      OBVIOUS
    <2>1. CASE r \in Streaming
      <3>1. ServiceText(r)' = Stream(r)' /\ ServiceText(r) = Stream(r)
        BY <2>1 DEF ServiceText, Stream
      <3>2. r = Current => Stream(r)' = Stream(Current)'
        BY <1>6 DEF Stream
      <3> QED
        BY <1>6, <1>10, <1>11, <3>1, <3>2
    <2>2. CASE r \notin Streaming
      BY <1>1, <1>2, <2>2 DEF ServiceText
    <2> QED
      BY <2>1, <2>2
  <1>13. \A r \in Requests :
           ServiceCaller(r)' = ServiceCaller(r) /\ ServiceStatus(r)' = ServiceStatus(r)
    BY <1>1, <1>3 DEF ServiceCaller, ServiceStatus, Accepted
  <1> QED
    BY <1>1, <1>2, <1>3, <1>5, <1>11, <1>12, <1>13 DEF Service!Produce

\* finish() settles a request with its text.
LEMMA SucceedImplemented ==
  ASSUME ServiceInvariant, ServiceInvariant', Finish
  PROVE  Service!Succeed(Current)
  <1>1. /\ wpc \in {"finish_stop", "finish_length"} /\ wpc' = "complete"
        /\ resume' = "rows"
        /\ UNCHANGED <<pending, cpc, delivered, pieces, streamPieces>>
    BY DEF Finish, clientVars, localVars
  <1>2. /\ Current \in Requests /\ promise \in [Requests -> Outcome]
        /\ active[index] \in Entry
    BY <1>1, CensusTypes DEF ServiceInvariant
  <1> DEFINE s == active[index].output
  <1>3. /\ \A r \in Requests : r # Current => promise'[r] = promise[r]
        /\ promise'[Current].kind = "value" /\ promise'[Current].text = s
    BY <1>2 DEF Finish, Value
  <1>4. Running(Current) /\ Unsettled(Current)
    <2>1. Running(Current)
      BY <1>1, CensusTypes DEF ServiceInvariant, Running, LiveRows, InRows, Current
    <2> QED
      BY <1>2, <2>1 DEF ServiceInvariant, RequestInvariant, Accounted, Held
  <1>5. ServiceQueue = pending /\ ServiceQueue' = pending
    BY <1>1 DEF ServiceQueue
  <1>6. ~Waiting(Current)
    BY <1>2, <1>4 DEF ServiceInvariant, RequestInvariant, Exclusive
  <1>7. ServiceStatus(Current) = "running"
    BY <1>2, <1>4, <1>5, <1>6, ServiceStatusIs DEF StatusShown, Unsettled, Waiting
  <1>8. \A r \in Requests :
          ServiceStatus(r)' = IF r = Current THEN "value" ELSE ServiceStatus(r)
    <2>1. \A r \in Requests : Accepted(r)' <=> Accepted(r)
      BY <1>1 DEF Accepted
    <2>2. \A r : Holds(ServiceQueue, r)' <=> Holds(ServiceQueue, r)
      BY <1>1, <1>5 DEF Holds
    <2>3. Accepted(Current)
      BY <1>4 DEF Unsettled
    <2> QED
      BY <1>3, <2>1, <2>2, <2>3, ServiceStatusIs, ServiceStatusNext DEF StatusShown
  <1>9. /\ s \in Seq(Token) /\ OwnTokens(Current, s) /\ Len(s) \in 0..MaxTokens
    <2>1. s \in Seq(Token) /\ Len(s) \in Nat
      BY <1>2, EntryType
    <2>2. ResultIsOwn'
      BY DEF ServiceInvariant, BatchInvariant
    <2>3. OwnTokens(Current, promise'[Current].text) /\ Len(promise'[Current].text) <= MaxTokens
      <3>1. \A r \in Requests :
              promise'[r].kind = "value" =>
                Len(promise'[r].text) <= MaxTokens /\ OwnTokens(r, promise'[r].text)
        BY <2>2 DEF ResultIsOwn, OwnTokens
      <3> QED
        BY <1>2, <1>3, <3>1
    <2> QED
      BY <1>3, <2>1, <2>3, BatcherAssumption
  <1>10. s = Service!OwnText(Current, Len(s))
    BY <1>9, OwnTextIs
  <1>11. \A r \in Requests :
           ServiceText(r)' = IF r = Current /\ r \notin Streaming THEN s
                             ELSE ServiceText(r)
    BY <1>1, <1>3 DEF ServiceText
  <1> HIDE DEF s
  <1>12. \A r \in Requests : ServiceCaller(r)' = ServiceCaller(r)
    BY <1>1 DEF ServiceCaller
  <1> QED
    BY <1>1, <1>2, <1>5, <1>7, <1>8, <1>9, <1>10, <1>11, <1>12 DEF Service!Succeed

\* admit_pending() begins the oldest request that waits.
LEMMA BeginImplemented ==
  ASSUME ServiceInvariant, ServiceInvariant', AdmitPending, pending # <<>>
  PROVE  /\ Head(pending) \in Requests
         /\ Service!Begin(Head(pending))
  <1> DEFINE h == Head(pending)
  <1>1. /\ wpc = "admit" /\ wpc' = "admit_load" /\ pending' = Tail(pending)
        /\ UNCHANGED <<promise, cpc, delivered, pieces, streamPieces>>
    BY DEF AdmitPending, TakePending, requestVars, clientVars, localVars
  <1>2. ServiceQueue = pending /\ ServiceQueue' = Tail(pending)
    BY <1>1 DEF ServiceQueue
  <1>3. pending \in Seq(Requests) /\ h \in Requests
    BY CensusTypes DEF ServiceInvariant
  <1>4. /\ \A r : Holds(Tail(pending), r) <=> Holds(pending, r) /\ r # h
        /\ Waiting(h)
    BY <1>3, HoldsTail DEF ServiceInvariant, RequestInvariant, Distinct, Waiting
  <1>5. Unsettled(h)
    BY <1>3, <1>4 DEF ServiceInvariant, RequestInvariant, Accounted, Held
  <1>6. \A r : Holds(ServiceQueue, r)' <=> Holds(ServiceQueue, r) /\ r # h
    BY <1>2, <1>4 DEF Holds
  <1> HIDE DEF h
  <1>7. \A r \in Requests :
          ServiceStatus(r)' = IF r = h THEN "running" ELSE ServiceStatus(r)
    <2>1. \A r \in Requests : Accepted(r)' <=> Accepted(r)
      BY <1>1 DEF Accepted
    <2> QED
      BY <1>1, <1>3, <1>5, <1>6, <2>1, ServiceStatusIs, ServiceStatusNext
      DEF StatusShown, Unsettled
  <1>8. \A r \in Requests :
          ServiceCaller(r)' = ServiceCaller(r) /\ ServiceText(r)' = ServiceText(r)
    BY <1>1 DEF ServiceCaller, ServiceText
  <1>9. Service!Begin(h)
    BY <1>1, <1>2, <1>3, <1>7, <1>8 DEF Service!Begin, h
  <1> QED
    BY <1>3, <1>9 DEF h
\* Popping the front of one sequence pops the front of a concatenation.
LEMMA TailConcat ==
  ASSUME NEW S, NEW s \in Seq(S), NEW t \in Seq(S), s # <<>>
  PROVE  /\ s \o t # <<>> /\ Head(s \o t) = Head(s)
         /\ Tail(s \o t) = Tail(s) \o t
  <1>1. /\ s \o t \in Seq(S) /\ Len(s \o t) = Len(s) + Len(t)
        /\ Len(s) \in Nat \ {0} /\ Len(t) \in Nat /\ Tail(s) \in Seq(S)
        /\ Len(Tail(s)) = Len(s) - 1
    OBVIOUS
  <1>2. s \o t # <<>> /\ Head(s \o t) = Head(s)
    BY <1>1
  <1>3. /\ Tail(s \o t) \in Seq(S) /\ Len(Tail(s \o t)) = Len(s) + Len(t) - 1
        /\ Tail(s) \o t \in Seq(S) /\ Len(Tail(s) \o t) = Len(s) + Len(t) - 1
    BY <1>1, <1>2
  <1>4. ASSUME NEW i \in 1..Len(s) + Len(t) - 1
        PROVE  Tail(s \o t)[i] = (Tail(s) \o t)[i]
    BY <1>1, <1>2
  <1> QED
    BY <1>2, <1>3, <1>4, SeqEqual

LEMMA HoldsRest ==
  ASSUME NEW S, NEW queue \in Seq(S), queue # <<>>, NEW r, r # Head(queue)
  PROVE  Holds(Tail(queue), r) <=> Holds(queue, r)
  <1>1. /\ Len(queue) \in Nat \ {0} /\ Len(Tail(queue)) = Len(queue) - 1
        /\ Head(queue) = queue[1]
        /\ \A i \in 1..Len(Tail(queue)) : Tail(queue)[i] = queue[i + 1]
    OBVIOUS
  <1>2. ASSUME NEW i \in 1..Len(queue), queue[i] = r
        PROVE  i - 1 \in 1..Len(Tail(queue)) /\ Tail(queue)[i - 1] = r
    BY <1>1, <1>2
  <1> QED
    BY <1>1, <1>2 DEF Holds

\* fail() settles a request that was begun or, at the end, the oldest one.
LEMMA FailImplemented ==
  ASSUME ServiceInvariant, ServiceInvariant', Fail, failing # <<>>
  PROVE  /\ Head(failing) \in Requests
         /\ Service!Fail(Head(failing))
  <1> DEFINE h == Head(failing)
  <1>1. /\ wpc = "fail" /\ wpc' = "complete" /\ failing' = Tail(failing)
        /\ promise' = [promise EXCEPT ![h] = IF @.kind = "unset" THEN Exception ELSE @]
        /\ UNCHANGED <<pending, resume, cpc, delivered, pieces, streamPieces>>
    BY DEF Fail, clientVars, localVars
  <1>2. /\ failing \in Seq(Requests) /\ pending \in Seq(Requests) /\ h \in Requests
        /\ promise \in [Requests -> Outcome]
    BY CensusTypes DEF ServiceInvariant
  <1>3. Failing(h)
    BY <1>2, HoldsTail DEF ServiceInvariant, RequestInvariant, Distinct, Failing
  <1>4. Unsettled(h) /\ ~Waiting(h)
    BY <1>2, <1>3 DEF ServiceInvariant, RequestInvariant, Accounted, Held, Exclusive
  <1>5. \/ resume = "dead" /\ ServiceQueue # <<>> /\ h = Head(ServiceQueue)
             /\ ServiceQueue' = Tail(ServiceQueue)
        \/ resume # "dead" /\ ServiceQueue = pending /\ ServiceQueue' = ServiceQueue
    <2>1. CASE resume = "dead"
      <3>1. ServiceQueue = failing \o pending /\ ServiceQueue' = Tail(failing) \o pending
        BY <1>1, <2>1 DEF ServiceQueue
      <3> QED
        BY <1>2, <2>1, <3>1, TailConcat
    <2>2. CASE resume # "dead"
      BY <1>1, <2>2 DEF ServiceQueue
    <2> QED
      BY <2>1, <2>2
  <1>6. \A r : r # h => (Holds(ServiceQueue, r)' <=> Holds(ServiceQueue, r))
    <2>1. ServiceQueue \in Seq(Requests)
      BY ServiceQueueHolds
    <2>2. ServiceQueue # <<>> /\ h = Head(ServiceQueue) =>
            \A r : r # h => (Holds(Tail(ServiceQueue), r) <=> Holds(ServiceQueue, r))
      BY <2>1, HoldsRest
    <2> QED
      BY <1>5, <2>2 DEF Holds
  <1> HIDE DEF h
  <1>7. ServiceStatus(h) = "running" \/ resume = "dead"
    BY <1>1, <1>2, <1>4, <1>5, ServiceStatusIs DEF StatusShown, Unsettled, Waiting
  <1>8. /\ \A r \in Requests : Accepted(r)' <=> Accepted(r)
        /\ \A r \in Requests : r # h => promise'[r] = promise[r]
        /\ promise'[h].kind = "exception"
    BY <1>1, <1>2, <1>4 DEF Accepted, Unsettled, Exception
  <1>9. \A r \in Requests :
           ServiceStatus(r)' = IF r = h THEN "error" ELSE ServiceStatus(r)
    BY <1>4, <1>6, <1>8, ServiceStatusIs, ServiceStatusNext DEF StatusShown, Unsettled
  <1>10. \A r \in Requests :
           ServiceCaller(r)' = ServiceCaller(r) /\ ServiceText(r)' = ServiceText(r)
    BY <1>1, <1>4, <1>8 DEF ServiceCaller, ServiceText, Unsettled
  <1>11. Service!Fail(h)
    BY <1>1, <1>2, <1>5, <1>7, <1>9, <1>10 DEF Service!Fail
  <1> QED
    BY <1>2, <1>11 DEF h
\* The steps of run() that begin, publish and settle nothing.
ShowsOnRun ==
    \/ Publish \/ Finish
    \/ AdmitPending /\ pending # <<>>
    \/ Fail /\ failing # <<>>

\* Between the loop and its end the failing requests stay the oldest.
LEMMA QueueKept ==
  ASSUME ServiceInvariant, WorkerStep, ~ShowsOnRun
  PROVE  ServiceQueue' = ServiceQueue /\ promise' = promise
  <1>1. /\ pending \in Seq(Requests) /\ failing \in Seq(Requests)
        /\ wpc \in WorkerPcs /\ (wpc \notin FailPcs => failing = <<>>)
    BY CensusTypes DEF ServiceInvariant, RequestInvariant, Quiet
  <1>2. pending \o <<>> = pending /\ <<>> \o pending = pending
    BY <1>1, ConcatEmptySeq
  <1>3. CASE Drain
    BY <1>2, <1>3 DEF Drain, ServiceQueue, requestVars
  <1>4. CASE Fail
    <2>1. /\ failing = <<>> /\ wpc = "fail" /\ wpc' = resume
          /\ UNCHANGED <<pending, failing, resume, promise>>
      BY <1>4 DEF Fail, ShowsOnRun
    <2>2. resume \in ResumePcs
      BY CensusTypes DEF ServiceInvariant
    <2> QED
      BY <1>2, <2>1, <2>2 DEF ServiceQueue
  <1>5. CASE Complete \/ CompleteNotify
    BY <1>5 DEF Complete, CompleteNotify, ServiceQueue, sharedVars, requestVars,
                workVars
  <1>6. CASE ~(Drain \/ Fail \/ Complete \/ CompleteNotify)
    <2>1. /\ wpc \notin FailPcs /\ UNCHANGED <<pending, promise>>
          /\ wpc' \in FailPcs => resume' # "dead"
      BY <1>6 DEF WorkerStep, ShowsOnRun, Start, StartThrows, Top, Stopped, Wait,
         Window, AdmitPending, AdmitLoad, AdmitContinues, AdmitThrows, Seat,
         BeginRows, BeginRowsThrows, NextRow, RowLoad, RowContinues, RowThrows,
         SampleStop, SampleToken, Limit, FinishThrows, EndRows, EndRowsThrows,
         Decode, DecodeThrows, LeaveLoop, Raise, RaiseRow, sharedVars, requestVars
    <2> QED
      BY <2>1 DEF ServiceQueue
  <1> QED
    BY <1>3, <1>4, <1>5, <1>6

LEMMA WorkerStutters ==
  ASSUME ServiceInvariant, ServiceInvariant', WorkerStep, ~ShowsOnRun
  PROVE  UNCHANGED Service!serviceVars
  <1>1. ServiceQueue' = ServiceQueue /\ promise' = promise
    BY QueueKept
  <1>2. /\ UNCHANGED <<delivered, pieces, streamPieces>>
        /\ \/ cpc' = cpc
           \/ \E r \in Requests :
                cpc[r] = "asleep" /\ cpc' = [cpc EXCEPT ![r] = "wait"]
    BY WorkerFrame DEF ServiceInvariant, ShowsOnRun
  <1>3. cpc \in [Requests -> ClientPcs]
    BY StreamTypes DEF ServiceInvariant
  <1>4. \A r \in Requests : /\ ServiceCaller(r)' = ServiceCaller(r)
                            /\ Accepted(r)' <=> Accepted(r)
                            /\ Stream(r)' = Stream(r)
    BY <1>2, <1>3 DEF ServiceCaller, Accepted, Stream
  <1> QED
    BY <1>1, <1>2, <1>4, ServiceStutters

\* The steps of submit() and ~Impl that only wait, wake or take pieces.
LEMMA OtherStutters ==
  ASSUME ServiceInvariant, ServiceInvariant', NEW r \in Requests,
         SpuriousWakeup \/ Stop \/ NotifyWorker(r) \/ StreamWait(r) \/ Delivered(r)
  PROVE  UNCHANGED Service!serviceVars
  <1>1. \A q \in Requests : Stream(q)' = Stream(q)
    BY CallerKeepsStream DEF ServiceInvariant, StreamInvariant, ClientStep
  <1>2. /\ UNCHANGED <<pending, promise, delivered, failing, resume>>
        /\ wpc' = wpc \/ (wpc = "asleep" /\ wpc' = "wait")
        /\ \/ cpc' = cpc
           \/ /\ cpc[r] \in {"notify", "wait", "deliver"}
              /\ \E pc \in {"wait", "get", "deliver", "asleep"} :
                   cpc' = [cpc EXCEPT ![r] = pc]
    BY DEF SpuriousWakeup, Stop, NotifyWorker, StreamWait, Delivered, WakeWorker,
           sharedVars, requestVars, workerVars, workVars, clientVars, localVars
  <1>3. cpc \in [Requests -> ClientPcs]
    BY StreamTypes DEF ServiceInvariant
  <1>4. \A q \in Requests : /\ ServiceCaller(q)' = ServiceCaller(q)
                            /\ Accepted(q)' <=> Accepted(q)
    BY <1>2, <1>3 DEF ServiceCaller, Accepted
  <1>5. ServiceQueue' = ServiceQueue
    BY <1>2 DEF ServiceQueue
  <1> QED
    BY <1>1, <1>2, <1>4, <1>5, ServiceStutters

LEMMA ServiceInit == Init => Service!Init
  <1> SUFFICES ASSUME Init PROVE Service!Init
    OBVIOUS
  <1>1. /\ pending = <<>> /\ wpc = "start"
        /\ \A r \in Requests : /\ cpc[r] = "idle" /\ delivered[r] = <<>>
                               /\ pieces[r] = <<>> /\ streamPieces[r] = <<>>
                               /\ promise[r] = Unset
        /\ delivered = [r \in Requests |-> <<>>]
    BY DEF Init
  <1>2. <<>> \o <<>> \o <<>> = <<>>
    BY ConcatEmptySeq
  <1>3. ServiceQueue = <<>>
    BY <1>1 DEF ServiceQueue
  <1>4. \A r \in Requests : /\ ServiceCaller(r) = "out" /\ ServiceStatus(r) = "new"
                            /\ ServiceText(r) = <<>>
    BY <1>1, <1>2 DEF ServiceCaller, ServiceStatus, ServiceText, Accepted, Unset
  <1> QED
    BY <1>1, <1>3, <1>4 DEF Service!Init

LEMMA ServiceStep ==
  ASSUME ServiceInvariant, ServiceInvariant', [Next]_vars
  PROVE  [Service!Next]_(Service!serviceVars)
  <1>1. CASE WorkerStep
    <2>1. CASE Publish
      <3>1. Current \in Requests
        BY <2>1, PublishTarget DEF ServiceInvariant
      <3> QED
        BY <2>1, <3>1, ProduceImplemented DEF Service!Next
    <2>2. CASE Finish
      <3>1. Current \in Requests
        BY <2>2, CensusTypes DEF ServiceInvariant, Finish
      <3> QED
        BY <2>2, <3>1, SucceedImplemented DEF Service!Next
    <2>3. CASE AdmitPending /\ pending # <<>>
      BY <2>3, BeginImplemented DEF Service!Next
    <2>4. CASE Fail /\ failing # <<>>
      BY <2>4, FailImplemented DEF Service!Next
    <2> QED
      BY <1>1, <2>1, <2>2, <2>3, <2>4, WorkerStutters DEF ShowsOnRun
  <1>2. ASSUME NEW r \in Requests, SubmitInvalid(r) \/ Submit(r) \/ ClientStep(r)
        PROVE  [Service!Next]_(Service!serviceVars)
    <2>1. CASE SubmitInvalid(r)
      BY <2>1, RejectImplemented DEF Service!Next
    <2>2. CASE Submit(r)
      BY <2>2, AcceptImplemented DEF Service!Next
    <2>3. CASE Deliver(r)
      BY <2>3, SeeImplemented DEF Service!Next
    <2>4. CASE CallbackThrows(r)
      BY <2>4, UnwindImplemented DEF Service!Next
    <2>5. CASE GetResult(r)
      BY <2>5, ReturnImplemented DEF Service!Next
    <2>6. CASE NotifyWorker(r) \/ StreamWait(r) \/ Delivered(r)
      BY <2>6, OtherStutters
    <2> QED
      BY <1>2, <2>1, <2>2, <2>3, <2>4, <2>5, <2>6 DEF ClientStep
  <1>3. CASE SpuriousWakeup \/ Stop
    <2>1. subject \in Requests
      BY CensusTypes DEF ServiceInvariant
    <2> QED
      BY <1>3, <2>1, OtherStutters
  <1>4. CASE UNCHANGED vars
    <2>1. UNCHANGED <<pending, failing, resume, promise, cpc, wpc, delivered, pieces,
                      streamPieces>>
      BY <1>4 DEF vars, sharedVars, requestVars, workerVars, workVars, clientVars,
                  localVars
    <2>2. \A r \in Requests : /\ ServiceCaller(r)' = ServiceCaller(r)
                              /\ Accepted(r)' <=> Accepted(r)
                              /\ Stream(r)' = Stream(r)
      BY <2>1 DEF ServiceCaller, Accepted, Stream
    <2>3. ServiceQueue' = ServiceQueue
      BY <2>1 DEF ServiceQueue
    <2> QED
      BY <2>1, <2>2, <2>3, ServiceStutters
  <1> QED
    BY <1>1, <1>2, <1>3, <1>4 DEF Next

\* Whatever the threads do, their callers see the service: requests begin in the
\* order submit() accepted them, each gets one outcome, and a stream shows the
\* request's own tokens in order and all of them before submit() returns.
THEOREM BatcherImplementsService == Spec => ImplementsService
  <1>1. Spec => []ServiceInvariant
    BY ServiceInvariantHolds
  <1>2. ServiceInvariant /\ ServiceInvariant' /\ [Next]_vars
          => [Service!Next]_(Service!serviceVars)
    BY ServiceStep
  <1> QED
    BY <1>1, <1>2, ServiceInit, PTL DEF Spec, ImplementsService, Service!Spec

=============================================================================
