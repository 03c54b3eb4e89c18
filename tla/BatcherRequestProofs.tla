------------------------- MODULE BatcherRequestProofs -------------------------
(***************************************************************************)
(* Proofs about what happens to a request of Batcher: it is held in one    *)
(* place until it is settled, and a failed callback ends it at the next    *)
(* token.  They rest on BatchInvariant of BatcherProofs.                   *)
(*                                                                         *)
(* The argument is a census.  For each request five predicates say where   *)
(* it is held; every action moves one request from one of them to another, *)
(* or all of a batch to the failing ones, and leaves the rest alone.       *)
(***************************************************************************)
EXTENDS BatcherProofs, BatcherRefinement, FiniteSetTheorems,
        SequenceTheorems

USE DEF AdmitPcs, RowPcs, FailPcs, WorkerPcs, ResumePcs, ClientPcs

-----------------------------------------------------------------------------
(***************************************************************************)
(* The inductive invariant.                                                *)
(***************************************************************************)
Unsettled(r) == Accepted(r) /\ promise[r].kind = "unset"

\* The request is an element of the sequence; every element occurs once.
Holds(queue, r) == \E i \in 1..Len(queue) : queue[i] = r
OneEach(queue) == \A i, j \in 1..Len(queue) : queue[i] = queue[j] => i = j

\* Where a request may be held.
Waiting(r)   == Holds(pending, r)
Admitting(r) == wpc \in AdmitPcs /\ subject = r
Running(r)   == \E i \in LiveRows : active[i].request = r
Surviving(r) == InRows /\ Holds(RequestsOf(nextActive), r)
Failing(r)   == Holds(failing, r)
Held(r) == Waiting(r) \/ Admitting(r) \/ Running(r) \/ Surviving(r) \/ Failing(r)

\* No array or queue holds a request twice.
Distinct ==
    /\ OneEach(pending) /\ OneEach(failing)
    /\ \A i, j \in LiveRows : active[i].request = active[j].request => i = j
    /\ InRows => OneEach(RequestsOf(nextActive))

\* No two of them hold the same request.
Exclusive ==
    \A r \in Requests :
      /\ Waiting(r) => ~Admitting(r) /\ ~Running(r) /\ ~Surviving(r) /\ ~Failing(r)
      /\ Admitting(r) => ~Running(r) /\ ~Surviving(r) /\ ~Failing(r)
      /\ Running(r) => ~Surviving(r) /\ ~Failing(r)
      /\ Surviving(r) => ~Failing(r)

\* What is held is what has been accepted and not settled.
Accounted == \A r \in Requests : Held(r) <=> Unsettled(r)

\* Before submit() there is no promise; `failing` is used up before the worker
\* does anything else.
Quiet ==
    /\ \A r \in Requests : ~Accepted(r) => promise[r] = Unset
    /\ wpc \notin FailPcs => failing = <<>>

RequestInvariant == Distinct /\ Exclusive /\ Accounted /\ Quiet

\* A row is not sampled again once a piece has been published after its callback
\* failed: between the check and publish() nothing is late.
CancelInvariant ==
    /\ \A r \in Requests : late[r] <= 1 /\ (late[r] > 0 => callbackFailed[r])
    /\ wpc \in {"row_call", "sample", "publish"} => late[Current] = 0

-----------------------------------------------------------------------------
(***************************************************************************)
(* Cancellation.                                                           *)
(***************************************************************************)

\* Nothing is late before anything is published.
LEMMA CancelInit == Init => CancelInvariant
  BY DEF Init, CancelInvariant

\* What a step of any thread other than the worker leaves alone.
LEMMA OtherSteps ==
  ASSUME NEW r \in Requests,
         SpuriousWakeup \/ Stop \/ SubmitInvalid(r) \/ Submit(r) \/ ClientStep(r)
  PROVE  /\ UNCHANGED <<promise, streamFinished, batchVars, nextVars, workVars, late>>
         /\ wpc' = wpc \/ (wpc = "asleep" /\ wpc' = "wait")
  BY DEF SpuriousWakeup, Stop, SubmitInvalid, Submit, ClientStep, NotifyWorker,
         StreamWait, Deliver, CallbackThrows, Delivered, GetResult, WakeWorker,
         sharedVars, requestVars, workerVars, clientVars, localVars

\* callback_failed is only ever raised, and by the callers.
LEMMA FlagRaised ==
  ASSUME BatchInvariant, NEW r \in Requests,
         SpuriousWakeup \/ Stop \/ SubmitInvalid(r) \/ Submit(r) \/ ClientStep(r)
  PROVE  \A q \in Requests : callbackFailed[q] => callbackFailed'[q]
  <1>1. callbackFailed \in [Requests -> BOOLEAN]
    BY DEF BatchInvariant, TypeOK, SharedTypeOK
  <1>2. CASE CallbackThrows(r)
    BY <1>1, <1>2 DEF CallbackThrows
  <1>3. CASE ~CallbackThrows(r)
    <2>1. callbackFailed' = callbackFailed
      BY <1>3 DEF SpuriousWakeup, Stop, SubmitInvalid, Submit, ClientStep,
                  NotifyWorker, StreamWait, Deliver, Delivered, GetResult,
                  sharedVars, requestVars
    <2> QED
      BY <2>1
  <1> QED
    BY <1>2, <1>3

\* The worker steps that neither publish nor look at callback_failed.
LEMMA WorkerFlags ==
  ASSUME WorkerStep, ~Publish
  PROVE  UNCHANGED <<late, callbackFailed>>
  BY DEF WorkerStep, Fail, Complete, CompleteNotify, Drain, Start, StartThrows,
         Top, Stopped, Wait, Window, AdmitPending, AdmitLoad, AdmitContinues,
         AdmitThrows, Seat, BeginRows, BeginRowsThrows, NextRow, RowLoad,
         RowContinues, RowThrows, SampleStop, SampleToken, Limit, Finish,
         FinishThrows, EndRows, EndRowsThrows, Decode, DecodeThrows,
         sharedVars, requestVars, clientVars

\* The worker goes on to publish() only with the row it has checked.
LEMMA WorkerToPublish ==
  ASSUME BatchInvariant, WorkerStep, wpc' \in {"row_call", "sample", "publish"}
  PROVE  /\ Current' = Current
         /\ \/ wpc \in {"row_call", "sample"}
            \/ wpc = "row_load" /\ ~callbackFailed[Current]
  <1>1. /\ wpc \in WorkerPcs /\ resume \in ResumePcs /\ index \in Nat
        /\ active \in Seq(Entry)
    BY DEF BatchInvariant, TypeOK, WorkTypeOK, BatchTypeOK
  <1>2. CASE RowLoad \/ RowContinues
    BY <1>2 DEF RowLoad, RowContinues, Current, RaiseRow, Raise, batchVars, workVars
  <1>3. CASE SampleToken
    <2>1. index \in 1..Len(active)
      BY <1>3, <1>1 DEF SampleToken, BatchInvariant, Bounds, TypeOK, WorkTypeOK
    <2>2. /\ index' = index /\ wpc = "sample"
          /\ active' = [active EXCEPT ![index].output =
                          Append(@, SampledFrom(RowLogits))]
      BY <1>3 DEF SampleToken, workVars
    <2>3. active'[index].request = active[index].request
      BY <1>1, <2>1, <2>2 DEF Entry
    <2> QED
      BY <2>2, <2>3 DEF Current
  <1>4. ~(RowLoad \/ RowContinues \/ SampleToken) => FALSE
    BY <1>1 DEF WorkerStep, Fail, Complete, CompleteNotify, Drain, Start,
         StartThrows, Top, Stopped, Wait, Window, AdmitPending, AdmitLoad,
         AdmitContinues, AdmitThrows, Seat, BeginRows, BeginRowsThrows, NextRow,
         RowThrows, SampleStop, Publish, Limit, Finish, FinishThrows, EndRows,
         EndRowsThrows, Decode, DecodeThrows, LeaveLoop, Raise, RaiseRow
  <1> QED
    BY <1>2, <1>3, <1>4

LEMMA CancelStep ==
  ASSUME BatchInvariant, CancelInvariant, [Next]_vars
  PROVE  CancelInvariant'
  <1>1. /\ callbackFailed \in [Requests -> BOOLEAN] /\ late \in [Requests -> Nat]
        /\ active \in Seq(Entry) /\ index \in Nat \ {0} /\ subject \in Requests
    BY DEF BatchInvariant, TypeOK, SharedTypeOK, ClientTypeOK, BatchTypeOK,
           WorkTypeOK
  <1>2. wpc \in RowPcs \ {"rows"} => Current \in Requests
    <2> SUFFICES ASSUME wpc \in RowPcs \ {"rows"} PROVE Current \in Requests
      OBVIOUS
    <2>1. index \in 1..Len(active)
      BY <1>1 DEF BatchInvariant, Bounds
    <2>2. active[index] \in Entry
      BY <1>1, <2>1
    <2> QED
      BY <2>2, EntryType DEF Current
  <1>3. ASSUME NEW r \in Requests,
               SpuriousWakeup \/ Stop \/ SubmitInvalid(r) \/ Submit(r) \/ ClientStep(r)
        PROVE  CancelInvariant'
    <2>1. UNCHANGED <<late, active, index>>
          /\ (wpc' = wpc \/ wpc' = "wait")
      BY <1>3, OtherSteps DEF batchVars, workVars
    <2>2. \A q \in Requests : callbackFailed[q] => callbackFailed'[q]
      BY <1>3, FlagRaised
    <2> QED
      BY <2>1, <2>2 DEF CancelInvariant, Current
  <1>4. CASE Publish
    <2>1. late[Current] = 0 /\ wpc = "publish" /\ wpc' = "limit"
          /\ callbackFailed' = callbackFailed
          /\ late' = IF callbackFailed[Current]
                     THEN [late EXCEPT ![Current] = @ + 1] ELSE late
      BY <1>4 DEF Publish, CancelInvariant
    <2>2. Current \in Requests
      BY <1>2, <2>1
    <2> QED
      BY <1>1, <2>1, <2>2 DEF CancelInvariant
  <1>5. CASE WorkerStep /\ ~Publish
    <2>1. UNCHANGED <<late, callbackFailed>>
      BY <1>5, WorkerFlags
    <2>2. wpc' \in {"row_call", "sample", "publish"} => late[Current'] = 0
      BY <1>1, <1>2, <1>5, WorkerToPublish DEF CancelInvariant
    <2>3. wpc' \in {"row_call", "sample", "publish"} => late'[Current'] = 0
      BY <2>1, <2>2
    <2>4. \A r \in Requests : late'[r] <= 1 /\ (late'[r] > 0 => callbackFailed'[r])
      BY <2>1 DEF CancelInvariant
    <2> QED
      BY <2>3, <2>4 DEF CancelInvariant, Current
  <1>6. CASE UNCHANGED vars
    BY <1>6 DEF CancelInvariant, Current, vars, sharedVars, requestVars, workerVars,
                batchVars, workVars, clientVars
  <1> QED
    BY <1>1, <1>3, <1>4, <1>5, <1>6 DEF Next

-----------------------------------------------------------------------------
(***************************************************************************)
(* Sequences as sets of requests.                                          *)
(***************************************************************************)

\* What the sequences with at most one element hold.
LEMMA HoldsShort ==
  /\ \A r : ~Holds(<<>>, r)
  /\ \A x, r : Holds(<<x>>, r) <=> r = x
  /\ OneEach(<<>>) /\ \A x : OneEach(<<x>>)
  BY DEF Holds, OneEach

\* Pushing an element at the back.
LEMMA HoldsAppend ==
  ASSUME NEW S, NEW queue \in Seq(S), NEW x \in S
  PROVE  /\ \A r : Holds(Append(queue, x), r) <=> Holds(queue, r) \/ r = x
         /\ OneEach(queue) /\ ~Holds(queue, x) => OneEach(Append(queue, x))
  <1>1. /\ Len(Append(queue, x)) = Len(queue) + 1 /\ Len(queue) \in Nat
        /\ \A i \in 1..Len(queue) : Append(queue, x)[i] = queue[i]
        /\ Append(queue, x)[Len(queue) + 1] = x
    OBVIOUS
  <1> QED
    BY <1>1 DEF Holds, OneEach

\* Popping the element at the front.
LEMMA HoldsTail ==
  ASSUME NEW S, NEW queue \in Seq(S), queue # <<>>, OneEach(queue)
  PROVE  /\ \A r : Holds(Tail(queue), r) <=> Holds(queue, r) /\ r # Head(queue)
         /\ OneEach(Tail(queue)) /\ Holds(queue, Head(queue))
  <1>1. /\ Len(queue) \in Nat \ {0} /\ Len(Tail(queue)) = Len(queue) - 1
        /\ Head(queue) = queue[1]
        /\ \A i \in 1..Len(Tail(queue)) : Tail(queue)[i] = queue[i + 1]
    OBVIOUS
  <1>2. \A r : Holds(Tail(queue), r) => Holds(queue, r) /\ r # Head(queue)
    BY <1>1 DEF Holds, OneEach
  <1>3. ASSUME NEW r, Holds(queue, r), r # Head(queue) PROVE Holds(Tail(queue), r)
    <2>1. PICK i \in 1..Len(queue) : queue[i] = r
      BY <1>3 DEF Holds
    <2>2. i - 1 \in 1..Len(Tail(queue)) /\ Tail(queue)[i - 1] = r
      BY <1>1, <1>3, <2>1
    <2> QED
      BY <2>2 DEF Holds
  <1>4. OneEach(Tail(queue)) /\ Holds(queue, Head(queue))
    BY <1>1 DEF Holds, OneEach
  <1> QED
    BY <1>2, <1>3, <1>4

\* The requests of a sequence of entries, as a sequence.
LEMMA HoldsRequests ==
  ASSUME NEW entries \in Seq(Entry)
  PROVE  /\ RequestsOf(entries) \in Seq(Requests)
         /\ Len(RequestsOf(entries)) = Len(entries)
         /\ \A r : Holds(RequestsOf(entries), r) <=>
                     \E i \in 1..Len(entries) : entries[i].request = r
         /\ OneEach(RequestsOf(entries)) <=>
              \A i, j \in 1..Len(entries) :
                entries[i].request = entries[j].request => i = j
  <1>1. RequestsOf(entries) \in Seq(Requests)
    BY RequestsOfType
  <1>2. Len(entries) \in Nat
    OBVIOUS
  <1>3. /\ Len(RequestsOf(entries)) = Len(entries)
        /\ \A i \in 1..Len(entries) : RequestsOf(entries)[i] = entries[i].request
    BY <1>2 DEF RequestsOf
  <1> QED
    BY <1>1, <1>3 DEF Holds, OneEach

LEMMA RequestsAppend ==
  ASSUME NEW entries \in Seq(Entry), NEW x \in Entry
  PROVE  RequestsOf(Append(entries, x)) = Append(RequestsOf(entries), x.request)
  <1>1. RequestsOf(entries) \in Seq(Requests) /\ Len(RequestsOf(entries)) = Len(entries)
    BY HoldsRequests
  <1>2. /\ Len(Append(entries, x)) = Len(entries) + 1 /\ Len(entries) \in Nat
        /\ x.request \in Requests
    BY EntryType
  <1>3. Append(entries, x) \in Seq(Entry)
    OBVIOUS
  <1>4. RequestsOf(Append(entries, x)) \in Seq(Requests)
    BY <1>3, RequestsOfType
  <1>5. Append(RequestsOf(entries), x.request) \in Seq(Requests)
        /\ Len(Append(RequestsOf(entries), x.request)) = Len(entries) + 1
    BY <1>1, <1>2
  <1>6. Len(RequestsOf(Append(entries, x))) = Len(entries) + 1
    BY <1>2, <1>3, HoldsRequests
  <1>7. ASSUME NEW i \in 1..Len(entries) + 1
        PROVE  RequestsOf(Append(entries, x))[i]
                 = Append(RequestsOf(entries), x.request)[i]
    BY <1>1, <1>2 DEF RequestsOf
  <1> QED
    BY <1>4, <1>5, <1>6, <1>7, SeqEqual

-----------------------------------------------------------------------------
(***************************************************************************)
(* The census: one lemma per kind of move.                                 *)
(***************************************************************************)

\* The types the moves need.
LEMMA CensusTypes ==
  ASSUME BatchInvariant
  PROVE  /\ pending \in Seq(Requests) /\ failing \in Seq(Requests)
         /\ active \in Seq(Entry) /\ nextActive \in Seq(Entry)
         /\ index \in Nat \ {0} /\ Len(active) \in Nat /\ subject \in Requests
         /\ wpc \in WorkerPcs /\ resume \in ResumePcs
         /\ promise \in [Requests -> Outcome] /\ cpc \in [Requests -> ClientPcs]
         /\ wpc \in RowPcs \ {"rows"} =>
              index \in 1..Len(active) /\ Current \in Requests
  <1>1. /\ pending \in Seq(Requests) /\ failing \in Seq(Requests)
        /\ active \in Seq(Entry) /\ nextActive \in Seq(Entry)
        /\ index \in Nat \ {0} /\ subject \in Requests
        /\ wpc \in WorkerPcs /\ resume \in ResumePcs
        /\ promise \in [Requests -> Outcome] /\ cpc \in [Requests -> ClientPcs]
    BY DEF BatchInvariant, TypeOK, SharedTypeOK, BatchTypeOK, NextTypeOK,
           WorkTypeOK, ClientTypeOK
  <1>2. Len(active) \in Nat
    BY <1>1
  <1>3. wpc \in RowPcs \ {"rows"} => index \in 1..Len(active)
    BY <1>1, <1>2 DEF BatchInvariant, Bounds
  <1>4. \A i \in 1..Len(active) : active[i].request \in Requests
    BY <1>1, EntryType
  <1> QED
    BY <1>1, <1>2, <1>3, <1>4 DEF Current

\* A step that changes none of what the census looks at.
LEMMA NothingMoves ==
  ASSUME RequestInvariant,
         UNCHANGED <<pending, failing, promise>>,
         \A r \in Requests : Accepted(r)' <=> Accepted(r),
         wpc' \in AdmitPcs <=> wpc \in AdmitPcs,
         wpc \in AdmitPcs => subject' = subject,
         LiveRows' = LiveRows, InRows' = InRows,
         \A i \in LiveRows : active'[i].request = active[i].request,
         InRows => nextActive' = nextActive,
         wpc' \notin FailPcs => failing' = <<>>
  PROVE  RequestInvariant'
  <1>1. \A r \in Requests :
          /\ Waiting(r)' <=> Waiting(r)
          /\ Admitting(r)' <=> Admitting(r)
          /\ Running(r)' <=> Running(r)
          /\ Surviving(r)' <=> Surviving(r)
          /\ Failing(r)' <=> Failing(r)
          /\ Unsettled(r)' <=> Unsettled(r)
    BY DEF Waiting, Admitting, Running, Surviving, Failing, Unsettled, Holds,
           RequestsOf
  <1>2. Distinct'
    <2>1. OneEach(pending)' /\ OneEach(failing)'
      BY DEF RequestInvariant, Distinct, OneEach
    <2>2. \A i, j \in LiveRows' : active'[i].request = active'[j].request => i = j
      BY DEF RequestInvariant, Distinct
    <2>3. InRows' => OneEach(RequestsOf(nextActive))'
      BY DEF RequestInvariant, Distinct, OneEach, RequestsOf
    <2> QED
      BY <2>1, <2>2, <2>3 DEF Distinct
  <1>3. Quiet'
    BY DEF RequestInvariant, Quiet
  <1> QED
    BY <1>1, <1>2, <1>3 DEF RequestInvariant, Exclusive, Accounted, Held

\* Outside the row loop a batch that is emptied moves to `failing`.
LEMMA BatchFails ==
  ASSUME BatchInvariant, RequestInvariant, ~InRows, wpc \notin AdmitPcs \cup FailPcs,
         failing' = RequestsOf(active), active' = <<>>,
         wpc' = "fail", resume' # "rows",
         UNCHANGED <<pending, promise, cpc>>
  PROVE  RequestInvariant'
  <1> USE CensusTypes DEF RequestInvariant
  <1>1. failing = <<>>
    BY DEF Quiet
  <1>2. ~InRows' /\ LiveRows = 1..Len(active) /\ LiveRows' = {}
    BY DEF InRows, LiveRows
  <1>3. \A r : Failing(r)' <=> Running(r)
    BY <1>2, HoldsRequests DEF Failing, Running, Holds
  <1>4. \A r : /\ ~Failing(r) /\ ~Running(r)' /\ ~Surviving(r) /\ ~Surviving(r)'
               /\ ~Admitting(r) /\ ~Admitting(r)'
    BY <1>1, <1>2, HoldsShort DEF Failing, Running, Surviving, Admitting
  <1>5. \A r : (Waiting(r)' <=> Waiting(r)) /\ (Unsettled(r)' <=> Unsettled(r))
    BY DEF Waiting, Holds, Unsettled, Accepted
  <1>6. OneEach(failing')
    BY <1>2, HoldsRequests DEF Distinct
  <1>7. Distinct'
    BY <1>2, <1>6 DEF Distinct, OneEach
  <1>8. Quiet'
    BY DEF Quiet, Accepted
  <1> QED
    BY <1>3, <1>4, <1>5, <1>7, <1>8 DEF Exclusive, Accounted, Held

\* After the last row the survivors are all there is; they fail together.
LEMMA SurvivorsFail ==
  ASSUME BatchInvariant, RequestInvariant, EndRowsThrows
  PROVE  RequestInvariant'
  <1> USE CensusTypes DEF RequestInvariant
  <1>0. /\ wpc = "rows" /\ index > Len(active) /\ failing' = RequestsOf(nextActive)
        /\ active' = <<>> /\ wpc' = "fail" /\ resume' = "drain"
        /\ UNCHANGED <<pending, promise, cpc>>
    BY DEF EndRowsThrows, LeaveLoop, sharedVars, requestVars, clientVars
  <1>1. failing = <<>>
    BY <1>0 DEF Quiet
  <1>2. InRows /\ ~InRows' /\ LiveRows = {} /\ LiveRows' = {}
    BY <1>0 DEF InRows, LiveRows
  <1>3. \A r : Failing(r)' <=> Surviving(r)
    BY <1>0, <1>2 DEF Failing, Surviving, Holds
  <1>4. \A r : /\ ~Failing(r) /\ ~Running(r) /\ ~Running(r)' /\ ~Surviving(r)'
               /\ ~Admitting(r) /\ ~Admitting(r)'
    BY <1>0, <1>1, <1>2, HoldsShort DEF Failing, Running, Surviving, Admitting
  <1>5. \A r : (Waiting(r)' <=> Waiting(r)) /\ (Unsettled(r)' <=> Unsettled(r))
    BY <1>0 DEF Waiting, Holds, Unsettled, Accepted
  <1>6. OneEach(failing')
    BY <1>0, <1>2 DEF Distinct, OneEach
  <1>7. Distinct'
    BY <1>0, <1>2, <1>6 DEF Distinct, OneEach
  <1>8. Quiet'
    BY <1>0 DEF Quiet, Accepted
  <1> QED
    BY <1>3, <1>4, <1>5, <1>7, <1>8 DEF Exclusive, Accounted, Held

\* The row at `index` leaves the iteration: its request is running before and
\* not after, and the others stay.
LEMMA RowLeavesCensus ==
  ASSUME BatchInvariant, Distinct, wpc \in RowPcs \ {"rows"},
         active' = active, index' = index + 1, InRows'
  PROVE  /\ Current \in Requests /\ Running(Current)
         /\ \A r : Running(r)' <=> Running(r) /\ r # Current
         /\ \A i, j \in LiveRows' :
              active'[i].request = active'[j].request => i = j
  <1> USE CensusTypes
  <1>1. InRows /\ index \in 1..Len(active) /\ index \in LiveRows
    BY DEF InRows, LiveRows
  <1>2. LiveRows' = LiveRows \ {index}
    BY <1>1 DEF LiveRows
  <1>3. \A i \in LiveRows : active[i].request = Current <=> i = index
    BY <1>1 DEF Distinct, Current
  <1>4. \A r : Running(r)' <=> \E i \in LiveRows \ {index} : active[i].request = r
    BY <1>2 DEF Running
  <1>5. \A r : Running(r)' <=> Running(r) /\ r # Current
    BY ZenonT(60), <1>3, <1>4 DEF Running
  <1> QED
    BY <1>1, <1>2, <1>3, <1>5 DEF Running, Distinct

\* The handler of a row takes its request from the row to `failing`.
LEMMA RowRaises ==
  ASSUME BatchInvariant, RequestInvariant, wpc \in RowPcs \ {"rows"}, RaiseRow,
         UNCHANGED <<pending, promise, cpc, active, nextActive>>
  PROVE  RequestInvariant'
  <1> USE CensusTypes DEF RequestInvariant
  <1>0. failing = <<>> /\ failing' = <<Current>> /\ wpc' = "fail" /\ resume' = "rows"
    BY DEF Quiet, RaiseRow, Raise
  <1>1. InRows /\ InRows' /\ index' = index + 1
    BY <1>0 DEF InRows, RaiseRow
  <1>2. /\ Current \in Requests /\ Running(Current)
        /\ \A r : Running(r)' <=> Running(r) /\ r # Current
        /\ \A i, j \in LiveRows' :
             active'[i].request = active'[j].request => i = j
    BY <1>1, RowLeavesCensus
  <1>3. \A r : ~Failing(r) /\ (Failing(r)' <=> r = Current)
    BY <1>0, HoldsShort DEF Failing, Holds
  <1>4. \A r : /\ ~Admitting(r) /\ ~Admitting(r)'
               /\ (Surviving(r)' <=> Surviving(r)) /\ (Waiting(r)' <=> Waiting(r))
               /\ (Unsettled(r)' <=> Unsettled(r))
    BY <1>0, <1>1 DEF Surviving, Admitting, Waiting, Unsettled, Accepted, Holds,
                      RequestsOf
  <1>5. Distinct'
    <2>1. OneEach(pending)' /\ OneEach(failing)'
      BY <1>0 DEF Distinct, OneEach
    <2>2. RequestsOf(nextActive)' = RequestsOf(nextActive)
      BY DEF RequestsOf
    <2>3. OneEach(RequestsOf(nextActive))'
      BY <1>1, <2>2 DEF Distinct, OneEach
    <2> QED
      BY <1>2, <2>1, <2>3 DEF Distinct
  <1>6. Quiet'
    BY <1>0 DEF Quiet, Accepted
  <1> QED
    BY <1>2, <1>3, <1>4, <1>5, <1>6 DEF Exclusive, Accounted, Held

\* finish() settles the request of the row, or throws and leaves it to fail().
LEMMA RowFinishes ==
  ASSUME BatchInvariant, RequestInvariant, Finish \/ FinishThrows
  PROVE  RequestInvariant'
  <1> USE CensusTypes DEF RequestInvariant
  <1>0. /\ wpc \in {"finish_stop", "finish_length"} /\ wpc' = "complete"
        /\ resume' = "rows" /\ index' = index + 1
        /\ UNCHANGED <<pending, cpc, active, nextActive>>
        /\ failing = <<>>
    BY DEF Finish, FinishThrows, sharedVars, batchVars, nextVars, clientVars, Quiet
  <1>1. InRows /\ InRows'
    BY <1>0 DEF InRows
  <1>2. /\ Current \in Requests /\ Running(Current)
        /\ \A r : Running(r)' <=> Running(r) /\ r # Current
        /\ \A i, j \in LiveRows' :
             active'[i].request = active'[j].request => i = j
    BY <1>0, <1>1, RowLeavesCensus
  <1>3. \A r : /\ ~Admitting(r) /\ ~Admitting(r)'
               /\ (Surviving(r)' <=> Surviving(r)) /\ (Waiting(r)' <=> Waiting(r))
               /\ (Accepted(r)' <=> Accepted(r)) /\ ~Failing(r)
    BY <1>0, <1>1, HoldsShort DEF Surviving, Admitting, Waiting, Accepted, Holds,
                      RequestsOf, Failing
  <1>4. OneEach(pending)' /\ OneEach(RequestsOf(nextActive))'
    <2>1. RequestsOf(nextActive)' = RequestsOf(nextActive)
      BY <1>0 DEF RequestsOf
    <2> QED
      BY <1>0, <1>1, <2>1 DEF Distinct, OneEach
  <1>5. Accepted(Current) /\ Unsettled(Current)
    BY <1>2 DEF Accounted, Held, Unsettled
  <1>6. CASE Finish
    <2>1. failing' = <<>> /\ \A r : ~Failing(r)'
      BY <1>6, HoldsShort DEF Finish, Failing, Holds
    <2>2. \A r \in Requests : Unsettled(r)' <=> Unsettled(r) /\ r # Current
      BY <1>2, <1>3, <1>6 DEF Finish, Unsettled, Value
    <2>3. Distinct'
      BY <1>2, <1>4, <2>1 DEF Distinct, OneEach
    <2>4. Quiet'
      BY <1>0, <1>3, <1>5, <1>6 DEF Quiet, Finish
    <2> QED
      BY <1>2, <1>3, <2>1, <2>2, <2>3, <2>4 DEF Exclusive, Accounted, Held
  <1>7. CASE FinishThrows
    <2>1. failing' = <<Current>> /\ \A r : Failing(r)' <=> r = Current
      BY <1>7, HoldsShort DEF FinishThrows, Failing, Holds
    <2>2. promise' = promise /\ \A r \in Requests : Unsettled(r)' <=> Unsettled(r)
      BY <1>3, <1>7 DEF FinishThrows, Unsettled, sharedVars, requestVars
    <2>3. Distinct'
      BY <1>2, <1>4, <2>1 DEF Distinct, OneEach
    <2>4. Quiet'
      BY <1>0, <1>3, <2>2 DEF Quiet
    <2> QED
      BY <1>2, <1>3, <2>1, <2>2, <2>3, <2>4 DEF Exclusive, Accounted, Held
  <1> QED
    BY <1>6, <1>7

\* A row that goes on takes its request to the survivors.
LEMMA RowSurvives ==
  ASSUME BatchInvariant, RequestInvariant, Limit, wpc' = "rows"
  PROVE  RequestInvariant'
  <1> USE CensusTypes DEF RequestInvariant
  <1>0. /\ wpc = "limit" /\ index' = index + 1 /\ failing = <<>>
        /\ nextActive' = Append(nextActive, active[index])
        /\ UNCHANGED <<pending, promise, failing, active>>
        /\ active[index] \in Entry
    BY DEF Limit, KeepRow, sharedVars, requestVars, batchVars, Quiet
  <1>1. InRows /\ InRows'
    BY <1>0 DEF InRows
  <1>2. /\ Current \in Requests /\ Running(Current)
        /\ \A r : Running(r)' <=> Running(r) /\ r # Current
        /\ \A i, j \in LiveRows' :
             active'[i].request = active'[j].request => i = j
    BY <1>0, <1>1, RowLeavesCensus
  <1>3. \A r \in Requests : Accepted(r)' <=> Accepted(r)
    BY <1>0, <1>2 DEF Limit, WakeClient, Accepted
  <1>4. RequestsOf(nextActive)' = Append(RequestsOf(nextActive), Current)
    <2>1. RequestsOf(nextActive') = Append(RequestsOf(nextActive), Current)
      BY <1>0, RequestsAppend DEF Current
    <2> QED
      BY <2>1 DEF RequestsOf
  <1>5. RequestsOf(nextActive) \in Seq(Requests)
    BY RequestsOfType
  <1>6. \A r : Surviving(r)' <=> Surviving(r) \/ r = Current
    BY <1>1, <1>2, <1>4, <1>5, HoldsAppend DEF Surviving, Holds
  <1>7. \A r \in Requests :
               /\ ~Admitting(r) /\ ~Admitting(r)' /\ (Waiting(r)' <=> Waiting(r))
               /\ (Failing(r)' <=> Failing(r)) /\ (Unsettled(r)' <=> Unsettled(r))
    BY <1>0, <1>3 DEF Admitting, Waiting, Unsettled, Holds, Failing
  <1>8. Distinct'
    <2>1. OneEach(pending)' /\ OneEach(failing)'
      BY <1>0 DEF Distinct, OneEach
    <2>2. ~Surviving(Current)
      BY <1>2 DEF Exclusive
    <2>3. OneEach(Append(RequestsOf(nextActive), Current))
      BY <1>1, <1>2, <1>5, <2>2, HoldsAppend DEF Distinct, Surviving
    <2>4. OneEach(RequestsOf(nextActive))'
      BY <1>4, <2>3 DEF OneEach
    <2> QED
      BY <1>2, <2>1, <2>4 DEF Distinct
  <1>9. Quiet'
    BY <1>0, <1>3 DEF Quiet
  <1> QED
    BY <1>2, <1>6, <1>7, <1>8, <1>9 DEF Exclusive, Accounted, Held

\* submit() accepts a request: it waits.
LEMMA SubmitCensus ==
  ASSUME BatchInvariant, RequestInvariant, NEW s \in Requests, Submit(s)
  PROVE  RequestInvariant'
  <1> USE CensusTypes DEF RequestInvariant
  <1>0. /\ cpc[s] = "idle" /\ cpc' = [cpc EXCEPT ![s] = "notify"]
        /\ pending' = Append(pending, s)
        /\ UNCHANGED <<promise, wpc, active, nextActive, index, subject, failing,
                       resume>>
    BY DEF Submit, requestVars, workerVars, batchVars, nextVars, workVars
  <1>1. InRows' = InRows /\ LiveRows' = LiveRows
    BY <1>0 DEF InRows, LiveRows
  <1>2. \A r \in Requests : /\ Accepted(r)' <=> Accepted(r) \/ r = s
                            /\ Unsettled(r)' <=> Unsettled(r) \/ r = s
    <2>1. ~Accepted(s) /\ promise[s].kind = "unset"
      BY <1>0 DEF Accepted, Quiet, Unset
    <2> QED
      BY <1>0, <2>1 DEF Accepted, Unsettled
  <1>3. ~Accepted(s) /\ ~Held(s)
    BY <1>0 DEF Accepted, Accounted, Unsettled
  <1>4. \A r : /\ Admitting(r)' <=> Admitting(r)
               /\ Running(r)' <=> Running(r)
               /\ Surviving(r)' <=> Surviving(r)
               /\ Failing(r)' <=> Failing(r)
    BY <1>0, <1>1 DEF Admitting, Running, Surviving, Failing, Holds, RequestsOf
  <1>5. \A r : Waiting(r)' <=> Waiting(r) \/ r = s
    BY <1>0, HoldsAppend DEF Waiting, Holds
  <1>6. Distinct'
    <2>1. OneEach(Append(pending, s))
      BY <1>3, HoldsAppend DEF Held, Waiting, Distinct
    <2>2. RequestsOf(nextActive)' = RequestsOf(nextActive)
      BY <1>0 DEF RequestsOf
    <2>3. OneEach(pending)' /\ OneEach(failing)' /\ (InRows' => OneEach(RequestsOf(nextActive))')
      BY <1>0, <1>1, <2>1, <2>2 DEF Distinct, OneEach
    <2>4. \A i, j \in LiveRows' : active'[i].request = active'[j].request => i = j
      BY <1>0, <1>1 DEF Distinct
    <2> QED
      BY <2>3, <2>4 DEF Distinct
  <1>7. Quiet'
    BY <1>0, <1>2 DEF Quiet
  <1> QED
    BY <1>2, <1>3, <1>4, <1>5, <1>6, <1>7 DEF Exclusive, Accounted, Held

\* admit_pending() takes the oldest request.
LEMMA AdmitCensus ==
  ASSUME BatchInvariant, RequestInvariant, AdmitPending, pending # <<>>
  PROVE  RequestInvariant'
  <1> USE CensusTypes DEF RequestInvariant
  <1>0. /\ wpc = "admit" /\ wpc' = "admit_load"
        /\ subject' = Head(pending) /\ pending' = Tail(pending)
        /\ UNCHANGED <<promise, cpc, active, nextActive, index, failing, resume>>
        /\ failing = <<>>
    BY DEF AdmitPending, TakePending, requestVars, batchVars, nextVars,
           clientVars, Quiet
  <1>1. ~InRows /\ ~InRows' /\ LiveRows' = LiveRows
    BY <1>0 DEF InRows, LiveRows
  <1>6. \A r : Waiting(r)' <=> Waiting(r) /\ r # Head(pending)
    <2>1. \A r : Holds(Tail(pending), r) <=> Holds(pending, r) /\ r # Head(pending)
      BY HoldsTail DEF Distinct
    <2> QED
      BY <1>0, <2>1 DEF Waiting, Holds
  <1>2. \A r : /\ Admitting(r)' <=> r = Head(pending)
               /\ ~Admitting(r) /\ ~Surviving(r) /\ ~Surviving(r)'
               /\ ~Failing(r) /\ ~Failing(r)'
               /\ Running(r)' <=> Running(r)
               /\ Unsettled(r)' <=> Unsettled(r)
    BY <1>0, <1>1, HoldsShort
    DEF Admitting, Surviving, Failing, Running, Unsettled, Accepted, Holds
  <1>3. Waiting(Head(pending))
    BY HoldsTail DEF Distinct, Waiting
  <1>4. Distinct'
    <2>1. OneEach(Tail(pending))
      BY HoldsTail DEF Distinct
    <2> QED
      BY <1>0, <1>1, <2>1 DEF Distinct, OneEach
  <1>5. Quiet'
    BY <1>0 DEF Quiet, Accepted
  <1> QED
    BY <1>6, <1>2, <1>3, <1>4, <1>5 DEF Exclusive, Accounted, Held

\* A handler of admit() fails the request being admitted.
LEMMA AdmitRaises ==
  ASSUME BatchInvariant, RequestInvariant, wpc \in AdmitPcs,
         Raise(subject, "admitted"),
         UNCHANGED <<pending, promise, cpc, active, nextActive, index>>
  PROVE  RequestInvariant'
  <1> USE CensusTypes DEF RequestInvariant
  <1>0. failing = <<>> /\ failing' = <<subject>> /\ wpc' = "fail" /\ resume' = "admitted"
    BY DEF Raise, Quiet
  <1>1. ~InRows /\ ~InRows' /\ LiveRows' = LiveRows
    BY <1>0 DEF InRows, LiveRows
  <1>2. \A r : /\ Waiting(r)' <=> Waiting(r)
               /\ Admitting(r) <=> r = subject
               /\ Failing(r)' <=> r = subject
               /\ ~Admitting(r)' /\ ~Surviving(r) /\ ~Surviving(r)' /\ ~Failing(r)
               /\ Running(r)' <=> Running(r)
               /\ Unsettled(r)' <=> Unsettled(r)
    BY <1>0, <1>1, HoldsShort
    DEF Waiting, Admitting, Surviving, Failing, Running, Unsettled, Accepted, Holds
  <1>3. Distinct'
    BY <1>0, <1>1 DEF Distinct, OneEach
  <1>4. Quiet'
    BY <1>0 DEF Quiet, Accepted
  <1> QED
    BY <1>2, <1>3, <1>4 DEF Exclusive, Accounted, Held

\* The end of admit() gives the request a row.
LEMMA SeatCensus ==
  ASSUME BatchInvariant, RequestInvariant, Seat
  PROVE  RequestInvariant'
  <1> USE CensusTypes DEF RequestInvariant
  <1>0. /\ wpc = "seat" /\ wpc' = "admitted"
        /\ UNCHANGED <<pending, promise, cpc, nextActive, index, failing, resume>>
        /\ failing = <<>>
    BY DEF Seat, sharedVars, requestVars, nextVars, workVars, clientVars, Quiet
  <1>1. PICK n \in OutputLimits : active' = Append(active,
                       [request |-> subject, output |-> <<>>, limit |-> n])
    BY DEF Seat
  <1>2. /\ ~InRows /\ ~InRows' /\ LiveRows = 1..Len(active)
        /\ Len(active') = Len(active) + 1 /\ LiveRows' = 1..Len(active) + 1
        /\ \A i \in 1..Len(active) : active'[i] = active[i]
        /\ active'[Len(active) + 1].request = subject
    BY <1>0, <1>1 DEF InRows, LiveRows
  <1>3. \A r : Running(r)' <=> Running(r) \/ r = subject
    <2>1. \A r : Running(r)' <=>
            \E i \in 1..Len(active) + 1 : active'[i].request = r
      BY <1>2 DEF Running
    <2>2. \A i \in 1..Len(active) + 1 : i \in 1..Len(active) \/ i = Len(active) + 1
      OBVIOUS
    <2>3. Len(active) + 1 \in 1..Len(active) + 1
          /\ \A i \in 1..Len(active) : i \in 1..Len(active) + 1
      OBVIOUS
    <2> QED
      BY <1>2, <2>1, <2>2, <2>3 DEF Running
  <1>4. \A r : /\ Waiting(r)' <=> Waiting(r)
               /\ Admitting(r) <=> r = subject
               /\ ~Admitting(r)' /\ ~Surviving(r) /\ ~Surviving(r)'
               /\ ~Failing(r) /\ ~Failing(r)'
               /\ Unsettled(r)' <=> Unsettled(r)
    BY <1>0, <1>2, HoldsShort
    DEF Waiting, Admitting, Surviving, Failing, Unsettled, Accepted, Holds
  <1>5. Distinct'
    <2>1. ~Running(subject)
      BY <1>4 DEF Exclusive
    <2>2. \A i \in 1..Len(active) : active[i].request # subject
      BY <1>2, <2>1 DEF Running
    <2> QED
      BY SMTT(60), <1>0, <1>2, <2>2 DEF Distinct, OneEach
  <1>6. Quiet'
    BY <1>0 DEF Quiet, Accepted
  <1> QED
    BY <1>3, <1>4, <1>5, <1>6 DEF Exclusive, Accounted, Held

\* fail() settles the oldest of the failing requests.
LEMMA FailCensus ==
  ASSUME BatchInvariant, RequestInvariant, Fail, failing # <<>>
  PROVE  RequestInvariant'
  <1> USE CensusTypes DEF RequestInvariant
  <1>0. /\ wpc = "fail" /\ wpc' = "complete" /\ failing' = Tail(failing)
        /\ promise' = [promise EXCEPT ![Head(failing)] =
                         IF @.kind = "unset" THEN Exception ELSE @]
        /\ UNCHANGED <<pending, cpc, active, nextActive, index, resume>>
    BY DEF Fail, batchVars, nextVars, clientVars
  <1>1. InRows' = InRows /\ LiveRows' = LiveRows
    BY <1>0 DEF InRows, LiveRows
  <1>2. Failing(Head(failing)) /\ Head(failing) \in Requests
    BY HoldsTail DEF Distinct, Failing
  <1>3. Unsettled(Head(failing))
    BY <1>2 DEF Accounted, Held
  <1>4. \A r : Failing(r)' <=> Failing(r) /\ r # Head(failing)
    <2>1. \A r : Holds(Tail(failing), r) <=> Holds(failing, r) /\ r # Head(failing)
      BY HoldsTail DEF Distinct
    <2> QED
      BY <1>0, <2>1 DEF Failing, Holds
  <1>5. \A r : /\ Waiting(r)' <=> Waiting(r)
               /\ ~Admitting(r) /\ ~Admitting(r)'
               /\ Running(r)' <=> Running(r)
               /\ Surviving(r)' <=> Surviving(r)
    BY <1>0, <1>1 DEF Waiting, Admitting, Running, Surviving, Holds, RequestsOf
  <1>6. \A r \in Requests : Unsettled(r)' <=> Unsettled(r) /\ r # Head(failing)
    BY <1>0, <1>2 DEF Unsettled, Accepted, Exception
  <1>7. Distinct'
    <2>1. OneEach(Tail(failing))
      BY HoldsTail DEF Distinct
    <2>2. RequestsOf(nextActive)' = RequestsOf(nextActive)
      BY <1>0 DEF RequestsOf
    <2>3. OneEach(pending)' /\ OneEach(failing)' /\ (InRows' => OneEach(RequestsOf(nextActive))')
      BY <1>0, <1>1, <2>1, <2>2 DEF Distinct, OneEach
    <2>4. \A i, j \in LiveRows' : active'[i].request = active'[j].request => i = j
      BY <1>0, <1>1 DEF Distinct
    <2> QED
      BY <2>3, <2>4 DEF Distinct
  <1>8. Quiet'
    BY <1>0, <1>2, <1>3 DEF Quiet, Accepted, Unsettled
  <1> QED
    BY <1>2, <1>4, <1>5, <1>6, <1>7, <1>8 DEF Exclusive, Accounted, Held

\* After the loop what was pending is failing.
LEMMA DrainCensus ==
  ASSUME BatchInvariant, RequestInvariant, Drain
  PROVE  RequestInvariant'
  <1> USE CensusTypes DEF RequestInvariant
  <1>0. /\ wpc = "drain" /\ wpc' = "fail" /\ resume' = "dead"
        /\ failing' = pending /\ pending' = <<>> /\ failing = <<>>
        /\ UNCHANGED <<promise, cpc, active, nextActive, index>>
    BY DEF Drain, requestVars, batchVars, nextVars, clientVars, Quiet
  <1>1. ~InRows /\ ~InRows' /\ LiveRows' = LiveRows
    BY <1>0 DEF InRows, LiveRows
  <1>2. \A r : /\ Failing(r)' <=> Waiting(r)
               /\ ~Failing(r) /\ ~Waiting(r)' /\ ~Admitting(r) /\ ~Admitting(r)'
               /\ Running(r)' <=> Running(r)
               /\ ~Surviving(r) /\ ~Surviving(r)'
               /\ Unsettled(r)' <=> Unsettled(r)
    BY <1>0, <1>1, HoldsShort
    DEF Waiting, Failing, Admitting, Running, Surviving, Unsettled, Accepted, Holds
  <1>3. Distinct'
    BY <1>0, <1>1 DEF Distinct, OneEach
  <1>4. Quiet'
    BY <1>0 DEF Quiet, Accepted
  <1> QED
    BY <1>2, <1>3, <1>4 DEF Exclusive, Accounted, Held

\* The iteration starts with no survivors, and ends with nothing else.
LEMMA IterationCensus ==
  ASSUME BatchInvariant, RequestInvariant, (BeginRows /\ active # <<>>) \/ EndRows
  PROVE  RequestInvariant'
  <1> USE CensusTypes DEF RequestInvariant
  <1>0. /\ UNCHANGED <<pending, promise, cpc, failing, subject>>
        /\ wpc \in {"admitted", "rows"} /\ wpc' \in {"rows", "decode", "top"}
        /\ failing = <<>>
    BY DEF BeginRows, EndRows, sharedVars, requestVars, workVars, clientVars, Quiet
  <1>1. \A r : /\ Waiting(r)' <=> Waiting(r)
               /\ ~Failing(r) /\ ~Failing(r)' /\ ~Admitting(r) /\ ~Admitting(r)'
               /\ Unsettled(r)' <=> Unsettled(r)
    BY <1>0, HoldsShort DEF Waiting, Failing, Admitting, Unsettled, Accepted, Holds
  <1>2. Quiet' /\ OneEach(pending)' /\ OneEach(failing)'
    BY <1>0 DEF Quiet, Accepted, Distinct, OneEach
  <1>3. CASE BeginRows /\ active # <<>>
    <2>1. /\ ~InRows /\ InRows' /\ LiveRows' = LiveRows /\ active' = active
          /\ nextActive' = <<>>
      BY <1>3 DEF BeginRows, InRows, LiveRows, batchVars
    <2>2. \A r : /\ Running(r)' <=> Running(r)
                 /\ ~Surviving(r) /\ ~Surviving(r)'
      BY <2>1 DEF Running, Surviving, Holds, RequestsOf
    <2>3. OneEach(RequestsOf(nextActive))'
      BY <2>1 DEF OneEach, RequestsOf
    <2>4. Distinct'
      BY <1>2, <2>1, <2>3 DEF Distinct
    <2> QED
      BY <1>1, <1>2, <2>2, <2>4 DEF Exclusive, Accounted, Held
  <1>4. CASE EndRows
    <2>1. /\ InRows /\ ~InRows' /\ LiveRows = {} /\ LiveRows' = 1..Len(nextActive)
          /\ active' = nextActive
      BY <1>4 DEF EndRows, InRows, LiveRows
    <2>2. \A r : /\ Running(r)' <=> Surviving(r)
                 /\ ~Running(r) /\ ~Surviving(r)'
      <3>1. \A r : Surviving(r) <=>
              \E i \in 1..Len(nextActive) : nextActive[i].request = r
        BY <2>1, HoldsRequests DEF Surviving
      <3>2. \A r : Running(r)' <=>
              \E i \in 1..Len(nextActive) : nextActive[i].request = r
        BY <2>1 DEF Running
      <3>3. \A r : ~Running(r) /\ ~Surviving(r)'
        BY <2>1 DEF Running, Surviving
      <3> QED
        BY <3>1, <3>2, <3>3
    <2>3. Distinct'
      BY <1>2, <2>1, HoldsRequests DEF Distinct
    <2> QED
      BY <1>1, <1>2, <2>2, <2>3 DEF Exclusive, Accounted, Held
  <1> QED
    BY <1>3, <1>4

\* The steps of the threads other than the worker: only submit() moves a request.
LEMMA OtherCensus ==
  ASSUME BatchInvariant, RequestInvariant, NEW r \in Requests,
         SpuriousWakeup \/ Stop \/ SubmitInvalid(r) \/ Submit(r) \/ ClientStep(r)
  PROVE  RequestInvariant'
  <1> USE CensusTypes DEF RequestInvariant
  <1>1. CASE Submit(r)
    BY <1>1, SubmitCensus
  <1>2. CASE ~Submit(r)
    <2>1. /\ UNCHANGED <<promise, active, nextActive, index, subject, failing, resume>>
          /\ (wpc' = wpc \/ (wpc = "asleep" /\ wpc' = "wait"))
      BY OtherSteps DEF batchVars, nextVars, workVars
    <2>2. pending' = pending
      BY <1>2 DEF SpuriousWakeup, Stop, SubmitInvalid, ClientStep, NotifyWorker,
                  StreamWait, Deliver, CallbackThrows, Delivered, GetResult, sharedVars
    <2>3. \A q \in Requests : Accepted(q)' <=> Accepted(q)
      BY <1>2 DEF SpuriousWakeup, Stop, SubmitInvalid, ClientStep, NotifyWorker,
                  StreamWait, Deliver, CallbackThrows, Delivered, GetResult,
                  Accepted, clientVars
    <2>4. LiveRows' = LiveRows /\ InRows' = InRows
      BY <2>1 DEF LiveRows, InRows
    <2>5. /\ wpc' \in AdmitPcs <=> wpc \in AdmitPcs
          /\ wpc' \notin FailPcs => failing' = <<>>
      BY <2>1 DEF Quiet
    <2> QED
      BY <2>1, <2>2, <2>3, <2>4, <2>5, NothingMoves
  <1> QED
    BY <1>1, <1>2

\* Sampling a token changes no row's request.
LEMMA SampleKeepsRequests ==
  ASSUME BatchInvariant, SampleToken
  PROVE  /\ Len(active') = Len(active)
         /\ \A i \in 1..Len(active) : active'[i].request = active[i].request
  <1>1. /\ active \in Seq(Entry) /\ index \in 1..Len(active)
        /\ active' = [active EXCEPT ![index].output =
                         Append(@, SampledFrom(RowLogits))]
    BY CensusTypes DEF SampleToken
  <1>2. active[index] \in Entry /\ Len(active') = Len(active)
    BY <1>1
  <1>3. active'[index].request = active[index].request
    BY <1>1, <1>2 DEF Entry
  <1> QED
    BY <1>1, <1>2, <1>3

\* The steps of the worker that move no request.
LEMMA StillCensus ==
  ASSUME BatchInvariant, RequestInvariant,
         \/ Fail /\ failing = <<>>
         \/ Complete \/ CompleteNotify \/ Start \/ Top \/ Wait \/ Window
         \/ AdmitPending /\ pending = <<>>
         \/ AdmitLoad /\ wpc' = "admit_call"
         \/ AdmitContinues
         \/ BeginRows /\ active = <<>>
         \/ NextRow
         \/ RowLoad /\ wpc' = "row_call"
         \/ RowContinues \/ SampleStop \/ SampleToken \/ Publish
         \/ Limit /\ wpc' = "finish_length"
         \/ Decode
  PROVE  RequestInvariant'
  <1> USE CensusTypes DEF RequestInvariant
  <1> USE DEF Complete, CompleteNotify, Start, Top, Wait, Window, AdmitPending,
              AdmitLoad, AdmitContinues, BeginRows, NextRow, RowLoad, RowContinues,
              SampleStop, SampleToken, Publish, Limit, Decode, Fail, Raise, RaiseRow,
              sharedVars, requestVars, batchVars, nextVars, workVars, clientVars
  <1>1. UNCHANGED <<pending, failing, promise, nextActive, index, resume>>
    BY DEF Quiet
  <1>2. InRows' = InRows
    BY <1>1 DEF InRows
  <1>3. /\ Len(active') = Len(active)
        /\ \A i \in 1..Len(active) : active'[i].request = active[i].request
    <2>1. CASE SampleToken
      BY <2>1, SampleKeepsRequests
    <2>2. CASE ~SampleToken
      BY <2>2
    <2> QED
      BY <2>1, <2>2
  <1>4. LiveRows' = LiveRows /\ \A i \in LiveRows : active'[i].request = active[i].request
    BY <1>1, <1>2, <1>3 DEF LiveRows
  <1>5. \A q \in Requests : Accepted(q)' <=> Accepted(q)
    BY DEF WakeClient, Accepted
  <1>6. /\ wpc' \in AdmitPcs <=> wpc \in AdmitPcs
        /\ wpc \in AdmitPcs => subject' = subject
        /\ wpc' \notin FailPcs => failing' = <<>>
    BY <1>1 DEF Quiet
  <1> QED
    BY <1>1, <1>2, <1>4, <1>5, <1>6, NothingMoves

\* The worker's steps.
LEMMA WorkerCensus ==
  ASSUME BatchInvariant, RequestInvariant, WorkerStep
  PROVE  RequestInvariant'
  <1> USE CensusTypes
  <1>1. CASE StartThrows \/ Stopped \/ BeginRowsThrows \/ DecodeThrows
    <2>1. /\ ~InRows /\ wpc \notin AdmitPcs \cup FailPcs
          /\ failing' = RequestsOf(active) /\ active' = <<>>
          /\ wpc' = "fail" /\ resume' # "rows"
          /\ UNCHANGED <<pending, promise, cpc>>
      BY <1>1 DEF StartThrows, Stopped, BeginRowsThrows, DecodeThrows, LeaveLoop,
                  InRows, sharedVars, requestVars, clientVars
    <2> QED
      BY <2>1, BatchFails
  <1>2. CASE (AdmitLoad /\ wpc' # "admit_call") \/ AdmitThrows
    <2>1. /\ wpc \in AdmitPcs /\ Raise(subject, "admitted")
          /\ UNCHANGED <<pending, promise, cpc, active, nextActive, index>>
      BY <1>2 DEF AdmitLoad, AdmitThrows, sharedVars, requestVars, batchVars,
                  nextVars, clientVars
    <2> QED
      BY <2>1, AdmitRaises
  <1>3. CASE (RowLoad /\ wpc' # "row_call") \/ RowThrows
    <2>1. /\ wpc \in RowPcs \ {"rows"} /\ RaiseRow
          /\ UNCHANGED <<pending, promise, cpc, active, nextActive>>
      BY <1>3 DEF RowLoad, RowThrows, sharedVars, requestVars, batchVars,
                  nextVars, clientVars
    <2> QED
      BY <2>1, RowRaises
  <1>4. CASE Limit /\ wpc' # "finish_length"
    <2>1. wpc' = "rows"
      BY <1>4 DEF Limit
    <2> QED
      BY <1>4, <2>1, RowSurvives
  <1>5. CASE Finish \/ FinishThrows
    BY <1>5, RowFinishes
  <1>6. CASE EndRowsThrows
    BY <1>6, SurvivorsFail
  <1>7. CASE EndRows \/ (BeginRows /\ active # <<>>)
    BY <1>7, IterationCensus
  <1>8. CASE Seat
    BY <1>8, SeatCensus
  <1>9. CASE AdmitPending /\ pending # <<>>
    BY <1>9, AdmitCensus
  <1>10. CASE (Fail /\ failing # <<>>) \/ Drain
    BY <1>10, FailCensus, DrainCensus
  <1> QED
    BY <1>1, <1>2, <1>3, <1>4, <1>5, <1>6, <1>7, <1>8, <1>9, <1>10, StillCensus
    DEF WorkerStep

LEMMA RequestInit == Init => RequestInvariant
  <1> SUFFICES ASSUME Init PROVE RequestInvariant
    OBVIOUS
  <1> USE DEF Init
  <1>1. ~InRows /\ LiveRows = {}
    BY DEF InRows, LiveRows
  <1>2. \A r \in Requests : ~Held(r) /\ ~Unsettled(r)
    BY <1>1, HoldsShort DEF Held, Waiting, Admitting, Running, Surviving, Failing,
                            Unsettled, Accepted
  <1>3. Distinct
    BY <1>1, HoldsShort DEF Distinct
  <1>4. Quiet
    BY DEF Quiet
  <1> QED
    BY <1>2, <1>3, <1>4 DEF RequestInvariant, Exclusive, Accounted, Held

LEMMA RequestStep ==
  ASSUME BatchInvariant, RequestInvariant, [Next]_vars
  PROVE  RequestInvariant'
  <1>1. CASE WorkerStep
    BY <1>1, WorkerCensus
  <1>2. ASSUME NEW r \in Requests,
               SpuriousWakeup \/ Stop \/ SubmitInvalid(r) \/ Submit(r) \/ ClientStep(r)
        PROVE  RequestInvariant'
    BY <1>2, OtherCensus
  <1>3. CASE UNCHANGED vars
    <2>1. UNCHANGED <<pending, failing, promise, cpc, wpc, subject, active,
                      nextActive, index, resume>>
      BY <1>3 DEF vars, sharedVars, requestVars, workerVars, batchVars, nextVars,
                  workVars, clientVars
    <2>2. LiveRows' = LiveRows /\ InRows' = InRows
      BY <2>1 DEF LiveRows, InRows
    <2>3. wpc' \notin FailPcs => failing' = <<>>
      BY <2>1 DEF RequestInvariant, Quiet
    <2> QED
      BY <2>1, <2>2, <2>3, NothingMoves DEF Accepted
  <1> QED
    BY <1>1, <1>2, <1>3, CensusTypes DEF Next

-----------------------------------------------------------------------------
(***************************************************************************)
(* The theorems.                                                           *)
(***************************************************************************)

\* The census holds in every reachable state.
THEOREM RequestInvariantHolds == Spec => [](BatchInvariant /\ RequestInvariant)
  <1>1. Spec => []BatchInvariant
    BY BatchInvariantHolds
  <1>2. BatchInvariant /\ RequestInvariant /\ [Next]_vars => RequestInvariant'
    BY RequestStep
  <1> QED
    BY <1>1, <1>2, RequestInit, PTL DEF Spec

\* A request that is held is in one place, and one that is not in none.
LEMMA PlacesCounted ==
  ASSUME BatchInvariant, RequestInvariant
  PROVE  HeldOnce
  <1> USE CensusTypes DEF RequestInvariant
  <1>1. ASSUME NEW r \in Requests, Held(r)
        PROVE  \E p : Places(r) = {p}
    <2> DEFINE P == {<<"pending", i>> : i \in {j \in 1..Len(pending) : pending[j] = r}}
               A == {<<"active", i>> : i \in {j \in LiveRows : active[j].request = r}}
               N == {<<"next", i>> : i \in {j \in 1..Len(nextActive) :
                                              InRows /\ nextActive[j].request = r}}
               F == {<<"failing", i>> : i \in {j \in 1..Len(failing) : failing[j] = r}}
               S == {<<"subject", 1>> : i \in {j \in {1} : wpc \in AdmitPcs /\ subject = r}}
    <2>1. Places(r) = P \cup A \cup N \cup F \cup S
      BY DEF Places
    <2>2. /\ Surviving(r) <=> InRows /\ \E j \in 1..Len(nextActive) : nextActive[j].request = r
          /\ InRows => \A i, j \in 1..Len(nextActive) :
                         nextActive[i].request = nextActive[j].request => i = j
      BY HoldsRequests DEF Surviving, Distinct
    <2>3. /\ ~Waiting(r) => P = {}
          /\ ~Running(r) => A = {}
          /\ ~Surviving(r) => N = {}
          /\ ~Failing(r) => F = {}
          /\ ~Admitting(r) => S = {}
      BY <2>2 DEF Waiting, Running, Failing, Admitting, Holds
    <2>4. Waiting(r) => \E p : P = {p}
      <3> SUFFICES ASSUME Waiting(r) PROVE \E p : P = {p}
        OBVIOUS
      <3>1. PICK i \in 1..Len(pending) : pending[i] = r
        BY DEF Waiting, Holds
      <3>2. {j \in 1..Len(pending) : pending[j] = r} = {i}
        BY <3>1 DEF Distinct, OneEach
      <3>3. P = {<<"pending", i>>}
        BY <3>2
      <3> QED
        BY <3>3
    <2>5. Running(r) => \E p : A = {p}
      <3> SUFFICES ASSUME Running(r) PROVE \E p : A = {p}
        OBVIOUS
      <3>1. PICK i \in LiveRows : active[i].request = r
        BY DEF Running
      <3>2. {j \in LiveRows : active[j].request = r} = {i}
        BY <3>1 DEF Distinct
      <3>3. A = {<<"active", i>>}
        BY <3>2
      <3> QED
        BY <3>3
    <2>6. Surviving(r) => \E p : N = {p}
      <3> SUFFICES ASSUME Surviving(r) PROVE \E p : N = {p}
        OBVIOUS
      <3>1. PICK i \in 1..Len(nextActive) : nextActive[i].request = r
        BY <2>2
      <3>2. {j \in 1..Len(nextActive) : InRows /\ nextActive[j].request = r} = {i}
        BY <2>2, <3>1
      <3>3. N = {<<"next", i>>}
        BY <3>2
      <3> QED
        BY <3>3
    <2>7. Failing(r) => \E p : F = {p}
      <3> SUFFICES ASSUME Failing(r) PROVE \E p : F = {p}
        OBVIOUS
      <3>1. PICK i \in 1..Len(failing) : failing[i] = r
        BY DEF Failing, Holds
      <3>2. {j \in 1..Len(failing) : failing[j] = r} = {i}
        BY <3>1 DEF Distinct, OneEach
      <3>3. F = {<<"failing", i>>}
        BY <3>2
      <3> QED
        BY <3>3
    <2>8. Admitting(r) => \E p : S = {p}
      <3> SUFFICES ASSUME Admitting(r) PROVE \E p : S = {p}
        OBVIOUS
      <3>1. {j \in {1} : wpc \in AdmitPcs /\ subject = r} = {1}
        BY DEF Admitting
      <3>2. S = {<<"subject", 1>>}
        BY <3>1
      <3> QED
        BY <3>2
    <2> HIDE DEF P, A, N, F, S
    <2>9. /\ Waiting(r) => ~Admitting(r) /\ ~Running(r) /\ ~Surviving(r) /\ ~Failing(r)
          /\ Admitting(r) => ~Running(r) /\ ~Surviving(r) /\ ~Failing(r)
          /\ Running(r) => ~Surviving(r) /\ ~Failing(r)
          /\ Surviving(r) => ~Failing(r)
      BY DEF Exclusive
    <2> QED
      BY <1>1, <2>1, <2>3, <2>4, <2>5, <2>6, <2>7, <2>8, <2>9 DEF Held
  <1>2. ASSUME NEW r \in Requests, ~Held(r)
        PROVE  Places(r) = {}
    <2>1. /\ ~Waiting(r) /\ ~Admitting(r) /\ ~Running(r) /\ ~Failing(r)
          /\ \A j \in 1..Len(nextActive) : ~(InRows /\ nextActive[j].request = r)
      BY <1>2, HoldsRequests DEF Held, Surviving
    <2> QED
      BY <2>1 DEF Places, Waiting, Running, Failing, Admitting, Holds
  <1>3. ASSUME NEW r \in Requests
        PROVE  Cardinality(Places(r)) = IF Unsettled(r) THEN 1 ELSE 0
    <2>1. Held(r) <=> Unsettled(r)
      BY DEF Accounted
    <2>2. CASE Unsettled(r)
      <3>1. PICK p : Places(r) = {p}
        BY <1>1, <2>1, <2>2
      <3>2. Cardinality({p}) = 1
        BY FS_Singleton
      <3> QED
        BY <2>2, <3>1, <3>2
    <2>3. CASE ~Unsettled(r)
      <3>1. Places(r) = {}
        BY <1>2, <2>1, <2>3
      <3>2. Cardinality({}) = 0
        BY FS_EmptySet
      <3> QED
        BY <2>3, <3>1, <3>2
    <2> QED
      BY <2>2, <2>3
  <1> QED
    BY <1>3 DEF HeldOnce, Unsettled

\* Whichever handler an exception goes through, a submitted request is in exactly
\* one place from which fail() or finish() will settle it, and then in none.
THEOREM RequestsHeldOnce == Spec => []HeldOnce
  <1>1. BatchInvariant /\ RequestInvariant => HeldOnce
    BY PlacesCounted
  <1> QED
    BY <1>1, RequestInvariantHolds, PTL

\* After a token callback has thrown, publish() is called at most once more for
\* its request.
THEOREM CancelHolds == Spec => []CancelAtNextToken
  <1>1. Spec => []BatchInvariant
    BY BatchInvariantHolds
  <1>2. BatchInvariant /\ CancelInvariant /\ [Next]_vars => CancelInvariant'
    BY CancelStep
  <1>3. CancelInvariant => CancelAtNextToken
    BY DEF CancelInvariant, CancelAtNextToken
  <1> QED
    BY <1>1, <1>2, <1>3, CancelInit, PTL DEF Spec

=============================================================================
