---------------------------- MODULE BatcherProofs ----------------------------
(***************************************************************************)
(* Proofs about Batcher, for any sets of requests and any limits.          *)
(*                                                                         *)
(* BatchInvariant is inductive.  The client threads and the notifications  *)
(* only touch what it does not mention, or only move the worker between    *)
(* "asleep" and "wait"; the worker's steps are taken one by one.           *)
(***************************************************************************)
EXTENDS Batcher, TLAPS

USE DEF AdmitPcs, RowPcs, FailPcs, WorkerPcs, ResumePcs, ClientPcs

\* The two outcomes without a text are outcomes.
LEMMA OutcomeType ==
    /\ Unset \in Outcome /\ Exception \in Outcome
    /\ \A text \in Seq(Token), reason \in Reasons : Value(text, reason) \in Outcome
  BY DEF Outcome, Value

\* Short sequences, and what is left of a sequence.
LEMMA QueueType ==
  ASSUME NEW S, NEW queue \in Seq(S), NEW x \in S
  PROVE  /\ <<>> \in Seq(S) /\ <<x>> \in Seq(S)
         /\ queue # <<>> => Head(queue) \in S /\ Tail(queue) \in Seq(S)
  OBVIOUS

\* The batch is empty at first, and nothing has been generated.
LEMMA InitInvariant == Init => BatchInvariant
  <1> SUFFICES ASSUME Init PROVE BatchInvariant
    OBVIOUS
  <1> USE DEF Init
  <1>1. TypeOK
    <2>1. SharedTypeOK
      <3>1. promise \in [Requests -> Outcome]
        BY OutcomeType
      <3>2. /\ streamFinished \in [Requests -> BOOLEAN]
            /\ callbackFailed \in [Requests -> BOOLEAN]
        OBVIOUS
      <3>3. pending \in Seq(Requests) /\ streamPieces \in [Requests -> Seq(Token)]
        OBVIOUS
      <3> QED
        BY <3>1, <3>2, <3>3 DEF SharedTypeOK
    <2>2. BatchTypeOK /\ NextTypeOK
      BY DEF BatchTypeOK, NextTypeOK
    <2>3. WorkTypeOK
      BY DEF WorkTypeOK
    <2>4. ClientTypeOK
      BY DEF ClientTypeOK
    <2> QED
      BY <2>1, <2>2, <2>3, <2>4 DEF TypeOK
  <1>2. Bounds
    BY DEF Bounds
  <1>3. BatchInSync
    BY DEF BatchInSync, LiveRows, InRows
  <1>4. NextInSync
    BY DEF NextInSync, InRows
  <1>5. OutputsOwn
    BY DEF OutputsOwn, LiveRows, InRows
  <1>6. ResultIsOwn
    BY DEF ResultIsOwn, Unset
  <1> QED
    BY <1>1, <1>2, <1>3, <1>4, <1>5, <1>6 DEF BatchInvariant

\* Sampling, feeding and collecting make data of the right types.
LEMMA RowType ==
  ASSUME NEW row \in Row, NEW token \in Token
  PROVE  SampledFrom(row) \in Token /\ Fed(row, token) \in Row
  <1>1. row.owner \in Requests /\ row.fed \in Seq(Token)
    BY DEF Row
  <1>2. Len(row.fed) \in Nat
    BY <1>1
  <1>3. SampledFrom(row) \in Token
    BY <1>1, <1>2 DEF Token, SampledFrom
  <1>4. Append(row.fed, token) \in Seq(Token)
    BY <1>1
  <1>5. Fed(row, token) \in Row
    BY <1>1, <1>4 DEF Row, Fed
  <1> QED
    BY <1>3, <1>5

\* An entry with a longer output is still an entry.
LEMMA EntryType ==
  ASSUME NEW entry \in Entry
  PROVE  /\ entry.request \in Requests
         /\ entry.output \in Seq(Token) /\ Len(entry.output) \in Nat
         /\ entry.limit \in 1..MaxTokens /\ entry.limit \in Nat
  <1>1. /\ entry.request \in Requests /\ entry.output \in Seq(Token)
        /\ entry.limit \in 1..MaxTokens
    BY DEF Entry
  <1> QED
    BY <1>1, BatcherAssumption

\* The requests of a sequence of entries are a sequence of requests.
LEMMA RequestsOfType ==
  ASSUME NEW entries \in Seq(Entry)
  PROVE  RequestsOf(entries) \in Seq(Requests)
  <1>1. \A i \in 1..Len(entries) : entries[i] \in Entry
    OBVIOUS
  <1>2. \A i \in 1..Len(entries) : entries[i].request \in Requests
    BY <1>1 DEF Entry
  <1>3. Len(entries) \in Nat
    OBVIOUS
  <1> QED
    BY <1>2, <1>3 DEF RequestsOf

-----------------------------------------------------------------------------
(***************************************************************************)
(* The steps of the clients, the destructor and the scheduler.             *)
(***************************************************************************)

\* Everything the worker owns stays, except that it may be woken.
Woken ==
    /\ UNCHANGED <<batchVars, nextVars, workVars, promise>>
    /\ \/ wpc' = wpc
       \/ wpc = "asleep" /\ wpc' = "wait"

\* A notification, which only moves a sleeping thread, preserves the invariant.
LEMMA WokenInvariant ==
  ASSUME BatchInvariant, Woken, SharedTypeOK', ClientTypeOK'
  PROVE  BatchInvariant'
  <1> USE DEF Woken, workerVars, batchVars, nextVars, workVars, BatchInvariant
  <1>1. TypeOK'
    BY DEF TypeOK, BatchTypeOK, NextTypeOK, WorkTypeOK
  <1>2. Bounds'
    BY DEF Bounds
  <1>3. InRows' = InRows /\ LiveRows' = LiveRows
    BY DEF InRows, LiveRows
  <1>4. \A i : Sampled(i)' = Sampled(i)
    BY <1>3 DEF Sampled
  <1>5. BatchInSync'
    BY <1>3, <1>4 DEF BatchInSync, OneBehind, UpToDate, SampledFrom
  <1>6. NextInSync'
    BY <1>3 DEF NextInSync, OneBehind
  <1>7. OutputsOwn'
    BY <1>3, <1>4 DEF OutputsOwn, OwnTokens
  <1>8. ResultIsOwn'
    BY DEF ResultIsOwn, OwnTokens
  <1> QED
    BY <1>1, <1>2, <1>5, <1>6, <1>7, <1>8

\* submit() preserves it: a client never touches the batch.
LEMMA ClientInvariant ==
  ASSUME BatchInvariant, NEW r \in Requests,
         SubmitInvalid(r) \/ Submit(r) \/ ClientStep(r)
  PROVE  BatchInvariant'
  <1> SharedTypeOK /\ ClientTypeOK
    BY DEF BatchInvariant, TypeOK
  <1> USE DEF SharedTypeOK, ClientTypeOK, sharedVars, requestVars, clientVars,
             localVars, workerVars, Woken
  <1>1. CASE SubmitInvalid(r)
    BY <1>1, WokenInvariant DEF SubmitInvalid
  <1>2. CASE Submit(r)
    BY <1>2, WokenInvariant DEF Submit
  <1>3. CASE NotifyWorker(r)
    BY <1>3, WokenInvariant DEF NotifyWorker, WakeWorker
  <1>4. CASE StreamWait(r)
    <2>1. SharedTypeOK' /\ ClientTypeOK'
      <3>1. CASE streamPieces[r] # <<>> \/ streamFinished[r]
        <4>0. /\ streamPieces' = [streamPieces EXCEPT ![r] = <<>>]
              /\ pieces' = [pieces EXCEPT ![r] = streamPieces[r]]
              /\ cpc' = [cpc EXCEPT ![r] = "deliver"]
          BY <1>4, <3>1, Zenon DEF StreamWait
        <4>1. /\ streamPieces' \in [Requests -> Seq(Token)]
              /\ pieces' \in [Requests -> Seq(Token)]
              /\ cpc' \in [Requests -> ClientPcs]
          BY <4>0
        <4>2. finished' \in [Requests -> BOOLEAN]
          BY <1>4, <3>1 DEF StreamWait
        <4> QED
          BY <1>4, <4>1, <4>2 DEF StreamWait
      <3>2. CASE ~(streamPieces[r] # <<>> \/ streamFinished[r])
        BY <1>4, <3>2 DEF StreamWait
      <3> QED
        BY <3>1, <3>2
    <2>2. Woken
      BY <1>4 DEF StreamWait
    <2> QED
      BY <2>1, <2>2, WokenInvariant
  <1>5. CASE Deliver(r)
    BY <1>5, WokenInvariant DEF Deliver
  <1>6. CASE CallbackThrows(r)
    BY <1>6, WokenInvariant DEF CallbackThrows
  <1>7. CASE Delivered(r)
    BY <1>7, WokenInvariant DEF Delivered
  <1>8. CASE GetResult(r)
    BY <1>8, WokenInvariant DEF GetResult
  <1> QED
    BY <1>1, <1>2, <1>3, <1>4, <1>5, <1>6, <1>7, <1>8 DEF ClientStep

\* So does the destructor.
LEMMA StopInvariant ==
  ASSUME BatchInvariant, Stop \/ SpuriousWakeup
  PROVE  BatchInvariant'
  BY WokenInvariant
  DEF BatchInvariant, TypeOK, SharedTypeOK, ClientTypeOK, sharedVars,
      clientVars, localVars, requestVars,
      Woken, Stop, SpuriousWakeup, WakeWorker

-----------------------------------------------------------------------------
(***************************************************************************)
(* The steps of the worker.                                                *)
(***************************************************************************)

\* A worker step that leaves the batch as it is, and stays inside or outside the
\* row loop.
LEMMA QuietInvariant ==
  ASSUME BatchInvariant, TypeOK', Bounds', ResultIsOwn',
         UNCHANGED <<batchVars, nextVars, index>>,
         wpc # "decode", wpc' # "decode",
         InRows' = InRows,
         \A i : Sampled(i)' = Sampled(i)
  PROVE  BatchInvariant'
  <1> USE DEF batchVars, nextVars, BatchInvariant
  <1>1. LiveRows' = LiveRows
    BY DEF LiveRows
  <1>2. BatchInSync'
    BY <1>1 DEF BatchInSync, OneBehind, UpToDate, SampledFrom
  <1>3. NextInSync'
    BY DEF NextInSync, OneBehind
  <1>4. OutputsOwn'
    BY <1>1 DEF OutputsOwn, OwnTokens
  <1> QED
    BY <1>2, <1>3, <1>4

\* A worker step that takes the row at `index` out of the iteration.
LEMMA RowLeavesInvariant ==
  ASSUME BatchInvariant, TypeOK', ResultIsOwn',
         UNCHANGED <<batchVars, nextVars>>, index' = index + 1,
         wpc \in RowPcs, wpc' \in FailPcs, resume' = "rows"
  PROVE  BatchInvariant'
  <1> USE DEF batchVars, nextVars, BatchInvariant
  <1>1. InRows /\ InRows'
    BY DEF InRows
  <1>2. index \in Nat
    BY DEF TypeOK, WorkTypeOK
  <1>3. \A i \in LiveRows' : i \in LiveRows /\ ~Sampled(i) /\ ~Sampled(i)'
    BY <1>1, <1>2 DEF LiveRows, Sampled
  <1>4. Bounds'
    BY DEF Bounds
  <1>5. BatchInSync'
    BY <1>3 DEF BatchInSync, OneBehind, UpToDate, SampledFrom
  <1>6. NextInSync'
    BY <1>1 DEF NextInSync, OneBehind
  <1>7. OutputsOwn'
    BY <1>1, <1>3 DEF OutputsOwn, OwnTokens
  <1> QED
    BY <1>4, <1>5, <1>6, <1>7

\* A worker step that empties the batch outside the row loop.
LEMMA EmptiedInvariant ==
  ASSUME BatchInvariant, WorkTypeOK', ClientTypeOK', SharedTypeOK',
         UNCHANGED <<nextVars, promise>>,
         active' = <<>>, states' = <<>>, scratches' = <<>>, logits' = <<>>,
         wpc' = "fail", resume' # "rows"
  PROVE  BatchInvariant'
  <1> USE DEF nextVars, BatchInvariant
  <1>1. TypeOK'
    BY DEF TypeOK, BatchTypeOK, NextTypeOK
  <1>2. ~InRows' /\ LiveRows' = {}
    BY DEF InRows, LiveRows
  <1>3. Bounds'
    BY DEF Bounds
  <1>4. BatchInSync'
    BY <1>2 DEF BatchInSync
  <1>5. NextInSync'
    BY <1>2 DEF NextInSync
  <1>6. OutputsOwn'
    BY <1>2 DEF OutputsOwn, OwnTokens
  <1>7. ResultIsOwn'
    BY DEF ResultIsOwn, OwnTokens
  <1> QED
    BY <1>1, <1>3, <1>4, <1>5, <1>6, <1>7

\* The steps that fail requests and complete their streams.
LEMMA FailInvariant ==
  ASSUME BatchInvariant, Fail \/ Complete \/ CompleteNotify \/ Drain
  PROVE  BatchInvariant'
  <1> USE DEF BatchInvariant, TypeOK, sharedVars, batchVars, nextVars, workVars,
              clientVars, localVars, requestVars
  <1>1. ASSUME Fail PROVE BatchInvariant'
    <2>1. CASE failing = <<>>
      <3>1. TypeOK'
        BY <1>1, <2>1 DEF Fail, SharedTypeOK, BatchTypeOK, NextTypeOK,
                    WorkTypeOK,
                          ClientTypeOK
      <3>2. Bounds'
        BY <1>1, <2>1 DEF Fail, Bounds, WorkTypeOK
      <3>3. ResultIsOwn'
        BY <1>1, <2>1 DEF Fail, ResultIsOwn, OwnTokens
      <3>4. InRows' = InRows /\ \A i : Sampled(i)' = Sampled(i)
        BY <1>1, <2>1 DEF Fail, InRows, Sampled, WorkTypeOK
      <3>5. wpc # "decode" /\ wpc' # "decode"
        BY <1>1, <2>1 DEF Fail, WorkTypeOK
      <3> QED
        BY <1>1, <3>1, <3>2, <3>3, <3>4, <3>5, QuietInvariant DEF Fail
    <2>2. CASE failing # <<>>
      <3>1. Head(failing) \in Requests /\ Tail(failing) \in Seq(Requests)
        BY <2>2 DEF WorkTypeOK
      <3>2. promise' = [promise EXCEPT ![Head(failing)] =
              IF promise[Head(failing)].kind = "unset" THEN Exception
              ELSE promise[Head(failing)]]
        BY <1>1, <2>2 DEF Fail
      <3>3. promise' \in [Requests -> Outcome]
        BY <3>1, <3>2, OutcomeType DEF SharedTypeOK
      <3>4. SharedTypeOK' /\ WorkTypeOK'
        BY <1>1, <2>2, <3>1, <3>3 DEF Fail, SharedTypeOK, WorkTypeOK
      <3>5. BatchTypeOK' /\ NextTypeOK' /\ ClientTypeOK'
        BY <1>1 DEF Fail, BatchTypeOK, NextTypeOK, ClientTypeOK
      <3>6. Bounds'
        BY <1>1, <2>2 DEF Fail, Bounds
      <3>7. ResultIsOwn'
        <4> SUFFICES ASSUME NEW r \in Requests, promise'[r].kind = "value"
                     PROVE  promise'[r] = promise[r]
          BY DEF ResultIsOwn, OwnTokens
        <4>1. promise \in [Requests -> Outcome]
          BY DEF SharedTypeOK
        <4> QED
          BY <3>1, <3>2, <4>1 DEF Exception
      <3>8. InRows' = InRows /\ \A i : Sampled(i)' = Sampled(i)
        BY <1>1, <2>2 DEF Fail, InRows, Sampled
      <3> QED
        BY <1>1, <2>2, <3>4, <3>5, <3>6, <3>7, <3>8, QuietInvariant DEF Fail
    <2> QED
      BY <2>1, <2>2
  <1>2. ASSUME Complete \/ CompleteNotify \/ Drain PROVE BatchInvariant'
    <2>1. SharedTypeOK'
      <3>1. streamFinished' \in [Requests -> BOOLEAN]
        BY <1>2 DEF Complete, CompleteNotify, Drain, SharedTypeOK, WorkTypeOK
      <3>2. pending' \in Seq(Requests)
        <4>1. CASE Drain
          <5>1. pending' = <<>>
            BY <4>1 DEF Drain
          <5> QED
            BY <5>1
        <4>2. CASE Complete \/ CompleteNotify
          BY <4>2 DEF Complete, CompleteNotify, SharedTypeOK
        <4> QED
          BY <1>2, <4>1, <4>2
      <3> QED
        BY <1>2, <3>1, <3>2 DEF Complete, CompleteNotify, Drain, SharedTypeOK
    <2>2. BatchTypeOK' /\ NextTypeOK'
      BY <1>2 DEF Complete, CompleteNotify, Drain, BatchTypeOK, NextTypeOK
    <2>3. WorkTypeOK'
      BY <1>2 DEF Complete, CompleteNotify, Drain, WorkTypeOK, SharedTypeOK
    <2>4. ClientTypeOK'
      <3>1. cpc' \in [Requests -> ClientPcs]
        BY <1>2 DEF Complete, CompleteNotify, Drain, ClientTypeOK, WakeClient,
                    WorkTypeOK
      <3> QED
        BY <1>2, <3>1 DEF Complete, CompleteNotify, Drain, ClientTypeOK
    <2>5. Bounds'
      BY <1>2 DEF Complete, CompleteNotify, Drain, Bounds
    <2>6. ResultIsOwn'
      BY <1>2 DEF Complete, CompleteNotify, Drain, ResultIsOwn, OwnTokens
    <2>7. InRows' = InRows /\ \A i : Sampled(i)' = Sampled(i)
      BY <1>2 DEF Complete, CompleteNotify, Drain, InRows, Sampled
    <2> QED
      BY <1>2, <2>1, <2>2, <2>3, <2>4, <2>5, <2>6, <2>7, QuietInvariant
      DEF Complete, CompleteNotify, Drain
  <1> QED
    BY <1>1, <1>2

\* The steps outside the row loop that leave the batch alone.
LEMMA WaitInvariant ==
  ASSUME BatchInvariant,
         \/ Start \/ Top \/ Wait \/ Window
         \/ AdmitPending \/ AdmitLoad \/ AdmitContinues \/ AdmitThrows
  PROVE  BatchInvariant'
  <1> USE DEF BatchInvariant, TypeOK, sharedVars, batchVars, nextVars, workVars,
              clientVars, localVars, requestVars
  <1>1. ASSUME Start \/ Top \/ Wait \/ Window PROVE BatchInvariant'
    <2> USE DEF Start, Top, Wait, Window
    <2>1. TypeOK'
      BY <1>1 DEF SharedTypeOK, BatchTypeOK, NextTypeOK, WorkTypeOK,
                  ClientTypeOK
    <2>2. Bounds'
      BY <1>1 DEF Bounds
    <2>3. ResultIsOwn'
      BY <1>1 DEF ResultIsOwn, OwnTokens
    <2>4. InRows' = InRows /\ \A i : Sampled(i)' = Sampled(i)
      BY <1>1 DEF InRows, Sampled
    <2> QED
      BY <1>1, <2>1, <2>2, <2>3, <2>4, QuietInvariant
  <1>2. ASSUME AdmitPending PROVE BatchInvariant'
    <2> USE DEF AdmitPending, TakePending
    <2>1. SharedTypeOK'
      <3>1. CASE pending = <<>>
        BY <1>2, <3>1 DEF SharedTypeOK
      <3>2. CASE pending # <<>>
        <4>1. Tail(pending) \in Seq(Requests)
          BY <3>2 DEF SharedTypeOK
        <4> QED
          BY <1>2, <3>2, <4>1 DEF SharedTypeOK
      <3> QED
        BY <3>1, <3>2
    <2>2. WorkTypeOK'
      BY <1>2, BatcherAssumption DEF SharedTypeOK, WorkTypeOK
    <2>3. BatchTypeOK' /\ NextTypeOK' /\ ClientTypeOK'
      BY <1>2 DEF BatchTypeOK, NextTypeOK, ClientTypeOK
    <2>4. Bounds'
      BY <1>2, BatcherAssumption DEF Bounds
    <2>5. ResultIsOwn'
      BY <1>2 DEF ResultIsOwn, OwnTokens
    <2>6. InRows' = InRows /\ \A i : Sampled(i)' = Sampled(i)
      BY <1>2 DEF InRows, Sampled
    <2> QED
      BY <1>2, <2>1, <2>2, <2>3, <2>4, <2>5, <2>6, QuietInvariant
  <1>3. ASSUME AdmitLoad \/ AdmitContinues \/ AdmitThrows PROVE BatchInvariant'
    <2> USE DEF AdmitLoad, AdmitContinues, AdmitThrows, Raise
    <2>1. SharedTypeOK' /\ BatchTypeOK' /\ NextTypeOK' /\ ClientTypeOK'
      BY <1>3 DEF SharedTypeOK, BatchTypeOK, NextTypeOK, ClientTypeOK
    <2>2. WorkTypeOK'
      <3>1. checksLeft' \in Nat
        BY <1>3 DEF WorkTypeOK, Bounds
      <3>2. failing' \in Seq(Requests) /\ resume' \in ResumePcs
        <4>1. failing' = failing \/ failing' = <<subject>>
          BY <1>3
        <4>2. resume' = resume \/ resume' = "admitted"
          BY <1>3
        <4> QED
          BY <4>1, <4>2, QueueType DEF WorkTypeOK
      <3> QED
        BY <1>3, <3>1, <3>2 DEF WorkTypeOK
    <2>3. Bounds'
      BY <1>3 DEF Bounds, WorkTypeOK
    <2>4. ResultIsOwn'
      BY <1>3 DEF ResultIsOwn, OwnTokens
    <2>5. InRows' = InRows /\ \A i : Sampled(i)' = Sampled(i)
      BY <1>3 DEF InRows, Sampled
    <2> QED
      BY <1>3, <2>1, <2>2, <2>3, <2>4, <2>5, QuietInvariant
  <1> QED
    BY <1>1, <1>2, <1>3

\* The steps that leave the loop for good, or lose the whole batch.
LEMMA LeaveInvariant ==
  ASSUME BatchInvariant,
         \/ StartThrows \/ Stopped \/ BeginRowsThrows \/ EndRowsThrows
         \/ DecodeThrows
  PROVE  BatchInvariant'
  <1> USE DEF BatchInvariant, TypeOK, sharedVars, nextVars, clientVars,
              localVars, requestVars,
              StartThrows, Stopped, BeginRowsThrows, EndRowsThrows, DecodeThrows,
              LeaveLoop
  <1>1. RequestsOf(active) \in Seq(Requests) /\ RequestsOf(nextActive) \in Seq(Requests)
    BY RequestsOfType DEF BatchTypeOK, NextTypeOK
  <1>2. SharedTypeOK' /\ ClientTypeOK'
    BY DEF SharedTypeOK, ClientTypeOK
  <1>3. WorkTypeOK'
    BY <1>1 DEF WorkTypeOK
  <1> QED
    BY <1>2, <1>3, EmptiedInvariant

\* The steps at a row that leave the batch alone.
LEMMA RowInvariant ==
  ASSUME BatchInvariant,
         \/ NextRow \/ RowContinues \/ SampleStop \/ Publish
         \/ RowLoad /\ ~callbackFailed[Current]
  PROVE  BatchInvariant'
  <1> USE DEF BatchInvariant, TypeOK, sharedVars, batchVars, nextVars, workVars,
              clientVars, localVars, requestVars, NextRow, RowContinues,
              SampleStop, Publish, RowLoad
  <1>1. WorkTypeOK'
    BY DEF WorkTypeOK
  <1>2. BatchTypeOK' /\ NextTypeOK'
    BY DEF BatchTypeOK, NextTypeOK
  <1>3. Bounds'
    BY DEF Bounds
  <1>4. ResultIsOwn'
    BY DEF ResultIsOwn, OwnTokens
  <1>5. InRows' = InRows /\ \A i : Sampled(i)' = Sampled(i)
    BY DEF InRows, Sampled
  <1>6. SharedTypeOK' /\ ClientTypeOK'
    <2>1. CASE Publish
      <3>1. index \in 1..Len(active)
        BY <2>1 DEF Bounds, WorkTypeOK
      <3>2. index \in LiveRows /\ Sampled(index)
        BY <2>1, <3>1 DEF LiveRows, Sampled, InRows
      <3>3. active[index] \in Entry /\ states[index] \in Row
        BY <3>1 DEF BatchTypeOK, BatchInSync
      <3>4. OneBehind(active[index], states[index], SampledFrom(states[index]))
        BY <2>1, <3>2 DEF BatchInSync
      <3>5. LastToken(active[index]) = SampledFrom(states[index])
        BY <3>3, <3>4, RowType DEF OneBehind, LastToken, Row
      <3>6. LastToken(active[index]) \in Token /\ Current \in Requests
        <4>1. \A t \in Token : SampledFrom(states[index]) \in Token
          BY <3>3, RowType
        <4>2. LastToken(active[index]) \in Token
          BY <3>3, <3>5, <4>1 DEF SampledFrom, Token, Row
        <4> QED
          BY <3>3, <4>2 DEF Current, Entry
      <3>7. streamPieces' \in [Requests -> Seq(Token)]
        BY <2>1, <3>6 DEF SharedTypeOK
      <3>8. late' \in [Requests -> Nat]
        BY <2>1, <3>6 DEF ClientTypeOK
      <3> QED
        BY <2>1, <3>7, <3>8 DEF SharedTypeOK, ClientTypeOK
    <2>2. CASE ~Publish
      BY <2>2 DEF SharedTypeOK, ClientTypeOK
    <2> QED
      BY <2>1, <2>2
  <1> QED
    BY <1>1, <1>2, <1>3, <1>4, <1>5, <1>6, QuietInvariant

\* The request of the row at hand, while there is one.
LEMMA CurrentType ==
  ASSUME BatchInvariant, wpc \in RowPcs \ {"rows"}
  PROVE  /\ index \in 1..Len(active) /\ index \in LiveRows /\ InRows
         /\ active[index] \in Entry /\ Current \in Requests
         /\ states[index] \in Row /\ scratches[index] \in Requests
         /\ logits[index] = states[index]
  <1> USE DEF BatchInvariant, TypeOK
  <1>1. index \in 1..Len(active)
    BY DEF Bounds, WorkTypeOK
  <1>2. index \in LiveRows /\ InRows
    BY <1>1 DEF LiveRows, InRows, WorkTypeOK
  <1>3. active[index] \in Entry
    BY <1>1 DEF BatchTypeOK
  <1>4. states[index] \in Row /\ scratches[index] \in Requests
    BY <1>1 DEF BatchTypeOK, BatchInSync
  <1>5. logits[index] = states[index]
    BY <1>2 DEF BatchInSync
  <1> QED
    BY <1>1, <1>2, <1>3, <1>4, <1>5 DEF Current, Entry

\* The steps that end the turn of a row whose request fails or finishes.
LEMMA RowEndsInvariant ==
  ASSUME BatchInvariant,
         \/ RowThrows \/ FinishThrows \/ Finish
         \/ RowLoad /\ callbackFailed[Current]
  PROVE  BatchInvariant'
  <1> USE DEF BatchInvariant, TypeOK, sharedVars, batchVars, nextVars, workVars,
              clientVars, localVars, requestVars, RowThrows, FinishThrows,
              Finish, RowLoad, RaiseRow, Raise
  <1>1. wpc \in RowPcs \ {"rows"}
    OBVIOUS
  <1>2. index \in LiveRows /\ active[index] \in Entry /\ Current \in Requests
    BY <1>1, CurrentType
  <1>3. <<Current>> \in Seq(Requests)
    BY <1>2
  <1>7. /\ UNCHANGED <<batchVars, nextVars>> /\ index' = index + 1
        /\ wpc' \in FailPcs /\ resume' = "rows"
    <2>1. CASE RowLoad /\ callbackFailed[Current]
      BY <2>1, Zenon
    <2>2. CASE RowThrows
      BY <2>2
    <2>3. CASE FinishThrows \/ Finish
      BY <2>3
    <2> QED
      BY <2>1, <2>2, <2>3
  <1>4. WorkTypeOK'
    <2>1. failing' = <<>> \/ failing' = <<Current>>
      OBVIOUS
    <2>2. failing' \in Seq(Requests)
      <3>1. <<>> \in Seq(Requests)
        OBVIOUS
      <3> QED
        BY <1>3, <2>1, <3>1, Zenon
    <2>3. subject' \in Requests /\ checksLeft' \in Nat
      BY <1>2 DEF WorkTypeOK
    <2> QED
      BY <1>7, <2>2, <2>3 DEF WorkTypeOK
  <1>5. BatchTypeOK' /\ NextTypeOK' /\ ClientTypeOK'
    BY DEF BatchTypeOK, NextTypeOK, ClientTypeOK
  <1>6. SharedTypeOK' /\ ResultIsOwn'
    <2>1. CASE Finish
      <3> DEFINE reason == IF wpc = "finish_stop" THEN "stop_token" ELSE
              "length"
                 output == active[index].output
      <3>1. output \in Seq(Token) /\ reason \in Reasons
        BY <1>2 DEF Entry, Reasons
      <3>2. Value(output, reason) \in Outcome
        BY <3>1, OutcomeType
      <3>3. promise' = [promise EXCEPT ![Current] = Value(output, reason)]
        BY <2>1
      <3>4. SharedTypeOK'
        BY <1>2, <2>1, <3>2, <3>3 DEF SharedTypeOK
      <3>5. OwnTokens(Current, output)
        BY <1>2 DEF OutputsOwn, LiveRows, Current
      <3>6. Len(output) <= MaxTokens
        <4>1. Len(output) < active[index].limit + 1
          BY <1>2, <2>1 DEF OutputsOwn, Sampled, Entry
        <4>2. active[index].limit \in 1..MaxTokens /\ Len(output) \in Nat
          BY <1>2 DEF Entry
        <4> QED
          BY <4>1, <4>2, BatcherAssumption
      <3>7. reason = "length" => output # <<>>
        <4> SUFFICES ASSUME wpc = "finish_length" PROVE output # <<>>
          BY <2>1
        <4>1. Sampled(index)
          BY DEF Sampled, InRows
        <4>2. OneBehind(active[index], states[index], SampledFrom(states[index]))
          BY <1>2, <4>1 DEF BatchInSync
        <4>3. states[index].fed \in Seq(Token)
          BY <1>1, CurrentType DEF Row
        <4> QED
          BY <4>2, <4>3 DEF OneBehind
      <3>8. ResultIsOwn'
        <4> SUFFICES ASSUME NEW r \in Requests, promise'[r].kind = "value"
                     PROVE  /\ Len(promise'[r].text) <= MaxTokens
                            /\ OwnTokens(r, promise'[r].text)
                            /\ promise'[r].reason = "length" => promise'[r].text # <<>>
          BY DEF ResultIsOwn, OwnTokens
        <4>1. CASE r = Current
          <5>1. promise'[r] = Value(output, reason)
            BY <3>3, <4>1, <1>2 DEF SharedTypeOK
          <5>2. promise'[r].text = output /\ promise'[r].reason = reason
            BY <5>1 DEF Value
          <5> QED
            BY <3>5, <3>6, <3>7, <4>1, <5>2
        <4>2. CASE r # Current
          BY <3>3, <4>2, <1>2 DEF SharedTypeOK, ResultIsOwn
        <4> QED
          BY <4>1, <4>2
      <3> QED
        BY <3>4, <3>8
    <2>2. CASE ~Finish
      BY <2>2 DEF SharedTypeOK, ResultIsOwn, OwnTokens
    <2> QED
      BY <2>1, <2>2
  <1>8. TypeOK'
    BY <1>4, <1>5, <1>6
  <1> QED
    BY <1>1, <1>6, <1>7, <1>8, RowLeavesInvariant

\* admit() seats the request in one more row of each array.
LEMMA SeatInvariant ==
  ASSUME BatchInvariant, Seat
  PROVE  BatchInvariant'
  <1> USE DEF BatchInvariant, TypeOK
  <1> DEFINE row == [owner |-> subject, fed |-> <<>>]
  <1> PICK n \in 1..MaxTokens : active' = Append(active,
                        [request |-> subject, output |-> <<>>, limit |-> n])
    BY DEF Seat, OutputLimits
  <1> DEFINE entry == [request |-> subject, output |-> <<>>, limit |-> n]
  <1>1. /\ states' = Append(states, row) /\ scratches' = Append(scratches, subject)
        /\ logits' = Append(logits, row) /\ active' = Append(active, entry)
        /\ wpc = "seat" /\ wpc' = "admitted"
        /\ UNCHANGED <<sharedVars, nextVars, workVars, clientVars>>
    BY DEF Seat, OutputLimits
  <1>2. entry \in Entry /\ row \in Row /\ subject \in Requests
    <2>1. <<>> \in Seq(Token)
      OBVIOUS
    <2> QED
      BY <2>1 DEF Entry, Row, WorkTypeOK
  <1>2a. /\ UpToDate(entry, row) /\ OwnTokens(entry.request, entry.output)
         /\ Len(entry.output) < entry.limit /\ subject = entry.request
    BY BatcherAssumption DEF UpToDate, OwnTokens
  <1> HIDE DEF entry, row
  <1>3. /\ active \in Seq(Entry) /\ states \in Seq(Row)
        /\ scratches \in Seq(Requests) /\ logits \in Seq(Row)
    BY DEF BatchTypeOK
  <1>4. BatchTypeOK'
    BY <1>1, <1>2, <1>3 DEF BatchTypeOK
  <1>5. SharedTypeOK' /\ NextTypeOK' /\ ClientTypeOK' /\ WorkTypeOK'
    BY <1>1 DEF SharedTypeOK, NextTypeOK, ClientTypeOK, WorkTypeOK, sharedVars,
                nextVars, workVars, clientVars, localVars, requestVars
  <1>6. Bounds'
    BY <1>1 DEF Bounds
  <1>7. ~InRows /\ ~InRows'
    BY <1>1 DEF InRows
  <1>8. LiveRows = 1..Len(active) /\ LiveRows' = 1..(Len(active) + 1)
    BY <1>1, <1>2, <1>3, <1>7 DEF LiveRows
  <1>9. /\ Len(states) = Len(active) /\ Len(scratches) = Len(active)
        /\ Len(logits) = Len(active)
    BY <1>1 DEF BatchInSync
  <1>10. ASSUME NEW i \in LiveRows'
         PROVE  /\ scratches'[i] = active'[i].request /\ logits'[i] = states'[i]
                /\ UpToDate(active'[i], states'[i])
                /\ OwnTokens(active'[i].request, active'[i].output)
                /\ Len(active'[i].output) < active'[i].limit
    <2>1. CASE i = Len(active) + 1
      <3>1. /\ active'[i] = entry /\ states'[i] = row /\ logits'[i] = row
            /\ scratches'[i] = subject
        BY <1>1, <1>2, <1>3, <1>9, <2>1
      <3> QED
        BY <3>1, <1>2a
    <2>2. CASE i \in 1..Len(active)
      <3>1. /\ active'[i] = active[i] /\ states'[i] = states[i]
            /\ logits'[i] = logits[i] /\ scratches'[i] = scratches[i]
        BY <1>1, <1>2, <1>3, <1>9, <2>2
      <3>2. i \in LiveRows /\ ~Sampled(i) /\ wpc # "decode"
        BY <1>1, <1>7, <1>8, <2>2 DEF Sampled
      <3>3. /\ scratches[i] = active[i].request /\ logits[i] = states[i]
            /\ UpToDate(active[i], states[i])
        BY <3>2 DEF BatchInSync
      <3>4. active[i].limit \in Nat
        <4>1. active[i] \in Entry
          BY <1>3, <2>2
        <4> QED
          BY <4>1, EntryType
      <3>5. /\ OwnTokens(active[i].request, active[i].output)
            /\ Len(active[i].output) < active[i].limit
        BY <2>2, <3>2, <3>4 DEF OutputsOwn
      <3> QED
        BY <3>1, <3>3, <3>5 DEF UpToDate
    <2> QED
      BY <1>3, <1>8, <2>1, <2>2
  <1>11. \A i : ~Sampled(i)'
    BY <1>7 DEF Sampled
  <1>12. BatchInSync'
    <2>1. /\ Len(states') = Len(active') /\ Len(scratches') = Len(active')
          /\ Len(logits') = Len(active')
      BY <1>1, <1>2, <1>3, <1>9
    <2> QED
      BY <1>1, <1>10, <1>11, <2>1 DEF BatchInSync, UpToDate
  <1>13. NextInSync'
    BY <1>7 DEF NextInSync
  <1>14. OutputsOwn'
    <2>1. 1..Len(active') = LiveRows'
      BY <1>7 DEF LiveRows
    <2>2. nextActive' = nextActive
      BY <1>1 DEF nextVars
    <2>3. \A i \in LiveRows' : active'[i].limit \in Nat
      <3>1. \A i \in LiveRows' : active'[i] \in Entry
        BY <1>4, <2>1 DEF BatchTypeOK
      <3> QED
        BY <3>1, EntryType
    <2> QED
      BY <1>7, <1>10, <1>11, <2>1, <2>2, <2>3 DEF OutputsOwn, OwnTokens
  <1>15. ResultIsOwn'
    BY <1>1 DEF ResultIsOwn, OwnTokens, sharedVars, requestVars
  <1> QED
    BY <1>4, <1>5, <1>6, <1>12, <1>13, <1>14, <1>15

\* The iteration begins with no survivors, at the first row.
LEMMA BeginRowsInvariant ==
  ASSUME BatchInvariant, BeginRows
  PROVE  BatchInvariant'
  <1> USE DEF BatchInvariant, TypeOK, BeginRows, sharedVars, batchVars,
              nextVars,
              clientVars, localVars, requestVars
  <1>1. SharedTypeOK' /\ BatchTypeOK' /\ ClientTypeOK' /\ WorkTypeOK'
    <2>1. index' \in Nat \ {0}
      BY DEF WorkTypeOK
    <2> QED
      BY <2>1 DEF SharedTypeOK, BatchTypeOK, ClientTypeOK, WorkTypeOK
  <1>2. NextTypeOK'
    <2>1. CASE active = <<>>
      BY <2>1 DEF NextTypeOK
    <2>2. CASE active # <<>>
      BY <2>2 DEF NextTypeOK
    <2> QED
      BY <2>1, <2>2
  <1>3. Bounds'
    BY DEF Bounds
  <1>4. ~InRows /\ LiveRows' = LiveRows
    <2>1. ~InRows
      BY DEF InRows
    <2>2. LiveRows = 1..Len(active)
      BY <2>1 DEF LiveRows
    <2>3. CASE active = <<>>
      BY <2>1, <2>2, <2>3 DEF LiveRows, InRows
    <2>4. CASE active # <<>>
      BY <2>1, <2>2, <2>4 DEF LiveRows, InRows
    <2> QED
      BY <2>1, <2>3, <2>4
  <1>5. \A i : ~Sampled(i) /\ ~Sampled(i)'
    BY DEF Sampled, InRows
  <1>6. BatchInSync'
    BY <1>4, <1>5 DEF BatchInSync, UpToDate
  <1>7. NextInSync'
    BY DEF NextInSync, InRows
  <1>8. OutputsOwn'
    BY <1>4, <1>5 DEF OutputsOwn, OwnTokens, InRows
  <1>9. ResultIsOwn'
    BY DEF ResultIsOwn, OwnTokens
  <1> QED
    BY <1>1, <1>2, <1>3, <1>6, <1>7, <1>8, <1>9

\* The next token of a request's own output is its own.
LEMMA AppendOwn ==
  ASSUME NEW r \in Requests, NEW output \in Seq(Token), OwnTokens(r, output)
  PROVE  OwnTokens(r, Append(output, [owner |-> r, at |-> Len(output)]))
  BY DEF OwnTokens

\* A token sampled from row `index` of the logits is the next one of its request.
LEMMA SampleTokenInvariant ==
  ASSUME BatchInvariant, SampleToken
  PROVE  BatchInvariant'
  <1> USE DEF BatchInvariant, TypeOK
  <1> DEFINE token == SampledFrom(states[index])
             entry == active[index]
  <1>1. /\ wpc = "sample" /\ wpc' \in {"publish", "limit"}
        /\ UNCHANGED <<states, scratches, logits, nextVars, index, resume>>
        /\ UNCHANGED <<sharedVars, clientVars, subject, checksLeft, failing>>
    BY DEF SampleToken, RowLogits, workVars
  <1>2. /\ index \in 1..Len(active) /\ index \in LiveRows /\ InRows
        /\ entry \in Entry /\ states[index] \in Row /\ logits[index] = states[index]
    BY <1>1, CurrentType
  <1>3. UpToDate(entry, states[index])
    BY <1>1, <1>2 DEF BatchInSync, Sampled
  <1>4. token \in Token
    <2>1. \A t \in Token : SampledFrom(states[index]) \in Token
      BY <1>2, RowType
    <2> QED
      BY <1>2 DEF SampledFrom, Token, Row
  <1>5. token = [owner |-> entry.request, at |-> Len(entry.output)]
    BY <1>3 DEF UpToDate, SampledFrom
  <1> DEFINE grown == [entry EXCEPT !.output = Append(entry.output, token)]
  <1>6. active' = [active EXCEPT ![index] = grown]
    BY <1>2 DEF SampleToken, RowLogits
  <1>7. /\ grown \in Entry /\ grown.request = entry.request
        /\ grown.limit = entry.limit /\ grown.output = Append(entry.output, token)
    <2>1. Append(entry.output, token) \in Seq(Token)
      BY <1>2, <1>4, EntryType
    <2> QED
      BY <1>2, <2>1 DEF Entry
  <1>8. OneBehind(grown, states[index], token)
    BY <1>3, <1>7 DEF OneBehind, UpToDate
  <1>9. OwnTokens(grown.request, grown.output)
    <2>1. OwnTokens(entry.request, entry.output)
      BY <1>2 DEF OutputsOwn
    <2> QED
      BY <1>2, <1>5, <1>7, <2>1, EntryType, AppendOwn
  <1>10. Len(grown.output) < grown.limit + 1
    <2>1. Len(entry.output) < entry.limit
      BY <1>1, <1>2, EntryType DEF OutputsOwn, Sampled
    <2> QED
      BY <1>2, <1>4, <1>7, <2>1, EntryType
  <1> HIDE DEF grown
  <1>11. active \in Seq(Entry)
    BY DEF BatchTypeOK
  <1>12. /\ active' \in Seq(Entry) /\ Len(active') = Len(active)
         /\ active'[index] = grown
         /\ \A i \in 1..Len(active) : i # index => active'[i] = active[i]
    BY <1>2, <1>6, <1>7, <1>11
  <1>13. TypeOK'
    BY <1>1, <1>12 DEF SharedTypeOK, BatchTypeOK, NextTypeOK, WorkTypeOK,
       ClientTypeOK, sharedVars, nextVars, clientVars, localVars, requestVars
  <1>14. Bounds'
    BY <1>1, <1>2, <1>12 DEF Bounds
  <1>15. InRows' /\ LiveRows' = LiveRows
    BY <1>1, <1>2, <1>12 DEF InRows, LiveRows
  <1>16. \A i : Sampled(i)' <=> i = index
    BY <1>1, <1>15 DEF Sampled
  <1>17. \A i : ~Sampled(i)
    BY <1>1 DEF Sampled
  <1>18. BatchInSync'
    <2>1. \A i \in LiveRows' :
            /\ scratches'[i] = active'[i].request /\ logits'[i] = states'[i]
            /\ i = index =>
                 OneBehind(active'[i], states'[i], SampledFrom(states'[i]))
            /\ i # index => UpToDate(active'[i], states'[i])
      <3> SUFFICES ASSUME NEW i \in LiveRows
                   PROVE  /\ scratches[i] = active'[i].request
                          /\ logits[i] = states[i]
                          /\ i = index =>
                               OneBehind(active'[i], states[i], SampledFrom(states[i]))
                          /\ i # index => UpToDate(active'[i], states[i])
        BY <1>1, <1>15 DEF OneBehind, UpToDate, SampledFrom
      <3>1. i \in 1..Len(active)
        BY DEF LiveRows
      <3>2. /\ scratches[i] = active[i].request /\ logits[i] = states[i]
            /\ UpToDate(active[i], states[i])
        BY <1>1, <1>17 DEF BatchInSync
      <3> QED
        BY <1>7, <1>8, <1>12, <3>1, <3>2
    <2> QED
      BY <1>1, <1>12, <1>15, <1>16, <2>1 DEF BatchInSync, OneBehind, UpToDate,
         SampledFrom
  <1>19. NextInSync'
    BY <1>1, <1>2, <1>15 DEF NextInSync, OneBehind, nextVars
  <1>20. OutputsOwn'
    <2>1. \A i \in 1..Len(active') : OwnTokens(active'[i].request, active'[i].output)
      BY <1>9, <1>12 DEF OutputsOwn
    <2>2. nextActive' = nextActive
      BY <1>1 DEF nextVars
    <2>3. \A i \in LiveRows' : i # index => Len(active'[i].output) < active'[i].limit
      <3> SUFFICES ASSUME NEW i \in LiveRows, i # index
                   PROVE  Len(active'[i].output) < active'[i].limit
        BY <1>15
      <3>1. i \in 1..Len(active) /\ active[i] \in Entry
        BY <1>11 DEF LiveRows
      <3>2. Len(active[i].output) < active[i].limit
        BY <1>17, <3>1, EntryType DEF OutputsOwn
      <3> QED
        BY <1>12, <3>1, <3>2
    <2>4. \A i \in LiveRows' : active'[i].limit \in Nat
      <3>1. \A i \in LiveRows' : active'[i] \in Entry
        BY <1>12 DEF LiveRows
      <3> QED
        BY <3>1, EntryType
    <2>5. \A i \in LiveRows' :
            Len(active'[i].output) < active'[i].limit + (IF i = index THEN 1 ELSE 0)
      BY <1>10, <1>12, <2>3, <2>4
    <2> QED
      BY <1>2, <1>15, <1>16, <2>1, <2>2, <2>5 DEF OutputsOwn, OwnTokens
  <1>21. ResultIsOwn'
    BY <1>1 DEF ResultIsOwn, OwnTokens, sharedVars, requestVars
  <1> QED
    BY <1>13, <1>14, <1>18, <1>19, <1>20, <1>21

\* What CurrentType says of a row that has been sampled.
LEMMA SampledRow ==
  ASSUME BatchInvariant, wpc \in {"publish", "limit", "finish_length"}
  PROVE  /\ OneBehind(active[index], states[index], LastToken(active[index]))
         /\ LastToken(active[index]) \in Token
         /\ scratches[index] = Current
         /\ OwnTokens(Current, active[index].output)
         /\ Len(active[index].output) < active[index].limit + 1
  <1> USE DEF BatchInvariant, TypeOK
  <1> DEFINE token == SampledFrom(states[index])
  <1>1. /\ index \in 1..Len(active) /\ index \in LiveRows /\ InRows
        /\ active[index] \in Entry /\ states[index] \in Row
    BY CurrentType
  <1>2. Sampled(index)
    BY <1>1 DEF Sampled
  <1>3. OneBehind(active[index], states[index], token)
    BY <1>1, <1>2 DEF BatchInSync
  <1>4. states[index].fed \in Seq(Token) /\ states[index].owner \in Requests
    BY <1>1 DEF Row
  <1>5. token \in Token
    <2>1. Len(states[index].fed) \in Nat
      BY <1>4
    <2> QED
      BY <1>4, <2>1 DEF SampledFrom, Token
  <1>6. LastToken(active[index]) = token
    BY <1>3, <1>4, <1>5 DEF OneBehind, LastToken
  <1>7. scratches[index] = Current /\ OwnTokens(Current, active[index].output)
    BY <1>1 DEF BatchInSync, OutputsOwn, Current
  <1>8. Len(active[index].output) < active[index].limit + 1
    BY <1>1, <1>2 DEF OutputsOwn
  <1> QED
    BY <1>3, <1>5, <1>6, <1>7, <1>8

\* A row that has not reached its limit joins the survivors.
LEMMA LimitInvariant ==
  ASSUME BatchInvariant, Limit
  PROVE  BatchInvariant'
  <1> USE DEF BatchInvariant, TypeOK
  <1> DEFINE entry == active[index]
             token == LastToken(active[index])
  <1>1. /\ wpc = "limit"
        /\ UNCHANGED <<sharedVars, batchVars, subject, checksLeft, failing, resume>>
        /\ UNCHANGED <<localVars, late>>
    BY DEF Limit, KeepRow
  <1>2. /\ index \in 1..Len(active) /\ index \in LiveRows /\ InRows
        /\ entry \in Entry /\ states[index] \in Row /\ scratches[index] \in Requests
    BY <1>1, CurrentType
  <1>3. /\ OneBehind(entry, states[index], token) /\ token \in Token
        /\ scratches[index] = entry.request
        /\ OwnTokens(entry.request, entry.output)
        /\ Len(entry.output) < entry.limit + 1
    BY <1>1, SampledRow DEF Current
  <1>4. ClientTypeOK'
    <2>1. cpc' \in [Requests -> ClientPcs]
      BY DEF Limit, WakeClient, ClientTypeOK
    <2> QED
      BY <1>1, <2>1 DEF ClientTypeOK, clientVars, localVars, requestVars
  <1>5. SharedTypeOK' /\ BatchTypeOK'
    BY <1>1 DEF SharedTypeOK, BatchTypeOK, sharedVars, requestVars, batchVars
  <1>6. ResultIsOwn'
    BY <1>1 DEF ResultIsOwn, OwnTokens, sharedVars, requestVars
  <1>7. CASE Len(entry.output) = entry.limit
    <2>1. wpc' = "finish_length" /\ UNCHANGED <<nextVars, index>>
      BY <1>7 DEF Limit, KeepRow
    <2>2. NextTypeOK' /\ WorkTypeOK'
      BY <1>1, <2>1 DEF NextTypeOK, WorkTypeOK, nextVars
    <2>3. Bounds'
      BY <1>1, <1>2, <2>1 DEF Bounds, batchVars
    <2>4. InRows' = InRows /\ \A i : Sampled(i)' = Sampled(i)
      BY <1>1, <1>2, <2>1 DEF InRows, Sampled
    <2> QED
      BY <1>1, <1>4, <1>5, <1>6, <2>1, <2>2, <2>3, <2>4, QuietInvariant
  <1>8. CASE Len(entry.output) # entry.limit
    <2>1. /\ nextTokens' = Append(nextTokens, token)
          /\ nextActive' = Append(nextActive, entry)
          /\ nextStates' = Append(nextStates, states[index])
          /\ nextScratches' = Append(nextScratches, scratches[index])
          /\ index' = index + 1 /\ wpc' = "rows"
      BY <1>8 DEF Limit, KeepRow
    <2>2. /\ nextActive \in Seq(Entry) /\ nextStates \in Seq(Row)
          /\ nextScratches \in Seq(Requests) /\ nextTokens \in Seq(Token)
      BY DEF NextTypeOK
    <2>3. NextTypeOK'
      BY <1>2, <1>3, <2>1, <2>2 DEF NextTypeOK
    <2>4. WorkTypeOK'
      BY <1>1, <2>1 DEF WorkTypeOK
    <2>5. Bounds'
      BY <2>1 DEF Bounds
    <2>6. InRows' /\ \A i \in LiveRows' : i \in LiveRows /\ i # index
      BY <1>1, <1>2, <2>1 DEF InRows, LiveRows, batchVars, WorkTypeOK
    <2>7. \A i \in LiveRows' : ~Sampled(i) /\ ~Sampled(i)'
      BY <2>1, <2>6 DEF Sampled
    <2>8. BatchInSync'
      BY <1>1, <2>1, <2>6, <2>7 DEF BatchInSync, UpToDate, batchVars
    <2>9. Len(entry.output) < entry.limit
      BY <1>2, <1>3, <1>8, EntryType
    <2>10. /\ Len(nextStates) = Len(nextActive) /\ Len(nextScratches) = Len(nextActive)
           /\ Len(nextTokens) = Len(nextActive)
      BY <1>2 DEF NextInSync
    <2>11. \A j \in 1..Len(nextActive') :
             /\ nextScratches'[j] = nextActive'[j].request
             /\ OneBehind(nextActive'[j], nextStates'[j], nextTokens'[j])
             /\ OwnTokens(nextActive'[j].request, nextActive'[j].output)
             /\ Len(nextActive'[j].output) < nextActive'[j].limit
      <3> SUFFICES ASSUME NEW j \in 1..Len(nextActive')
                   PROVE /\ nextScratches'[j] = nextActive'[j].request
                         /\ OneBehind(nextActive'[j], nextStates'[j], nextTokens'[j])
                         /\ OwnTokens(nextActive'[j].request, nextActive'[j].output)
                         /\ Len(nextActive'[j].output) < nextActive'[j].limit
        OBVIOUS
      <3>1. CASE j = Len(nextActive) + 1
        <4>1. /\ nextActive'[j] = entry /\ nextStates'[j] = states[index]
              /\ nextScratches'[j] = scratches[index] /\ nextTokens'[j] = token
          BY <1>2, <1>3, <2>1, <2>2, <2>10, <3>1
        <4> QED
          BY <1>3, <2>9, <4>1
      <3>2. CASE j \in 1..Len(nextActive)
        <4>1. /\ nextActive'[j] = nextActive[j] /\ nextStates'[j] = nextStates[j]
              /\ nextScratches'[j] = nextScratches[j]
              /\ nextTokens'[j] = nextTokens[j]
          BY <1>2, <1>3, <2>1, <2>2, <2>10, <3>2
        <4>2. /\ nextScratches[j] = nextActive[j].request
              /\ OneBehind(nextActive[j], nextStates[j], nextTokens[j])
          BY <1>2, <3>2 DEF NextInSync
        <4>3. /\ OwnTokens(nextActive[j].request, nextActive[j].output)
              /\ Len(nextActive[j].output) < nextActive[j].limit
          BY <1>2, <3>2 DEF OutputsOwn
        <4> QED
          BY <4>1, <4>2, <4>3
      <3>3. Len(nextActive') = Len(nextActive) + 1 /\ Len(nextActive) \in Nat
        BY <1>2, <2>1, <2>2
      <3> QED
        BY <3>1, <3>2, <3>3
    <2>12. NextInSync'
      <3>1. /\ Len(nextStates') = Len(nextActive')
            /\ Len(nextScratches') = Len(nextActive')
            /\ Len(nextTokens') = Len(nextActive')
        BY <1>2, <1>3, <2>1, <2>2, <2>10
      <3> QED
        BY <2>11, <3>1 DEF NextInSync, OneBehind
    <2>13. OutputsOwn'
      <3>1. \A i \in LiveRows' : active[i] \in Entry
        BY <2>6 DEF LiveRows, BatchTypeOK
      <3>2. \A i \in LiveRows' : Len(active[i].output) < active[i].limit + 0
        BY <2>6, <2>7 DEF OutputsOwn
      <3> QED
        BY <1>1, <2>6, <2>7, <2>11, <3>2 DEF OutputsOwn, OwnTokens, batchVars
    <2> QED
      BY <1>4, <1>5, <1>6, <2>3, <2>4, <2>5, <2>8, <2>12, <2>13
  <1> QED
    BY <1>7, <1>8

\* The survivors become the batch.
LEMMA EndRowsInvariant ==
  ASSUME BatchInvariant, EndRows
  PROVE  BatchInvariant'
  <1> USE DEF BatchInvariant, TypeOK
  <1>1. /\ wpc = "rows" /\ active' = nextActive /\ states' = nextStates
        /\ scratches' = nextScratches /\ logits' = <<>>
        /\ wpc' = IF nextActive = <<>> THEN "top" ELSE "decode"
        /\ UNCHANGED <<sharedVars, nextVars, workVars, clientVars>>
    BY DEF EndRows
  <1>2. TypeOK'
    BY <1>1 DEF SharedTypeOK, BatchTypeOK, NextTypeOK, WorkTypeOK, ClientTypeOK,
       sharedVars, nextVars, workVars, clientVars, localVars, requestVars
  <1>3. Bounds'
    BY <1>1 DEF Bounds
  <1>4. InRows /\ ~InRows' /\ LiveRows' = 1..Len(nextActive)
    BY <1>1 DEF InRows, LiveRows
  <1>5. \A i : ~Sampled(i)'
    BY <1>4 DEF Sampled
  <1>6. Len(nextActive) = 0 <=> nextActive = <<>>
    BY DEF NextTypeOK
  <1>7. nextTokens' = nextTokens /\ nextActive' = nextActive
    BY <1>1 DEF nextVars
  <1>8. BatchInSync'
    <2>1. CASE nextActive = <<>>
      <3>1. /\ Len(nextActive) = 0 /\ Len(nextStates) = 0 /\ Len(nextScratches) = 0
        BY <1>4, <1>6, <2>1 DEF NextInSync
      <3>2. LiveRows' = {}
        BY <1>4, <3>1
      <3> QED
        BY <1>1, <2>1, <3>1, <3>2 DEF BatchInSync
    <2>2. CASE nextActive # <<>>
      BY <1>1, <1>4, <1>5, <1>7, <2>2 DEF BatchInSync, NextInSync, OneBehind
    <2> QED
      BY <2>1, <2>2
  <1>9. NextInSync'
    BY <1>4 DEF NextInSync
  <1>10. OutputsOwn'
    <2>1. \A j \in 1..Len(nextActive) : nextActive[j] \in Entry
      BY DEF NextTypeOK
    <2>2. \A j \in 1..Len(nextActive) :
            Len(nextActive[j].output) < nextActive[j].limit + 0
      BY <1>4, <2>1, EntryType DEF OutputsOwn
    <2> QED
      BY <1>1, <1>4, <1>5, <1>7, <2>2 DEF OutputsOwn, OwnTokens
  <1>11. ResultIsOwn'
    BY <1>1 DEF ResultIsOwn, OwnTokens, sharedVars, requestVars
  <1> QED
    BY <1>2, <1>3, <1>8, <1>9, <1>10, <1>11

\* decode_batch brings every row up to date.
LEMMA DecodeInvariant ==
  ASSUME BatchInvariant, Decode
  PROVE  BatchInvariant'
  <1> USE DEF BatchInvariant, TypeOK
  <1>1. /\ wpc = "decode" /\ wpc' = "top" /\ logits' = states'
        /\ states' = [i \in 1..Len(states) |-> Fed(states[i], nextTokens[i])]
        /\ UNCHANGED <<sharedVars, active, scratches, nextVars, workVars,
                       clientVars>>
    BY DEF Decode
  <1>2. /\ Len(states) = Len(active) /\ Len(nextTokens) = Len(active)
        /\ Len(scratches) = Len(active) /\ Len(active) \in Nat
    BY <1>1 DEF BatchInSync, BatchTypeOK
  <1>3. ~InRows /\ ~InRows' /\ LiveRows = 1..Len(active) /\ LiveRows' = 1..Len(active)
    BY <1>1 DEF InRows, LiveRows
  <1>4. \A i : ~Sampled(i) /\ ~Sampled(i)'
    BY <1>3 DEF Sampled
  <1>5. ASSUME NEW i \in 1..Len(active)
        PROVE  /\ states'[i] = Fed(states[i], nextTokens[i]) /\ states'[i] \in Row
               /\ UpToDate(active[i], states'[i])
    <2>1. states[i] \in Row /\ nextTokens[i] \in Token
      BY <1>2 DEF BatchTypeOK, NextTypeOK
    <2>2. states'[i] = Fed(states[i], nextTokens[i])
      BY <1>1, <1>2
    <2>3. Fed(states[i], nextTokens[i]) \in Row
      BY <2>1, RowType
    <2>4. OneBehind(active[i], states[i], nextTokens[i])
      BY <1>1, <1>3, <1>4 DEF BatchInSync
    <2>5. /\ Fed(states[i], nextTokens[i]).owner = states[i].owner
          /\ Fed(states[i], nextTokens[i]).fed = Append(states[i].fed, nextTokens[i])
      BY <2>1 DEF Fed, Row
    <2> QED
      BY <2>2, <2>3, <2>4, <2>5 DEF OneBehind, UpToDate
  <1>6. states' \in Seq(Row) /\ Len(states') = Len(active)
    BY <1>1, <1>2, <1>5
  <1>7. TypeOK'
    BY <1>1, <1>6 DEF SharedTypeOK, BatchTypeOK, NextTypeOK, WorkTypeOK,
       ClientTypeOK, sharedVars, nextVars, workVars, clientVars, localVars,
       requestVars
  <1>8. Bounds'
    BY <1>1 DEF Bounds
  <1>9. BatchInSync'
    BY <1>1, <1>2, <1>3, <1>4, <1>5, <1>6 DEF BatchInSync, UpToDate
  <1>10. NextInSync'
    BY <1>3 DEF NextInSync
  <1>11. OutputsOwn'
    BY <1>1, <1>3, <1>4 DEF OutputsOwn, OwnTokens, nextVars
  <1>12. ResultIsOwn'
    BY <1>1 DEF ResultIsOwn, OwnTokens, sharedVars, requestVars
  <1> QED
    BY <1>7, <1>8, <1>9, <1>10, <1>11, <1>12

-----------------------------------------------------------------------------
\* A step that changes nothing preserves it.
LEMMA StutterInvariant ==
  ASSUME BatchInvariant, UNCHANGED vars
  PROVE  BatchInvariant'
  BY WokenInvariant
  DEF BatchInvariant, TypeOK, SharedTypeOK, ClientTypeOK, sharedVars,
      clientVars,
      localVars, requestVars, workerVars, Woken, vars

\* BatchInvariant is inductive: every step of every thread preserves it.
THEOREM BatchInvariantHolds == Spec => []BatchInvariant
  <1>1. Init => BatchInvariant
    BY InitInvariant
  <1>2. BatchInvariant /\ [Next]_vars => BatchInvariant'
    <2> SUFFICES ASSUME BatchInvariant, [Next]_vars PROVE BatchInvariant'
      OBVIOUS
    <2>1. CASE WorkerStep
      BY <2>1, FailInvariant, WaitInvariant, LeaveInvariant, RowInvariant,
         RowEndsInvariant, SeatInvariant, BeginRowsInvariant,
         SampleTokenInvariant, LimitInvariant, EndRowsInvariant, DecodeInvariant
      DEF WorkerStep
    <2>2. CASE Stop \/ SpuriousWakeup
      BY <2>2, StopInvariant
    <2>3. ASSUME NEW r \in Requests, SubmitInvalid(r) \/ Submit(r) \/ ClientStep(r)
          PROVE  BatchInvariant'
      BY <2>3, ClientInvariant
    <2>4. CASE UNCHANGED vars
      BY <2>4, StutterInvariant
    <2> QED
      BY <2>1, <2>2, <2>3, <2>4 DEF Next
  <1> QED
    BY <1>1, <1>2, PTL DEF Spec

\* Every variable has its type in every reachable state.
THEOREM TypeCorrect == Spec => []TypeOK
  <1>1. BatchInvariant => TypeOK
    BY DEF BatchInvariant
  <1> QED
    BY <1>1, BatchInvariantHolds, PTL

\* The structure-of-arrays batch never gets out of sync, for any number of
\* requests, whatever is admitted, fails or finishes.
THEOREM BatchStaysInSync == Spec => []BatchInSync
  <1>1. BatchInvariant => BatchInSync
    BY DEF BatchInvariant
  <1> QED
    BY <1>1, BatchInvariantHolds, PTL

\* No result holds a token generated for another request, or exceeds its limit.
THEOREM ResultsAreOwn == Spec => []ResultIsOwn
  <1>1. BatchInvariant => ResultIsOwn
    BY DEF BatchInvariant
  <1> QED
    BY <1>1, BatchInvariantHolds, PTL
=============================================================================
