------------------------------- MODULE Batcher -------------------------------
(***************************************************************************)
(* ContinuousBatcher::Impl of src/generation.cpp.                          *)
(*                                                                         *)
(* Client threads call submit(): they push a Request on `pending`, wake    *)
(* the worker, and then either block on the request's future or, when they *)
(* gave a token callback, take streamed pieces from the request under its  *)
(* stream mutex and hand them to the callback.  One worker thread runs     *)
(* run(): it admits one pending request per iteration, samples one token   *)
(* for every active request, and advances all of them with decode_batch.   *)
(*                                                                         *)
(* An action is one stretch of code between two accesses to state another  *)
(* thread can see.  A mutex section is one action; the notification after  *)
(* it is an action of its own.  A thread blocked on a condition variable   *)
(* is "asleep" and looks at its predicate again only after a notification  *)
(* or a spurious wakeup, so a forgotten notification is a lost wakeup.     *)
(*                                                                         *)
(* A definition whose comment begins with "Mutant" is a slip the code does *)
(* not make, for the property that would find it; no other one uses it.    *)
(***************************************************************************)
EXTENDS Naturals, Sequences, FiniteSets

CONSTANTS
    Requests,    \* the calls of submit(); a call is named by its request
    Streaming,   \* those of them made with a token callback
    MaxTokens,   \* bound: the largest output limit a request resolves to
    MaxChecks,   \* bound: cancellation checks admit() makes for one prompt
    AllocFaults, \* TRUE: code outside the per-request handlers may throw
    MayStop      \* TRUE: the batcher may be destroyed

ASSUME BatcherAssumption ==
    /\ Streaming \subseteq Requests
    /\ MaxTokens \in Nat \ {0}
    /\ MaxChecks \in Nat \ {0}
    /\ AllocFaults \in BOOLEAN
    /\ MayStop \in BOOLEAN

VARIABLES
    \* shared between the threads
    pending,        \* Impl::pending
    stopRequested,  \* the jthread's stop token
    promise,        \* Request::promise, what its future will give
    streamPieces,   \* Request::stream_pieces
    streamFinished, \* Request::stream_finished
    callbackFailed, \* Request::callback_failed
    \* the worker thread
    wpc,            \* where run() is
    active,         \* the four arrays of the batch, one row per request
    states,
    scratches,
    logits,
    nextActive,     \* the arrays an iteration builds for the next one
    nextStates,
    nextScratches,
    nextTokens,
    index,          \* the row the iteration is at
    subject,        \* the request being admitted, finished or failed
    checksLeft,     \* cancellation checks left before it is admitted
    failing,        \* requests that fail() is still to be called for
    resume,         \* where the worker goes on after them
    \* the client threads
    cpc,            \* where submit() is
    pieces,         \* its local `pieces`
    finished,       \* its local `finished`
    delivered,      \* history: the pieces token_callback was given
    late            \* history: pieces published after the callback failed

requestVars == <<promise, streamPieces, streamFinished, callbackFailed>>
sharedVars == <<pending, stopRequested, requestVars>>
batchVars  == <<active, states, scratches, logits>>
nextVars   == <<nextActive, nextStates, nextScratches, nextTokens>>
workVars   == <<index, subject, checksLeft, failing, resume>>
workerVars == <<wpc, batchVars, nextVars, workVars>>
localVars  == <<pieces, finished, delivered>>
clientVars == <<cpc, localVars, late>>
vars == <<sharedVars, workerVars, clientVars>>

(***************************************************************************)
(* Data.  A decoder state or a row of logits is what it was computed from: *)
(* the request whose prompt was prefilled and the tokens fed since.  The   *)
(* token sampled from a row therefore names the row's owner and position,  *)
(* and a result built from another request's row can be told apart.        *)
(***************************************************************************)
Token == [owner : Requests, at : Nat]
Row   == [owner : Requests, fed : Seq(Token)]
Entry == [request : Requests, output : Seq(Token), limit : 1..MaxTokens]
Reasons == {"stop_token", "length"}
Unset     == [kind |-> "unset"]
Exception == [kind |-> "exception"]
Value(text, reason) == [kind |-> "value", text |-> text, reason |-> reason]
Outcome == {Unset, Exception}
             \cup [kind : {"value"}, text : Seq(Token), reason : Reasons]

SampledFrom(row) == [owner |-> row.owner, at |-> Len(row.fed)]
Fed(row, token)  == [row EXCEPT !.fed = Append(@, token)]
RequestsOf(entries) == [i \in 1..Len(entries) |-> entries[i].request]

\* Locations of the two kinds of thread.
AdmitPcs == {"admit_load", "admit_call", "seat"}
RowPcs   == {"rows", "row_load", "row_call", "sample", "publish", "limit",
             "finish_stop", "finish_length"}
FailPcs  == {"fail", "complete", "notify"}
WorkerPcs == {"start", "top", "wait", "asleep", "window", "admit", "admitted",
              "decode", "drain", "dead"} \cup AdmitPcs \cup RowPcs \cup FailPcs
ResumePcs == {"admitted", "rows", "top", "drain", "dead"}
ClientPcs == {"idle", "rejected", "notify", "get", "wait", "asleep",
              "deliver", "thrown", "returned"}

Init ==
    /\ pending = <<>> /\ stopRequested = FALSE
    /\ promise = [r \in Requests |-> Unset]
    /\ streamPieces = [r \in Requests |-> <<>>]
    /\ streamFinished = [r \in Requests |-> FALSE]
    /\ callbackFailed = [r \in Requests |-> FALSE]
    /\ wpc = "start"
    /\ active = <<>> /\ states = <<>> /\ scratches = <<>> /\ logits = <<>>
    /\ nextActive = <<>> /\ nextStates = <<>>
    /\ nextScratches = <<>> /\ nextTokens = <<>>
    /\ index = 1 /\ subject \in Requests /\ checksLeft = 0
    /\ failing = <<>> /\ resume = "top"
    /\ cpc = [r \in Requests |-> "idle"]
    /\ pieces = [r \in Requests |-> <<>>]
    /\ finished = [r \in Requests |-> FALSE]
    /\ delivered = [r \in Requests |-> <<>>]
    /\ late = [r \in Requests |-> 0]

-----------------------------------------------------------------------------
(***************************************************************************)
(* The client threads: submit().                                           *)
(***************************************************************************)

\* validate_generation_options throws before the request exists.
SubmitInvalid(r) ==
    /\ cpc[r] = "idle" /\ ~stopRequested
    /\ cpc' = [cpc EXCEPT ![r] = "rejected"]
    /\ UNCHANGED <<sharedVars, workerVars, localVars, late>>

\* A caller may not submit to a batcher that is being destroyed.
Submit(r) ==
    /\ cpc[r] = "idle" /\ ~stopRequested
    /\ pending' = Append(pending, r)
    /\ cpc' = [cpc EXCEPT ![r] = "notify"]
    /\ UNCHANGED <<stopRequested, requestVars, workerVars, localVars, late>>

\* Mutant: nobody notifies the worker.
WakeNoWorker == wpc' = wpc
\* A notification sends a sleeping worker back to its predicate.
WakeWorker == wpc' = IF wpc = "asleep" THEN "wait" ELSE wpc

NotifyWorker(r) ==
    /\ cpc[r] = "notify"
    /\ WakeWorker
    /\ cpc' = [cpc EXCEPT ![r] = IF r \in Streaming THEN "wait" ELSE "get"]
    /\ UNCHANGED <<sharedVars, batchVars, nextVars, workVars, localVars, late>>

\* The predicate, and the swap when it holds, under the stream mutex.
StreamWait(r) ==
    /\ cpc[r] = "wait"
    /\ IF streamPieces[r] # <<>> \/ streamFinished[r]
       THEN /\ pieces' = [pieces EXCEPT ![r] = streamPieces[r]]
            /\ streamPieces' = [streamPieces EXCEPT ![r] = <<>>]
            /\ finished' = [finished EXCEPT ![r] = streamFinished[r]]
            /\ cpc' = [cpc EXCEPT ![r] = "deliver"]
       ELSE /\ cpc' = [cpc EXCEPT ![r] = "asleep"]
            /\ UNCHANGED <<pieces, streamPieces, finished>>
    /\ UNCHANGED <<pending, stopRequested, promise, streamFinished,
                   callbackFailed, workerVars, delivered, late>>

\* token_callback(piece) returns.
Deliver(r) ==
    /\ cpc[r] = "deliver" /\ pieces[r] # <<>>
    /\ delivered' = [delivered EXCEPT ![r] = Append(@, Head(pieces[r]))]
    /\ pieces' = [pieces EXCEPT ![r] = Tail(@)]
    /\ UNCHANGED <<sharedVars, workerVars, cpc, finished, late>>

\* token_callback(piece) throws: the flag is raised and submit() unwinds.
CallbackThrows(r) ==
    /\ cpc[r] = "deliver" /\ pieces[r] # <<>>
    /\ callbackFailed' = [callbackFailed EXCEPT ![r] = TRUE]
    /\ cpc' = [cpc EXCEPT ![r] = "thrown"]
    /\ UNCHANGED <<pending, stopRequested, promise, streamPieces,
                   streamFinished, workerVars, localVars, late>>

\* Mutant: the flag is read again, without the mutex, after the callbacks.
DeliveredUnlocked(r) ==
    /\ cpc[r] = "deliver" /\ pieces[r] = <<>>
    /\ cpc' = [cpc EXCEPT ![r] = IF streamFinished[r] THEN "get" ELSE "wait"]
    /\ UNCHANGED <<sharedVars, workerVars, localVars, late>>

\* All pieces of this round are delivered: another round, or the result.
Delivered(r) ==
    /\ cpc[r] = "deliver" /\ pieces[r] = <<>>
    /\ cpc' = [cpc EXCEPT ![r] = IF finished[r] THEN "get" ELSE "wait"]
    /\ UNCHANGED <<sharedVars, workerVars, localVars, late>>

\* result.get() returns the value or rethrows the exception.
GetResult(r) ==
    /\ cpc[r] = "get" /\ promise[r].kind # "unset"
    /\ cpc' = [cpc EXCEPT ![r] = "returned"]
    /\ UNCHANGED <<sharedVars, workerVars, localVars, late>>

ClientStep(r) ==
    \/ NotifyWorker(r) \/ StreamWait(r) \/ Deliver(r) \/ CallbackThrows(r)
    \/ Delivered(r) \/ GetResult(r)

\* ~Impl: request_stop and notify_all; the jthread then joins the worker.
Stop ==
    /\ MayStop /\ ~stopRequested
    /\ stopRequested' = TRUE
    /\ WakeWorker
    /\ UNCHANGED <<pending, requestVars, batchVars, nextVars, workVars,
                   clientVars>>

-----------------------------------------------------------------------------
(***************************************************************************)
(* The worker thread: leaving run(), and failing requests.                 *)
(***************************************************************************)

\* An exception or the stop request leaves the loop: every request of
\* `entries` fails, then what is pending does.  The arrays are not read again.
LeaveLoop(entries) ==
    /\ failing' = RequestsOf(entries)
    /\ active' = <<>> /\ states' = <<>> /\ scratches' = <<>> /\ logits' = <<>>
    /\ resume' = "drain" /\ wpc' = "fail"

\* A handler catches an exception raised for request r.
Raise(r, next) ==
    /\ failing' = <<r>> /\ resume' = next /\ wpc' = "fail"

\* fail(): set_exception, its own failure swallowed, then complete_stream().
Fail ==
    /\ wpc = "fail"
    /\ IF failing = <<>>
       THEN /\ wpc' = resume
            /\ UNCHANGED <<promise, subject, failing>>
       ELSE /\ subject' = Head(failing)
            /\ failing' = Tail(failing)
            /\ promise' = [promise EXCEPT
                   ![Head(failing)] = IF @.kind = "unset" THEN Exception ELSE @]
            /\ wpc' = "complete"
    /\ UNCHANGED <<pending, stopRequested, streamPieces, streamFinished,
                   callbackFailed, batchVars, nextVars, index, checksLeft,
                   resume, clientVars>>

\* complete_stream(), under the stream mutex.
Complete ==
    /\ wpc = "complete"
    /\ streamFinished' = [streamFinished EXCEPT ![subject] = TRUE]
    /\ wpc' = "notify"
    /\ UNCHANGED <<pending, stopRequested, promise, streamPieces,
                   callbackFailed, batchVars, nextVars, workVars, clientVars>>

\* Mutant: nobody notifies the client.
WakeNobody(r) == cpc' = cpc
\* A notification sends a sleeping client back to its predicate.
WakeClient(r) ==
    cpc' = IF cpc[r] = "asleep" THEN [cpc EXCEPT ![r] = "wait"] ELSE cpc

\* stream_condition.notify_all()
CompleteNotify ==
    /\ wpc = "notify"
    /\ WakeClient(subject)
    /\ wpc' = "fail"
    /\ UNCHANGED <<sharedVars, batchVars, nextVars, workVars, localVars, late>>

\* After the loop: `remaining` takes what is pending, under the mutex.
Drain ==
    /\ wpc = "drain"
    /\ failing' = pending /\ pending' = <<>>
    /\ resume' = "dead" /\ wpc' = "fail"
    /\ UNCHANGED <<stopRequested, requestVars, batchVars, nextVars, index,
                   subject, checksLeft, clientVars>>

-----------------------------------------------------------------------------
(***************************************************************************)
(* The worker thread: waiting for requests and admitting them.             *)
(***************************************************************************)

\* "<|im_end|>" encodes to one token.
Start ==
    /\ wpc = "start"
    /\ wpc' = "top"
    /\ UNCHANGED <<sharedVars, batchVars, nextVars, workVars, clientVars>>

\* It does not, or encoding it throws.
StartThrows ==
    /\ AllocFaults /\ wpc = "start"
    /\ LeaveLoop(active)
    /\ UNCHANGED <<sharedVars, nextVars, index, subject, checksLeft,
                   clientVars>>

\* The loop condition, and whether there is a batch to advance.
Top ==
    /\ wpc = "top" /\ ~stopRequested
    /\ wpc' = IF active = <<>> THEN "wait" ELSE "admit"
    /\ UNCHANGED <<sharedVars, batchVars, nextVars, workVars, clientVars>>

\* The loop ends at its condition, or breaks after the wait.
Stopped ==
    /\ wpc \in {"top", "wait"} /\ stopRequested
    /\ LeaveLoop(active)
    /\ UNCHANGED <<sharedVars, nextVars, index, subject, checksLeft,
                   clientVars>>

\* condition.wait evaluates its predicate under the mutex.
Wait ==
    /\ wpc = "wait" /\ ~stopRequested
    /\ wpc' = IF pending # <<>> THEN "window" ELSE "asleep"
    /\ UNCHANGED <<sharedVars, batchVars, nextVars, workVars, clientVars>>

SpuriousWakeup ==
    /\ wpc = "asleep"
    /\ wpc' = "wait"
    /\ UNCHANGED <<sharedVars, batchVars, nextVars, workVars, clientVars>>

\* The two-millisecond wait_for times out, or is cut short by a stop request.
Window ==
    /\ wpc = "window"
    /\ wpc' = "admit"
    /\ UNCHANGED <<sharedVars, batchVars, nextVars, workVars, clientVars>>

\* Mutant: the newest request is taken.
TakeNewest ==
    /\ subject' = pending[Len(pending)]
    /\ pending' = SubSeq(pending, 1, Len(pending) - 1)
\* pending.front() and pop_front()
TakePending == subject' = Head(pending) /\ pending' = Tail(pending)

\* admit_pending() takes the oldest pending request, if there is one.
AdmitPending ==
    /\ wpc = "admit"
    /\ IF pending = <<>>
       THEN wpc' = "admitted" /\ UNCHANGED <<pending, subject, checksLeft>>
       ELSE /\ TakePending
            /\ checksLeft' \in 1..MaxChecks
            /\ wpc' = "admit_load"
    /\ UNCHANGED <<stopRequested, requestVars, batchVars, nextVars, index,
                   failing, resume, clientVars>>

\* is_cancelled() reads callback_failed, and only then calls cancelled().
AdmitLoad ==
    /\ wpc = "admit_load"
    /\ IF callbackFailed[subject]
       THEN Raise(subject, "admitted")
       ELSE wpc' = "admit_call" /\ UNCHANGED <<failing, resume>>
    /\ UNCHANGED <<sharedVars, batchVars, nextVars, index, subject, checksLeft,
                   clientVars>>

\* cancelled() returns false: the next check of encode() or prefill_prompt(),
\* or the last one is passed.
AdmitContinues ==
    /\ wpc = "admit_call"
    /\ checksLeft' = checksLeft - 1
    /\ wpc' = IF checksLeft > 1 THEN "admit_load" ELSE "seat"
    /\ UNCHANGED <<sharedVars, batchVars, nextVars, index, subject, failing,
                   resume, clientVars>>

\* cancelled() returns true or throws; or admit() throws for another reason: an
\* empty or too long prompt, a failed prefill, no memory for one more row.
AdmitThrows ==
    /\ wpc \in {"admit_call", "seat"}
    /\ Raise(subject, "admitted")
    /\ UNCHANGED <<sharedVars, batchVars, nextVars, index, subject, checksLeft,
                   clientVars>>

\* Mutant: a request may be left without a token to generate.
OutputLimitsFromZero == 0..MaxTokens
\* resolved_output_limit: at least one token, or it throws.
OutputLimits == 1..MaxTokens

\* The end of admit(): all four arrays grow by one row, after their reserves.
Seat ==
    /\ wpc = "seat"
    /\ LET row == [owner |-> subject, fed |-> <<>>] IN
       /\ \E n \in OutputLimits :
            active' = Append(active,
                        [request |-> subject, output |-> <<>>, limit |-> n])
       /\ states' = Append(states, row)
       /\ scratches' = Append(scratches, subject)
       /\ logits' = Append(logits, row)
    /\ wpc' = "admitted"
    /\ UNCHANGED <<sharedVars, nextVars, workVars, clientVars>>

-----------------------------------------------------------------------------
(***************************************************************************)
(* The worker thread: one iteration over the active requests.              *)
(***************************************************************************)

\* After admit_pending: nothing to do, or the next_* arrays are reserved.
BeginRows ==
    /\ wpc = "admitted"
    /\ IF active = <<>>
       THEN wpc' = "top" /\ UNCHANGED <<nextVars, index>>
       ELSE /\ nextActive' = <<>> /\ nextStates' = <<>>
            /\ nextScratches' = <<>> /\ nextTokens' = <<>>
            /\ index' = 1
            /\ wpc' = "rows"
    /\ UNCHANGED <<sharedVars, batchVars, subject, checksLeft, failing, resume,
                   clientVars>>

\* Reserving them throws, outside the handler of any request.
BeginRowsThrows ==
    /\ AllocFaults /\ wpc = "admitted" /\ active # <<>>
    /\ LeaveLoop(active)
    /\ UNCHANGED <<sharedVars, nextVars, index, subject, checksLeft,
                   clientVars>>

Current == active[index].request

NextRow ==
    /\ wpc = "rows" /\ index <= Len(active)
    /\ wpc' = "row_load"
    /\ UNCHANGED <<sharedVars, batchVars, nextVars, workVars, clientVars>>

\* The handler of a row fails its request; the loop goes on with the next row.
RaiseRow == Raise(Current, "rows") /\ index' = index + 1

\* Mutant: only cancelled() is asked whether the request goes on.
RowLoadIgnoresFlag ==
    /\ wpc = "row_load"
    /\ wpc' = "row_call"
    /\ UNCHANGED <<sharedVars, batchVars, nextVars, workVars, clientVars>>

\* is_cancelled() reads callback_failed first, as in admit().
RowLoad ==
    /\ wpc = "row_load"
    /\ IF callbackFailed[Current]
       THEN RaiseRow
       ELSE wpc' = "row_call" /\ UNCHANGED <<failing, resume, index>>
    /\ UNCHANGED <<sharedVars, batchVars, nextVars, subject, checksLeft,
                   clientVars>>

RowContinues ==
    /\ wpc = "row_call"
    /\ wpc' = "sample"
    /\ UNCHANGED <<sharedVars, batchVars, nextVars, workVars, clientVars>>

\* cancelled() is true or throws, or sampling or publishing throws.
RowThrows ==
    /\ wpc \in {"row_call", "sample", "publish"}
    /\ RaiseRow
    /\ UNCHANGED <<sharedVars, batchVars, nextVars, subject, checksLeft,
                   clientVars>>

\* Mutant: every row samples from the first.
FirstLogits == logits[1]
\* The row's part of the logits.
RowLogits == logits[index]

\* sample_token gives the end of text or <|im_end|>.
SampleStop ==
    /\ wpc = "sample"
    /\ wpc' = "finish_stop"
    /\ UNCHANGED <<sharedVars, batchVars, nextVars, workVars, clientVars>>

\* It gives another token, which is added to the row's output.
SampleToken ==
    /\ wpc = "sample"
    /\ active' = [active EXCEPT
           ![index].output = Append(@, SampledFrom(RowLogits))]
    /\ wpc' = IF Current \in Streaming THEN "publish" ELSE "limit"
    /\ UNCHANGED <<sharedVars, states, scratches, logits, nextVars, workVars,
                   clientVars>>

LastToken(entry) == entry.output[Len(entry.output)]

\* publish(), under the stream mutex.
Publish ==
    /\ wpc = "publish"
    /\ streamPieces' = [streamPieces EXCEPT
           ![Current] = Append(@, LastToken(active[index]))]
    /\ late' = IF callbackFailed[Current]
               THEN [late EXCEPT ![Current] = @ + 1] ELSE late
    /\ wpc' = "limit"
    /\ UNCHANGED <<pending, stopRequested, promise, streamFinished,
                   callbackFailed, batchVars, nextVars, workVars, cpc,
                   localVars>>

\* The row moves on to the next iteration, with the token to be fed.
KeepRow ==
    /\ nextTokens' = Append(nextTokens, LastToken(active[index]))
    /\ nextActive' = Append(nextActive, active[index])
    /\ nextStates' = Append(nextStates, states[index])
    /\ nextScratches' = Append(nextScratches, scratches[index])

\* publish() notifies; at its limit the request ends, else its row moves on.
Limit ==
    /\ wpc = "limit"
    /\ IF Current \in Streaming THEN WakeClient(Current) ELSE cpc' = cpc
    /\ IF Len(active[index].output) = active[index].limit
       THEN wpc' = "finish_length" /\ UNCHANGED <<nextVars, index>>
       ELSE /\ KeepRow
            /\ index' = index + 1
            /\ wpc' = "rows"
    /\ UNCHANGED <<sharedVars, batchVars, subject, checksLeft, failing, resume,
                   localVars, late>>

\* finish(): set_value, then complete_stream().
Finish ==
    /\ wpc \in {"finish_stop", "finish_length"}
    /\ promise' = [promise EXCEPT
           ![Current] = Value(active[index].output,
               IF wpc = "finish_stop" THEN "stop_token" ELSE "length")]
    /\ subject' = Current /\ failing' = <<>> /\ resume' = "rows"
    /\ index' = index + 1
    /\ wpc' = "complete"
    /\ UNCHANGED <<pending, stopRequested, streamPieces, streamFinished,
                   callbackFailed, batchVars, nextVars, checksLeft, clientVars>>

\* Mutant: finish() swallows the exception after completing the stream.
FinishSwallows ==
    /\ wpc \in {"finish_stop", "finish_length"}
    /\ subject' = Current /\ failing' = <<>> /\ resume' = "rows"
    /\ index' = index + 1
    /\ wpc' = "complete"
    /\ UNCHANGED <<sharedVars, batchVars, nextVars, checksLeft, clientVars>>

\* finish() throws before set_value: it completes the stream first, and the
\* row's handler then fails the request.
FinishThrows ==
    /\ wpc \in {"finish_stop", "finish_length"}
    /\ subject' = Current /\ failing' = <<Current>> /\ resume' = "rows"
    /\ index' = index + 1
    /\ wpc' = "complete"
    /\ UNCHANGED <<sharedVars, batchVars, nextVars, checksLeft, clientVars>>

\* Mutant: the scratches of the ended rows stay.
EndRowsKeepsScratches ==
    /\ wpc = "rows" /\ index > Len(active)
    /\ active' = nextActive /\ states' = nextStates
    /\ scratches' = scratches /\ logits' = <<>>
    /\ wpc' = IF nextActive = <<>> THEN "top" ELSE "decode"
    /\ UNCHANGED <<sharedVars, nextVars, workVars, clientVars>>

\* After the last row the arrays are replaced by those of the survivors.
EndRows ==
    /\ wpc = "rows" /\ index > Len(active)
    /\ active' = nextActive /\ states' = nextStates
    /\ scratches' = nextScratches /\ logits' = <<>>
    /\ wpc' = IF nextActive = <<>> THEN "top" ELSE "decode"
    /\ UNCHANGED <<sharedVars, nextVars, workVars, clientVars>>

\* Resizing the logits throws, outside any handler: all survivors fail.
EndRowsThrows ==
    /\ AllocFaults /\ wpc = "rows" /\ index > Len(active) /\ nextActive # <<>>
    /\ LeaveLoop(nextActive)
    /\ UNCHANGED <<sharedVars, nextVars, index, subject, checksLeft,
                   clientVars>>

\* decode_batch feeds every row its token; the logits are those of the result.
Decode ==
    /\ wpc = "decode"
    /\ states' = [i \in 1..Len(states) |-> Fed(states[i], nextTokens[i])]
    /\ logits' = states'
    /\ wpc' = "top"
    /\ UNCHANGED <<sharedVars, active, scratches, nextVars, workVars,
                   clientVars>>

\* decode_batch throws: every active request fails and the batch is emptied.
DecodeThrows ==
    /\ wpc = "decode"
    /\ failing' = RequestsOf(active) /\ resume' = "top" /\ wpc' = "fail"
    /\ active' = <<>> /\ states' = <<>> /\ scratches' = <<>> /\ logits' = <<>>
    /\ UNCHANGED <<sharedVars, nextVars, index, subject, checksLeft,
                   clientVars>>

WorkerStep ==
    \/ Fail \/ Complete \/ CompleteNotify \/ Drain
    \/ Start \/ StartThrows \/ Top \/ Stopped \/ Wait \/ Window
    \/ AdmitPending \/ AdmitLoad \/ AdmitContinues \/ AdmitThrows \/ Seat
    \/ BeginRows \/ BeginRowsThrows \/ NextRow \/ RowLoad \/ RowContinues
    \/ RowThrows \/ SampleStop \/ SampleToken \/ Publish \/ Limit
    \/ Finish \/ FinishThrows \/ EndRows \/ EndRowsThrows
    \/ Decode \/ DecodeThrows

Next ==
    \/ WorkerStep
    \/ SpuriousWakeup
    \/ Stop
    \/ \E r \in Requests : SubmitInvalid(r) \/ Submit(r) \/ ClientStep(r)

\* The threads are scheduled; nobody has to submit, stop or wake spuriously.
Fairness ==
    /\ WF_vars(WorkerStep)
    /\ \A r \in Requests : WF_vars(ClientStep(r))

Spec == Init /\ [][Next]_vars
FairSpec == Spec /\ Fairness

-----------------------------------------------------------------------------
(***************************************************************************)
(* Properties.                                                             *)
(***************************************************************************)

SharedTypeOK ==
    /\ pending \in Seq(Requests) /\ stopRequested \in BOOLEAN
    /\ promise \in [Requests -> Outcome]
    /\ streamPieces \in [Requests -> Seq(Token)]
    /\ streamFinished \in [Requests -> BOOLEAN]
    /\ callbackFailed \in [Requests -> BOOLEAN]
BatchTypeOK ==
    /\ active \in Seq(Entry) /\ states \in Seq(Row)
    /\ scratches \in Seq(Requests) /\ logits \in Seq(Row)
NextTypeOK ==
    /\ nextActive \in Seq(Entry) /\ nextStates \in Seq(Row)
    /\ nextScratches \in Seq(Requests) /\ nextTokens \in Seq(Token)
WorkTypeOK ==
    /\ wpc \in WorkerPcs /\ resume \in ResumePcs
    /\ index \in Nat \ {0} /\ checksLeft \in Nat
    /\ subject \in Requests /\ failing \in Seq(Requests)
ClientTypeOK ==
    /\ cpc \in [Requests -> ClientPcs]
    /\ pieces \in [Requests -> Seq(Token)]
    /\ finished \in [Requests -> BOOLEAN]
    /\ delivered \in [Requests -> Seq(Token)]
    /\ late \in [Requests -> Nat]

\* Every variable has its type.
TypeOK ==
    SharedTypeOK /\ BatchTypeOK /\ NextTypeOK /\ WorkTypeOK /\ ClientTypeOK

\* The worker is between BeginRows and EndRows, possibly failing a row.
InRows == wpc \in RowPcs \/ (wpc \in FailPcs /\ resume = "rows")
\* The rows of `active` that still stand for their requests.
LiveRows == {i \in 1..Len(active) : InRows => i >= index}
\* Row `index` between SampleToken and the end of its turn.
Sampled(i) ==
    InRows /\ i = index /\ wpc \in {"publish", "limit", "finish_length"}

\* A decoder state of the entry that has not been fed its last token yet.
OneBehind(entry, row, token) ==
    /\ row.owner = entry.request
    /\ entry.output = Append(row.fed, token)
\* A decoder state computed from the whole output of the entry.
UpToDate(entry, row) ==
    row.owner = entry.request /\ row.fed = entry.output

\* "so an allocation failure cannot leave the structure-of-arrays batch out of
\* sync" (admit, src/generation.cpp): through admissions, failures and rows that
\* finish, row i of states, scratches and logits is the one computed for the
\* request of active[i], from the tokens it has output so far.
BatchInSync ==
    /\ Len(states) = Len(active) /\ Len(scratches) = Len(active)
    /\ Len(logits) = IF wpc = "decode" THEN 0 ELSE Len(active)
    /\ wpc = "decode" => Len(nextTokens) = Len(active)
    /\ \A i \in LiveRows :
         /\ scratches[i] = active[i].request
         /\ wpc # "decode" => logits[i] = states[i]
         /\ CASE wpc = "decode" -> OneBehind(active[i], states[i], nextTokens[i])
              [] Sampled(i) ->
                   OneBehind(active[i], states[i], SampledFrom(states[i]))
              [] OTHER -> UpToDate(active[i], states[i])

\* Where the worker or the queue holds request r, each place named once.
Places(r) ==
    {<<"pending", i>> : i \in {j \in 1..Len(pending) : pending[j] = r}}
    \cup {<<"active", i>> : i \in {j \in LiveRows : active[j].request = r}}
    \cup {<<"next", i>> : i \in {j \in 1..Len(nextActive) :
                                  InRows /\ nextActive[j].request = r}}
    \cup {<<"failing", i>> : i \in {j \in 1..Len(failing) : failing[j] = r}}
    \cup {<<"subject", 1>> : i \in {j \in {1} : wpc \in AdmitPcs /\ subject = r}}
Accepted(r) == cpc[r] \notin {"idle", "rejected"}

\* A submitted request whose promise is unset is in exactly one place from which
\* it will be settled; a settled one is in none, so no promise is set twice and
\* none is forgotten, whichever handler an exception goes through.
HeldOnce ==
    \A r \in Requests :
      Cardinality(Places(r)) =
        IF Accepted(r) /\ promise[r].kind = "unset" THEN 1 ELSE 0

\* A stream loses, repeats and reorders nothing: when the result is a text, the
\* pieces delivered, taken and still queued are that text, and a call that
\* returns it has delivered all of it ("drain_pending" in the server relies on it).
StreamIsResult ==
    \A r \in Streaming :
      promise[r].kind = "value" /\ cpc[r] # "thrown" =>
        /\ delivered[r] \o pieces[r] \o streamPieces[r] = promise[r].text
        /\ cpc[r] \in {"get", "returned"} => delivered[r] = promise[r].text

OwnTokens(r, output) ==
    \A k \in 1..Len(output) : output[k] = [owner |-> r, at |-> k - 1]

\* Whatever else was in the batch, a result consists of the request's own tokens
\* in order, and is as long as its finish reason says.
ResultIsOwn ==
    \A r \in Requests :
      promise[r].kind = "value" =>
        /\ Len(promise[r].text) <= MaxTokens
        /\ OwnTokens(r, promise[r].text)
        /\ promise[r].reason = "length" => promise[r].text # <<>>

\* "A disconnected peer cancels generation at the next token boundary"
\* (docs/api.md): after the token callback has failed at most one more token is
\* generated for the request.
CancelAtNextToken == \A r \in Requests : late[r] <= 1

\* Every accepted call of submit() ends: it returns the result, rethrows, or
\* unwinds from its callback, whether or not the batcher is destroyed meanwhile.
EveryCallEnds ==
    \A r \in Requests :
      cpc[r] = "notify" ~> cpc[r] \in {"returned", "thrown"}

\* Destroying the batcher does not hang: the worker it joins leaves run().
StopEnds == stopRequested ~> wpc = "dead"

-----------------------------------------------------------------------------
(***************************************************************************)
(* The inductive invariant behind BatchInSync and ResultIsOwn.             *)
(***************************************************************************)

\* The worker is where its counters allow it to be.
Bounds ==
    /\ wpc \in RowPcs \ {"rows"} => index <= Len(active)
    /\ wpc \in {"admit_load", "admit_call"} => checksLeft >= 1

\* The survivors collected so far: each has one token to be fed.
NextInSync ==
    InRows =>
      /\ Len(nextStates) = Len(nextActive)
      /\ Len(nextScratches) = Len(nextActive)
      /\ Len(nextTokens) = Len(nextActive)
      /\ \A j \in 1..Len(nextActive) :
           /\ nextScratches[j] = nextActive[j].request
           /\ OneBehind(nextActive[j], nextStates[j], nextTokens[j])

\* Outputs are their request's own and stay below its limit; the row that has
\* just been sampled may have reached it.
OutputsOwn ==
    /\ \A i \in 1..Len(active) : OwnTokens(active[i].request, active[i].output)
    /\ \A j \in 1..Len(nextActive) :
         OwnTokens(nextActive[j].request, nextActive[j].output)
    /\ \A i \in LiveRows :
         Len(active[i].output) < active[i].limit + (IF Sampled(i) THEN 1 ELSE 0)
    /\ InRows => \A j \in 1..Len(nextActive) :
                   Len(nextActive[j].output) < nextActive[j].limit

BatchInvariant ==
    TypeOK /\ Bounds /\ BatchInSync /\ NextInSync /\ OutputsOwn /\ ResultIsOwn

-----------------------------------------------------------------------------
(***************************************************************************)
(* What a document or a comment of the repository says, and the code does  *)
(* not do.  Each is the property of a run of its own that finds it violated. *)
(***************************************************************************)

\* The callback's comment in src/server.cpp: its probe "safely probes the
\* response side".  It captures the frame of the call that gave it, so while the
\* worker runs cancelled() that call has not unwound.
CancelCallInScope ==
    /\ wpc = "admit_call" => cpc[subject] # "thrown"
    /\ wpc = "row_call" => cpc[Current] # "thrown"

\* docs/api.md: "a request has a 30-minute wall-clock deadline".  The deadline is
\* enforced by a callback the worker runs, so it takes a worker to end a call.
DeadlineEndsCall == EveryCallEnds

=============================================================================
