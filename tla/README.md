# Verification of ADI

This directory holds TLA+ models of ADI, the C++ inference server for one
fixed mixture-of-experts model, with the TLC runs that check them and the
proofs TLAPS checks.  Every definition is translated from the sources under
`src/`; `PROJECT.json` maps each one to the lines it stands for and lists the
runs, the hazards they are aimed at, the findings and the theorems.

Run a model with `tlc -config MCBatcher_safety.cfg MCBatcher.tla`, and check the
proofs with `tlapm BatcherProofs.tla` and `tlapm ConnectionsProofs.tla`.

## 1. The system

    chat client --HTTP/SSE--> accept loop --thread--> connection
                                                          | submit, callback
                                                          v
        keep-alive, cancellation check  <--------- continuous batcher
                                                          | prefill, decode_batch
                                                          v
                     tokenizer, model, GGUF <------- executor
                                                          | run, run_dynamic
                                                          v
                                                     worker pool

| component | sources | state it keeps | operations | interacts by |
|---|---|---|---|---|
| continuous batcher | `src/generation.cpp` | the queue `pending`; the batch as four parallel arrays; per request a promise, a stream buffer and a flag | `submit`, `run`, `admit`, `admit_pending`, `publish`, `finish`, `fail`, destruction | mutexes and condition variables with its callers; callbacks into the connection; calls of the executor |
| worker pool | `src/parallel.cpp` | queue of tasks, per call a `TaskGroup` and a counter, thread-local mark | `run`, `run_dynamic`, `worker_loop`, destruction | called from the worker of the batcher, and from functions it runs itself |
| response stream | `src/server.cpp` | sequence number, open message, undelivered part of a character, tool marker | `stream_responses`, its callbacks, `send_all` | a socket shared with the batcher's worker under `send_mutex` |
| connections, accept loop | `src/server.cpp` | count of connections, descriptor, deadline | `serve`, `handle_client`, `receive_request` | detached threads sharing the locals of `serve` |
| request preparation | `src/server.cpp` | a counter of responses | `response_messages`, `prepare_request`, `response_json` | called by every connection; a client sends the whole conversation each time |
| tool calls, chat prompt, UTF-8, JSON | `src/tool_call.cpp`, `src/chat.cpp`, `src/utf8.cpp`, `src/json.cpp` | none | parsing and rendering | pure |
| tokenizer, BPE, Unicode | `src/tokenizer.cpp`, `src/bpe.cpp`, `src/unicode.cpp` | a cache of encodings with its order of use | `encode`, `decode`, merge queue | called by every request |
| GGUF reader, model loading | `src/gguf.cpp`, `src/model.cpp`, `src/codec_cache.cpp` | a mapping of a file, what was read of it, and the descriptors made of that | one pass of reading and validating | before anything else runs; the executor reads what it leaves |
| executor | `src/executor.cpp` | per request a decoder state and scratch memory | `prefill`, `decode_batch` | called by the batcher's worker, calls the pool |
| kernels, codecs | `src/kernels.cpp`, `src/attention.cpp`, `src/simd*.cpp`, ... | none | vector arithmetic | called from the executor's tasks |
| command line | `src/main.cpp`, `src/options.cpp`, `src/profiling.cpp` | none | parsing arguments, printing | calls the others |
| chat client | `tools/adi_chat.py` | a managed server process, a conversation, a cancelled flag | start, reuse and stop a server; send, stream, cancel | HTTP and SSE, signals |
| packaging | `tools/pack_mach.py` | none | converts files offline | - |

What is hard in it, and what correctness means for each part:

- **Batcher.** Many callers, one worker.  Exceptions may leave any step: the
  handler of one request, or the loop itself.  A row must never be paired with
  another request's decoder state; an accepted request must be settled exactly
  once whatever fails; a stream must be its result; nobody may sleep for ever,
  including the destructor.
- **Worker pool.** Functions captured by reference run in other threads and
  dispatch again.  Every unit runs once, none after the call returned, and no
  nesting may use up the workers.
- **Response stream.** Two threads write to one socket; a token can be a part of
  a character; a tool call may begin in any token; the peer stalls or goes; the
  deadline passes.  What the client reads must be well formed, must be the text
  of the result, and must end.
- **Connections.** The counter is given back on every path; a server at its
  limit refuses and recovers; nothing outlives `serve`.
- **Executor.** Many rows share buffers that are resized and never cleared, and
  units of a phase run in any order.  A token must get what it would get alone,
  whatever it is batched with; rows regrouped by expert must come back to their
  place; a call that fails half way must leave no state that is used again.
- **Loading.** Nothing of the file is trusted: sizes are multiplied, aligned and
  added, and what is kept is read without checks for the life of the process.
- **Requests.** A conversation exists only in what the client sends back; what
  the server wrote it must read again as what it meant, through JSON, the tool
  syntax, the prompt and the tokens.  The merge queue has stale entries, and the
  token cache two containers that must agree.
- **Chat client.** A server that was started is stopped whatever happens; a
  cancelled turn leaves the conversation as it was.

`PROJECT.json` lists these as `hazards`, each at its line, with the properties
that would catch it; those without one say why.

## 2. The models

### Batcher

`Batcher.tla` models `ContinuousBatcher::Impl` of `src/generation.cpp`: every
thread that calls `submit`, the worker thread in `run`, and the destructor.

| in the code | in the model |
|---|---|
| `pending`, the stop token, each `Request`'s promise, stream buffer and flags | `pending`, `stopRequested`, `promise`, `streamPieces`, `streamFinished`, `callbackFailed` |
| `active`, `states`, `scratches`, `batch_logits` and the `next_*` arrays | `active`, `states`, `scratches`, `logits`, `nextActive`, ... |
| where `run` and `admit_pending` are | `wpc`, `index`, `subject`, `failing`, `resume` |
| where a caller is in `submit`, its locals | `cpc`, `pieces`, `finished` |
| - | `delivered`, `late`: history for the properties |

An action is one stretch of code between two accesses to state another thread
can see.  A mutex section is one action and the notification after it another,
so predicate, sleep and wakeup interleave as they do in C++; spurious wakeups
are an action.  Each step that may throw has its throwing twin: inside a
request's handler (`AdmitThrows`, `RowThrows`, `FinishThrows`, `DecodeThrows`),
or outside any of them, where the exception leaves the loop (`StartThrows`,
`BeginRowsThrows`, `EndRowsThrows`, enabled by `AllocFaults`).

Data is abstracted to where it came from.  A decoder state or a row of logits is
the request it was prefilled for and the tokens fed since; a sampled token is
the owner and position of the row it was sampled from.  A result built from
another request's row, or from a row one token behind, therefore differs from
the right one.  A stop token may be sampled at any step, the output limit is any
number up to `MaxTokens` (what `resolved_output_limit` can return), and
`admit` makes up to `MaxChecks` cancellation checks.  A caller whose callback
threw has unwound: from then on its frame, and with it what its callbacks
captured, is gone; the model lets a later `cancelled()` answer anything.

`GenerationService.tla` is the abstract specification: requests are begun in
the order they were accepted, settled once, with a text of their own tokens or
an error, and a streaming caller sees that text piece by piece before its call
returns.  `BatcherRefinement.tla` is the mapping; `ImplementsService` is checked
by TLC and proved.

### WorkerPool

`WorkerPool.tla` models `run`, `run_dynamic`, `enqueue` and its fallback,
`TaskGroup`, `worker_loop` and the destructor.  A thread has a stack of frames,
because functions dispatch again: a worker runs a task, a caller is inside a
call, and either may enter another call from a unit; only the top frame moves.
A unit is an index of `run_dynamic`, or a range of `run` (a non-dispatching
`run` covers all of its ranges in one call, modelled as its ranges in order).
`worker_thread` is derived from the stack: a thread of the pool, or a caller
between `WorkerContext` and its return.  A range is a
number: its boundaries `count * task / tasks` do not wrap in 32 bits for any
count the executor dispatches on a model that was loaded.

### ResponseStream

`ResponseStream.tla` models `stream_responses` for one request, in the thread of
its connection, with the cancellation check the batcher's worker runs between
tokens and the keep-alive comments it writes to the same socket.  `send_all` is
two half frames under `send_mutex`, so frames may be cut by a failure or, were
the mutex wrong, mixed.  Text is a sequence of characters that keeps what the
properties tell apart: a whole character, the two halves of one, `</think>`, the
`<tool_call>` marker and the replacement character.  `drain_pending`,
`sanitize_utf8`, the marker search and the split of `parse_tool_calls` are
operators on it; how many calls a text holds, and whether they parse, is left
open.  The batcher is the environment here: `Produce`, `EndOfText` and the
check, as `GenerationService` promises them.  The peer may stall once, for long
enough to time out, resume, or reset; the deadline passes at any moment.
`messageStarted` is the `message_started` of the code; the prefix of headers is
sent as one frame.

### Connections

`Connections.tla` models the loop of `serve` and, per connection, its detached
thread: `try_acquire_connection`, `reject_busy`, `receive_request`,
`handle_client` and `send_response`.

| in the code | in the model |
|---|---|
| `active_connections`; the loop's `client` and the `active` it has loaded | `active`, `client`, `seen` |
| where the loop and the threads are | `lpc`, `hpc` |
| `request.size()` in `receive_request` | `got` |
| the status passed to `send_response` | `status` |
| - | `offer`, what the peer sends; `answer`, what it reads |

Headers and body are a number of units, and `recv` returns any number of those
that were sent and not read, so a request comes in every segmentation, with the
end of its headers inside a segment or not.  What a peer sends besides is one
of five kinds: good, streaming, another route, a `Content-Length` that is no
number, a body that is refused.  The load and the compare-and-swap of
`try_acquire_connection` are two steps, and the second may fail spuriously.
Every call that can fail does: `setsockopt`, `std::thread`, `accept`, `recv`
and `send`, the last two for the peer or for a deadline.  Generation and the
streamed response are what `GenerationService` and `ResponseStream` say of
them: they end with a result, an error, or a peer that is gone.

`accept` failing ends `serve`, which destroys the model, the batcher and the
counter while detached threads still refer to them; the model ends there and
keeps its threads from the steps that would use them.  Running out of memory
inside `handle_client` is not modelled either: it is `noexcept`, and its handler
builds the body of the answer.  The thread gives its place back before its
socket is closed, so descriptors may exceed `maximum_connections` by the
threads between the two, which is what the separate `Close` stands for.

### DecodeToken and Executor

`DecodeToken.tla` is one token through the decoder as `decode_token` computes it:
full and linear attention, the experts, the head.  It has no state; a decoder
state goes in and a new one comes out.  `Executor.tla` does the same for many
rows: `decode_batch` for one token of each sequence, `prefill` for a chunk of
one prompt in layer-major order.  Numbers are replaced by
`Kernel(name, operands)`, an uninterpreted function of everything an operation
reads, so that two results are equal when the same operations were applied to
the same operands in the same order, and different otherwise.

| in the code | in the model |
|---|---|
| the rows of the batcher and the local state of a prefill, which is the last | `states`, `logits` |
| what a row keeps of its scratch between calls, the rotation of a position | `ropes` |
| the prompt being prefilled and how far | `prompt` |
| the call, its layer and the phase its calling thread is in | `call`, `call.layer`, `call.phase` |
| the indexes of the phase's `run` or `run_dynamic` not yet run | `call.pending` |
| the vectors of the batch or the chunk | `hidden`, `buffers` |
| - | `ghost`, what `DecodeToken` gives for the same tokens |

A unit is one index of a dispatch and one action, so a phase is every order of
its units; between phases the calling thread runs alone.  In the phase "append" of
full attention it walks the rows in order and compares the caches of each with its
position, which may drop the call.  That overlapping units
share no element is what makes one action per unit right, and the buffers'
layout, which is what could break it, is in the model.  `Resize` keeps what was
in a buffer, as `vector::resize` does, and the scratch of a row outlives the
call, so a value left from an earlier call is there to be read.  `Admit`,
`Leave` and `Drop` are the batcher's: a row joins behind the others with a fresh
scratch, a row leaves and those behind it move up, a failed decode drops all
rows and a failed prefill its local state.  An allocation may fail between any
two units, and a prefill may be cancelled where `cancelled()` is asked.

### GgufFile and ModelLoading

`GgufFile.tla` is the reader: open, measure, map and parse, the cursor, and the
lookups.  `ModelLoading.tla` is `MachModel` over it: the metadata the format
fixes, the geometry, the manifest of every tensor, the vocabulary, then the
descriptors of layers, experts, embedding and head, and the tables of
`codec_cache.cpp`.  The file is a sequence of words, a word per field or
element; sums and products of 64 bits are `WordBits` wide and checked or wrapped
as the code does it.  `disk` holds the words and the size of the file: `Image`, a good one, with one
fault of `Faults`, a changed word or a cut, chosen in `Init`, so the run sees a
file with that one thing wrong at every place a check could miss.  A descriptor is a span, a tensor with an
offset and a length, which is what a pointer into the mapping is.  Each phase
may fail by the system (`open`, `fstat`, `mmap`, allocation) or by a check, and
releases what the members constructed so far hold.

### Requests: Utf8Text, JsonText, ToolCalls, UnicodeText, ChatPrompt, Tokenizer

These are algorithms, written as operators.  Text is a sequence of bytes, except
that the fixed words of the formats (keys, roles, tags) are one symbol each: no
code path looks inside them.  `JsonText` keeps the order of members, and a number as
a sign, a mantissa and a decimal exponent.  `UnicodeText` has decomposition, ordering,
composition, case folding and the split into pieces, over tables that are
constants.  `Tokenizer` has two halves: `BpeMerge`, the merge queue with its
sets of positions and stale candidates, and the cache, whose hit, miss,
eviction and insertion that fails between the list and the map are actions.

### Conversation

`Conversation.tla` composes them: a client asks, receives calls, answers them,
and sends the whole history with each request, as the API without
`previous_response_id` requires.  `PrepareRequest` is all of `handle_client` up
to the submission; the prompt is then encoded piece by piece, where a piece may
run out of memory or the client may go; the model's answer is chosen from
`ModelOutputs`, among them calls, broken calls, invalid UTF-8 and an answer cut
by its limit, and written as `response_json` writes it.  Bodies no such client
sends come first, from `OtherBodies`.

## 3. The runs

| run | question | bounds | distinct states |
|---|---|---|---|
| `batcher_safety` | Does the batch stay in sync, is every request held once and settled once, is the stream the result, does a failed callback stop generation at the next token, and does all of it implement `GenerationService`, with faults and destruction? | 1 streaming and 1 plain call, outputs up to 3, 2 checks | 812k |
| `batcher_liveness` | Does every call end, and does destruction? | 1 streaming and 1 plain call, outputs up to 2, destruction | 182k |
| `batcher_cancel_scope` | *violated*, see below | 1 call | small |
| `batcher_deadline` | *violated*, see below | 2 plain calls, loop faults | small |
| `worker_pool` | Is every unit run once and none after its call, does every call return, do the workers exit, and is there no deadlock? | 2 callers, 1 worker, calls of 3, 5 (two ranges) and 2 units, nesting, an empty call, functions and allocations that throw | 106k |
| `response_stream` | Is a stream that ends well formed, the text of its result, free of tool syntax and in lifecycle order; does it end, and never silently? | 3 tokens of three kinds, with and without tools, 2 calls, 1 keep-alive | 120k |
| `connections` | Is the counter exact and bounded, is a request whole, is there one response, does every connection end? | 3 peers for 2 places; one of them with 7 kinds of request; limits of 2 units of headers and of body, segments of up to 2 | 184k |
| `executor` | Does every row of a batch, and every token of a chunked prefill, get the state and the logits it would get alone; do the expert tasks cover the rows once; do the caches match the positions; are states whole after a failure? | 3 layers of both kinds, 2 rows, prompts of up to 4 tokens in chunks of 3, context of 5, 2 of 3 experts a token, 2 rows a task, 2 admissions, 2 decodes | 256k |
| `loading` | Whatever one word of the file is, is what loads inside the file, finite and consistent, and does what fails hold nothing? | a file of some 3000 words, 2 layers, 4 experts in chunks of 2; 12-bit words; 1050 faults | 6.7k |
| `request_text` | Does a client that sends its history back get on, with the calls and texts it had; do prompts survive the tokenizer; is the token cache sound; is the merge queue the reference merge? | 3 requests, 1 failed encoding, nesting up to 6, 3 cache entries, pieces up to 6 bytes | 127k |
| `stream_deadline`, `stream_limit` | *violated*, see below | 1 and 2 tokens | small |

Why the bounds suffice.  Two requests make every pairing of rows: one admitted
while the other is active, one ending before, after or at the same iteration as
the other, one failing at any step of the other; the theorems of section 5
remove the bound for what is proved.  Outputs of two tokens have a first, a last
and a boundary between; a third gives a callback time to fail with a token to
spare.
One worker and a caller are the two drains that can race over an index, and a
second caller competes for that worker; nesting is what could block it.  Three
tokens hold a character in two tokens, the marker, and something around them.
Three peers for two places have one at the limit; requests of up to four units
are below, at and above each limit, alone and with what follows their headers.
In `executor` a chunk of three cuts a longer prompt in two, of which the second
is smaller, so buffers shrink and keep what they held; two rows of two routes
among three experts can share an expert, and with two rows a task an expert's
rows fill a task or split; a row leaves before another, whose position and
scratch then move.  Between them the
three layers have each kind before the other.  `Kernel` is a pseudo-random
function of the operation and its operands there: equal results are equal
operands but for chance.  In `loading` the fault changes
each word of the header, the metadata and the head of the directory to the
largest value and to zero, one or half the range, each of forty offsets to one
that wraps, the first element of each tensor to no number, each element of the index
lists to one out of order or range, and cuts the file around the boundaries of
its sections.  Every check looks at one value or compares two, so one wrong word is
enough to need it.  In `request_text` three requests are a question, its calls answered and a question
after that, or a failure before either; six levels of nesting are what the tools of
a request take, and one of the model's arguments nests as deep;
three entries are full with one prompt.

Deadlock is checked in `worker_pool` and `executor` (where `Stopped` is the end
of the bounds and nothing else).  The others do stop: all calls or connections
have ended, the batcher or the model has been destroyed, the last of the requests
has been answered, so their configurations
say `CHECK_DEADLOCK FALSE`; that nobody is blocked before that is what
`EveryCallEnds`, `StopEnds`, `EveryStreamEnds` and `EveryConnectionEnds` check.

Fairness.  Each thread is weakly fair: an operating system that runs threads
runs each of them that can move.  No fairness is assumed of who submits, of
faults, of spurious wakeups or of the peer, so a property that holds does not
rely on any of them.  `batcher_liveness` leaves `AllocFaults` out, for the
reason given in the second finding.  In `ResponseStream` the deadline passes
eventually, since it is a time; a blocked send ends by the poll's timeout,
which is the peer's "stalled".  In `WorkerPool` functions return or throw.  In `Connections` what
waits for the peer ends by a deadline, and generation ends as `EveryCallEnds`
has it; `accept` is not obliged to fail.

Each property has a mutant in `PROJECT.json`: a definition of the same module
whose comment begins with "Mutant", a slip the code does not make, for which
TLC finds the property violated.

## 4. Where the code differs from what it says

- `batcher_cancel_scope`: `is_cancelled` reads `callback_failed` and then calls
  `cancelled()`.  A caller whose callback throws in between unwinds the frame
  that closure captures.  The comment in `src/server.cpp` says the probe is safe
  because the call is synchronous.
- `batcher_deadline`: an exception that leaves `run` outside a request's handler
  ends the worker.  Everything accepted until then is failed, but later requests
  are accepted and nobody serves them; the documented 30-minute deadline is
  enforced by a callback that only the worker calls.
- `stream_deadline`: the deadline that fails a request also bounds `send_all`,
  so the `error` event `docs/api.md` promises cannot be sent, and the stream just
  ends.
- `stream_limit`: with tools enabled the streamed text is kept raw and compared
  with a sanitized one.  An output that is cut inside a character by
  `max_output_tokens` ends with `error`, where `docs/api.md` promises
  `response.incomplete`.

Some smaller ones have no run: `docs/api.md` promises an HTTP 4xx status for
errors where `reject_busy` answers 503; "request headers are too large" is also
the answer to headers that fit, when the segment that completes them holds
enough of the body; `docs/api.md` says that requests are handled one
at a time, which the batch replaced; and the comment of `run_dynamic` has the
group wait "until every index has been executed", which is not so when all
drains end by exceptions (`UnitsExactlyOnce` states what does hold).  In the
tokenizer an insertion into the cache that fails leaves its node in the list of
recency (`tokenizer.cpp:193`); the entry the list names last may then be one the
map does not have, the map grows past its limit, and the comparison with `==`
never evicts again (`TokenCacheSound` bounds it by the failures).  Arguments that
nest as deep as the parser goes are accepted in the model's output and written
in the response, where they are one level deeper: every later request with that
history is refused (`HistoryRoundTrips` states the exception).  The benchmark of
`main.cpp:556` makes token `1000 + index * 977 % vocabulary`, which is past the
vocabulary from index 254 on.  And the second half of the staleness check of
`bpe.cpp:131` is never what decides.

## 5. What is proved

### The batcher

`BatcherProofs.tla`, checked by TLAPS for every set of requests, every length of
output and any number of checks:

| theorem | statement |
|---|---|
| `BatchInvariantHolds` | `Spec => []BatchInvariant` |
| `TypeCorrect` | `Spec => []TypeOK` |
| `BatchStaysInSync` | `Spec => []BatchInSync` |
| `ResultsAreOwn` | `Spec => []ResultIsOwn` |

The only assumption is `BatcherAssumption`: streaming calls are calls, and the
two bounds are positive.

`BatchInSync` relates row *i* of `states`, `scratches` and `logits` to
`active[i]`, and is not inductive: `EndRows` replaces the arrays by those built
during the iteration, about which it says nothing.  `BatchInvariant` adds that
the survivors are in sync among themselves, one token behind their output
(`NextInSync`); that outputs are their owner's tokens in order and below the
limit (`OutputsOwn`); that the worker is at a row that exists (`Bounds`); and
the types.  The proof has one lemma per kind of step.  Clients, notifications
and the destructor touch none of it (`ClientInvariant`, `WokenInvariant`,
`StopInvariant`).  Worker steps that leave the batch alone share
`QuietInvariant`; those that end a row's turn share `RowLeavesInvariant`; those
that empty the batch share `EmptiedInvariant`; `SeatInvariant`,
`SampleTokenInvariant`, `LimitInvariant`, `EndRowsInvariant` and
`DecodeInvariant` are the steps that do the work.

`BatcherRequestProofs.tla` follows a request from `submit()` to its outcome:

| theorem | statement |
|---|---|
| `RequestInvariantHolds` | `Spec => [](BatchInvariant /\ RequestInvariant)` |
| `RequestsHeldOnce` | `Spec => []HeldOnce` |
| `CancelHolds` | `Spec => []CancelAtNextToken` |

`HeldOnce` says that an accepted request without an outcome is in exactly one of
the containers of the worker, and speaks of the moments between two iterations
only.  Inside one, a request is for a while in `active` and in `nextActive`, or in
no container but the worker's local variables.  `RequestInvariant` is therefore a
census with five places (waiting, admitted, running, surviving, failing): no two
hold the same request (`Exclusive`), none holds it twice (`Distinct`), what is
held is what was accepted and not settled (`Accounted`), and `failing` is empty
outside the loop that empties it (`Quiet`).  `CancelInvariant` adds to
`CancelAtNextToken` what the worker knows between its check and `publish()`.

`BatcherServiceProofs.tla` proves the promise the batcher makes to its callers:

| theorem | statement |
|---|---|
| `ServiceInvariantHolds` | `Spec => []ServiceInvariant` |
| `StreamHolds` | `Spec => []StreamIsResult` |
| `BatcherImplementsService` | `Spec => ImplementsService` |

The stream of a request is what its callback was given, what its thread has taken
and what is still queued, in this order; no step but `publish()` changes it.
`StreamInvariant` says what `submit()` knows at each of its locations (`Callers`),
that a stream is completed only when nothing more can be published on it
(`Completed`), and that what was published is the output of its row, up to the
token about to be published (`Published`).  The refinement has one lemma for each
step of `GenerationService` (`AcceptImplemented` ... `FailImplemented`), one for
the steps the service does not see (`ServiceStutters`), and uses the census to show
that the service's queue (`pending` and, while `run` gives up, `failing` before
it) has the requests that are not begun and no other.

### The worker pool

`WorkerPoolProofs.tla`, for any callers, finite set of workers, calls, counts,
minimum ranges and nesting:

| theorem | statement |
|---|---|
| `PoolInvariantHolds` | `Spec => []PoolInvariant` |
| `TypeCorrect` | `Spec => []TypeOK` |
| `UnitsHold` | `Spec => []UnitsExactlyOnce` |
| `NoUseHolds` | `Spec => []NoUseAfterReturn` |

`FiniteWorkers` is assumed (a vector of threads), and `CallsAreExecutions`: a
member of `Calls` is one execution of `run()` or `run_dynamic()`, entered from one
place.  None of the three properties is inductive: `UnitsExactlyOnce` speaks of a
call that has returned, and what makes it true is that `remaining` counted every
task.  `PoolInvariant` adds the shape of the stacks of frames (`Nested`) and of
the queue (`QueueOK`), and another census: a task of a dispatched call is *open*
while its caller still has to hand it out, it is queued, or a frame carries it; no
task is in two of these places (`Alone`), each belongs to a call whose caller
is still in it (`Owned`), and `remaining` is their number (`Counted`).  So a caller that
reads zero leaves nothing behind.  `UnitsHeld` says of each unit that it is ahead
of what was claimed, in the hands of one frame, or settled; no two frames
are at the same unit (`UnitsApart`), and those of a queued task have not begun
(`QueueUnbegun`).  Each kind of step on the stacks (`Swapped`, `Pushed`, `Popped`)
has its lemmas on the census, and the steps of the algorithm cite them.

### Connections

`ConnectionsProofs.tla`, for any finite set of peers, any requests they may send
and any limits (`ConnectionsAssumption`):

| theorem | statement |
|---|---|
| `ConnectionInvariantHolds` | `Spec => []ConnectionInvariant` |
| `TypeCorrect` | `Spec => []TypeOK` |
| `CountHolds` | `Spec => []CountIsExact` |
| `RequestHolds` | `Spec => []RequestIsWhole` |
| `ResponseHolds` | `Spec => []OneResponse` |

`ConnectionInvariant` strengthens the four properties by `ClientPlaced` (the
connection the loop has accepted is in no other place), `Reading` (what has been
read is part of what was sent, and the limits already compared hold) and
`Answering` (nothing is answered before the first send, and only the headers
before the second).  `CountedStep` is the heart of `CountHolds`: a step leaves
the set of counted connections alone, adds one below the maximum or takes one
away, and the counter moves with it; the facts about cardinalities are those of
`FiniteSetTheorems`.  That the counter never wraps below zero, which `TypeOK`
says, needs the same fact: whoever decrements it is counted.

### The response stream

`ResponseStreamProofs.tla`, for any pieces, limits and interleaving of the thread
of the connection with the batcher's worker (`StreamAssumption`):

| theorem | statement |
|---|---|
| `StreamInvariantHolds` | `Spec => []StreamInvariant` |
| `TypeCorrect` | `Spec => []TypeOK` |
| `WholeStreamHolds` | `Spec => []EndedStreamIsWhole` |
| `SyntaxHolds` | `Spec => []NoToolSyntax` |
| `LifecycleHolds` | `Spec => []LifecycleInOrder` |
| `NoSilentEndHolds` | `Spec => []NoSilentEnd` |

The properties speak of what was received; what a step may add to it is already in
the queue.  `StreamInvariant` speaks of both: the mutex belongs to whoever is
inside a frame (`Exclusive`); the wire has whole frames and the first half of one,
unless a sender gave up or the request failed, after which no terminal event comes
(`FramedUnlessCut`, `Ending`); the numbers run on from the wire into the queue
(`Numbering`); the queue may follow the wire (`InOrder`), and `messageStarted`
tells whether a message is open in the two together (`Message`, `Opened`).  A
batch of events is put together part by part: `Joined` says when one part may
follow another, and `OpeningBatch`, `DeltasBatch`, `DoneBatch`, `CallsBatch` and
`EndOfBatch` are its uses.

`StreamTextProofs.tla` proves the one about texts:

| theorem | statement |
|---|---|
| `TextInvariantHolds` | `Spec => []TextInvariant` |
| `DeltasHold` | `Spec => []DeltasAreTheText` |

`drain_pending` scans each piece with what the last one left, and the property says
that this comes to `sanitize_utf8` of the whole, however the tokens cut the
characters.  The invariant is an equation for every continuation X: replacing the
broken characters of *streamed X* gives what was sent and queued, followed by the
same for *pending X* (`Streaming`).  `DrainSound` is the lemma about
`drain_pending` it needs: its deltas and its rest, put before any X, are what
replacing makes of the text before X.  `RemainingText` is the one about the end:
what parsing keeps is what was streamed and what is sent last.

`Drained` and the flattening of sequences are recursive functions.  The
library's induction theorems take an operator and cannot be used, so
`ResponseStreamProofs` has an induction of its own on intervals of numbers
(`Induction`, a statement about sets, from the well-foundedness of inclusion among
finite sets), and the two functions are unfolded at each of their points
(`DrainedIs`, `FlattenIs`).

### The executor

`ExecutorProofs.tla`, for any layers, prompts, chunk size and number of rows, and
any kernels (`GeometryAssumption` and `BatchAssumption`):

| theorem | statement |
|---|---|
| `RowsAdvanceTogether` | `Spec => []IInv` |
| `StatesStayWhole` | `Spec => []StatesAreWhole` |
| `CachesAlwaysMatch` | `Spec => []CachesMatchPositions` |
| `TasksPartitionRows` | `ScoresAreNumbers` implies `Spec => []ExpertTasksPartitionRows` |
| `BatchingChangesNoToken` | `ScoresAreNumbers` implies `Spec => []BatchIsTokenByToken` |

`StatesAreWhole` speaks of states between calls.  In a call they are not whole: the
caches of the layers behind the one that runs have grown, those ahead have not, and
`position` is written when all layers are through.  `Consumed` counts the tokens of
the call that a layer of a row has consumed, from the layer and phase of the call
and the rows still pending in it, and `RowsAdvance` is `StatesAreWhole` with that
count added to the positions.  The rest of `IInv` is shape: which phase belongs to
which kind of call and layer, that rows are appended in order, and that the
positions of a call follow those of its states.  `AppendsInOrder` then gives
`CachesMatchPositions`: the exception of `full_attention_forward_batch` is never
thrown.  The proof splits the steps into those that move no row (`QuietUnits`,
`QuietPhases`), those that consume (`AppendRowKeeps`, `SequenceKeeps`,
`PrefillLayerKeeps`), and those that begin and end a call; an allocation that fails
anywhere is `DropKeepsWhole`, where what has been advanced is what is dropped.

`TasksPartitionRows` is about arithmetic.  The position of a pair of a row and a
route is its rank in the order of experts, rows and routes (`GroupedIsRank`), and
ranks in a finite order are all the numbers below its size (`Ranks`); so the pairs
of an expert have an interval of positions.  `ChunkStep` is the loop that splits it:
while m chunks are left for no fewer than m and no more than `RowsPerTask` m rows,
the next one takes between 1 and `RowsPerTask` of them and leaves the same.  Hence
every position is in one task (`RowInChunk`, `TasksAreApart`).  The hypothesis
`ScoresAreNumbers` says that the router's scores compare as numbers do: with a
score that is none, `top_experts` would hand `partial_sort` an order that is none.
`Placed` is a recursive function over the chunks; that it is defined and what it
gives are proved by `NumbersFromZero`, an induction over a set of numbers.

`BatchingChangesNoToken` is what the executor is for: a row has the state and the
logits `decode_token` gives for its tokens one after another, in any batch, any cut
of its prompt and any order of the units.  Its invariant, `TokenInv`, says what has
been computed at every point of a call, in terms of `DecodeToken` applied to
`ghost`, which is the row's state before the call.  `Stage(r, k)` is row r after k
of its tokens; `Prior(i)`, `Posterior(i)` and `Hidden(i, l)` are the states around
token i of the call and its hidden vector after layer l.  Layers behind the one that
runs are those of the last stage and layers ahead those of the first
(`RowReached`); for the one that runs `AtLayer` has a clause for each phase, which
tells the rows, blocks or heads that are done from those still pending.
`HiddenReached`, `FullBuffers`, `LinearBuffers` and `ExpertBuffers` say the same of
the vectors between the phases: an element is what `DecodeToken` computes there,
unless a pending unit has still to write it; what an earlier call left in it is
never mentioned, so nothing stale is ever relied on.  `RopesOK` is what the reuse of
a rotation needs, and `LogitsReached` has the chunks of the head that have come.

Three groups of lemmas carry it.  The recursive functions of the model are unfolded
(`LayeredIsDefined`, `TokenwiseIsDefined`) and give `decode_token` layer by layer
and token by token (`TokenFacts`, `TokenwiseFacts`); that a cache only grows, and so
that the prefix a later row of a chunk attends to is the cache an earlier token left,
is `CachesGrow`.  The layout of the buffers is `RowMajorOnce`, `SlotFacts` and
`UnitFacts`: two units never write the same element and a row's slice is its own
(`RowOf`, `GatedRows`).  For the experts the partition above is used once more:
every grouped position has been written by the task it is in, with its own expert
(`GroupedRows`), so that `ReducedIs` adds a row's outputs in the order of its routes
as `moe_forward` does.  Then there is one lemma per action, named for it
(`AppendRowTokens`, `HeadWalkTokens`, ...), and for the ends of calls
`AtHead`, `LastToken` and `RowsBetweenCalls`.

### What is only model-checked

All of `ModelLoading` and `Conversation`.  Liveness (`EveryCallEnds`,
`StopEnds`, `EveryCallReturns`, `WorkersExit`, `EveryStreamEnds`,
`EveryConnectionEnds`) stays with TLC, since TLAPS proves nothing about fairness
and ENABLED; `GenerationService` states no fairness, so its proof is complete.
The modules of texts and of loading are written with RECURSIVE operators over data,
which the prover cannot reason about: what they compute is compared with a
reference, or with what it must preserve, on the inputs of the runs.

## 6. Plan

In this order; each entry names the run or theorems it adds.

1. **Done**: `Batcher`, its abstract specification and refinement, its invariant
   proved; `WorkerPool`; `ResponseStream`; `Connections`, its invariant proved.
2. **Done**: `DecodeToken` and `Executor`, the rows `Batcher` abstracts (run
   `executor`); `GgufFile` and `ModelLoading` (run `loading`); the algorithms on
   text, the token cache and `Conversation` (run `request_text`).
3. **Done**: the proofs of `HeldOnce`, `CancelAtNextToken`, `StreamIsResult` and
   the step simulation of `GenerationService`; of `WorkerPool`; of
   `ResponseStream`, its texts included; of `Executor`, down to the contents of its
   buffers (`BatchIsTokenByToken`).
4. **`ChatClient`**: the managed server, the turn and its cancellation, the order
   of events.
5. The helpers that generate for one prompt without the batcher.

## 7. Not modelled

- Floating-point arithmetic (kernels, codecs, attention, sampling
  probabilities): nothing in it is a matter of control, and the repository
  tests it numerically.  `Executor` has the operations as uninterpreted
  functions; the divisors of the rotations are among their operands.
- The generated tables of `src/unicode.cpp`: a few characters of each kind stand
  for them, as constants.
- `src/main.cpp`, which parses arguments and prints; the helpers it uses for one
  prompt share `prepare`, `prefill_prompt` and sampling with the batcher but no
  thread.
- `tools/adi_chat.py`, a client in another process, and `tools/pack_mach.py`,
  which converts files offline.
