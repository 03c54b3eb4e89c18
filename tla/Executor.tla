------------------------------ MODULE Executor ------------------------------
(***************************************************************************)
(* The batched paths of the executor (src/executor.cpp): decode_batch, one *)
(* token for each of several sequences, and prefill, a chunk of one        *)
(* prompt in layer-major order, cut into the phases the worker pool runs.  *)
(* Inside a phase the units run in any order; between phases the calling   *)
(* thread runs alone.  The rows live in the arrays of the batcher          *)
(* (src/generation.cpp): a prompt is prefilled chunk by chunk in a local   *)
(* state, pushed back as a new row, decoded with the others, and dropped   *)
(* when its sequence ends or a call fails.                                 *)
(*                                                                         *)
(* `ghost' is what decode_token gives for the same tokens.                 *)
(***************************************************************************)
EXTENDS DecodeToken

CONSTANTS
  Tokens,           \* the vocabulary
  Prompts,          \* the prompts that arrive, sequences of tokens
  Context,          \* config.context
  PrefillUbatch,    \* execution.prefill_ubatch
  RowsPerTask,      \* expert_rows_per_task (32)
  MaxRows,          \* rows decoded together
  MaxAdmissions,    \* bound: prompts admitted in a behaviour
  MaxDecodes        \* bound: decode_batch calls in a behaviour

ASSUME BatchAssumption ==
  /\ Prompts \subseteq Seq(Tokens) /\ \A p \in Prompts : Len(p) \in 1 .. Context
  /\ PrefillUbatch \in Nat \ {0} /\ RowsPerTask \in Nat \ {0}

VARIABLES
  states,      \* DecoderState of each row; while a prompt is admitted its
               \* local state is the last
  ropes,       \* FullAttentionScratch of each row: rope_position and the rotation
  logits,      \* logits of each row
  prompt,      \* the prompt being prefilled and the offset of the next chunk
  call,        \* decode_batch or prefill in progress
  hidden,      \* scratch.hidden of every row of the call
  buffers,     \* DecoderBatchScratch and LinearPrefillScratch, never cleared
  ghost,       \* decode_token's state and logits for each row
  spent        \* admissions and decodes so far, for the bounds

vars == <<states, ropes, logits, prompt, call, hidden, buffers, ghost, spent>>

-----------------------------------------------------------------------------
NoCall == [kind |-> "none"]
NoPrompt == [tokens |-> <<>>, offset |-> 0]
NoRope == [position |-> -1, rotation |-> zero]      \* rope_position is UINT32_MAX
NoBuffers == [b \in {"queries", "attended", "inputs", "outputs", "convolved",
                     "recurrent", "normalized", "gathered", "projected"} |-> <<>>]

Init ==
  /\ states = <<>> /\ ropes = <<>> /\ logits = <<>> /\ ghost = <<>>
  /\ prompt = NoPrompt /\ call = NoCall
  /\ hidden = <<>> /\ buffers = NoBuffers
  /\ spent = [admissions |-> 0, decodes |-> 0]

Idle == call = NoCall
Admitting == prompt # NoPrompt
Layer == call.layer
Rows == 1 .. Len(call.tokens)

(* the state and scratch row i works on: a prefill's rows share the last *)
Target(i) == IF call.kind = "decode" THEN i ELSE Len(states)
Position(i) == call.positions[i]

(* vector::resize keeps what was there *)
Resize(buffer, size) ==
  [i \in 1 .. size |-> IF i <= Len(buffer) THEN buffer[i] ELSE zero]

Normalized(kind, i) == Norm(kind, Layer, hidden[i])
Go(phase, pending) == call' = [call EXCEPT !.phase = phase, !.pending = pending]

(* units of a parallel phase run one at a time, in any order *)
Unit(phase, u) ==
  /\ ~Idle /\ call.phase = phase /\ u \in call.pending
  /\ call' = [call EXCEPT !.pending = @ \ {u}]
  /\ UNCHANGED <<prompt, logits, ghost, spent>>

(* the calling thread returns from the dispatch once every unit has run *)
After(phase) == ~Idle /\ call.phase = phase /\ call.pending = {}

-----------------------------------------------------------------------------
(* The callers: prefill_prompt and the batcher's rows *)

Admit(p) ==
  /\ Idle /\ ~Admitting /\ Len(states) < MaxRows /\ spent.admissions < MaxAdmissions
  /\ spent' = [spent EXCEPT !.admissions = @ + 1]
  /\ prompt' = [tokens |-> p, offset |-> 0]
  /\ states' = Append(states, NewState)
  /\ ropes' = Append(ropes, NoRope)
  /\ logits' = Append(logits, <<>>)
  /\ ghost' = Append(ghost, [state |-> NewState, logits |-> <<>>])
  /\ UNCHANGED <<call, hidden, buffers>>

Call(kind, tokens, positions, wanted) ==
  call' = [kind |-> kind, tokens |-> tokens, positions |-> positions, wanted |-> wanted,
           layer |-> 1, phase |-> "layer", pending |-> {}, routes |-> <<>>]

(* only the last chunk's logits are asked for *)
Prefill ==
  /\ Idle /\ Admitting
  /\ LET count == Min({PrefillUbatch, Len(prompt.tokens) - prompt.offset})
         chunk == SubSeq(prompt.tokens, prompt.offset + 1, prompt.offset + count)
         first == states[Len(states)].position
     IN /\ count <= Context - first
        /\ Call("prefill", chunk, [i \in 1 .. count |-> first + i - 1],
                prompt.offset + count = Len(prompt.tokens))
        /\ prompt' = [prompt EXCEPT !.offset = @ + count]
        /\ hidden' = [i \in 1 .. count |-> Embedding(chunk[i])]
  /\ UNCHANGED <<states, ropes, logits, buffers, ghost, spent>>

(* a token for every row, all checks before any change *)
DecodeBatch ==
  /\ Idle /\ ~Admitting /\ states # <<>> /\ spent.decodes < MaxDecodes
  /\ spent' = [spent EXCEPT !.decodes = @ + 1]
  /\ \A i \in DOMAIN states : states[i].position < Context
  /\ \E tokens \in [DOMAIN states -> Tokens] :
       /\ Call("decode", tokens, [i \in DOMAIN states |-> states[i].position], TRUE)
       /\ hidden' = [i \in DOMAIN states |-> Embedding(tokens[i])]
  /\ UNCHANGED <<states, ropes, logits, prompt, buffers, ghost>>

(* a row is at the end of the context: the batch throws before any change, *)
(* and its caller drops every row                                          *)
ContextExhausted ==
  /\ Idle /\ ~Admitting /\ \E i \in DOMAIN states : states[i].position >= Context
  /\ states' = <<>> /\ ropes' = <<>> /\ logits' = <<>> /\ ghost' = <<>>
  /\ UNCHANGED <<prompt, call, hidden, buffers, spent>>

Without(s, n) == SubSeq(s, 1, n - 1) \o SubSeq(s, n + 1, Len(s))

(* a sequence ends: the rows after it move up with their scratches *)
Leave(i) ==
  /\ Idle /\ ~Admitting
  /\ states' = Without(states, i) /\ ropes' = Without(ropes, i)
  /\ logits' = Without(logits, i) /\ ghost' = Without(ghost, i)
  /\ UNCHANGED <<prompt, call, hidden, buffers, spent>>

(* Mutant of Drop: the rows of a failed call stay *)
DropKeeps ==
  /\ call' = NoCall /\ prompt' = NoPrompt /\ hidden' = <<>>
  /\ UNCHANGED <<states, ropes, logits, ghost, buffers, spent>>

(* A call throws.  A failed decode drops every row, a failed prefill the   *)
(* prompt's local state, however far the layers had advanced them.         *)
Drop ==
  /\ call' = NoCall /\ prompt' = NoPrompt /\ hidden' = <<>>
  /\ LET kept == IF call.kind = "decode" THEN 0 ELSE Len(states) - 1
     IN /\ states' = SubSeq(states, 1, kept) /\ ropes' = SubSeq(ropes, 1, kept)
        /\ logits' = SubSeq(logits, 1, kept) /\ ghost' = SubSeq(ghost, 1, kept)
  /\ UNCHANGED <<buffers, spent>>

(* an allocation fails anywhere, between any two units *)
AllocationFails == ~Idle /\ Drop

(* cancelled() is asked before each layer and each head chunk *)
Cancelled ==
  /\ ~Idle /\ call.kind = "prefill" /\ call.phase \in {"layer", "head"}
  /\ Drop

-----------------------------------------------------------------------------
(* Full attention.  Rows append to their caches in order; a prefill's      *)
(* rows all append to the same one and share one rope scratch.             *)

PrepareRope(rope, position) ==
  IF rope.position = position THEN rope
  ELSE [position |-> position, rotation |-> Rope(position)]

(* a prefill computed the rotations of its chunk beforehand *)
RopeOf(i, rope) ==
  PrepareRope(IF call.kind = "prefill"
              THEN [position |-> Position(i), rotation |-> Rope(Position(i))]
              ELSE rope,
              Position(i))

StateMatches(state, i) ==
  /\ Len(state.keys[Layer]) = Len(state.values[Layer])
  /\ Len(state.keys[Layer]) = Position(i)

FullLayer ==
  /\ After("layer") /\ Layers[Layer] = "full"
  /\ buffers' = [buffers EXCEPT !.queries = Resize(@, Len(call.tokens)),
                                !.attended = Resize(@, Len(call.tokens))]
  /\ Go("append", Rows)
  /\ UNCHANGED <<states, ropes, logits, prompt, hidden, ghost, spent>>

(* the calling thread takes the rows in order *)
AppendRow(i) ==
  /\ ~Idle /\ call.phase = "append" /\ i \in call.pending
  /\ \A j \in call.pending : i <= j
  /\ LET t == Target(i)
         state == states[t]
         rope == RopeOf(i, ropes[t])
         x == Normalized("input", i)
     IN IF ~StateMatches(state, i) THEN Drop
        ELSE /\ ropes' = [ropes EXCEPT ![t] = rope]
             /\ buffers' = [buffers EXCEPT !.queries[i] = Query(Layer, rope.rotation, x)]
             /\ states' = [states EXCEPT ![t] =
                             [state EXCEPT
                               !.keys[Layer] = Append(@, Key(Layer, rope.rotation, x)),
                               !.values[Layer] = Append(@, Value(Layer, x))]]
             /\ call' = [call EXCEPT !.pending = @ \ {i}]
             /\ UNCHANGED <<logits, prompt, hidden, ghost, spent>>

AppendsDone ==
  /\ After("append")
  /\ Go("attend", Rows)
  /\ UNCHANGED <<states, ropes, logits, prompt, hidden, buffers, ghost, spent>>

(* Mutant of AttendRow: the whole cache, later tokens of the chunk included *)
AttendRowWhole(i) ==
  /\ Unit("attend", i)
  /\ LET state == states[Target(i)]
     IN buffers' = [buffers EXCEPT !.attended[i] =
                      Attend(buffers.queries[i], state.keys[Layer], state.values[Layer])]
  /\ UNCHANGED <<states, ropes, hidden>>

(* row i reads the prefix of its cache that ends at its own position *)
AttendRow(i) ==
  /\ Unit("attend", i)
  /\ LET state == states[Target(i)]
         history == Position(i) + 1
     IN buffers' = [buffers EXCEPT !.attended[i] =
                      Attend(buffers.queries[i],
                             SubSeq(state.keys[Layer], 1, history),
                             SubSeq(state.values[Layer], 1, history))]
  /\ UNCHANGED <<states, ropes, hidden>>

(* residual, and the input of the experts *)
AttentionDone(phase, output) ==
  /\ After(phase)
  /\ hidden' = [i \in Rows |-> Add(hidden[i], output[i])]
  /\ buffers' = [buffers EXCEPT
                   !.inputs = [i \in Rows |-> Norm("post", Layer, hidden'[i])]]
  /\ Go("route", {})
  /\ UNCHANGED <<states, ropes, logits, prompt, ghost, spent>>

FullDone == AttentionDone("attend", [i \in Rows |-> FullOutput(Layer, buffers.attended[i])])

-----------------------------------------------------------------------------
(* Linear attention of a decode: a task per sequence, then one unit per    *)
(* sequence and value head.  Buffers are row-major.                        *)

Units == 0 .. Len(call.tokens) * ValueHeads - 1
UnitRow(unit) == unit \div ValueHeads + 1
UnitHead(unit) == (unit % ValueHeads) + 1
Slot(i, b) == (i - 1) * Cardinality(Blocks) + b
Slice(buffer, width, i) == SubSeq(buffer, (i - 1) * width + 1, i * width)
ConvolvedRow(i) == Slice(buffers.convolved, Cardinality(Blocks), i)

ResizeLinear ==
  buffers' = [buffers EXCEPT
                !.inputs = [i \in Rows |-> Normalized("input", i)],
                !.convolved = Resize(@, Len(call.tokens) * Cardinality(Blocks)),
                !.recurrent = Resize(@, Len(call.tokens) * ValueHeads),
                !.normalized = Resize(@, Len(call.tokens) * ValueHeads)]

LinearLayer ==
  /\ After("layer") /\ Layers[Layer] = "linear" /\ call.kind = "decode"
  /\ ResizeLinear
  /\ Go("sequences", Rows)
  /\ UNCHANGED <<states, ropes, logits, prompt, hidden, ghost, spent>>

Sequence(i) ==
  /\ Unit("sequences", i)
  /\ LET x == buffers.inputs[i]
         state == states[i]
         history == Convolution(state.convolution[Layer])
     IN /\ buffers' = [buffers EXCEPT !.convolved =
                         [s \in DOMAIN @ |->
                            IF \E b \in Blocks : s = Slot(i, b)
                            THEN LET b == s - Slot(i, 0) IN Convolved(Layer, b, history[b], x)
                            ELSE @[s]]]
        /\ states' = [states EXCEPT ![i] =
             [state EXCEPT
               !.convolution[Layer] = [b \in Blocks |-> Shift(Layer, b, history[b], x)],
               !.recurrent[Layer] = Recurrent(@)]]
  /\ UNCHANGED <<ropes, hidden>>

SequencesDone ==
  /\ After("sequences")
  /\ Go("units", Units)
  /\ UNCHANGED <<states, ropes, logits, prompt, hidden, buffers, ghost, spent>>

HeadUnit(unit) ==
  /\ Unit("units", unit)
  /\ LET i == UnitRow(unit)
         h == UnitHead(unit)
         x == buffers.inputs[i]
         operands == DeltaOperands(Layer, h, states[i].recurrent[Layer][h],
                                   ConvolvedRow(i), Decay(Layer, h, x))
     IN /\ states' = [states EXCEPT ![i].recurrent[Layer][h] = NextBlock(operands)]
        /\ buffers' = [buffers EXCEPT
                         !.normalized[unit + 1] = Gated(Layer, h, HeadOutput(operands), x)]
  /\ UNCHANGED <<ropes, hidden>>

LinearDone ==
  /\ call.kind = "decode"
  /\ AttentionDone("units", [i \in Rows |->
                     LinearOutput(Layer, Slice(buffers.normalized, ValueHeads, i))])

-----------------------------------------------------------------------------
(* Linear attention of a prefill: the tokens share one state, so a worker  *)
(* owns a channel block, then a value head, and walks the tokens in order  *)

PrefillLayer ==
  /\ After("layer") /\ Layers[Layer] = "linear" /\ call.kind = "prefill"
  /\ ResizeLinear
  /\ LET state == states[Target(1)]
     IN states' = [states EXCEPT ![Target(1)] =
                    [state EXCEPT !.convolution[Layer] = Convolution(@),
                                  !.recurrent[Layer] = Recurrent(@)]]
  /\ Go("blocks", Blocks)
  /\ UNCHANGED <<ropes, logits, prompt, hidden, ghost, spent>>

(* the histories of channel block b before the first token and after each *)
Histories(b) ==
  LET history[i \in 0 .. Len(call.tokens)] ==
        IF i = 0 THEN states[Target(1)].convolution[Layer][b]
        ELSE Shift(Layer, b, history[i - 1], buffers.inputs[i])
  IN history

BlockWalk(b) ==
  /\ Unit("blocks", b)
  /\ states' = [states EXCEPT
                  ![Target(1)].convolution[Layer][b] = Histories(b)[Len(call.tokens)]]
  /\ buffers' = [buffers EXCEPT !.convolved =
                   [s \in DOMAIN @ |->
                      IF \E i \in Rows : s = Slot(i, b)
                      THEN LET i == CHOOSE i \in Rows : s = Slot(i, b)
                           IN Convolved(Layer, b, Histories(b)[i - 1], buffers.inputs[i])
                      ELSE @[s]]]
  /\ UNCHANGED <<ropes, hidden>>

BlocksDone ==
  /\ After("blocks")
  /\ Go("heads", Heads)
  /\ UNCHANGED <<states, ropes, logits, prompt, hidden, buffers, ghost, spent>>

TokenOperands(h, block, i) ==
  DeltaOperands(Layer, h, block, ConvolvedRow(i), Decay(Layer, h, buffers.inputs[i]))

(* value head h's state before the first token and after each *)
HeadStates(h) ==
  LET block[i \in 0 .. Len(call.tokens)] ==
        IF i = 0 THEN states[Target(1)].recurrent[Layer][h]
        ELSE NextBlock(TokenOperands(h, block[i - 1], i))
  IN block

HeadWalk(h) ==
  /\ Unit("heads", h)
  /\ states' = [states EXCEPT
                  ![Target(1)].recurrent[Layer][h] = HeadStates(h)[Len(call.tokens)]]
  /\ buffers' = [buffers EXCEPT !.recurrent =
                   [s \in DOMAIN @ |->
                      IF UnitHead(s - 1) = h
                      THEN LET i == UnitRow(s - 1)
                           IN HeadOutput(TokenOperands(h, HeadStates(h)[i - 1], i))
                      ELSE @[s]]]
  /\ UNCHANGED <<ropes, hidden>>

HeadsDone ==
  /\ After("heads")
  /\ Go("gates", Units)
  /\ UNCHANGED <<states, ropes, logits, prompt, hidden, buffers, ghost, spent>>

Gate(unit) ==
  /\ Unit("gates", unit)
  /\ buffers' = [buffers EXCEPT !.normalized[unit + 1] =
                   Gated(Layer, UnitHead(unit), buffers.recurrent[unit + 1],
                         buffers.inputs[UnitRow(unit)])]
  /\ UNCHANGED <<states, ropes, hidden>>

PrefillDone ==
  /\ call.kind = "prefill"
  /\ AttentionDone("gates", [i \in Rows |->
                     LinearOutput(Layer, Slice(buffers.normalized, ValueHeads, i))])

-----------------------------------------------------------------------------
(* The experts.  A counting sort gives every expert one contiguous range   *)
(* of positions; large ranges are split into tasks.                        *)

(* top_experts of every row *)
RowRoutes == [i \in Rows |-> Routes(Layer, buffers.inputs[i])]

(* (row, route) pairs in the order the sort visits them *)
Pairs(routes) == (DOMAIN routes) \X (1 .. RoutesPerToken)
Before(p, q) == p[1] < q[1] \/ (p[1] = q[1] /\ p[2] < q[2])
SentTo(routes, e) == {p \in Pairs(routes) : routes[p[1]][p[2]].expert = e}

Offset(routes, e) == Cardinality({p \in Pairs(routes) : routes[p[1]][p[2]].expert < e})

(* route_to_grouped, with positions from 1 *)
Grouped(routes, p) ==
  LET e == routes[p[1]][p[2]].expert
  IN Offset(routes, e) + Cardinality({q \in SentTo(routes, e) : Before(q, p)}) + 1

(* grouped_batch *)
GroupedRow(routes, position) ==
  (CHOOSE p \in Pairs(routes) : Grouped(routes, p) = position)[1]

Positions == 1 .. Len(call.tokens) * RoutesPerToken

(* the rows of one expert spread evenly over its chunks *)
Chunks(rows) == (rows + RowsPerTask - 1) \div RowsPerTask

(* Mutant of ChunkRows: full tasks, whatever is left *)
ChunkRowsFull(rows, chunk, placed) == RowsPerTask

ChunkRows(rows, chunk, placed) == (rows - placed) \div (Chunks(rows) - (chunk - 1))

Placed(rows) ==
  LET placed[chunk \in 0 .. Chunks(rows)] ==
        IF chunk = 0 THEN 0
        ELSE placed[chunk - 1] + ChunkRows(rows, chunk, placed[chunk - 1])
  IN placed

Tasks(routes) ==
  UNION {LET rows == Cardinality(SentTo(routes, e))
         IN {[expert |-> e,
              first |-> Offset(routes, e) + Placed(rows)[chunk - 1] + 1,
              last |-> Offset(routes, e) + Placed(rows)[chunk]] : chunk \in 1 .. Chunks(rows)}
         : e \in 1 .. Experts}

Route ==
  /\ After("route")
  /\ buffers' = [buffers EXCEPT !.gathered = Resize(@, Cardinality(Positions)),
                                !.projected = Resize(@, Cardinality(Positions))]
  /\ call' = [call EXCEPT !.phase = "gather", !.pending = Positions, !.routes = RowRoutes]
  /\ UNCHANGED <<states, ropes, logits, prompt, hidden, ghost, spent>>

Gather(position) ==
  /\ Unit("gather", position)
  /\ buffers' = [buffers EXCEPT !.gathered[position] =
                   buffers.inputs[GroupedRow(call.routes, position)]]
  /\ UNCHANGED <<states, ropes, hidden>>

GatherDone ==
  /\ After("gather")
  /\ Go("experts", Tasks(call.routes))
  /\ UNCHANGED <<states, ropes, logits, prompt, hidden, buffers, ghost, spent>>

ExpertTask(task) ==
  /\ Unit("experts", task)
  /\ buffers' = [buffers EXCEPT !.projected =
                   [position \in DOMAIN @ |->
                      IF position \in task.first .. task.last
                      THEN ExpertOutput(Layer, task.expert, buffers.gathered[position])
                      ELSE @[position]]]
  /\ UNCHANGED <<states, ropes, hidden>>

(* the sum of row i, in route order *)
Reduced(routes, i) ==
  WeightedSum(routes[i], [r \in 1 .. RoutesPerToken |->
                            buffers.projected[Grouped(routes, <<i, r>>)]])

Reduce ==
  /\ After("experts")
  /\ LET routes == call.routes
     IN hidden' = [i \in Rows |->
                     Add(hidden[i],
                         WithShared(Layer, buffers.inputs[i], Reduced(routes, i)))]
  /\ call' = [call EXCEPT !.phase = IF Layer = Len(Layers) THEN "head" ELSE "layer",
                          !.layer = IF Layer = Len(Layers) THEN @ ELSE @ + 1]
  /\ UNCHANGED <<states, ropes, logits, prompt, buffers, ghost, spent>>

-----------------------------------------------------------------------------
(* The end of a call *)

(* ghost: what decode_token would have given *)
Advance(at, tokens) == DecodeTokens(at.state, tokens)

DecodeDone ==
  /\ After("head") /\ call.kind = "decode"
  /\ states' = [i \in Rows |-> [states[i] EXCEPT !.position = @ + 1]]
  /\ logits' = [i \in Rows |-> Logits(hidden[i])]
  /\ ghost' = [i \in Rows |-> Advance(ghost[i], <<call.tokens[i]>>)]
  /\ call' = NoCall /\ hidden' = <<>>
  /\ UNCHANGED <<ropes, prompt, buffers, spent>>

(* a head chunk of the last token, when the logits were asked for *)
HeadOfPrefill ==
  /\ After("head") /\ call.kind = "prefill" /\ call.wanted
  /\ Len(logits[Target(1)]) < HeadChunks
  /\ LET final == Norm("final", 0, hidden[Len(call.tokens)])
         chunk == Len(logits[Target(1)]) + 1
     IN logits' = [logits EXCEPT ![Target(1)] = Append(@, HeadChunk(chunk, final))]
  /\ UNCHANGED <<states, ropes, prompt, call, hidden, buffers, ghost, spent>>

(* Mutant of PrefillReturns: a whole micro-batch, however short the chunk *)
PrefillReturnsFull ==
  /\ After("head") /\ call.kind = "prefill"
  /\ call.wanted => Len(logits[Target(1)]) = HeadChunks
  /\ states' = [states EXCEPT ![Target(1)].position = @ + PrefillUbatch]
  /\ ghost' = [ghost EXCEPT ![Target(1)] = Advance(@, call.tokens)]
  /\ prompt' = IF prompt.offset = Len(prompt.tokens) THEN NoPrompt ELSE prompt
  /\ call' = NoCall /\ hidden' = <<>>
  /\ UNCHANGED <<ropes, logits, buffers, spent>>

(* The chunk is done; after the last one the row is pushed back with a     *)
(* fresh scratch.                                                          *)
PrefillReturns ==
  /\ After("head") /\ call.kind = "prefill"
  /\ call.wanted => Len(logits[Target(1)]) = HeadChunks
  /\ states' = [states EXCEPT ![Target(1)].position = @ + Len(call.tokens)]
  /\ ghost' = [ghost EXCEPT ![Target(1)] = Advance(@, call.tokens)]
  /\ IF prompt.offset = Len(prompt.tokens)
     THEN prompt' = NoPrompt /\ ropes' = [ropes EXCEPT ![Target(1)] = NoRope]
     ELSE UNCHANGED <<prompt, ropes>>
  /\ call' = NoCall /\ hidden' = <<>>
  /\ UNCHANGED <<logits, buffers, spent>>

(* the bounds are spent and every sequence has ended *)
Stopped == Idle /\ states = <<>> /\ spent.admissions = MaxAdmissions /\ UNCHANGED vars

Next ==
  \/ \E p \in Prompts : Admit(p)
  \/ Prefill \/ DecodeBatch \/ ContextExhausted \/ \E i \in DOMAIN states : Leave(i)
  \/ AllocationFails \/ Cancelled
  \/ FullLayer \/ AppendsDone \/ LinearLayer \/ PrefillLayer
  \/ \E i \in 1 .. Len(hidden) : AppendRow(i) \/ AttendRow(i) \/ Sequence(i)
  \/ \E b \in Blocks : BlockWalk(b)
  \/ \E h \in Heads : HeadWalk(h)
  \/ (~Idle /\ \E unit \in call.pending : HeadUnit(unit) \/ Gate(unit) \/ Gather(unit) \/ ExpertTask(unit))
  \/ FullDone \/ SequencesDone \/ LinearDone
  \/ BlocksDone \/ HeadsDone \/ PrefillDone
  \/ Route \/ GatherDone \/ Reduce
  \/ DecodeDone \/ HeadOfPrefill \/ PrefillReturns
  \/ Stopped

Spec == Init /\ [][Next]_vars

-----------------------------------------------------------------------------
(* Properties *)

(* A row's state and logits are those of decode_token, one token after     *)
(* another, whatever rows it was batched with, however its prompt was cut  *)
(* and in whatever order the workers took the units.                       *)
BatchIsTokenByToken ==
  Idle => \A i \in DOMAIN states :
            /\ states[i] = ghost[i].state
            /\ ~(Admitting /\ i = Len(states)) => logits[i] = ghost[i].logits

(* The tasks of a layer write every grouped row exactly once, each with    *)
(* the rows of its own expert, and none is larger than a task may be.      *)
ExpertTasksPartitionRows ==
  ~Idle /\ call.phase = "experts" =>
    LET routes == call.routes
        all == Tasks(routes)
    IN /\ call.pending \subseteq all
       /\ \A position \in Positions :
            Cardinality({t \in all : position \in t.first .. t.last}) = 1
       /\ \A p \in Pairs(routes) : \E t \in all :
            /\ Grouped(routes, p) \in t.first .. t.last
            /\ t.expert = routes[p[1]][p[2]].expert
       /\ \A t \in all : t.last - t.first + 1 \in 1 .. RowsPerTask

(* When a row is appended its caches hold the tokens before it, so that the *)
(* check full_attention_forward_batch makes of every row never fails.      *)
CachesMatchPositions ==
  ~Idle /\ call.phase = "append" =>
    \A i \in call.pending :
      (\A j \in call.pending : i <= j) => StateMatches(states[Target(i)], i)

(* Between calls every layer of every row has consumed exactly `position'  *)
(* tokens: no state a failed or cancelled call has half advanced survives. *)
StatesAreWhole ==
  Idle => \A i \in DOMAIN states : \A l \in DOMAIN Layers :
            IF Layers[l] = "full"
            THEN /\ Len(states[i].keys[l]) = states[i].position
                 /\ Len(states[i].values[l]) = states[i].position
            ELSE (states[i].convolution[l] = <<>>) <=> (states[i].position = 0)
=============================================================================
