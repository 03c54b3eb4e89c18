----------------------------- MODULE DecodeToken -----------------------------
(***************************************************************************)
(* One token through the decoder (src/executor.cpp), one row at a time:    *)
(* moe_forward, full_attention_forward, linear_attention_forward,          *)
(* decode_layer and decode_token.  Arithmetic is uninterpreted: every      *)
(* kernel is Kernel(name, operands), so two results are equal only when    *)
(* the same kernels were applied to the same operands in the same order.   *)
(* Module Executor runs the same layers for many rows at once.             *)
(***************************************************************************)
EXTENDS Integers, Sequences, FiniteSets, SequencesExt

CONSTANTS
  Layers,           \* sequence of "full" and "linear"
  KeyHeads,         \* query/key heads of a linear layer (16 in the code)
  ValueHeads,       \* value heads of a linear layer (32)
  Experts,          \* experts of a layer (config.experts)
  RoutesPerToken,   \* experts a token is sent to (8)
  HeadChunks,       \* parts the vocabulary head is split into (8)
  Kernel(_, _)      \* name of a kernel, operands -> Nat

ASSUME GeometryAssumption ==
  /\ Layers \in Seq({"full", "linear"}) \ {<<>>}   \* 40 of them, checked by the loader
  /\ KeyHeads \in Nat \ {0} /\ ValueHeads \in Nat \ {0}
  /\ ValueHeads % KeyHeads = 0             \* gated_delta_key_head
  /\ Experts \in Nat /\ RoutesPerToken \in 1 .. Experts   \* top_experts
  /\ HeadChunks \in Nat \ {0}

-----------------------------------------------------------------------------
(* What a sequence keeps.  A linear layer's buffers are empty until the    *)
(* first token; `zero' is then assigned to every element.                  *)

zero == 0

(* head-sized channel blocks: queries, keys, values, back to back *)
Blocks == 1 .. 2 * KeyHeads + ValueHeads
Heads == 1 .. ValueHeads

NewState ==
  [position |-> 0,
   keys |-> [l \in DOMAIN Layers |-> <<>>],
   values |-> [l \in DOMAIN Layers |-> <<>>],
   convolution |-> [l \in DOMAIN Layers |-> <<>>],
   recurrent |-> [l \in DOMAIN Layers |-> <<>>]]

Convolution(buffer) ==
  IF buffer = <<>> THEN [b \in Blocks |-> <<zero, zero, zero>>] ELSE buffer

Recurrent(buffer) ==
  IF buffer = <<>> THEN [h \in Heads |-> zero] ELSE buffer

Norm(kind, l, x) == Kernel("norm " \o kind, <<l, x>>)
Add(x, y) == Kernel("add", <<x, y>>)

-----------------------------------------------------------------------------
(* Mixture of experts *)

Better(logits, e, f) ==
  \/ logits[e] > logits[f]
  \/ logits[e] = logits[f] /\ e < f

(* the experts an expert comes after when they are sorted *)
Ahead(logits, e) == {f \in DOMAIN logits : Better(logits, f, e)}

TopExperts(logits) ==
  LET chosen == [r \in 1 .. RoutesPerToken |->
                   CHOOSE e \in DOMAIN logits : Cardinality(Ahead(logits, e)) = r - 1]
      selected == [r \in DOMAIN chosen |-> logits[chosen[r]]]
  IN [r \in DOMAIN chosen |->
        [expert |-> chosen[r],
         weight |-> Kernel("softmax", <<selected[r]>> \o selected)]]

Routes(l, x) == TopExperts([e \in 1 .. Experts |-> Kernel("router", <<l, e, x>>)])

ExpertOutput(l, e, x) == Kernel("expert", <<l, e, x>>)

(* the shared expert is added after the routed ones *)
WithShared(l, x, routed) ==
  Add(routed, Kernel("shared", <<l, x, Kernel("shared gate", <<l, x>>)>>))

Accumulate(sum, weight, projected) == Kernel("multiply add", <<sum, weight, projected>>)

(* the experts' outputs, added up in the order of a token's routes *)
WeightedSum(routes, outputs) ==
  FoldLeft(LAMBDA sum, r : Accumulate(sum, routes[r].weight, outputs[r]),
           zero, [r \in 1 .. RoutesPerToken |-> r])

MoeForward(l, x) ==
  LET routes == Routes(l, x)
  IN WithShared(l, x, WeightedSum(routes, [r \in 1 .. RoutesPerToken |->
                                             ExpertOutput(l, routes[r].expert, x)]))

-----------------------------------------------------------------------------
(* Full attention: queries and keys carry the rotation of their position *)

Rope(position) == Kernel("rope", <<position>>)
Query(l, rope, x) == Kernel("query", <<l, rope, x>>)
Key(l, rope, x) == Kernel("key", <<l, rope, x>>)
Value(l, x) == Kernel("value", <<l, x>>)
Attend(query, keys, values) == Kernel("attend", <<query>> \o keys \o values)
FullOutput(l, attended) == Kernel("full output", <<l, attended>>)

FullAttentionForward(l, state, x) ==
  LET rope == Rope(state.position)
      keys == Append(state.keys[l], Key(l, rope, x))
      values == Append(state.values[l], Value(l, x))
  IN [state |-> [state EXCEPT !.keys[l] = keys, !.values[l] = values],
      output |-> FullOutput(l, Attend(Query(l, rope, x), keys, values))]

-----------------------------------------------------------------------------
(* Linear attention: a causal convolution of width four per channel, then  *)
(* the gated delta recurrence per value head                               *)

Qkv(l, b, x) == Kernel("qkv", <<l, b, x>>)

(* one channel block; queries and keys are normalised afterwards *)
Convolved(l, b, history, x) ==
  LET value == Kernel("convolution", <<l, b>> \o history \o <<Qkv(l, b, x)>>)
  IN IF b <= 2 * KeyHeads THEN Kernel("l2 norm", <<value>>) ELSE value

Shift(l, b, history, x) == <<history[2], history[3], Qkv(l, b, x)>>

KeyHead(h) == (h - 1) \div (ValueHeads \div KeyHeads) + 1

Decay(l, h, x) == Kernel("decay", <<l, h, x>>)

(* operands of head h's recurrence: state block, q, k, v, alpha and beta *)
DeltaOperands(l, h, block, convolved, decay) ==
  <<l, h, block, convolved[KeyHead(h)], convolved[KeyHeads + KeyHead(h)],
    convolved[2 * KeyHeads + h], decay>>

NextBlock(operands) == Kernel("delta state", operands)
HeadOutput(operands) == Kernel("delta output", operands)
Gated(l, h, output, x) == Kernel("gate", <<l, h, output, x>>)
LinearOutput(l, normalized) == Kernel("linear output", <<l>> \o normalized)

LinearAttentionForward(l, state, x) ==
  LET history == Convolution(state.convolution[l])
      convolved == [b \in Blocks |-> Convolved(l, b, history[b], x)]
      recurrent == Recurrent(state.recurrent[l])
      operands == [h \in Heads |->
                     DeltaOperands(l, h, recurrent[h], convolved, Decay(l, h, x))]
      normalized == [h \in Heads |-> Gated(l, h, HeadOutput(operands[h]), x)]
  IN [state |-> [state EXCEPT
                   !.convolution[l] = [b \in Blocks |-> Shift(l, b, history[b], x)],
                   !.recurrent[l] = [h \in Heads |-> NextBlock(operands[h])]],
      output |-> LinearOutput(l, normalized)]

-----------------------------------------------------------------------------
(* A token *)

Embedding(token) == Kernel("embedding", <<token>>)

DecodeLayer(l, at) ==
  LET normalized == Norm("input", l, at.hidden)
      attention == IF Layers[l] = "full"
                   THEN FullAttentionForward(l, at.state, normalized)
                   ELSE LinearAttentionForward(l, at.state, normalized)
      attended == Add(at.hidden, attention.output)
  IN [state |-> attention.state,
      hidden |-> Add(attended, MoeForward(l, Norm("post", l, attended)))]

(* the state and the hidden vector after each layer *)
Layered(state, token) ==
  LET at[l \in 0 .. Len(Layers)] ==
        IF l = 0 THEN [state |-> state, hidden |-> Embedding(token)]
        ELSE DecodeLayer(l, at[l - 1])
  IN at

HeadChunk(chunk, normalized) == Kernel("head", <<chunk, normalized>>)

Logits(hidden) ==
  [chunk \in 1 .. HeadChunks |-> HeadChunk(chunk, Norm("final", 0, hidden))]

(* decode_token: the new state and the logits of the token *)
DecodeToken(state, token) ==
  LET through == Layered(state, token)[Len(Layers)]
  IN [state |-> [through.state EXCEPT !.position = @ + 1],
      logits |-> Logits(through.hidden)]

(* the same after each of some tokens *)
Tokenwise(state, tokens) ==
  LET at[n \in 0 .. Len(tokens)] ==
        IF n = 0 THEN [state |-> state, logits |-> <<>>]
        ELSE DecodeToken(at[n - 1].state, tokens[n])
  IN at

DecodeTokens(state, tokens) == Tokenwise(state, tokens)[Len(tokens)]
=============================================================================
