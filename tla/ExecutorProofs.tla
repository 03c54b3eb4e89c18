---------------------------- MODULE ExecutorProofs ----------------------------
(***************************************************************************)
(* Proofs about module Executor, for any layers, prompts, chunk size and   *)
(* number of rows, and any kernels.                                        *)
(*                                                                         *)
(* Between calls the states of the rows are whole.  In a call they are     *)
(* not: the layers behind the one that runs have consumed the tokens of    *)
(* the call, those ahead have not, and the one that runs has consumed      *)
(* them for the rows its phase has been through.  `Consumed' counts them,  *)
(* and the invariant is StatesAreWhole with that count added to the        *)
(* positions, which the call itself writes only when its last layer is     *)
(* through.                                                                *)
(*                                                                         *)
(* What is in the states is the second half.  decode_token, applied to     *)
(* the state a row had before the call, gives the state after each of its  *)
(* tokens and the hidden vector after each layer; TokenInv says, for every *)
(* phase, which of these the rows, the hidden vectors and the buffers hold *)
(* and which a unit that is left has still to write.  At the head of a     *)
(* call that is decode_token's result, and between calls nothing else.     *)
(***************************************************************************)
EXTENDS Executor, FiniteSetTheorems, SequenceTheorems, WellFoundedInduction, TLAPS

-----------------------------------------------------------------------------
(* The shape of the variables.  The values kernels give are arbitrary.     *)

IsSequence(s) == s \in Seq({s[i] : i \in DOMAIN s})

StateFields == {"position", "keys", "values", "convolution", "recurrent"}

IsState(s) ==
  /\ DOMAIN s = StateFields
  /\ s.position \in Nat
  /\ DOMAIN s.keys = DOMAIN Layers
  /\ DOMAIN s.values = DOMAIN Layers
  /\ DOMAIN s.convolution = DOMAIN Layers
  /\ \A l \in DOMAIN Layers :
       /\ IsSequence(s.keys[l]) /\ IsSequence(s.values[l])
       /\ s.convolution[l] = <<>> \/ DOMAIN s.convolution[l] = Blocks

StatesOK == IsSequence(states) /\ \A i \in DOMAIN states : IsState(states[i])

CallFields ==
  {"kind", "tokens", "positions", "wanted", "layer", "phase", "pending", "routes"}
FullPhases == {"append", "attend"}
DecodePhases == {"sequences", "units"}
PrefillPhases == {"blocks", "heads", "gates"}
AnyPhases == {"layer", "route", "gather", "experts", "head"}

(* The positions of a decode are those of its rows, the positions of a      *)
(* prefill follow that of the last row.                                     *)
PositionsOK ==
  \A i \in Rows :
    Position(i) = states[Target(i)].position + (IF call.kind = "decode" THEN 0 ELSE i - 1)

PhaseOK ==
  /\ call.phase \in FullPhases \cup DecodePhases \cup PrefillPhases \cup AnyPhases
  /\ call.phase \in FullPhases => Layers[Layer] = "full"
  /\ call.phase \in DecodePhases => Layers[Layer] = "linear" /\ call.kind = "decode"
  /\ call.phase \in PrefillPhases => Layers[Layer] = "linear" /\ call.kind = "prefill"
  /\ call.phase = "head" => Layer = Len(Layers)

(* the rows are appended in order: those left are the last ones *)
PendingOK ==
  /\ call.phase = "sequences" => call.pending \subseteq Rows
  /\ call.phase = "append" =>
       \E k \in 0 .. Len(call.tokens) : call.pending = (k + 1) .. Len(call.tokens)

CallOK ==
  ~Idle =>
    /\ DOMAIN call = CallFields
    /\ call.kind \in {"decode", "prefill"}
    /\ Len(call.tokens) \in Nat \ {0}
    /\ call.kind = "decode" => ~Admitting /\ Len(states) = Len(call.tokens)
    /\ call.kind = "prefill" => Admitting /\ states # <<>>
    /\ Layer \in DOMAIN Layers
    /\ PhaseOK /\ PendingOK /\ PositionsOK

PromptOK ==
  /\ Admitting => /\ prompt.tokens \in Seq(Tokens) /\ DOMAIN prompt = {"tokens", "offset"}
                  /\ prompt.offset \in 0 .. Len(prompt.tokens)
  /\ Admitting /\ Idle => prompt.offset # Len(prompt.tokens) /\ states # <<>>

(* tokens of call c that layer l of row i, of n, has consumed *)
Consumed(c, n, i, l) ==
  IF c = NoCall \/ (c.kind = "prefill" /\ i # n) \/ l > c.layer
     \/ (l = c.layer /\ c.phase = "layer")
  THEN 0
  ELSE IF l = c.layer /\ c.phase \in {"append", "sequences"}
  THEN IF c.kind = "decode" THEN IF i \in c.pending THEN 0 ELSE 1
                            ELSE Cardinality((1 .. Len(c.tokens)) \ c.pending)
  ELSE IF c.kind = "decode" THEN 1 ELSE Len(c.tokens)

LayerIsWhole(s, l, consumed) ==
  IF Layers[l] = "full"
  THEN /\ Len(s.keys[l]) = s.position + consumed
       /\ Len(s.values[l]) = s.position + consumed
  ELSE (s.convolution[l] = <<>>) <=> (s.position + consumed = 0)

(* the inductive invariant *)
RowsAdvance ==
  \A i \in DOMAIN states : \A l \in DOMAIN Layers :
    LayerIsWhole(states[i], l, Consumed(call, Len(states), i, l))

IInv == StatesOK /\ CallOK /\ PromptOK /\ RowsAdvance

-----------------------------------------------------------------------------
(* Sequences of anything *)

LEMMA SequenceOfAny ==
  ASSUME NEW S, NEW s \in Seq(S)
  PROVE  IsSequence(s)
<1>1. s \in [1 .. Len(s) -> S] /\ Len(s) \in Nat /\ DOMAIN s = 1 .. Len(s)
  OBVIOUS
<1>2. s \in [1 .. Len(s) -> {s[i] : i \in DOMAIN s}]
  BY <1>1
<1> QED  BY <1>1, <1>2, SeqDef DEF IsSequence

LEMMA SequenceFacts ==
  ASSUME NEW s, IsSequence(s)
  PROVE  /\ Len(s) \in Nat /\ DOMAIN s = 1 .. Len(s)
         /\ s = <<>> <=> Len(s) = 0
BY DEF IsSequence

LEMMA SequenceAppend ==
  ASSUME NEW s, IsSequence(s), NEW x
  PROVE  /\ IsSequence(Append(s, x)) /\ Len(Append(s, x)) = Len(s) + 1
         /\ Append(s, x)[Len(s) + 1] = x
         /\ \A i \in DOMAIN s : Append(s, x)[i] = s[i]
<1> DEFINE S == {s[i] : i \in DOMAIN s} \cup {x}
<1>1. s \in Seq(S)
  BY DEF IsSequence
<1>2. Append(s, x) \in Seq(S) /\ Len(Append(s, x)) = Len(s) + 1
  BY <1>1
<1>3. /\ Append(s, x)[Len(s) + 1] = x
      /\ \A i \in DOMAIN s : Append(s, x)[i] = s[i]
  BY <1>1
<1> QED  BY <1>2, <1>3, SequenceOfAny

LEMMA SequenceCut ==
  ASSUME NEW s, IsSequence(s), NEW n \in 0 .. Len(s)
  PROVE  /\ IsSequence(SubSeq(s, 1, n)) /\ Len(SubSeq(s, 1, n)) = n
         /\ \A i \in 1 .. n : SubSeq(s, 1, n)[i] = s[i]
<1> DEFINE S == {s[i] : i \in DOMAIN s}
<1>1. s \in Seq(S)
  BY DEF IsSequence
<1>2. SubSeq(s, 1, n) \in Seq(S) /\ Len(SubSeq(s, 1, n)) = n
  BY <1>1
<1>3. \A i \in 1 .. n : SubSeq(s, 1, n)[i] = s[i]
  BY <1>1
<1> QED  BY <1>2, <1>3, SequenceOfAny

LEMMA SequenceWithout ==
  ASSUME NEW s, IsSequence(s), NEW n \in DOMAIN s
  PROVE  /\ IsSequence(Without(s, n))
         /\ \A i \in DOMAIN Without(s, n) :
              \E j \in DOMAIN s : Without(s, n)[i] = s[j]
<1> DEFINE S == {s[i] : i \in DOMAIN s}
           before == SubSeq(s, 1, n - 1)
           after == SubSeq(s, n + 1, Len(s))
<1>1. s \in Seq(S) /\ n \in 1 .. Len(s)
  BY DEF IsSequence
<1>2. before \in Seq(S) /\ after \in Seq(S)
  BY <1>1
<1>3. before \o after \in Seq(S)
  BY <1>2
<1>4. \A i \in DOMAIN (before \o after) : (before \o after)[i] \in S
  BY SMTT(60), <1>3
<1> QED  BY <1>3, <1>4, SequenceOfAny DEF Without

LEMMA SequenceExcept ==
  ASSUME NEW s, IsSequence(s), NEW n \in DOMAIN s, NEW x
  PROVE  /\ IsSequence([s EXCEPT ![n] = x]) /\ Len([s EXCEPT ![n] = x]) = Len(s)
         /\ [s EXCEPT ![n] = x][n] = x
         /\ \A i \in DOMAIN s : i # n => [s EXCEPT ![n] = x][i] = s[i]
<1> DEFINE S == {s[i] : i \in DOMAIN s} \cup {x}
<1>1. s \in Seq(S) /\ n \in 1 .. Len(s)
  BY DEF IsSequence
<1>2. [s EXCEPT ![n] = x] \in Seq(S) /\ Len([s EXCEPT ![n] = x]) = Len(s)
  BY <1>1
<1> QED  BY <1>1, <1>2, SequenceOfAny

-----------------------------------------------------------------------------
(* Calls *)

LEMMA LayersFacts ==
  /\ DOMAIN Layers = 1 .. Len(Layers) /\ Len(Layers) \in Nat \ {0}
  /\ \A l \in DOMAIN Layers : Layers[l] \in {"full", "linear"}
BY GeometryAssumption

LEMMA BlocksFacts == 1 \in Blocks
BY GeometryAssumption DEF Blocks

(* what is known inside a call *)
LEMMA InCall ==
  ASSUME IInv, ~Idle
  PROVE  /\ DOMAIN call = CallFields
         /\ call # NoCall
         /\ call.kind \in {"decode", "prefill"}
         /\ Len(call.tokens) \in Nat \ {0}
         /\ call.layer \in 1 .. Len(Layers)
         /\ Len(states) \in Nat \ {0} /\ DOMAIN states = 1 .. Len(states)
         /\ call.kind = "decode" => Len(states) = Len(call.tokens)
         /\ \A i \in Rows : Target(i) \in DOMAIN states
         /\ PhaseOK /\ PendingOK /\ PositionsOK
<1>1. IsSequence(states)
  BY DEF IInv, StatesOK
<1>2. Len(states) \in Nat /\ DOMAIN states = 1 .. Len(states) /\ (states = <<>> <=> Len(states) = 0)
  BY <1>1, SequenceFacts
<1>3. CallOK
  BY DEF IInv
<1> QED  BY <1>2, <1>3, LayersFacts DEF CallOK, Idle, Layer, Rows, Target

(* A step inside a call that keeps its tokens and the positions of the rows *)
LEMMA CallStep ==
  ASSUME IInv, ~Idle, prompt' = prompt,
         DOMAIN call' = CallFields, call'.kind = call.kind, call'.tokens = call.tokens,
         call'.positions = call.positions, call'.layer \in DOMAIN Layers,
         IsSequence(states'), Len(states') = Len(states),
         \A i \in DOMAIN states : states'[i].position = states[i].position,
         PhaseOK', PendingOK'
  PROVE  ~Idle' /\ CallOK' /\ PromptOK'
<1>1. ~Idle'
  BY InCall DEF Idle, NoCall, CallFields
<1>2. PositionsOK'
  BY InCall DEF PositionsOK, Rows, Target, Position
<1>3. states' # <<>>
  BY InCall, SequenceFacts
<1>4. CallOK'
  BY <1>1, <1>2, <1>3, InCall DEF CallOK, IInv, Layer, Admitting
<1>5. PromptOK'
  BY <1>1 DEF PromptOK, IInv, Admitting
<1> QED  BY <1>1, <1>4, <1>5

(* one that changes no state, and moves no layer of any row *)
LEMMA QuietStep ==
  ASSUME IInv, ~Idle, prompt' = prompt, states' = states,
         DOMAIN call' = CallFields, call'.kind = call.kind, call'.tokens = call.tokens,
         call'.positions = call.positions, call'.layer \in DOMAIN Layers,
         PhaseOK', PendingOK',
         \A i \in DOMAIN states : \A l \in DOMAIN Layers :
           Consumed(call', Len(states), i, l) = Consumed(call, Len(states), i, l)
  PROVE  IInv'
<1>1. StatesOK'
  BY DEF IInv, StatesOK
<1>2. CallOK' /\ PromptOK'
  BY CallStep, <1>1 DEF StatesOK
<1>3. RowsAdvance'
  BY DEF IInv, RowsAdvance
<1> QED  BY <1>1, <1>2, <1>3 DEF IInv

(* the phases in which the layer that runs has consumed every token *)
ConsumedPhases ==
  {"attend", "units", "blocks", "heads", "gates", "route", "gather", "experts", "head"}

LEMMA GoConsumed ==
  ASSUME IInv, ~Idle, NEW phase, NEW pending, Go(phase, pending),
         call.phase \in ConsumedPhases, phase \in ConsumedPhases,
         prompt' = prompt, states' = states, PhaseOK'
  PROVE  IInv'
<1>1. /\ DOMAIN call' = CallFields /\ call'.kind = call.kind /\ call'.tokens = call.tokens
      /\ call'.positions = call.positions /\ call'.layer = call.layer
      /\ call'.phase = phase
  BY InCall DEF Go, CallFields
<1>2. PendingOK'
  BY <1>1 DEF PendingOK, ConsumedPhases
<1>3. call' # NoCall
  BY <1>1 DEF NoCall, CallFields
<1>4. \A i \in DOMAIN states : \A l \in DOMAIN Layers :
        Consumed(call', Len(states), i, l) = Consumed(call, Len(states), i, l)
  BY <1>1, <1>3, InCall DEF Consumed, ConsumedPhases
<1> QED  BY <1>1, <1>2, <1>4, InCall, LayersFacts, QuietStep
LEMMA UnitConsumed ==
  ASSUME IInv, ~Idle, NEW phase \in ConsumedPhases, NEW u, Unit(phase, u)
  PROVE  /\ DOMAIN call' = CallFields /\ call'.kind = call.kind /\ call'.tokens = call.tokens
         /\ call'.positions = call.positions /\ call'.layer = call.layer
         /\ call'.phase = call.phase /\ prompt' = prompt
         /\ PhaseOK' /\ PendingOK'
         /\ \A i \in DOMAIN states : \A l \in DOMAIN Layers :
              Consumed(call', Len(states), i, l) = Consumed(call, Len(states), i, l)
<1>1. /\ DOMAIN call' = CallFields /\ call'.kind = call.kind /\ call'.tokens = call.tokens
      /\ call'.positions = call.positions /\ call'.layer = call.layer
      /\ call'.phase = call.phase /\ prompt' = prompt
      /\ call.phase = phase
  BY InCall DEF Unit, CallFields
<1>2. PendingOK' /\ PhaseOK'
  BY <1>1, InCall DEF PendingOK, PhaseOK, ConsumedPhases, Layer
<1>3. call' # NoCall
  BY <1>1 DEF NoCall, CallFields
<1>4. \A i \in DOMAIN states : \A l \in DOMAIN Layers :
        Consumed(call', Len(states), i, l) = Consumed(call, Len(states), i, l)
  BY <1>1, <1>3, InCall DEF Consumed, ConsumedPhases
<1> QED  BY <1>1, <1>2, <1>4

(* One row gets another state.  The layers of the others stay as they are. *)
LEMMA StateStep ==
  ASSUME IInv, ~Idle, prompt' = prompt,
         DOMAIN call' = CallFields, call'.kind = call.kind, call'.tokens = call.tokens,
         call'.positions = call.positions, call'.layer \in DOMAIN Layers,
         PhaseOK', PendingOK',
         NEW t \in DOMAIN states, NEW s, states' = [states EXCEPT ![t] = s],
         IsState(s), s.position = states[t].position,
         \A l \in DOMAIN Layers : LayerIsWhole(s, l, Consumed(call', Len(states), t, l)),
         \A i \in DOMAIN states \ {t} : \A l \in DOMAIN Layers :
           Consumed(call', Len(states), i, l) = Consumed(call, Len(states), i, l)
  PROVE  IInv'
<1>1. /\ IsSequence(states') /\ Len(states') = Len(states) /\ states'[t] = s
      /\ \A i \in DOMAIN states : i # t => states'[i] = states[i]
      /\ DOMAIN states' = DOMAIN states
  <2>1. IsSequence(states)
    BY DEF IInv, StatesOK
  <2>2. /\ IsSequence([states EXCEPT ![t] = s]) /\ Len([states EXCEPT ![t] = s]) = Len(states)
        /\ [states EXCEPT ![t] = s][t] = s
        /\ \A i \in DOMAIN states : i # t => [states EXCEPT ![t] = s][i] = states[i]
    <3> HIDE DEF IsSequence
    <3> QED  BY <2>1, SequenceExcept, Zenon
  <2> QED  BY <2>2
<1>2. StatesOK'
  BY <1>1 DEF IInv, StatesOK
<1>3. CallOK' /\ PromptOK'
  BY <1>1, CallStep
<1>4. RowsAdvance'
  BY <1>1 DEF IInv, RowsAdvance
<1> QED  BY <1>2, <1>3, <1>4 DEF IInv

-----------------------------------------------------------------------------
(* The actions inside a call *)

LEMMA QuietUnits ==
  ASSUME IInv, ~Idle, NEW u,
         AttendRow(u) \/ Gate(u) \/ Gather(u) \/ ExpertTask(u)
  PROVE  IInv'
<1>1. PICK phase \in ConsumedPhases : Unit(phase, u)
  BY DEF AttendRow, Gate, Gather, ExpertTask, ConsumedPhases
<1>2. states' = states
  BY DEF AttendRow, Gate, Gather, ExpertTask
<1> QED  BY <1>1, <1>2, UnitConsumed, InCall, LayersFacts, QuietStep

(* a unit that leaves a row's caches and convolution as whole as they were *)
LEMMA RowUnit ==
  ASSUME IInv, ~Idle, NEW phase \in ConsumedPhases, NEW u, Unit(phase, u),
         NEW t \in DOMAIN states, NEW s, states' = [states EXCEPT ![t] = s],
         DOMAIN s = StateFields, s.position = states[t].position,
         s.keys = states[t].keys, s.values = states[t].values,
         DOMAIN s.convolution = DOMAIN Layers,
         \A l \in DOMAIN Layers :
           /\ s.convolution[l] = <<>> <=> states[t].convolution[l] = <<>>
           /\ s.convolution[l] = <<>> \/ DOMAIN s.convolution[l] = Blocks
  PROVE  IInv'
<1>1. IsState(states[t])
  BY DEF IInv, StatesOK
<1>3. IsState(s)
  BY <1>1 DEF IsState
<1>4. \A l \in DOMAIN Layers : LayerIsWhole(s, l, Consumed(call', Len(states), t, l))
  BY UnitConsumed DEF IInv, RowsAdvance, LayerIsWhole
<1> QED  BY <1>3, <1>4, UnitConsumed, InCall, LayersFacts, StateStep

LEMMA HeadUnitKeeps ==
  ASSUME IInv, ~Idle, NEW u, HeadUnit(u)
  PROVE  IInv'
<1> DEFINE i == UnitRow(u)
           h == UnitHead(u)
           operands == DeltaOperands(Layer, h, states[i].recurrent[Layer][h], ConvolvedRow(i),
                                     Decay(Layer, h, buffers.inputs[i]))
           s == [states[i] EXCEPT !.recurrent[Layer][h] = NextBlock(operands)]
<1>1. "units" \in ConsumedPhases /\ Unit("units", u)
  BY DEF HeadUnit, ConsumedPhases
<1>2. states' = [states EXCEPT ![i] = s]
  BY DEF HeadUnit
<1>3. CASE i \in DOMAIN states
  <2>1. IsState(states[i])
    BY <1>3 DEF IInv, StatesOK
  <2>2. /\ DOMAIN s = StateFields /\ s.position = states[i].position
        /\ s.keys = states[i].keys /\ s.values = states[i].values
        /\ s.convolution = states[i].convolution
    BY <2>1 DEF IsState, StateFields
  <2> HIDE DEF s, i
  <2>3. /\ DOMAIN s.convolution = DOMAIN Layers
        /\ \A l \in DOMAIN Layers :
             /\ s.convolution[l] = <<>> <=> states[i].convolution[l] = <<>>
             /\ s.convolution[l] = <<>> \/ DOMAIN s.convolution[l] = Blocks
    BY <2>1, <2>2 DEF IsState
  <2> QED  BY <1>1, <1>2, <1>3, <2>2, <2>3, RowUnit
<1>4. CASE i \notin DOMAIN states
  <2>1. states' = states
    BY <1>2, <1>4, SequenceFacts DEF IInv, StatesOK, IsSequence
  <2> QED  BY <1>1, <2>1, UnitConsumed, InCall, LayersFacts, QuietStep
<1> QED  BY <1>3, <1>4

LEMMA HeadWalkKeeps ==
  ASSUME IInv, ~Idle, NEW h, HeadWalk(h)
  PROVE  IInv'
<1> DEFINE t == Target(1)
           s == [states[t] EXCEPT !.recurrent[Layer][h] = HeadStates(h)[Len(call.tokens)]]
<1>1. "heads" \in ConsumedPhases /\ Unit("heads", h)
  BY DEF HeadWalk, ConsumedPhases
<1>2. states' = [states EXCEPT ![t] = s]
  BY DEF HeadWalk
<1>3. t \in DOMAIN states
  BY InCall DEF Rows
<1>4. IsState(states[t])
  BY <1>3 DEF IInv, StatesOK
<1>5. /\ DOMAIN s = StateFields /\ s.position = states[t].position
      /\ s.keys = states[t].keys /\ s.values = states[t].values
      /\ s.convolution = states[t].convolution
  BY <1>4 DEF IsState, StateFields
<1> HIDE DEF s, t
<1>6. /\ DOMAIN s.convolution = DOMAIN Layers
      /\ \A l \in DOMAIN Layers :
           /\ s.convolution[l] = <<>> <=> states[t].convolution[l] = <<>>
           /\ s.convolution[l] = <<>> \/ DOMAIN s.convolution[l] = Blocks
  BY <1>4, <1>5 DEF IsState
<1> QED  BY <1>1, <1>2, <1>3, <1>5, <1>6, RowUnit

(* the block's history is set in a convolution that the layer has made *)
LEMMA BlockWalkKeeps ==
  ASSUME IInv, ~Idle, NEW b, BlockWalk(b)
  PROVE  IInv'
<1> DEFINE t == Target(1)
           s == [states[t] EXCEPT !.convolution[Layer][b] = Histories(b)[Len(call.tokens)]]
<1>1. "blocks" \in ConsumedPhases /\ Unit("blocks", b) /\ call.phase = "blocks"
  BY DEF BlockWalk, ConsumedPhases, Unit
<1>2. states' = [states EXCEPT ![t] = s]
  BY DEF BlockWalk
<1>3. t \in DOMAIN states
  BY InCall DEF Rows
<1>4. IsState(states[t])
  BY <1>3 DEF IInv, StatesOK
<1>5. Layer \in DOMAIN Layers /\ Layers[Layer] = "linear" /\ call.kind = "prefill"
  BY <1>1, InCall, LayersFacts DEF PhaseOK, PrefillPhases, Layer
<1>6. states[t].convolution[Layer] # <<>>
  <2>1. LayerIsWhole(states[t], Layer, Consumed(call, Len(states), t, Layer))
    BY <1>3, <1>5 DEF IInv, RowsAdvance
  <2>2. Consumed(call, Len(states), t, Layer) = Len(call.tokens)
    BY <1>1, <1>5, InCall DEF Consumed, Layer, Target
  <2> QED  BY <1>4, <1>5, <2>1, <2>2, InCall DEF LayerIsWhole, IsState
<1>7. /\ DOMAIN s = StateFields /\ s.position = states[t].position
      /\ s.keys = states[t].keys /\ s.values = states[t].values
      /\ DOMAIN s.convolution = DOMAIN Layers
      /\ DOMAIN s.convolution[Layer] = DOMAIN states[t].convolution[Layer]
      /\ \A l \in DOMAIN Layers : l # Layer => s.convolution[l] = states[t].convolution[l]
  BY <1>4, <1>5 DEF IsState, StateFields
<1> HIDE DEF s, t
<1>8. \A l \in DOMAIN Layers :
        /\ s.convolution[l] = <<>> <=> states[t].convolution[l] = <<>>
        /\ s.convolution[l] = <<>> \/ DOMAIN s.convolution[l] = Blocks
  BY <1>4, <1>6, <1>7, BlocksFacts DEF IsState
<1>9. /\ DOMAIN s = StateFields /\ s.position = states[t].position
      /\ s.keys = states[t].keys /\ s.values = states[t].values
      /\ DOMAIN s.convolution = DOMAIN Layers
  BY <1>7
<1> QED  BY <1>1, <1>2, <1>3, <1>8, <1>9, RowUnit
(* the calling thread goes on when a phase of the experts or of linear      *)
(* attention is through                                                     *)
LEMMA QuietPhases ==
  ASSUME IInv, BlocksDone \/ HeadsDone \/ GatherDone \/ FullDone \/ LinearDone \/ PrefillDone
  PROVE  IInv'
<1>1. CASE BlocksDone
  <2>1. Go("heads", Heads) /\ ~Idle /\ call.phase = "blocks" /\ prompt' = prompt /\ states' = states
    BY <1>1 DEF BlocksDone, After
  <2>2. PhaseOK'
    BY <2>1, InCall DEF Go, PhaseOK, PrefillPhases, FullPhases, DecodePhases, AnyPhases, CallFields, Layer
  <2> QED  BY <2>1, <2>2, GoConsumed DEF ConsumedPhases
<1>2. CASE HeadsDone
  <2>1. Go("gates", Units) /\ ~Idle /\ call.phase = "heads" /\ prompt' = prompt /\ states' = states
    BY <1>2 DEF HeadsDone, After
  <2>2. PhaseOK'
    BY <2>1, InCall DEF Go, PhaseOK, PrefillPhases, FullPhases, DecodePhases, AnyPhases, CallFields, Layer
  <2> QED  BY <2>1, <2>2, GoConsumed DEF ConsumedPhases
<1>3. CASE GatherDone
  <2>1. Go("experts", Tasks(call.routes)) /\ ~Idle /\ call.phase = "gather" /\ prompt' = prompt /\ states' = states
    BY <1>3 DEF GatherDone, After
  <2>2. PhaseOK'
    BY <2>1, InCall DEF Go, PhaseOK, PrefillPhases, FullPhases, DecodePhases, AnyPhases, CallFields, Layer
  <2> QED  BY <2>1, <2>2, GoConsumed DEF ConsumedPhases
<1>4. ASSUME NEW phase \in {"attend", "units", "gates"}, NEW output, AttentionDone(phase, output)
      PROVE  IInv'
  <2>1. Go("route", {}) /\ ~Idle /\ call.phase = phase /\ prompt' = prompt /\ states' = states
    BY <1>4 DEF AttentionDone, After
  <2>2. PhaseOK'
    BY <2>1, InCall DEF Go, PhaseOK, PrefillPhases, FullPhases, DecodePhases, AnyPhases, CallFields, Layer
  <2> QED  BY <2>1, <2>2, GoConsumed DEF ConsumedPhases
<1>5. CASE FullDone
  BY <1>4, <1>5 DEF FullDone
<1>6. CASE LinearDone
  BY <1>4, <1>6 DEF LinearDone
<1>7. CASE PrefillDone
  BY <1>4, <1>7 DEF PrefillDone
<1> QED  BY <1>1, <1>2, <1>3, <1>5, <1>6, <1>7

LEMMA RouteKeeps ==
  ASSUME IInv, Route
  PROVE  IInv'
<1>1. /\ ~Idle /\ call.phase = "route" /\ prompt' = prompt /\ states' = states
      /\ call' = [call EXCEPT !.phase = "gather", !.pending = Positions, !.routes = RowRoutes]
  BY DEF Route, After
<1>2. /\ DOMAIN call' = CallFields /\ call'.kind = call.kind /\ call'.tokens = call.tokens
      /\ call'.positions = call.positions /\ call'.layer = call.layer
      /\ call'.phase = "gather"
  BY <1>1, InCall DEF CallFields
<1>3. PendingOK' /\ PhaseOK'
  BY <1>2, InCall
     DEF PendingOK, PhaseOK, PrefillPhases, FullPhases, DecodePhases, AnyPhases, Layer
<1>4. call' # NoCall
  BY <1>2 DEF NoCall, CallFields
<1>5. \A i \in DOMAIN states : \A l \in DOMAIN Layers :
        Consumed(call', Len(states), i, l) = Consumed(call, Len(states), i, l)
  BY <1>1, <1>2, <1>4, InCall DEF Consumed
<1> QED  BY <1>1, <1>2, <1>3, <1>5, InCall, LayersFacts, QuietStep

(* The layer is through: the next one has consumed nothing yet. *)
LEMMA ReduceKeeps ==
  ASSUME IInv, Reduce
  PROVE  IInv'
<1>1. /\ ~Idle /\ call.phase = "experts" /\ prompt' = prompt /\ states' = states
      /\ call' = [call EXCEPT !.phase = IF Layer = Len(Layers) THEN "head" ELSE "layer",
                              !.layer = IF Layer = Len(Layers) THEN @ ELSE @ + 1]
  BY DEF Reduce, After
<1>2. /\ DOMAIN call' = CallFields /\ call'.kind = call.kind /\ call'.tokens = call.tokens
      /\ call'.positions = call.positions
      /\ call'.layer = (IF call.layer = Len(Layers) THEN call.layer ELSE call.layer + 1)
      /\ call'.phase = (IF call.layer = Len(Layers) THEN "head" ELSE "layer")
  BY <1>1, InCall DEF CallFields, Layer
<1>3. PendingOK' /\ PhaseOK' /\ call'.layer \in DOMAIN Layers
  <2>1. call'.layer \in DOMAIN Layers
    BY <1>1, <1>2, InCall, LayersFacts
  <2>2. PhaseOK'
    BY <1>2 DEF PhaseOK, PrefillPhases, FullPhases, DecodePhases, AnyPhases, Layer
  <2>3. PendingOK'
    BY <1>2 DEF PendingOK
  <2> QED  BY <2>1, <2>2, <2>3
<1>4. call' # NoCall
  BY <1>2 DEF NoCall, CallFields
<1>5. \A i \in DOMAIN states : \A l \in DOMAIN Layers :
        Consumed(call', Len(states), i, l) = Consumed(call, Len(states), i, l)
  BY <1>1, <1>2, <1>4, InCall, LayersFacts DEF Consumed
<1> QED  BY <1>1, <1>2, <1>3, <1>5, QuietStep

LEMMA CardinalityOfRows ==
  ASSUME NEW n \in Nat
  PROVE  Cardinality(1 .. n) = n
BY FS_Interval

(* A layer begins, and has consumed nothing yet *)
LEMMA LayerBegins ==
  ASSUME IInv, FullLayer \/ LinearLayer
  PROVE  IInv'
<1>1. PICK phase \in {"append", "sequences"} :
        /\ Go(phase, Rows) /\ ~Idle /\ call.phase = "layer" /\ prompt' = prompt /\ states' = states
        /\ phase = "append" => Layers[Layer] = "full"
        /\ phase = "sequences" => Layers[Layer] = "linear" /\ call.kind = "decode"
  BY DEF FullLayer, LinearLayer, After
<1>2. /\ DOMAIN call' = CallFields /\ call'.kind = call.kind /\ call'.tokens = call.tokens
      /\ call'.positions = call.positions /\ call'.layer = call.layer
      /\ call'.phase = phase /\ call'.pending = 1 .. Len(call.tokens)
  BY <1>1, InCall DEF Go, CallFields, Rows
<1>3. PendingOK' /\ PhaseOK'
  <2>1. PhaseOK'
    BY <1>1, <1>2, InCall DEF PhaseOK, PrefillPhases, FullPhases, DecodePhases, AnyPhases, Layer
  <2>2. 0 \in 0 .. Len(call.tokens) /\ call'.pending = (0 + 1) .. Len(call.tokens)
    BY <1>2, InCall
  <2> QED  BY <1>2, <2>1, <2>2 DEF PendingOK, Rows
<1>4. call' # NoCall
  BY <1>2 DEF NoCall, CallFields
<1>5. Cardinality((1 .. Len(call.tokens)) \ call'.pending) = 0
  BY <1>2, FS_EmptySet
<1>6. \A i \in DOMAIN states : \A l \in DOMAIN Layers :
        Consumed(call', Len(states), i, l) = Consumed(call, Len(states), i, l)
  BY <1>1, <1>2, <1>4, <1>5, InCall DEF Consumed
<1> QED  BY <1>1, <1>2, <1>3, <1>6, InCall, LayersFacts, QuietStep

(* every row is through the phase *)
LEMMA RowsDone ==
  ASSUME IInv, AppendsDone \/ SequencesDone
  PROVE  IInv'
<1>1. PICK phase \in {"attend", "units"}, pending \in {Rows, Units} :
        /\ Go(phase, pending) /\ ~Idle /\ prompt' = prompt /\ states' = states
        /\ call.phase = IF phase = "attend" THEN "append" ELSE "sequences"
        /\ call.pending = {}
  BY DEF AppendsDone, SequencesDone, After
<1>2. /\ DOMAIN call' = CallFields /\ call'.kind = call.kind /\ call'.tokens = call.tokens
      /\ call'.positions = call.positions /\ call'.layer = call.layer
      /\ call'.phase = phase
  BY <1>1, InCall DEF Go, CallFields
<1>3. PendingOK' /\ PhaseOK'
  BY <1>1, <1>2, InCall
     DEF PendingOK, PhaseOK, PrefillPhases, FullPhases, DecodePhases, AnyPhases, Layer
<1>4. call' # NoCall
  BY <1>2 DEF NoCall, CallFields
<1>5. Cardinality((1 .. Len(call.tokens)) \ call.pending) = Len(call.tokens)
  <2>1. (1 .. Len(call.tokens)) \ call.pending = 1 .. Len(call.tokens)
    BY <1>1
  <2>2. Len(call.tokens) \in Nat
    BY <1>1, InCall
  <2>3. Cardinality(1 .. Len(call.tokens)) = Len(call.tokens)
    BY <2>2, CardinalityOfRows
  <2> QED  BY <2>1, <2>3
<1>6. \A i \in DOMAIN states : \A l \in DOMAIN Layers :
        Consumed(call', Len(states), i, l) = Consumed(call, Len(states), i, l)
  BY <1>1, <1>2, <1>4, <1>5, InCall DEF Consumed
<1> QED  BY <1>1, <1>2, <1>3, <1>6, InCall, LayersFacts, QuietStep
(* A row is appended: the first of those that are left, at the end of its   *)
(* target's caches, which hold every token before it.                       *)
LEMMA AppendsInOrder ==
  ASSUME IInv, ~Idle, call.phase = "append", NEW i \in call.pending,
         \A j \in call.pending : i <= j
  PROVE  /\ i \in Rows /\ Layer \in DOMAIN Layers /\ Layers[Layer] = "full"
         /\ call.pending = i .. Len(call.tokens)
         /\ call.pending \ {i} = (i + 1) .. Len(call.tokens)
         /\ StateMatches(states[Target(i)], i)
<1>1. PICK k \in 0 .. Len(call.tokens) : call.pending = (k + 1) .. Len(call.tokens)
  BY InCall DEF PendingOK
<1>2. i = k + 1 /\ i \in 1 .. Len(call.tokens)
  BY <1>1, InCall
<1>3. Layer \in DOMAIN Layers /\ Layers[Layer] = "full"
  BY InCall, LayersFacts DEF PhaseOK, FullPhases, Layer
<1>4. Target(i) \in DOMAIN states
  BY <1>2, InCall DEF Rows
<1>5. Consumed(call, Len(states), Target(i), Layer) = IF call.kind = "decode" THEN 0 ELSE k
  <2>1. CASE call.kind = "decode"
    BY <2>1, InCall DEF Consumed, Layer, Target
  <2>2. CASE call.kind # "decode"
    <3>1. (1 .. Len(call.tokens)) \ call.pending = 1 .. k
      BY <1>1, InCall
    <3>2. Cardinality(1 .. k) = k
      BY <1>1, CardinalityOfRows
    <3>3. /\ call # NoCall /\ call.kind = "prefill" /\ ~(Layer > call.layer)
          /\ Target(i) = Len(states)
      BY <2>2, InCall DEF Layer, Target
    <3> QED  BY <3>1, <3>2, <3>3 DEF Consumed, Layer
  <2> QED  BY <2>1, <2>2
<1>6. LayerIsWhole(states[Target(i)], Layer, Consumed(call, Len(states), Target(i), Layer))
  BY <1>3, <1>4 DEF IInv, RowsAdvance
<1>7. Position(i) = states[Target(i)].position + (IF call.kind = "decode" THEN 0 ELSE i - 1)
  BY <1>2, InCall DEF PositionsOK, Rows
<1>8. StateMatches(states[Target(i)], i)
  BY <1>2, <1>3, <1>5, <1>6, <1>7, InCall DEF StateMatches, LayerIsWhole
<1> QED  BY <1>1, <1>2, <1>3, <1>8, InCall DEF Rows

LEMMA AppendRowKeeps ==
  ASSUME IInv, NEW i, AppendRow(i)
  PROVE  IInv'
<1> DEFINE t == Target(i)
           key == Key(Layer, RopeOf(i, ropes[t]).rotation, Normalized("input", i))
           value == Value(Layer, Normalized("input", i))
           s == [states[t] EXCEPT !.keys[Layer] = Append(@, key),
                                  !.values[Layer] = Append(@, value)]
<1>1. /\ ~Idle /\ call.phase = "append" /\ i \in call.pending
      /\ \A j \in call.pending : i <= j
  BY DEF AppendRow
<1>2. /\ i \in Rows /\ Layer \in DOMAIN Layers /\ Layers[Layer] = "full"
      /\ call.pending = i .. Len(call.tokens)
      /\ call.pending \ {i} = (i + 1) .. Len(call.tokens)
      /\ StateMatches(states[t], i)
  BY <1>1, AppendsInOrder
<1>3. /\ states' = [states EXCEPT ![t] = s] /\ prompt' = prompt
      /\ call' = [call EXCEPT !.pending = @ \ {i}]
  <2> USE <1>2 DEF AppendRow
  <2>1. states' = [states EXCEPT ![t] = s]
    BY Zenon
  <2>2. prompt' = prompt
    BY Zenon
  <2>3. call' = [call EXCEPT !.pending = @ \ {i}]
    BY Zenon
  <2> QED  BY <2>1, <2>2, <2>3
<1>4. t \in DOMAIN states /\ IsState(states[t])
  BY <1>1, <1>2, InCall DEF IInv, StatesOK
<1>5. /\ DOMAIN call' = CallFields /\ call'.kind = call.kind /\ call'.tokens = call.tokens
      /\ call'.positions = call.positions /\ call'.layer = call.layer
      /\ call'.phase = call.phase /\ call'.pending = (i + 1) .. Len(call.tokens)
  BY <1>1, <1>2, <1>3, InCall DEF CallFields
<1>6. PhaseOK' /\ PendingOK'
  BY <1>1, <1>2, <1>5, InCall DEF PendingOK, PhaseOK, Layer, Rows
<1>7. /\ DOMAIN s = StateFields /\ s.position = states[t].position
      /\ s.convolution = states[t].convolution
      /\ DOMAIN s.keys = DOMAIN Layers /\ DOMAIN s.values = DOMAIN Layers
      /\ s.keys[Layer] = Append(states[t].keys[Layer], key)
      /\ s.values[Layer] = Append(states[t].values[Layer], value)
      /\ \A l \in DOMAIN Layers : l # Layer =>
           s.keys[l] = states[t].keys[l] /\ s.values[l] = states[t].values[l]
  BY <1>2, <1>4 DEF IsState, StateFields
<1> HIDE DEF s, key, value
<1>8. /\ IsSequence(s.keys[Layer]) /\ Len(s.keys[Layer]) = Len(states[t].keys[Layer]) + 1
      /\ IsSequence(s.values[Layer]) /\ Len(s.values[Layer]) = Len(states[t].values[Layer]) + 1
  BY <1>2, <1>4, <1>7, SequenceAppend DEF IsState
<1>9. IsState(s)
  BY <1>4, <1>7, <1>8 DEF IsState
<1>10. call' # NoCall /\ call # NoCall
  BY <1>1, <1>5 DEF NoCall, CallFields, Idle
<1>11. \A r \in DOMAIN states : \A l \in DOMAIN Layers :
         r # t \/ l # Layer => Consumed(call', Len(states), r, l) = Consumed(call, Len(states), r, l)
  BY <1>1, <1>2, <1>5, <1>10, InCall DEF Consumed, Layer, Target
<1>12. \A l \in DOMAIN Layers : LayerIsWhole(s, l, Consumed(call', Len(states), t, l))
  <2>1. ASSUME NEW l \in DOMAIN Layers, l # Layer
        PROVE  LayerIsWhole(s, l, Consumed(call', Len(states), t, l))
    BY <1>4, <1>7, <1>11, <2>1 DEF IInv, RowsAdvance, LayerIsWhole
  <2>2. Consumed(call', Len(states), t, Layer) = IF call.kind = "decode" THEN 1 ELSE i
    <3>1. CASE call.kind = "decode"
      BY <1>1, <1>2, <1>5, <1>10, <3>1, InCall DEF Consumed, Layer, Target, Rows
    <3>2. CASE call.kind # "decode"
      <4>1. (1 .. Len(call.tokens)) \ call'.pending = 1 .. i /\ i \in Nat
        BY <1>1, <1>2, <1>5, InCall DEF Rows
      <4>2. Cardinality(1 .. i) = i
        BY <4>1, CardinalityOfRows
      <4>3. /\ call'.kind = "prefill" /\ ~(Layer > call'.layer) /\ t = Len(states)
            /\ call'.layer = Layer
        BY <1>1, <1>5, <3>2, InCall DEF Layer, Target
      <4> QED  BY <1>1, <1>5, <1>10, <3>2, <4>1, <4>2, <4>3 DEF Consumed
    <3> QED  BY <3>1, <3>2
  <2>3. LayerIsWhole(s, Layer, Consumed(call', Len(states), t, Layer))
    <3>1. Position(i) = states[t].position + (IF call.kind = "decode" THEN 0 ELSE i - 1)
      BY <1>1, <1>2, InCall DEF PositionsOK
    <3>2. i \in Nat /\ states[t].position \in Nat
      BY <1>1, <1>2, <1>4, InCall DEF Rows, IsState
    <3> QED  BY <1>2, <1>7, <1>8, <2>2, <3>1, <3>2 DEF LayerIsWhole, StateMatches
  <2> QED  BY <2>1, <2>3
<1>13. s.position = states[t].position /\ call'.layer \in DOMAIN Layers
  BY <1>1, <1>5, <1>7, InCall, LayersFacts
<1>14. \A r \in DOMAIN states \ {t} : \A l \in DOMAIN Layers :
         Consumed(call', Len(states), r, l) = Consumed(call, Len(states), r, l)
  BY <1>11
<1> HIDE DEF t
<1> QED  BY <1>1, <1>3, <1>4, <1>5, <1>6, <1>9, <1>12, <1>13, <1>14, StateStep
LEMMA SequenceKeeps ==
  ASSUME IInv, ~Idle, NEW i, Sequence(i)
  PROVE  IInv'
<1> DEFINE history == Convolution(states[i].convolution[Layer])
           shifted == [b \in Blocks |-> Shift(Layer, b, history[b], buffers.inputs[i])]
           s == [states[i] EXCEPT !.convolution[Layer] = shifted,
                                  !.recurrent[Layer] = Recurrent(@)]
<1>1. /\ call.phase = "sequences" /\ i \in call.pending /\ prompt' = prompt
      /\ call' = [call EXCEPT !.pending = @ \ {i}]
  BY DEF Sequence, Unit
<1>2. states' = [states EXCEPT ![i] = s]
  BY Zenon DEF Sequence
<1>3. Layer \in DOMAIN Layers /\ Layers[Layer] = "linear" /\ call.kind = "decode"
  BY <1>1, InCall, LayersFacts DEF PhaseOK, DecodePhases, Layer
<1>4. i \in DOMAIN states /\ IsState(states[i])
  BY <1>1, <1>3, InCall DEF IInv, StatesOK, PendingOK, Rows
<1>5. /\ DOMAIN call' = CallFields /\ call'.kind = call.kind /\ call'.tokens = call.tokens
      /\ call'.positions = call.positions /\ call'.layer = call.layer
      /\ call'.phase = call.phase /\ call'.pending = call.pending \ {i}
  BY <1>1, InCall DEF CallFields
<1>6. PhaseOK' /\ PendingOK'
  BY <1>1, <1>5, InCall DEF PendingOK, PhaseOK, Layer, Rows
<1>7. DOMAIN shifted = Blocks /\ shifted # <<>>
  BY BlocksFacts
<1> HIDE DEF shifted
<1>8. /\ DOMAIN s = StateFields /\ s.position = states[i].position
      /\ s.keys = states[i].keys /\ s.values = states[i].values
      /\ DOMAIN s.convolution = DOMAIN Layers /\ s.convolution[Layer] = shifted
      /\ \A l \in DOMAIN Layers : l # Layer => s.convolution[l] = states[i].convolution[l]
  BY <1>3, <1>4 DEF IsState, StateFields
<1> HIDE DEF s
<1>9. IsState(s)
  BY <1>4, <1>7, <1>8 DEF IsState
<1>10. call' # NoCall /\ call # NoCall
  BY <1>5 DEF NoCall, CallFields, Idle
<1>11. \A r \in DOMAIN states : \A l \in DOMAIN Layers :
         r # i \/ l # Layer => Consumed(call', Len(states), r, l) = Consumed(call, Len(states), r, l)
  BY <1>1, <1>3, <1>5, <1>10, InCall DEF Consumed, Layer
<1>12. \A l \in DOMAIN Layers : LayerIsWhole(s, l, Consumed(call', Len(states), i, l))
  <2>1. ASSUME NEW l \in DOMAIN Layers, l # Layer
        PROVE  LayerIsWhole(s, l, Consumed(call', Len(states), i, l))
    BY <1>4, <1>8, <1>11, <2>1 DEF IInv, RowsAdvance, LayerIsWhole
  <2>2. Consumed(call', Len(states), i, Layer) = 1
    BY <1>1, <1>3, <1>5, <1>10, InCall DEF Consumed, Layer
  <2>3. LayerIsWhole(s, Layer, 1)
    BY <1>3, <1>4, <1>7, <1>8 DEF LayerIsWhole, IsState
  <2> QED  BY <2>1, <2>2, <2>3
<1>13. call'.layer \in DOMAIN Layers
  BY <1>3, <1>5 DEF Layer
<1>14. \A r \in DOMAIN states \ {i} : \A l \in DOMAIN Layers :
         Consumed(call', Len(states), r, l) = Consumed(call, Len(states), r, l)
  BY <1>11
<1> QED  BY <1>1, <1>2, <1>4, <1>5, <1>6, <1>8, <1>9, <1>12, <1>13, <1>14, StateStep

(* The chunk's state gets its buffers, before any block has walked: from    *)
(* here on the layer counts as through, for only its emptiness is counted.  *)
LEMMA PrefillLayerKeeps ==
  ASSUME IInv, PrefillLayer
  PROVE  IInv'
<1> DEFINE t == Target(1)
           made == Convolution(states[t].convolution[Layer])
           s == [states[t] EXCEPT !.convolution[Layer] = Convolution(@),
                                  !.recurrent[Layer] = Recurrent(@)]
<1>1. /\ ~Idle /\ call.phase = "layer" /\ Layers[Layer] = "linear" /\ call.kind = "prefill"
      /\ prompt' = prompt /\ Go("blocks", Blocks)
  BY DEF PrefillLayer, After
<1>2. states' = [states EXCEPT ![t] = s]
  BY Zenon DEF PrefillLayer
<1>3. Layer \in DOMAIN Layers
  BY <1>1, InCall, LayersFacts DEF Layer
<1>4. t \in DOMAIN states /\ IsState(states[t]) /\ t = Len(states)
  BY <1>1, InCall DEF IInv, StatesOK, Rows, Target
<1>5. /\ DOMAIN call' = CallFields /\ call'.kind = call.kind /\ call'.tokens = call.tokens
      /\ call'.positions = call.positions /\ call'.layer = call.layer
      /\ call'.phase = "blocks"
  BY <1>1, InCall DEF Go, CallFields
<1>6. PhaseOK' /\ PendingOK'
  BY <1>1, <1>5, InCall
     DEF PendingOK, PhaseOK, PrefillPhases, FullPhases, DecodePhases, AnyPhases, Layer
<1>7. DOMAIN made = Blocks /\ made # <<>>
  BY <1>3, <1>4, BlocksFacts DEF Convolution, IsState
<1>8. /\ DOMAIN s = StateFields /\ s.position = states[t].position
      /\ s.keys = states[t].keys /\ s.values = states[t].values
      /\ DOMAIN s.convolution = DOMAIN Layers /\ s.convolution[Layer] = made
      /\ \A l \in DOMAIN Layers : l # Layer => s.convolution[l] = states[t].convolution[l]
  BY <1>3, <1>4 DEF IsState, StateFields
<1> HIDE DEF s, made
<1>9. IsState(s)
  BY <1>4, <1>7, <1>8 DEF IsState
<1>10. call' # NoCall /\ call # NoCall
  BY <1>1, <1>5 DEF NoCall, CallFields, Idle
<1>11. \A r \in DOMAIN states : \A l \in DOMAIN Layers :
         r # t \/ l # Layer => Consumed(call', Len(states), r, l) = Consumed(call, Len(states), r, l)
  BY <1>1, <1>4, <1>5, <1>10, InCall DEF Consumed, Layer
<1>12. \A l \in DOMAIN Layers : LayerIsWhole(s, l, Consumed(call', Len(states), t, l))
  <2>1. ASSUME NEW l \in DOMAIN Layers, l # Layer
        PROVE  LayerIsWhole(s, l, Consumed(call', Len(states), t, l))
    BY <1>4, <1>8, <1>11, <2>1 DEF IInv, RowsAdvance, LayerIsWhole
  <2>2. Consumed(call', Len(states), t, Layer) = Len(call.tokens)
    BY <1>1, <1>4, <1>5, <1>10, InCall DEF Consumed, Layer
  <2>3. LayerIsWhole(s, Layer, Len(call.tokens))
    BY <1>1, <1>4, <1>7, <1>8, InCall DEF LayerIsWhole, IsState
  <2> QED  BY <2>1, <2>2, <2>3
<1>13. call'.layer \in DOMAIN Layers
  BY <1>3, <1>5 DEF Layer
<1>14. \A r \in DOMAIN states \ {t} : \A l \in DOMAIN Layers :
         Consumed(call', Len(states), r, l) = Consumed(call, Len(states), r, l)
  BY <1>11
<1> HIDE DEF t
<1> QED  BY <1>1, <1>2, <1>4, <1>5, <1>6, <1>8, <1>9, <1>12, <1>13, <1>14, StateStep

-----------------------------------------------------------------------------
(* The actions that begin and end calls *)

(* Between calls the invariant is the property. *)
LEMMA WholeBetweenCalls ==
  ASSUME IInv
  PROVE  StatesAreWhole
<1> SUFFICES ASSUME Idle  PROVE StatesAreWhole
  BY DEF StatesAreWhole
<1>1. \A i \in DOMAIN states : \A l \in DOMAIN Layers :
        Consumed(call, Len(states), i, l) = 0
  BY DEF Consumed, Idle
<1>2. \A i \in DOMAIN states : states[i].position \in Nat
  BY DEF IInv, StatesOK, IsState
<1> QED  BY <1>1, <1>2 DEF IInv, RowsAdvance, StatesAreWhole, LayerIsWhole

(* a state of a row is whole by itself *)
IsWhole(s) == \A l \in DOMAIN Layers : LayerIsWhole(s, l, 0)

LEMMA NewStateIsWhole ==
  IsState(NewState) /\ IsWhole(NewState)
<1>1. IsSequence(<<>>)
  BY <<>> \in Seq({}), SequenceOfAny
<1> QED  BY <1>1 DEF NewState, IsState, IsWhole, LayerIsWhole, StateFields

(* what the end of a call must leave *)
LEMMA WholeRows ==
  ASSUME Idle', PromptOK', IsSequence(states'),
         \A i \in DOMAIN states' : IsState(states'[i]) /\ IsWhole(states'[i])
  PROVE  IInv'
<1>1. StatesOK' /\ CallOK'
  BY DEF StatesOK, CallOK
<1>2. \A i \in DOMAIN states' : \A l \in DOMAIN Layers :
        Consumed(call', Len(states'), i, l) = 0
  BY DEF Consumed, Idle
<1>3. RowsAdvance'
  BY <1>2 DEF RowsAdvance, IsWhole
<1> QED  BY <1>1, <1>3 DEF IInv

(* a row no call is working on is whole *)
LEMMA UntouchedRow ==
  ASSUME IInv, NEW i \in DOMAIN states,
         Idle \/ (call.kind = "prefill" /\ i # Len(states))
  PROVE  IsState(states[i]) /\ IsWhole(states[i])
<1>1. \A l \in DOMAIN Layers : Consumed(call, Len(states), i, l) = 0
  BY DEF Consumed, Idle
<1> QED  BY <1>1 DEF IInv, StatesOK, RowsAdvance, IsWhole

LEMMA InitOK == Init => IInv
<1> SUFFICES ASSUME Init  PROVE IInv
  OBVIOUS
<1>1. states = <<>> /\ Idle /\ ~Admitting
  BY DEF Init, Idle, Admitting
<1>2. IsSequence(<<>>)
  BY <<>> \in Seq({}), SequenceOfAny
<1>3. DOMAIN <<>> = {}
  OBVIOUS
<1> QED  BY <1>1, <1>2, <1>3 DEF IInv, StatesOK, CallOK, PromptOK, RowsAdvance

LEMMA AdmitKeeps ==
  ASSUME IInv, NEW p \in Prompts, Admit(p)
  PROVE  IInv'
<1>1. /\ Idle /\ states' = Append(states, NewState) /\ call' = call
      /\ prompt' = [tokens |-> p, offset |-> 0]
  BY DEF Admit
<1>2. /\ IsSequence(states') /\ Len(states') = Len(states) + 1
      /\ states'[Len(states) + 1] = NewState
      /\ \A i \in DOMAIN states : states'[i] = states[i]
      /\ Len(states) \in Nat /\ DOMAIN states = 1 .. Len(states)
      /\ DOMAIN states' = 1 .. Len(states')
      /\ states' # <<>>
  BY <1>1, SequenceAppend, SequenceFacts DEF IInv, StatesOK
<1>3. p \in Seq(Tokens) /\ Len(p) # 0 /\ Len(p) \in Nat
  BY BatchAssumption
<1>4. PromptOK' /\ Idle'
  BY <1>1, <1>2, <1>3 DEF PromptOK, Idle
<1>5. ASSUME NEW i \in DOMAIN states'
      PROVE  IsState(states'[i]) /\ IsWhole(states'[i])
  <2>1. CASE i \in DOMAIN states
    BY <1>1, <1>2, <2>1, UntouchedRow
  <2>2. CASE i \notin DOMAIN states
    <3>1. i = Len(states) + 1
      BY <1>2, <2>2
    <3> QED  BY <1>2, <3>1, NewStateIsWhole
  <2> QED  BY <2>1, <2>2
<1> QED  BY <1>2, <1>4, <1>5, WholeRows

(* A call begins: its first layer has consumed nothing. *)
LEMMA CallBegins ==
  ASSUME IInv, Idle, states' = states,
         NEW kind \in {"decode", "prefill"}, NEW tokens, NEW positions, NEW wanted,
         Call(kind, tokens, positions, wanted),
         Len(tokens) \in Nat \ {0}, PromptOK',
         kind = "decode" => ~Admitting' /\ Len(states) = Len(tokens),
         kind = "prefill" => Admitting' /\ states # <<>>,
         \A i \in 1 .. Len(tokens) :
           positions[i] = IF kind = "decode" THEN states[i].position
                          ELSE states[Len(states)].position + (i - 1)
  PROVE  IInv'
<1>1. /\ DOMAIN call' = CallFields /\ call'.kind = kind /\ call'.tokens = tokens
      /\ call'.positions = positions /\ call'.layer = 1 /\ call'.phase = "layer"
  BY DEF Call, CallFields
<1>2. ~Idle' /\ call' # NoCall
  BY <1>1 DEF Idle, NoCall, CallFields
<1>3. 1 \in DOMAIN Layers
  BY LayersFacts
<1>4. PhaseOK' /\ PendingOK'
  BY <1>1 DEF PhaseOK, PendingOK, FullPhases, DecodePhases, PrefillPhases, AnyPhases
<1>5. PositionsOK'
  <2> SUFFICES ASSUME NEW i \in Rows'
               PROVE  Position(i)' = states'[Target(i)'].position
                                     + (IF call'.kind = "decode" THEN 0 ELSE i - 1)
    BY DEF PositionsOK
  <2>1. i \in 1 .. Len(tokens)
    BY <1>1 DEF Rows
  <2>2. kind = "decode" => i \in DOMAIN states
    BY <2>1, SequenceFacts DEF IInv, StatesOK
  <2>3. kind = "decode" => states[i].position \in Nat
    BY <2>2 DEF IInv, StatesOK, IsState
  <2> QED  BY <1>1, <2>1, <2>3 DEF Position, Target
<1>6. CallOK'
  BY <1>1, <1>3, <1>4, <1>5 DEF CallOK, Layer
<1>7. \A i \in DOMAIN states : \A l \in DOMAIN Layers :
        Consumed(call', Len(states), i, l) = Consumed(call, Len(states), i, l)
  BY <1>1, <1>2, LayersFacts DEF Consumed, Idle
<1>8. StatesOK' /\ RowsAdvance'
  BY <1>7 DEF IInv, StatesOK, RowsAdvance
<1> QED  BY <1>6, <1>8 DEF IInv

LEMMA SmallerOfTwo ==
  ASSUME NEW a \in Nat, NEW b \in Nat
  PROVE  Min({a, b}) = IF a <= b THEN a ELSE b
BY DEF Min

LEMMA PrefillKeeps ==
  ASSUME IInv, Prefill
  PROVE  IInv'
<1> DEFINE count == Min({PrefillUbatch, Len(prompt.tokens) - prompt.offset})
           chunk == SubSeq(prompt.tokens, prompt.offset + 1, prompt.offset + count)
           first == states[Len(states)].position
           positions == [i \in 1 .. count |-> first + i - 1]
           wanted == prompt.offset + count = Len(prompt.tokens)
<1>1. /\ Idle /\ Admitting /\ states' = states
      /\ prompt' = [prompt EXCEPT !.offset = @ + count]
      /\ Call("prefill", chunk, positions, wanted)
  BY DEF Prefill
<1>2. /\ prompt.tokens \in Seq(Tokens) /\ DOMAIN prompt = {"tokens", "offset"}
      /\ prompt.offset \in 0 .. Len(prompt.tokens) /\ prompt.offset # Len(prompt.tokens)
      /\ states # <<>>
  BY <1>1 DEF IInv, PromptOK
<1>3. /\ count \in Nat \ {0} /\ prompt.offset + count \in 1 .. Len(prompt.tokens)
  BY <1>2, SmallerOfTwo, BatchAssumption
<1> HIDE DEF count
<1>4. Len(chunk) = count
  BY <1>2, <1>3
<1>5. Len(states) \in DOMAIN states
  BY <1>2, SequenceFacts DEF IInv, StatesOK
<1>6. first \in Nat
  BY <1>5 DEF IInv, StatesOK, IsState
<1>7. \A i \in 1 .. count : positions[i] = first + (i - 1)
  BY <1>3, <1>6
<1>8. ~Idle' 
  BY <1>1 DEF Call, Idle, NoCall
<1>9. /\ prompt'.tokens = prompt.tokens /\ prompt'.offset = prompt.offset + count
      /\ DOMAIN prompt' = {"tokens", "offset"}
  BY <1>1, <1>2
<1>10. Admitting' /\ PromptOK'
  BY <1>2, <1>3, <1>8, <1>9 DEF PromptOK, Admitting, NoPrompt
<1> HIDE DEF chunk, positions, first, wanted
<1> QED  BY <1>1, <1>2, <1>3, <1>4, <1>7, <1>10, CallBegins DEF first
LEMMA DecodeBatchKeeps ==
  ASSUME IInv, DecodeBatch
  PROVE  IInv'
<1> DEFINE positions == [i \in DOMAIN states |-> states[i].position]
<1>1. /\ Idle /\ ~Admitting /\ states # <<>> /\ states' = states /\ prompt' = prompt
  BY DEF DecodeBatch
<1>2. PICK tokens \in [DOMAIN states -> Tokens] : Call("decode", tokens, positions, TRUE)
  BY DEF DecodeBatch
<1>3. Len(states) \in Nat \ {0} /\ DOMAIN states = 1 .. Len(states)
  BY <1>1, SequenceFacts DEF IInv, StatesOK
<1>4. Len(tokens) = Len(states)
  BY <1>3
<1>5. PromptOK' /\ ~Admitting'
  BY <1>1 DEF PromptOK, Admitting
<1>6. \A i \in 1 .. Len(tokens) : positions[i] = states[i].position
  BY <1>3, <1>4
<1> HIDE DEF positions
<1> QED  BY <1>1, <1>2, <1>3, <1>4, <1>5, <1>6, CallBegins

LEMMA LeaveKeeps ==
  ASSUME IInv, NEW n \in DOMAIN states, Leave(n)
  PROVE  IInv'
<1>1. /\ Idle /\ ~Admitting /\ states' = Without(states, n) /\ prompt' = prompt /\ call' = call
  BY DEF Leave
<1>2. IsSequence(states')
  BY <1>1, SequenceWithout DEF IInv, StatesOK
<1>3. \A i \in DOMAIN states' : \E j \in DOMAIN states : states'[i] = states[j]
  BY <1>1, SequenceWithout DEF IInv, StatesOK
<1>4. \A i \in DOMAIN states' : IsState(states'[i]) /\ IsWhole(states'[i])
  BY <1>1, <1>3, UntouchedRow
<1>5. Idle' /\ PromptOK'
  BY <1>1 DEF Idle, PromptOK, Admitting
<1> QED  BY <1>2, <1>4, <1>5, WholeRows

(* The rows that are kept are those the call did not work on. *)
LEMMA DropKeepsWhole ==
  ASSUME IInv, ~Idle, Drop
  PROVE  IInv'
<1> DEFINE kept == IF call.kind = "decode" THEN 0 ELSE Len(states) - 1
<1>1. call' = NoCall /\ prompt' = NoPrompt /\ states' = SubSeq(states, 1, kept)
  BY DEF Drop
<1>2. kept \in 0 .. Len(states) /\ IsSequence(states)
  BY InCall DEF IInv, StatesOK
<1>3. /\ IsSequence(states') /\ Len(states') = kept
      /\ \A i \in 1 .. kept : states'[i] = states[i]
      /\ DOMAIN states' = 1 .. kept
  BY <1>1, <1>2, SequenceCut, SequenceFacts
<1>4. ASSUME NEW i \in 1 .. kept
      PROVE  i \in DOMAIN states /\ call.kind = "prefill" /\ i # Len(states)
  <2>1. call.kind # "decode"
    BY <1>4
  <2>2. kept = Len(states) - 1
    BY <2>1
  <2>3. /\ Len(states) \in Nat /\ DOMAIN states = 1 .. Len(states)
        /\ call.kind \in {"decode", "prefill"}
    BY InCall
  <2> HIDE DEF kept
  <2> QED  BY <1>4, <2>1, <2>2, <2>3
<1>5. \A i \in DOMAIN states' : IsState(states'[i]) /\ IsWhole(states'[i])
  BY <1>3, <1>4, UntouchedRow
<1>6. Idle' /\ PromptOK'
  BY <1>1 DEF Idle, PromptOK, Admitting
<1> QED  BY <1>3, <1>5, <1>6, WholeRows

LEMMA ContextExhaustedKeeps ==
  ASSUME IInv, ContextExhausted
  PROVE  IInv'
<1>1. states' = <<>> /\ Idle /\ ~Admitting /\ call' = call /\ prompt' = prompt
  BY DEF ContextExhausted
<1>2. Idle' /\ PromptOK'
  BY <1>1 DEF Idle, PromptOK, Admitting
<1>3. IsSequence(<<>>)
  BY <<>> \in Seq({}), SequenceOfAny
<1>4. DOMAIN <<>> = {}
  OBVIOUS
<1> QED  BY <1>1, <1>2, <1>3, <1>4, WholeRows

(* At the head every layer has consumed the call. *)
LEMMA AtTheHead ==
  ASSUME IInv, ~Idle, call.phase = "head", NEW i \in DOMAIN states,
         call.kind = "decode" \/ i = Len(states), NEW l \in DOMAIN Layers
  PROVE  LayerIsWhole(states[i], l, IF call.kind = "decode" THEN 1 ELSE Len(call.tokens))
<1>1. l <= Layer /\ ~(l > call.layer)
  BY InCall, LayersFacts DEF PhaseOK, Layer
<1>2. Consumed(call, Len(states), i, l)
        = IF call.kind = "decode" THEN 1 ELSE Len(call.tokens)
  BY <1>1, InCall DEF Consumed
<1> QED  BY <1>2 DEF IInv, RowsAdvance

LEMMA PositionMoves ==
  ASSUME NEW s, IsState(s), NEW n \in Nat, \A l \in DOMAIN Layers : LayerIsWhole(s, l, n)
  PROVE  /\ IsState([s EXCEPT !.position = @ + n])
         /\ IsWhole([s EXCEPT !.position = @ + n])
<1> DEFINE m == [s EXCEPT !.position = @ + n]
<1>1. /\ DOMAIN m = StateFields /\ m.position = s.position + n /\ m.position \in Nat
      /\ m.keys = s.keys /\ m.values = s.values /\ m.convolution = s.convolution
  BY DEF IsState, StateFields
<1> HIDE DEF m
<1>2. IsState(m)
  BY <1>1 DEF IsState
<1>3. IsWhole(m)
  BY <1>1 DEF IsWhole, LayerIsWhole
<1> QED  BY <1>2, <1>3 DEF m

LEMMA DecodeDoneKeeps ==
  ASSUME IInv, DecodeDone
  PROVE  IInv'
<1>1. /\ ~Idle /\ call.phase = "head" /\ call.kind = "decode" /\ call' = NoCall /\ prompt' = prompt
      /\ states' = [i \in Rows |-> [states[i] EXCEPT !.position = @ + 1]]
  BY DEF DecodeDone, After
<1>2. Rows = DOMAIN states /\ Rows = 1 .. Len(states) /\ Len(states) \in Nat /\ ~Admitting
  BY <1>1, InCall DEF Rows, IInv, CallOK
<1>3. \A i \in DOMAIN states' : IsState(states'[i]) /\ IsWhole(states'[i])
  <2> SUFFICES ASSUME NEW i \in DOMAIN states
               PROVE  IsState(states'[i]) /\ IsWhole(states'[i])
    BY <1>1, <1>2
  <2>1. IsState(states[i])
    BY DEF IInv, StatesOK
  <2>2. \A l \in DOMAIN Layers : LayerIsWhole(states[i], l, 1)
    BY <1>1, AtTheHead
  <2>3. states'[i] = [states[i] EXCEPT !.position = @ + 1]
    BY <1>1, <1>2
  <2> QED  BY <2>1, <2>2, <2>3, PositionMoves
<1>4. IsSequence(states')
  <2>1. states' \in Seq({states'[i] : i \in DOMAIN states})
    BY <1>1, <1>2
  <2> QED  BY <2>1, SequenceOfAny
<1>5. Idle' /\ PromptOK'
  BY <1>1, <1>2 DEF Idle, PromptOK, Admitting
<1> QED  BY <1>3, <1>4, <1>5, WholeRows

LEMMA PrefillReturnsKeeps ==
  ASSUME IInv, PrefillReturns
  PROVE  IInv'
<1> DEFINE t == Target(1)
           s == [states[t] EXCEPT !.position = @ + Len(call.tokens)]
<1>1. /\ ~Idle /\ call.phase = "head" /\ call.kind = "prefill" /\ call' = NoCall
      /\ states' = [states EXCEPT ![t] = s]
      /\ prompt' = IF prompt.offset = Len(prompt.tokens) THEN NoPrompt ELSE prompt
  BY DEF PrefillReturns, After
<1>2. t \in DOMAIN states /\ t = Len(states)
  BY <1>1, InCall DEF Target, Rows
<1>3. IsState(s) /\ IsWhole(s)
  <2>1. IsState(states[t])
    BY <1>2 DEF IInv, StatesOK
  <2>2. \A l \in DOMAIN Layers : LayerIsWhole(states[t], l, Len(call.tokens))
    BY <1>1, <1>2, AtTheHead
  <2>3. Len(call.tokens) \in Nat
    BY <1>1, InCall
  <2> HIDE DEF t
  <2> QED  BY <2>1, <2>2, <2>3, PositionMoves
<1> HIDE DEF s
<1>4. /\ IsSequence(states') /\ Len(states') = Len(states) /\ states'[t] = s
      /\ DOMAIN states' = DOMAIN states /\ states' # <<>>
      /\ \A i \in DOMAIN states : i # t => states'[i] = states[i]
  <2>1. IsSequence(states) /\ Len(states) \in Nat \ {0} /\ DOMAIN states = 1 .. Len(states)
    BY <1>1, InCall DEF IInv, StatesOK
  <2> HIDE DEF t
  <2>2. /\ IsSequence(states') /\ Len(states') = Len(states) /\ states'[t] = s
        /\ \A i \in DOMAIN states : i # t => states'[i] = states[i]
    BY <1>1, <1>2, <2>1, SequenceExcept
  <2>3. DOMAIN states' = DOMAIN states /\ states' # <<>>
    BY <2>1, <2>2, SequenceFacts
  <2> QED  BY <2>2, <2>3
<1>5. \A i \in DOMAIN states : i # t => IsState(states[i]) /\ IsWhole(states[i])
  BY <1>1, <1>2, UntouchedRow
<1>6. \A i \in DOMAIN states' : IsState(states'[i]) /\ IsWhole(states'[i])
  BY <1>3, <1>4, <1>5
<1>7. Idle' /\ PromptOK'
  BY <1>1, <1>4 DEF Idle, PromptOK, Admitting, IInv
<1> QED  BY <1>4, <1>6, <1>7, WholeRows

LEMMA StutterKeeps ==
  ASSUME IInv, UNCHANGED <<states, prompt, call>>
  PROVE  IInv'
BY DEF IInv, StatesOK, CallOK, PromptOK, RowsAdvance, Idle, Admitting, Layer, Rows, PhaseOK,
       PendingOK, PositionsOK, Position, Target

-----------------------------------------------------------------------------
LEMMA NextKeeps ==
  ASSUME IInv, [Next]_vars
  PROVE  IInv'
<1>1. ASSUME NEW p \in Prompts, Admit(p)  PROVE IInv'
  BY <1>1, AdmitKeeps
<1>2. CASE Prefill \/ DecodeBatch \/ ContextExhausted
  BY <1>2, PrefillKeeps, DecodeBatchKeeps, ContextExhaustedKeeps
<1>3. ASSUME NEW n \in DOMAIN states, Leave(n)  PROVE IInv'
  BY <1>3, LeaveKeeps
<1>4. CASE AllocationFails \/ Cancelled
  BY <1>4, DropKeepsWhole DEF AllocationFails, Cancelled
<1>5. CASE FullLayer \/ AppendsDone \/ LinearLayer \/ PrefillLayer
  BY <1>5, LayerBegins, RowsDone, PrefillLayerKeeps
<1>6. ASSUME NEW i, AppendRow(i) \/ AttendRow(i) \/ Sequence(i)  PROVE IInv'
  <2>1. ~Idle
    BY <1>6 DEF AppendRow, AttendRow, Sequence, Unit
  <2> QED  BY <1>6, <2>1, AppendRowKeeps, QuietUnits, SequenceKeeps
<1>7. ASSUME NEW b, BlockWalk(b) \/ HeadWalk(b)  PROVE IInv'
  <2>1. ~Idle
    BY <1>7 DEF BlockWalk, HeadWalk, Unit
  <2> QED  BY <1>7, <2>1, BlockWalkKeeps, HeadWalkKeeps
<1>8. ASSUME ~Idle, NEW unit, HeadUnit(unit) \/ Gate(unit) \/ Gather(unit) \/ ExpertTask(unit)
      PROVE  IInv'
  BY <1>8, HeadUnitKeeps, QuietUnits
<1>9. CASE FullDone \/ SequencesDone \/ LinearDone \/ BlocksDone \/ HeadsDone \/ PrefillDone
           \/ GatherDone
  BY <1>9, QuietPhases, RowsDone
<1>10. CASE Route \/ Reduce
  BY <1>10, RouteKeeps, ReduceKeeps
<1>11. CASE DecodeDone \/ PrefillReturns
  BY <1>11, DecodeDoneKeeps, PrefillReturnsKeeps
<1>12. CASE HeadOfPrefill \/ Stopped \/ UNCHANGED vars
  BY <1>12, StutterKeeps DEF HeadOfPrefill, Stopped, vars
<1> QED
  BY <1>1, <1>2, <1>3, <1>4, <1>5, <1>6, <1>7, <1>8, <1>9, <1>10, <1>11, <1>12 DEF Next

(* The invariant holds in every state. *)
THEOREM RowsAdvanceTogether == Spec => []IInv
BY InitOK, NextKeeps, PTL DEF Spec

(* Whatever calls fail or are cancelled, and wherever, between two calls    *)
(* every layer of every row has consumed exactly the tokens of its row.     *)
THEOREM StatesStayWhole == Spec => []StatesAreWhole
<1>1. IInv => StatesAreWhole
  BY WholeBetweenCalls
<1> QED  BY <1>1, RowsAdvanceTogether, PTL

(* The check full_attention_forward_batch makes of every row never fails:   *)
(* the caches of a row that is appended hold the tokens before it.          *)
THEOREM CachesAlwaysMatch == Spec => []CachesMatchPositions
<1>1. IInv => CachesMatchPositions
  BY AppendsInOrder DEF CachesMatchPositions
<1> QED  BY <1>1, RowsAdvanceTogether, PTL
-----------------------------------------------------------------------------
(* Numbers.  Induction is over a set of numbers, not a predicate.           *)

LEMMA NumbersFromZero ==
  ASSUME NEW S, 0 \in S, \A n \in Nat : n \in S => n + 1 \in S
  PROVE  Nat \subseteq S
<1> DEFINE T == Nat \ S
           R == OpToRel(<, Nat)
<1> SUFFICES ASSUME T # {}  PROVE FALSE
  OBVIOUS
<1>1. IsWellFoundedOn(R, Nat)
  BY NatLessThanWellFounded
<1>2. PICK x \in T : \A y \in T : <<y, x>> \notin R
  BY <1>1, WFMin, T \subseteq Nat
<1>3. \A y \in Nat : y < x => <<y, x>> \in R
  BY <1>2 DEF OpToRel
<1> HIDE DEF R
<1>4. x \in Nat /\ x # 0 /\ x \notin S
  BY <1>2
<1>5. x - 1 \in Nat /\ x - 1 < x
  BY <1>4
<1>6. x - 1 \in S
  BY <1>2, <1>3, <1>5
<1> QED  BY <1>4, <1>5, <1>6

LEMMA Quotient ==
  ASSUME NEW a \in Nat, NEW b \in Nat \ {0}
  PROVE  /\ a \div b \in Nat
         /\ b * (a \div b) <= a
         /\ a < b * (a \div b) + b
OBVIOUS

(* How many elements precede x.  In a total order every rank is taken. *)
RankIn(S, R, x) == Cardinality({y \in S : <<y, x>> \in R})

LEMMA Ranks ==
  ASSUME NEW S, IsFiniteSet(S), NEW R,
         \A x \in S : <<x, x>> \notin R,
         \A x, y, z \in S : <<x, y>> \in R /\ <<y, z>> \in R => <<x, z>> \in R,
         \A x, y \in S : x # y => <<x, y>> \in R \/ <<y, x>> \in R
  PROVE  \A k \in 0 .. Cardinality(S) - 1 : \E x \in S : RankIn(S, R, x) = k
<1> DEFINE Below(x) == {y \in S : <<y, x>> \in R}
           f == [x \in S |-> Cardinality(Below(x))]
           T == 0 .. Cardinality(S) - 1
<1>1. Cardinality(S) \in Nat
  BY FS_CardinalityType
<1>2. \A x \in S : IsFiniteSet(Below(x)) /\ Cardinality(Below(x)) \in Nat
  BY FS_Subset, FS_CardinalityType
<1>3. ASSUME NEW x \in S  PROVE Cardinality(Below(x)) \in T
  <2>1. Below(x) \in SUBSET (S \ {x})
    OBVIOUS
  <2>2. IsFiniteSet(S \ {x}) /\ Cardinality(S \ {x}) = Cardinality(S) - 1
    BY FS_RemoveElement
  <2>3. Cardinality(Below(x)) <= Cardinality(S \ {x})
    BY <2>1, <2>2, FS_Subset
  <2> QED  BY <1>1, <1>2, <2>2, <2>3
<1>4. ASSUME NEW x \in S, NEW y \in S, <<x, y>> \in R
      PROVE  Cardinality(Below(x)) < Cardinality(Below(y))
  <2>1. Below(x) \in SUBSET (Below(y) \ {x}) /\ x \in Below(y)
    BY <1>4
  <2>2. /\ IsFiniteSet(Below(y) \ {x})
        /\ Cardinality(Below(y) \ {x}) = Cardinality(Below(y)) - 1
    BY <1>2, <2>1, FS_RemoveElement
  <2>3. Cardinality(Below(x)) <= Cardinality(Below(y) \ {x})
    BY <2>1, <2>2, FS_Subset
  <2> QED  BY <1>2, <2>2, <2>3
<1> HIDE DEF Below
<1>5. ASSUME NEW x \in S, NEW y \in S, f[x] = f[y]
      PROVE  x = y
  <2> SUFFICES ASSUME x # y  PROVE FALSE
    OBVIOUS
  <2>1. Cardinality(Below(x)) = Cardinality(Below(y)) /\ Cardinality(Below(x)) \in Nat
    BY <1>2, <1>5
  <2>2. <<x, y>> \in R \/ <<y, x>> \in R
    OBVIOUS
  <2> QED  BY <1>4, <2>1, <2>2
<1>6. f \in Injection(S, T)
  BY <1>3, <1>5 DEF Injection, IsInjective
<1>7. IsFiniteSet(T) /\ Cardinality(T) = Cardinality(S)
  <2>1. Cardinality(S) - 1 \in Int /\ 0 \in Int
    BY <1>1
  <2>2. /\ IsFiniteSet(T)
        /\ Cardinality(T) = IF 0 > Cardinality(S) - 1 THEN 0 ELSE Cardinality(S) - 1 - 0 + 1
    BY <2>1, FS_Interval
  <2> QED  BY <1>1, <2>2
<1>8. f \in Surjection(S, T)
  BY <1>6, <1>7, FS_Injection
<1>9. \A k \in T : \E x \in S : f[x] = k
  BY <1>8 DEF Surjection
<1> QED  BY <1>9 DEF Below, RankIn

-----------------------------------------------------------------------------
(* The experts *)

(* the scores of the router are numbers, and so can be compared *)
ScoresAreNumbers == \A operands : Kernel("router", operands) \in Int

LEMMA TopExpertsAreExperts ==
  ASSUME NEW scores, DOMAIN scores = 1 .. Experts, \A e \in 1 .. Experts : scores[e] \in Int,
         NEW r \in 1 .. RoutesPerToken
  PROVE  TopExperts(scores)[r].expert \in 1 .. Experts
<1> DEFINE S == 1 .. Experts
           R == {p \in S \X S : Better(scores, p[1], p[2])}
           chosen(k) == CHOOSE e \in DOMAIN scores : Cardinality(Ahead(scores, e)) = k - 1
<1>1. \A x, y \in S : <<x, y>> \in R <=> Better(scores, x, y)
  OBVIOUS
<1>2. IsFiniteSet(S) /\ Cardinality(S) = Experts /\ Experts \in Nat /\ r - 1 \in 0 .. Experts - 1
  BY FS_Interval, GeometryAssumption
<1>3. /\ \A x \in S : ~Better(scores, x, x)
      /\ \A x, y, z \in S : Better(scores, x, y) /\ Better(scores, y, z) => Better(scores, x, z)
      /\ \A x, y \in S : x # y => Better(scores, x, y) \/ Better(scores, y, x)
  BY DEF Better
<1> HIDE DEF R
<1>4. \E e \in S : RankIn(S, R, e) = r - 1
  <2>1. /\ \A x \in S : <<x, x>> \notin R
        /\ \A x, y, z \in S : <<x, y>> \in R /\ <<y, z>> \in R => <<x, z>> \in R
        /\ \A x, y \in S : x # y => <<x, y>> \in R \/ <<y, x>> \in R
    BY <1>1, <1>3
  <2> HIDE DEF S
  <2>2. \A k \in 0 .. Cardinality(S) - 1 : \E e \in S : RankIn(S, R, e) = k
    BY <1>2, <2>1, Ranks
  <2> QED  BY <1>2, <2>2
<1>5. \A e \in S : RankIn(S, R, e) = Cardinality(Ahead(scores, e))
  <2>1. \A e \in S : {f \in S : <<f, e>> \in R} = Ahead(scores, e)
    BY <1>1 DEF Ahead
  <2> QED  BY <2>1 DEF RankIn
<1>6. \E e \in DOMAIN scores : Cardinality(Ahead(scores, e)) = r - 1
  BY <1>4, <1>5
<1>7. chosen(r) \in 1 .. Experts
  BY <1>6
<1>8. TopExperts(scores)[r].expert = chosen(r)
  BY DEF TopExperts
<1> QED  BY <1>7, <1>8
(* The counting sort.  A pair's position is its rank in the order of the    *)
(* experts, and of the rows and routes for one expert.                      *)

ExpertOf(routes, p) == routes[p[1]][p[2]].expert

RoutesOK(routes, n) ==
  /\ DOMAIN routes = 1 .. n
  /\ \A p \in Pairs(routes) : ExpertOf(routes, p) \in 1 .. Experts

LEMMA PairsFacts ==
  ASSUME NEW n \in Nat, NEW routes, RoutesOK(routes, n)
  PROVE  /\ IsFiniteSet(Pairs(routes)) /\ Cardinality(Pairs(routes)) = n * RoutesPerToken
         /\ \A p \in Pairs(routes) : p[1] \in 1 .. n /\ p[2] \in 1 .. RoutesPerToken /\ p = <<p[1], p[2]>>
         /\ \A e : /\ IsFiniteSet(SentTo(routes, e)) /\ Cardinality(SentTo(routes, e)) \in Nat
                  /\ Offset(routes, e) \in Nat
<1>1. Pairs(routes) = (1 .. n) \X (1 .. RoutesPerToken)
  BY DEF Pairs, RoutesOK
<1>2. /\ IsFiniteSet(1 .. n) /\ Cardinality(1 .. n) = n
      /\ IsFiniteSet(1 .. RoutesPerToken) /\ Cardinality(1 .. RoutesPerToken) = RoutesPerToken
  BY FS_Interval, GeometryAssumption
<1>3. IsFiniteSet(Pairs(routes)) /\ Cardinality(Pairs(routes)) = n * RoutesPerToken
  BY ZenonT(60), <1>1, <1>2, FS_Product
<1>4. \A e : SentTo(routes, e) \in SUBSET Pairs(routes)
  BY DEF SentTo
<1>5. \A e : {p \in Pairs(routes) : routes[p[1]][p[2]].expert < e} \in SUBSET Pairs(routes)
  OBVIOUS
<1>6. \A T \in SUBSET Pairs(routes) : IsFiniteSet(T) /\ Cardinality(T) \in Nat
  BY <1>3, FS_Subset, FS_CardinalityType
<1> QED  BY <1>1, <1>3, <1>4, <1>5, <1>6 DEF Offset

LEMMA OffsetsApart ==
  ASSUME NEW n \in Nat, NEW routes, RoutesOK(routes, n), NEW e \in Int, NEW f \in Int, e < f
  PROVE  Offset(routes, e) + Cardinality(SentTo(routes, e)) <= Offset(routes, f)
<1> DEFINE P == Pairs(routes)
           before == {p \in P : routes[p[1]][p[2]].expert < e}
           upto == {p \in P : routes[p[1]][p[2]].expert < f}
<1>1. IsFiniteSet(P) /\ IsFiniteSet(SentTo(routes, e))
  BY PairsFacts
<1>2. before \in SUBSET P /\ upto \in SUBSET P
  OBVIOUS
<1>3. IsFiniteSet(before) /\ IsFiniteSet(upto)
  BY <1>1, <1>2, FS_Subset
<1>4. before \cap SentTo(routes, e) = {}
  BY DEF SentTo
<1>5. Cardinality(before \cup SentTo(routes, e))
        = Cardinality(before) + Cardinality(SentTo(routes, e)) - Cardinality({})
  BY <1>1, <1>3, <1>4, FS_Union
<1>6. before \cup SentTo(routes, e) \in SUBSET upto
  BY DEF SentTo, RoutesOK, ExpertOf
<1>7. Cardinality(before \cup SentTo(routes, e)) <= Cardinality(upto)
  BY <1>3, <1>6, FS_Subset
<1>8. /\ Offset(routes, e) = Cardinality(before) /\ Offset(routes, f) = Cardinality(upto)
      /\ Offset(routes, e) \in Nat /\ Cardinality(SentTo(routes, e)) \in Nat
  BY PairsFacts DEF Offset
<1>9. Cardinality({}) = 0
  BY FS_EmptySet
<1> HIDE DEF before, upto
<1> QED  BY <1>5, <1>7, <1>8, <1>9

LEMMA GroupedAmongItsExpert ==
  ASSUME NEW n \in Nat, NEW routes, RoutesOK(routes, n), NEW p \in Pairs(routes)
  PROVE  LET e == ExpertOf(routes, p)
         IN Grouped(routes, p) \in
              Offset(routes, e) + 1 .. Offset(routes, e) + Cardinality(SentTo(routes, e))
<1> DEFINE e == ExpertOf(routes, p)
           S == SentTo(routes, e)
           T == {q \in S : Before(q, p)}
<1>1. IsFiniteSet(S) /\ Cardinality(S) \in Nat /\ Offset(routes, e) \in Nat
  BY PairsFacts
<1>2. p \in S
  BY DEF SentTo, ExpertOf
<1>3. ~Before(p, p)
  BY PairsFacts DEF Before
<1>4. T \in SUBSET (S \ {p}) /\ IsFiniteSet(S \ {p}) /\ Cardinality(S \ {p}) = Cardinality(S) - 1
  BY <1>1, <1>2, <1>3, FS_RemoveElement
<1>5. IsFiniteSet(T) /\ Cardinality(T) <= Cardinality(S) - 1 /\ Cardinality(T) \in Nat
  BY <1>4, FS_Subset, FS_CardinalityType
<1>6. Grouped(routes, p) = Offset(routes, e) + Cardinality(T) + 1
  BY DEF Grouped, ExpertOf
<1> HIDE DEF T, S
<1>7. Grouped(routes, p) \in Offset(routes, e) + 1 .. Offset(routes, e) + Cardinality(S)
  BY <1>1, <1>5, <1>6
<1> QED  BY <1>7 DEF S

LEMMA GroupedIsRank ==
  ASSUME NEW n \in Nat, NEW routes, RoutesOK(routes, n), NEW k \in 1 .. n * RoutesPerToken
  PROVE  \E p \in Pairs(routes) : Grouped(routes, p) = k
<1> DEFINE P == Pairs(routes)
           ex(p) == ExpertOf(routes, p)
           Earlier(q, p) == ex(q) < ex(p) \/ (ex(q) = ex(p) /\ Before(q, p))
           R == {x \in P \X P : Earlier(x[1], x[2])}
<1>1. \A x, y \in P : <<x, y>> \in R <=> Earlier(x, y)
  OBVIOUS
<1>2. \A p \in P : ex(p) \in 1 .. Experts
  BY DEF RoutesOK
<1>3. \A p \in P : p[1] \in 1 .. n /\ p[2] \in 1 .. RoutesPerToken /\ p = <<p[1], p[2]>>
  BY PairsFacts
<1>4. Experts \in Nat /\ RoutesPerToken \in Nat
  BY GeometryAssumption
<1> HIDE DEF R, P, ex
<1>5. \A x \in P : ~Earlier(x, x)
  BY <1>2, <1>3, <1>4 DEF Before
<1>6. \A x, y, z \in P : Earlier(x, y) /\ Earlier(y, z) => Earlier(x, z)
  BY <1>2, <1>3, <1>4 DEF Before
<1>7. ASSUME NEW x \in P, NEW y \in P, x # y
      PROVE  Earlier(x, y) \/ Earlier(y, x)
  <2>1. x[1] # y[1] \/ x[2] # y[2]
    BY <1>3, <1>7
  <2>2. /\ ex(x) \in Int /\ ex(y) \in Int /\ x[1] \in Int /\ y[1] \in Int
        /\ x[2] \in Int /\ y[2] \in Int
    BY <1>2, <1>3, <1>4
  <2> QED  BY <2>1, <2>2 DEF Before
<1>8. IsFiniteSet(P) /\ Cardinality(P) = n * RoutesPerToken
  BY PairsFacts DEF P
<1>9. k - 1 \in 0 .. Cardinality(P) - 1
  BY <1>4, <1>8
<1>10. \E p \in P : RankIn(P, R, p) = k - 1
  <2>1. /\ \A x \in P : <<x, x>> \notin R
        /\ \A x, y, z \in P : <<x, y>> \in R /\ <<y, z>> \in R => <<x, z>> \in R
        /\ \A x, y \in P : x # y => <<x, y>> \in R \/ <<y, x>> \in R
    BY <1>1, <1>5, <1>6, <1>7
  <2> QED  BY <1>8, <1>9, <2>1, Ranks
<1>11. ASSUME NEW p \in P
       PROVE  Grouped(routes, p) = RankIn(P, R, p) + 1
  <2> DEFINE A == {q \in P : ex(q) < ex(p)}
             B == {q \in P : ex(q) = ex(p) /\ Before(q, p)}
  <2>1. {q \in P : <<q, p>> \in R} = A \cup B
    BY <1>1
  <2>2. A \in SUBSET P /\ B \in SUBSET P /\ A \cap B = {}
    BY <1>2, <1>4
  <2>3. IsFiniteSet(A) /\ IsFiniteSet(B) /\ Cardinality(A) \in Nat /\ Cardinality(B) \in Nat
    BY <1>8, <2>2, FS_Subset, FS_CardinalityType
  <2>4. Cardinality(A \cup B) = Cardinality(A) + Cardinality(B)
    <3>1. Cardinality(A \cup B) = Cardinality(A) + Cardinality(B) - Cardinality(A \cap B)
      BY <2>3, FS_Union
    <3>2. Cardinality(A \cap B) = 0
      BY <2>2, FS_EmptySet
    <3> HIDE DEF A, B
    <3> QED  BY <2>3, <3>1, <3>2
  <2>5. Offset(routes, ex(p)) = Cardinality(A)
    BY DEF Offset, P, ex, ExpertOf
  <2>6. {q \in SentTo(routes, ex(p)) : Before(q, p)} = B
    BY DEF SentTo, P, ex, ExpertOf
  <2>7. Grouped(routes, p)
          = Offset(routes, ex(p)) + Cardinality({q \in SentTo(routes, ex(p)) : Before(q, p)}) + 1
    BY DEF Grouped, ex, ExpertOf
  <2> QED  BY <2>1, <2>4, <2>5, <2>6, <2>7 DEF RankIn
<1>12. PICK p \in P : RankIn(P, R, p) = k - 1
  BY <1>10
<1>13. Grouped(routes, p) = k
  BY <1>11, <1>12
<1> QED  BY <1>13 DEF P
(* The chunks of an expert's rows.  While m chunks are left for as many as  *)
(* `left' rows, no fewer than m and no more than m tasks hold, the next one *)
(* takes from 1 to RowsPerTask of them and leaves the same.                 *)
LEMMA ChunkStep ==
  ASSUME NEW left \in Nat, NEW m \in Nat \ {0}, m <= left, left <= RowsPerTask * m
  PROVE  /\ left \div m \in 1 .. RowsPerTask
         /\ left - (left \div m) \in Nat
         /\ m - 1 <= left - (left \div m)
         /\ left - (left \div m) <= RowsPerTask * (m - 1)
<1> DEFINE x == left \div m
           K == RowsPerTask
<1>1. x \in Nat /\ m * x <= left /\ left < m * x + m
  BY Quotient
<1>2. K \in Nat \ {0}
  BY BatchAssumption
<1> HIDE DEF x, K
<1>3. x >= 1
  BY <1>1
<1>4. x <= K
  <2> SUFFICES ASSUME x >= K + 1  PROVE FALSE
    BY <1>1, <1>2
  <2>1. m * x >= m * (K + 1)
    BY <1>1, <1>2
  <2>2. left <= K * m
    BY DEF K
  <2> QED  BY <1>1, <1>2, <2>1, <2>2
<1>5. left - x >= x * (m - 1)
  BY <1>1
<1>6. x * (m - 1) >= m - 1
  BY <1>1, <1>3
<1>7. left - x <= K * (m - 1)
  <2>1. CASE x = K
    <3>1. left <= K * m
      BY DEF K
    <3> QED  BY <1>1, <1>2, <2>1, <3>1
  <2>2. CASE x < K
    <3>1. left - x <= (x + 1) * (m - 1)
      BY <1>1
    <3>2. (x + 1) * (m - 1) <= K * (m - 1)
      BY <1>1, <1>2, <2>2
    <3> QED  BY <1>1, <1>2, <3>1, <3>2
  <2> QED  BY <1>1, <1>2, <1>4, <2>1, <2>2
<1> QED  BY <1>1, <1>2, <1>3, <1>4, <1>5, <1>6, <1>7 DEF x, K

LEMMA ChunksFacts ==
  ASSUME NEW rows \in Nat
  PROVE  /\ Chunks(rows) \in Nat /\ Chunks(rows) <= rows
         /\ rows <= RowsPerTask * Chunks(rows)
         /\ rows # 0 => Chunks(rows) # 0
<1> DEFINE K == RowsPerTask
           C == Chunks(rows)
<1>1. K \in Nat \ {0}
  BY BatchAssumption
<1>2. C \in Nat /\ K * C <= rows + K - 1 /\ rows + K - 1 < K * C + K
  BY <1>1, Quotient, rows + K - 1 \in Nat DEF Chunks
<1> HIDE DEF K, C
<1>3. rows <= K * C
  BY <1>1, <1>2
<1>4. C <= rows
  <2> SUFFICES ASSUME C >= rows + 1  PROVE FALSE
    BY <1>2
  <2>1. K * C >= K * (rows + 1)
    BY <1>1, <1>2
  <2>2. K * rows >= rows
    BY <1>1
  <2> QED  BY <1>1, <1>2, <2>1, <2>2
<1>5. rows # 0 => C # 0
  BY <1>1, <1>3
<1> QED  BY <1>2, <1>3, <1>4, <1>5 DEF K, C

(* the loop that places the chunks has a result for every number of rows *)
LEMMA PlacedIsDefined ==
  ASSUME NEW rows \in Nat
  PROVE  Placed(rows) = [chunk \in 0 .. Chunks(rows) |->
                           IF chunk = 0 THEN 0
                           ELSE Placed(rows)[chunk - 1]
                                + ChunkRows(rows, chunk, Placed(rows)[chunk - 1])]
<1> DEFINE C == Chunks(rows)
           Fits(f, n) == f = [chunk \in 0 .. n |->
                                IF chunk = 0 THEN 0
                                ELSE f[chunk - 1] + ChunkRows(rows, chunk, f[chunk - 1])]
           S == {n \in Nat : \E f : Fits(f, n)}
<1>1. 0 \in S
  <2> DEFINE f == [chunk \in 0 .. 0 |-> 0]
  <2>1. Fits(f, 0)
    OBVIOUS
  <2> QED  BY <2>1
<1>2. ASSUME NEW n \in Nat, n \in S  PROVE n + 1 \in S
  <2>1. PICK f : Fits(f, n)
    BY <1>2
  <2> DEFINE g == [chunk \in 0 .. n + 1 |->
                     IF chunk = n + 1 THEN f[n] + ChunkRows(rows, n + 1, f[n]) ELSE f[chunk]]
  <2>2. \A chunk \in 0 .. n + 1 :
          g[chunk] = IF chunk = 0 THEN 0
                     ELSE g[chunk - 1] + ChunkRows(rows, chunk, g[chunk - 1])
    <3> SUFFICES ASSUME NEW chunk \in 0 .. n + 1
                 PROVE  g[chunk] = IF chunk = 0 THEN 0
                                   ELSE g[chunk - 1] + ChunkRows(rows, chunk, g[chunk - 1])
      OBVIOUS
    <3>1. CASE chunk = 0
      BY <2>1, <3>1
    <3>2. CASE chunk \in 1 .. n
      <4>1. /\ g[chunk] = f[chunk] /\ g[chunk - 1] = f[chunk - 1]
            /\ chunk \in 0 .. n /\ chunk # 0
        BY <3>2
      <4>2. f[chunk] = f[chunk - 1] + ChunkRows(rows, chunk, f[chunk - 1])
        BY <2>1, <4>1
      <4> QED  BY <4>1, <4>2
    <3>3. CASE chunk = n + 1
      BY <3>3
    <3> QED  BY <3>1, <3>2, <3>3
  <2>3. g = [chunk \in 0 .. n + 1 |-> g[chunk]]
    OBVIOUS
  <2> HIDE DEF g
  <2>4. Fits(g, n + 1)
    BY <2>2, <2>3
  <2> QED  BY <2>4
<1>3. Nat \subseteq S
  <2> HIDE DEF S
  <2> QED  BY <1>1, <1>2, NumbersFromZero
<1>4. \E f : Fits(f, C)
  BY <1>3, ChunksFacts
<1>5. Placed(rows) = CHOOSE f : Fits(f, C)
  BY DEF Placed
<1>6. Fits(Placed(rows), C)
  <2> HIDE DEF Fits
  <2> QED  BY <1>4, <1>5
<1> QED  BY <1>6

LEMMA PlacedFacts ==
  ASSUME NEW rows \in Nat
  PROVE  /\ Placed(rows)[0] = 0 /\ Placed(rows)[Chunks(rows)] = rows
         /\ \A chunk \in 0 .. Chunks(rows) : Placed(rows)[chunk] \in 0 .. rows
         /\ \A chunk \in 1 .. Chunks(rows) :
              Placed(rows)[chunk] - Placed(rows)[chunk - 1] \in 1 .. RowsPerTask
<1> DEFINE C == Chunks(rows)
           placed == Placed(rows)
           Left(n) == /\ placed[n] \in Nat /\ rows - placed[n] \in Nat
                      /\ C - n <= rows - placed[n]
                      /\ rows - placed[n] <= RowsPerTask * (C - n)
           S == {n \in Nat : n <= C => Left(n)}
<1>1. C \in Nat /\ C <= rows /\ rows <= RowsPerTask * C /\ RowsPerTask \in Nat \ {0}
  BY ChunksFacts, BatchAssumption
<1>2. /\ placed[0] = 0
      /\ \A n \in 1 .. C : placed[n] = placed[n - 1] + ((rows - placed[n - 1]) \div (C - (n - 1)))
  <2>1. placed = [chunk \in 0 .. C |->
                    IF chunk = 0 THEN 0
                    ELSE placed[chunk - 1] + ChunkRows(rows, chunk, placed[chunk - 1])]
    BY PlacedIsDefined
  <2> HIDE DEF placed
  <2> QED  BY <1>1, <2>1 DEF ChunkRows
<1> HIDE DEF placed, C
<1>3. ASSUME NEW n \in Nat, n < C, Left(n)
      PROVE  Left(n + 1) /\ placed[n + 1] - placed[n] \in 1 .. RowsPerTask
  <2> DEFINE left == rows - placed[n]
             m == C - n
             x == left \div m
  <2>1. left \in Nat /\ m \in Nat \ {0} /\ m <= left /\ left <= RowsPerTask * m
    BY <1>1, <1>3
  <2>2. placed[n + 1] = placed[n] + x
    <3>1. n + 1 \in 1 .. C /\ (n + 1) - 1 = n
      BY <1>1, <1>3
    <3> QED  BY <1>2, <3>1
  <2>3. /\ x \in 1 .. RowsPerTask /\ left - x \in Nat /\ m - 1 <= left - x
        /\ left - x <= RowsPerTask * (m - 1)
    <3> HIDE DEF left, m
    <3> QED  BY <2>1, ChunkStep
  <2> HIDE DEF x
  <2>4. /\ placed[n + 1] \in Nat /\ rows - placed[n + 1] = left - x /\ C - (n + 1) = m - 1
    BY <1>1, <1>3, <2>2, <2>3
  <2>5. placed[n + 1] - placed[n] = x
    BY <1>1, <1>3, <2>2, <2>3
  <2> HIDE DEF left, m
  <2> QED  BY <2>3, <2>4, <2>5
<1>4. Nat \subseteq S
  <2>1. 0 \in S
    BY <1>1, <1>2
  <2>2. ASSUME NEW n \in Nat, n \in S  PROVE n + 1 \in S
    <3> SUFFICES ASSUME n + 1 <= C  PROVE Left(n + 1)
      OBVIOUS
    <3>1. n < C /\ Left(n)
      BY <1>1, <2>2
    <3> HIDE DEF Left
    <3> QED  BY <1>3, <3>1
  <2> HIDE DEF S
  <2> QED  BY <2>1, <2>2, NumbersFromZero
<1>5. \A n \in 0 .. C : Left(n)
  BY <1>1, <1>4
<1>6. placed[C] = rows
  <2>1. Left(C)
    BY <1>1, <1>5
  <2> QED  BY <1>1, <2>1
<1>7. ASSUME NEW n \in 1 .. C  PROVE placed[n] - placed[n - 1] \in 1 .. RowsPerTask
  <2>1. n - 1 \in Nat /\ n - 1 < C /\ n - 1 \in 0 .. C /\ (n - 1) + 1 = n
    BY <1>1
  <2>2. Left(n - 1)
    BY <1>5, <2>1
  <2> HIDE DEF Left
  <2> QED  BY <1>3, <2>1, <2>2
<1>8. \A n \in 0 .. C : placed[n] \in 0 .. rows
  BY <1>5
<1> QED  BY <1>2, <1>6, <1>7, <1>8 DEF placed, C
(* no later chunk begins before an earlier one ends *)
LEMMA PlacedInOrder ==
  ASSUME NEW rows \in Nat, NEW c \in 0 .. Chunks(rows), NEW d \in c .. Chunks(rows)
  PROVE  Placed(rows)[c] <= Placed(rows)[d]
<1> DEFINE placed == Placed(rows)
           C == Chunks(rows)
           S == {n \in Nat : c + n <= C => placed[c] <= placed[c + n]}
<1>1. C \in Nat /\ c \in Nat /\ d \in Nat
  BY ChunksFacts
<1>2. /\ \A n \in 0 .. C : placed[n] \in Nat
      /\ \A n \in 1 .. C : placed[n] - placed[n - 1] \in 1 .. RowsPerTask
  BY PlacedFacts
<1> HIDE DEF placed, C
<1>3. 0 \in S
  BY <1>1, <1>2
<1>4. ASSUME NEW n \in Nat, n \in S  PROVE n + 1 \in S
  <2> SUFFICES ASSUME c + (n + 1) <= C  PROVE placed[c] <= placed[c + (n + 1)]
    OBVIOUS
  <2>1. placed[c] <= placed[c + n]
    BY <1>1, <1>4
  <2>2. /\ c + (n + 1) \in 1 .. C /\ (c + (n + 1)) - 1 = c + n /\ c + n \in 0 .. C /\ c \in 0 .. C
    BY <1>1
  <2>3. placed[c + (n + 1)] - placed[c + n] \in 1 .. RowsPerTask
    BY <1>2, <2>2
  <2>4. placed[c] \in Nat /\ placed[c + n] \in Nat /\ placed[c + (n + 1)] \in Nat
    BY <1>2, <2>2
  <2> QED  BY <2>1, <2>3, <2>4
<1>5. d - c \in S
  <2>1. Nat \subseteq S
    <3> HIDE DEF S
    <3> QED  BY <1>3, <1>4, NumbersFromZero
  <2> QED  BY <1>1, <2>1
<1>6. placed[c] <= placed[d]
  BY <1>1, <1>5 DEF C
<1> QED  BY <1>6 DEF placed

(* every row is in a chunk *)
LEMMA RowInChunk ==
  ASSUME NEW rows \in Nat, NEW x \in 1 .. rows
  PROVE  \E c \in 1 .. Chunks(rows) : Placed(rows)[c - 1] < x /\ x <= Placed(rows)[c]
<1> DEFINE placed == Placed(rows)
           C == Chunks(rows)
           S == {n \in Nat : n <= C => placed[n] < x}
<1> SUFFICES ASSUME \A c \in 1 .. C : placed[c - 1] < x => ~(x <= placed[c])
             PROVE  FALSE
  OBVIOUS
<1>1. C \in Nat
  BY ChunksFacts
<1>2. placed[0] = 0 /\ placed[C] = rows /\ \A n \in 0 .. C : placed[n] \in Nat
  BY PlacedFacts
<1> HIDE DEF placed, C
<1>3. 0 \in S
  BY <1>2
<1>4. ASSUME NEW n \in Nat, n \in S  PROVE n + 1 \in S
  <2> SUFFICES ASSUME n + 1 <= C  PROVE placed[n + 1] < x
    OBVIOUS
  <2>1. /\ n + 1 \in 1 .. C /\ (n + 1) - 1 = n /\ placed[n] < x
        /\ n + 1 \in 0 .. C /\ placed[n + 1] \in Nat
    BY <1>1, <1>2, <1>4
  <2>2. ~(x <= placed[n + 1])
    BY <2>1
  <2> QED  BY <2>1, <2>2
<1>5. C \in S
  <2>1. Nat \subseteq S
    <3> HIDE DEF S
    <3> QED  BY <1>3, <1>4, NumbersFromZero
  <2> QED  BY <1>1, <2>1
<1> QED  BY <1>1, <1>2, <1>5

LEMMA TaskIsChunk ==
  ASSUME NEW routes, NEW task
  PROVE  task \in Tasks(routes) <=>
           \E e \in 1 .. Experts : \E c \in 1 .. Chunks(Cardinality(SentTo(routes, e))) :
             task = [expert |-> e,
                     first |-> Offset(routes, e)
                               + Placed(Cardinality(SentTo(routes, e)))[c - 1] + 1,
                     last |-> Offset(routes, e) + Placed(Cardinality(SentTo(routes, e)))[c]]
BY DEF Tasks

(* the numbers of a task *)
LEMMA TaskFacts ==
  ASSUME NEW n \in Nat, NEW routes, RoutesOK(routes, n), NEW e \in 1 .. Experts,
         NEW c \in 1 .. Chunks(Cardinality(SentTo(routes, e)))
  PROVE  LET rows == Cardinality(SentTo(routes, e))
             before == Placed(rows)[c - 1]
             upto == Placed(rows)[c]
         IN /\ rows \in Nat /\ Offset(routes, e) \in Nat
            /\ before \in 0 .. rows /\ upto \in 0 .. rows
            /\ upto - before \in 1 .. RowsPerTask
<1> DEFINE rows == Cardinality(SentTo(routes, e))
<1>1. rows \in Nat /\ Offset(routes, e) \in Nat
  BY PairsFacts
<1> HIDE DEF rows
<1>2. c - 1 \in 0 .. Chunks(rows) /\ c \in 0 .. Chunks(rows)
  BY <1>1, ChunksFacts DEF rows
<1>3. c \in 1 .. Chunks(rows)
  BY DEF rows
<1>4. /\ Placed(rows)[c - 1] \in 0 .. rows /\ Placed(rows)[c] \in 0 .. rows
      /\ Placed(rows)[c] - Placed(rows)[c - 1] \in 1 .. RowsPerTask
  BY <1>1, <1>2, <1>3, PlacedFacts
<1> QED  BY <1>1, <1>4 DEF rows

(* Two tasks with a position in common are one. *)
LEMMA TasksAreApart ==
  ASSUME NEW n \in Nat, NEW routes, RoutesOK(routes, n),
         NEW s \in Tasks(routes), NEW t \in Tasks(routes), NEW k \in Int,
         k \in s.first .. s.last, k \in t.first .. t.last
  PROVE  s = t
<1> DEFINE rows(e) == Cardinality(SentTo(routes, e))
           task(e, c) == [expert |-> e, first |-> Offset(routes, e) + Placed(rows(e))[c - 1] + 1,
                          last |-> Offset(routes, e) + Placed(rows(e))[c]]
<1>1. PICK e \in 1 .. Experts : \E c \in 1 .. Chunks(rows(e)) : s = task(e, c)
  BY TaskIsChunk
<1>2. PICK c \in 1 .. Chunks(rows(e)) : s = task(e, c)
  BY <1>1
<1>3. PICK f \in 1 .. Experts : \E d \in 1 .. Chunks(rows(f)) : t = task(f, d)
  BY TaskIsChunk
<1>4. PICK d \in 1 .. Chunks(rows(f)) : t = task(f, d)
  BY <1>3
<1>5. /\ rows(e) \in Nat /\ Offset(routes, e) \in Nat
      /\ Placed(rows(e))[c - 1] \in 0 .. rows(e) /\ Placed(rows(e))[c] \in 0 .. rows(e)
  BY TaskFacts
<1>6. /\ rows(f) \in Nat /\ Offset(routes, f) \in Nat
      /\ Placed(rows(f))[d - 1] \in 0 .. rows(f) /\ Placed(rows(f))[d] \in 0 .. rows(f)
  BY TaskFacts
<1>7. /\ Offset(routes, e) + Placed(rows(e))[c - 1] < k /\ k <= Offset(routes, e) + Placed(rows(e))[c]
      /\ Offset(routes, f) + Placed(rows(f))[d - 1] < k /\ k <= Offset(routes, f) + Placed(rows(f))[d]
  BY <1>2, <1>4, <1>5, <1>6
<1>8. e < f => Offset(routes, e) + rows(e) <= Offset(routes, f)
  BY OffsetsApart
<1>9. f < e => Offset(routes, f) + rows(f) <= Offset(routes, e)
  BY OffsetsApart
<1> HIDE DEF rows
<1>10. e = f
  BY <1>5, <1>6, <1>7, <1>8, <1>9
<1>11. Chunks(rows(e)) \in Nat
  BY <1>5, ChunksFacts
<1>12. c < d => Placed(rows(e))[c] <= Placed(rows(e))[d - 1]
  <2> SUFFICES ASSUME c < d  PROVE Placed(rows(e))[c] <= Placed(rows(e))[d - 1]
    OBVIOUS
  <2>1. c \in 0 .. Chunks(rows(e)) /\ d - 1 \in c .. Chunks(rows(e))
    BY <1>10, <1>11
  <2> QED  BY <1>5, <2>1, PlacedInOrder
<1>13. d < c => Placed(rows(e))[d] <= Placed(rows(e))[c - 1]
  <2> SUFFICES ASSUME d < c  PROVE Placed(rows(e))[d] <= Placed(rows(e))[c - 1]
    OBVIOUS
  <2>1. d \in 0 .. Chunks(rows(e)) /\ c - 1 \in d .. Chunks(rows(e))
    BY <1>10, <1>11
  <2> QED  BY <1>5, <2>1, PlacedInOrder
<1>14. c = d
  BY <1>5, <1>6, <1>7, <1>10, <1>11, <1>12, <1>13
<1> QED  BY <1>2, <1>4, <1>10, <1>14

(* A grouped row is in a task of its own expert. *)
LEMMA GroupedInTask ==
  ASSUME NEW n \in Nat, NEW routes, RoutesOK(routes, n), NEW p \in Pairs(routes)
  PROVE  \E t \in Tasks(routes) :
           Grouped(routes, p) \in t.first .. t.last /\ t.expert = routes[p[1]][p[2]].expert
<1> DEFINE e == ExpertOf(routes, p)
           rows == Cardinality(SentTo(routes, e))
           x == Grouped(routes, p) - Offset(routes, e)
           task(c) == [expert |-> e, first |-> Offset(routes, e) + Placed(rows)[c - 1] + 1,
                       last |-> Offset(routes, e) + Placed(rows)[c]]
<1>1. e \in 1 .. Experts
  BY DEF RoutesOK
<1>2. rows \in Nat /\ Offset(routes, e) \in Nat
  BY PairsFacts
<1>3. Grouped(routes, p) \in Offset(routes, e) + 1 .. Offset(routes, e) + rows
  BY GroupedAmongItsExpert
<1>4. x \in 1 .. rows
  BY <1>2, <1>3
<1> HIDE DEF x
<1>5. PICK c \in 1 .. Chunks(rows) : Placed(rows)[c - 1] < x /\ x <= Placed(rows)[c]
  BY <1>2, <1>4, RowInChunk
<1>6. task(c) \in Tasks(routes)
  BY <1>1, TaskIsChunk
<1>7. Placed(rows)[c - 1] \in 0 .. rows /\ Placed(rows)[c] \in 0 .. rows
  BY <1>1, TaskFacts
<1> HIDE DEF e, rows
<1>8. Grouped(routes, p) \in task(c).first .. task(c).last
  BY <1>2, <1>3, <1>5, <1>7 DEF x
<1> QED  BY <1>6, <1>8 DEF e, ExpertOf

(* The tasks of any routes partition the grouped rows. *)
LEMMA TasksPartition ==
  ASSUME NEW n \in Nat, NEW routes, RoutesOK(routes, n)
  PROVE  /\ \A k \in 1 .. n * RoutesPerToken :
              Cardinality({t \in Tasks(routes) : k \in t.first .. t.last}) = 1
         /\ \A p \in Pairs(routes) : \E t \in Tasks(routes) :
              Grouped(routes, p) \in t.first .. t.last /\ t.expert = routes[p[1]][p[2]].expert
         /\ \A t \in Tasks(routes) : t.last - t.first + 1 \in 1 .. RowsPerTask
<1>1. ASSUME NEW k \in 1 .. n * RoutesPerToken
      PROVE  Cardinality({t \in Tasks(routes) : k \in t.first .. t.last}) = 1
  <2>1. PICK p \in Pairs(routes) : Grouped(routes, p) = k
    BY GroupedIsRank
  <2>2. PICK t \in Tasks(routes) : k \in t.first .. t.last
    BY <2>1, GroupedInTask
  <2>3. k \in Int
    BY GeometryAssumption
  <2>4. \A s \in Tasks(routes) : k \in s.first .. s.last => s = t
    BY <2>2, <2>3, TasksAreApart
  <2>5. {s \in Tasks(routes) : k \in s.first .. s.last} = {t}
    BY <2>2, <2>4
  <2> QED  BY <2>5, FS_Singleton
<1>2. ASSUME NEW t \in Tasks(routes)
      PROVE  t.last - t.first + 1 \in 1 .. RowsPerTask
  <2> DEFINE rows(e) == Cardinality(SentTo(routes, e))
  <2>1. PICK e \in 1 .. Experts : \E c \in 1 .. Chunks(rows(e)) :
          t = [expert |-> e, first |-> Offset(routes, e) + Placed(rows(e))[c - 1] + 1,
               last |-> Offset(routes, e) + Placed(rows(e))[c]]
    BY TaskIsChunk
  <2>2. PICK c \in 1 .. Chunks(rows(e)) :
          t = [expert |-> e, first |-> Offset(routes, e) + Placed(rows(e))[c - 1] + 1,
               last |-> Offset(routes, e) + Placed(rows(e))[c]]
    BY <2>1
  <2>3. /\ rows(e) \in Nat /\ Offset(routes, e) \in Nat
        /\ Placed(rows(e))[c - 1] \in 0 .. rows(e) /\ Placed(rows(e))[c] \in 0 .. rows(e)
        /\ Placed(rows(e))[c] - Placed(rows(e))[c - 1] \in 1 .. RowsPerTask
    BY TaskFacts
  <2> HIDE DEF rows
  <2>4. /\ t.first = Offset(routes, e) + Placed(rows(e))[c - 1] + 1
        /\ t.last = Offset(routes, e) + Placed(rows(e))[c]
    BY <2>2
  <2>5. t.last - t.first + 1 = Placed(rows(e))[c] - Placed(rows(e))[c - 1]
    BY <2>3, <2>4
  <2> QED  BY <2>3, <2>5
<1> QED  BY <1>1, <1>2, GroupedInTask
(* The routes of a call name experts, and the tasks that are left are some  *)
(* of those its routes make.                                                *)
TasksOK ==
  ~Idle =>
    /\ call.phase \in {"gather", "experts"} => RoutesOK(call.routes, Len(call.tokens))
    /\ call.phase = "experts" => call.pending \subseteq Tasks(call.routes)

LEMMA TasksUnit ==
  ASSUME IInv, TasksOK, NEW phase, NEW u, Unit(phase, u)
  PROVE  TasksOK'
<1>1. ~Idle /\ call' = [call EXCEPT !.pending = @ \ {u}]
  BY DEF Unit
<1>2. /\ call'.phase = call.phase /\ call'.routes = call.routes /\ call'.tokens = call.tokens
      /\ call'.pending \subseteq call.pending
  BY <1>1, InCall DEF CallFields
<1> QED  BY <1>1, <1>2 DEF TasksOK

LEMMA TasksGo ==
  ASSUME IInv, ~Idle, NEW phase, NEW pending, Go(phase, pending), phase \notin {"gather", "experts"}
  PROVE  TasksOK'
<1>1. call'.phase = phase
  BY InCall DEF Go, CallFields
<1> QED  BY <1>1 DEF TasksOK

LEMMA TasksOver ==
  ASSUME call' = NoCall \/ (\E kind, tokens, positions, wanted : Call(kind, tokens, positions, wanted))
  PROVE  TasksOK'
<1>1. CASE call' = NoCall
  BY <1>1 DEF TasksOK, Idle
<1>2. CASE \E kind, tokens, positions, wanted : Call(kind, tokens, positions, wanted)
  <2>1. call'.phase = "layer"
    BY <1>2 DEF Call
  <2> QED  BY <2>1 DEF TasksOK
<1> QED  BY <1>1, <1>2

LEMMA RouteTasks ==
  ASSUME ScoresAreNumbers, IInv, Route
  PROVE  TasksOK'
<1>1. /\ ~Idle
      /\ call' = [call EXCEPT !.phase = "gather", !.pending = Positions, !.routes = RowRoutes]
  BY DEF Route, After
<1>2. call'.phase = "gather" /\ call'.routes = RowRoutes /\ call'.tokens = call.tokens
  BY <1>1, InCall DEF CallFields
<1>3. DOMAIN RowRoutes = 1 .. Len(call.tokens)
  BY DEF RowRoutes, Rows
<1>4. ASSUME NEW i \in 1 .. Len(call.tokens), NEW r \in 1 .. RoutesPerToken
      PROVE  RowRoutes[i][r].expert \in 1 .. Experts
  <2> DEFINE scores == [e \in 1 .. Experts |-> Kernel("router", <<Layer, e, buffers.inputs[i]>>)]
  <2>1. RowRoutes[i] = TopExperts(scores)
    BY DEF RowRoutes, Rows, Routes
  <2>2. DOMAIN scores = 1 .. Experts /\ \A e \in 1 .. Experts : scores[e] \in Int
    BY DEF ScoresAreNumbers
  <2> HIDE DEF scores
  <2> QED  BY <2>1, <2>2, TopExpertsAreExperts
<1>5. RoutesOK(RowRoutes, Len(call.tokens))
  BY <1>3, <1>4 DEF RoutesOK, ExpertOf, Pairs
<1> QED  BY <1>2, <1>5 DEF TasksOK

LEMMA GatherTasks ==
  ASSUME IInv, TasksOK, GatherDone
  PROVE  TasksOK'
<1>1. ~Idle /\ call.phase = "gather" /\ Go("experts", Tasks(call.routes))
  BY DEF GatherDone, After
<1>2. /\ call'.phase = "experts" /\ call'.pending = Tasks(call.routes)
      /\ call'.routes = call.routes /\ call'.tokens = call.tokens
  BY <1>1, InCall DEF Go, CallFields
<1> QED  BY <1>1, <1>2 DEF TasksOK

LEMMA ReduceTasks ==
  ASSUME IInv, Reduce
  PROVE  TasksOK'
<1>1. /\ ~Idle
      /\ call' = [call EXCEPT !.phase = IF Layer = Len(Layers) THEN "head" ELSE "layer",
                              !.layer = IF Layer = Len(Layers) THEN @ ELSE @ + 1]
  BY DEF Reduce, After
<1>2. call'.phase \in {"head", "layer"}
  BY <1>1, InCall DEF CallFields
<1> QED  BY <1>2 DEF TasksOK

LEMMA NextTasks ==
  ASSUME ScoresAreNumbers, IInv, TasksOK, [Next]_vars
  PROVE  TasksOK'
<1>1. ASSUME UNCHANGED call  PROVE TasksOK'
  BY <1>1 DEF TasksOK, Idle
<1>2. ASSUME NEW p \in Prompts, Admit(p)  PROVE TasksOK'
  BY <1>1, <1>2 DEF Admit
<1>3. CASE Prefill
  BY <1>3, TasksOver DEF Prefill
<1>4. CASE DecodeBatch
  BY <1>4, TasksOver DEF DecodeBatch
<1>5. ASSUME NEW n \in DOMAIN states, Leave(n)  PROVE TasksOK'
  BY <1>1, <1>5 DEF Leave
<1>6. CASE AllocationFails \/ Cancelled \/ DecodeDone \/ PrefillReturns
  BY <1>6, TasksOver DEF AllocationFails, Cancelled, Drop, DecodeDone, PrefillReturns
<1>7. CASE FullLayer
  BY <1>7, TasksGo DEF FullLayer, After
<1>8. CASE AppendsDone
  BY <1>8, TasksGo DEF AppendsDone, After
<1>9. CASE LinearLayer
  BY <1>9, TasksGo DEF LinearLayer, After
<1>10. CASE PrefillLayer
  BY <1>10, TasksGo DEF PrefillLayer, After
<1>11. ASSUME NEW i, AppendRow(i)  PROVE TasksOK'
  <2>1. /\ ~Idle /\ call.phase = "append" /\ i \in call.pending
        /\ \A j \in call.pending : i <= j
    BY <1>11 DEF AppendRow
  <2>2. StateMatches(states[Target(i)], i)
    BY <2>1, AppendsInOrder
  <2>3. call' = [call EXCEPT !.pending = @ \ {i}]
    BY <1>11, <2>2 DEF AppendRow
  <2>4. call'.phase = "append"
    BY <2>1, <2>3, InCall DEF CallFields
  <2> QED  BY <2>4 DEF TasksOK
<1>12. ASSUME NEW u, AttendRow(u) \/ Sequence(u) \/ BlockWalk(u) \/ HeadWalk(u) \/ HeadUnit(u)
                     \/ Gate(u) \/ Gather(u) \/ ExpertTask(u)
       PROVE  TasksOK'
  <2>1. \E phase : Unit(phase, u)
    BY <1>12 DEF AttendRow, Sequence, BlockWalk, HeadWalk, HeadUnit, Gate, Gather, ExpertTask
  <2> QED  BY <2>1, TasksUnit
<1>13. CASE SequencesDone
  BY <1>13, TasksGo DEF SequencesDone, After
<1>14. CASE BlocksDone
  BY <1>14, TasksGo DEF BlocksDone, After
<1>15. CASE HeadsDone
  BY <1>15, TasksGo DEF HeadsDone, After
<1>16. CASE FullDone \/ LinearDone \/ PrefillDone
  <2>1. \E phase, output : AttentionDone(phase, output)
    BY <1>16 DEF FullDone, LinearDone, PrefillDone
  <2>2. ~Idle /\ Go("route", {})
    BY <2>1 DEF AttentionDone, After
  <2> QED  BY <2>2, TasksGo
<1>17. CASE Route \/ GatherDone \/ Reduce
  BY <1>17, RouteTasks, GatherTasks, ReduceTasks
<1>18. CASE HeadOfPrefill \/ Stopped \/ ContextExhausted \/ UNCHANGED vars
  BY <1>1, <1>18 DEF HeadOfPrefill, Stopped, ContextExhausted, vars
<1> QED
  BY <1>2, <1>3, <1>4, <1>5, <1>6, <1>7, <1>8, <1>9, <1>10, <1>11, <1>12, <1>13, <1>14, <1>15,
     <1>16, <1>17, <1>18 DEF Next

(* For any number of rows, experts and rows a task may have, the tasks of a *)
(* layer write every grouped row once, each with rows of its own expert.    *)
THEOREM TasksPartitionRows ==
  ASSUME ScoresAreNumbers
  PROVE  Spec => []ExpertTasksPartitionRows
<1>1. Init => TasksOK
  BY DEF Init, TasksOK, Idle
<1>2. IInv /\ TasksOK /\ [Next]_vars => TasksOK'
  BY NextTasks
<1>3. ASSUME IInv, TasksOK  PROVE ExpertTasksPartitionRows
  <2> SUFFICES ASSUME ~Idle, call.phase = "experts"
               PROVE  ExpertTasksPartitionRows
    BY DEF ExpertTasksPartitionRows
  <2>1. /\ RoutesOK(call.routes, Len(call.tokens)) /\ Len(call.tokens) \in Nat
        /\ call.pending \subseteq Tasks(call.routes)
    BY InCall, <1>3 DEF TasksOK
  <2> QED  BY <2>1, TasksPartition DEF ExpertTasksPartitionRows, Positions
<1>4. IInv /\ TasksOK => ExpertTasksPartitionRows
  BY <1>3
<1> QED  BY <1>1, <1>2, <1>4, RowsAdvanceTogether, PTL DEF Spec

-----------------------------------------------------------------------------
(* What decode_token does to one layer, given the hidden vector before it   *)

Input(l, hid) == Norm("input", l, hid)

KeysAfter(l, s, hid) ==
  IF Layers[l] = "full"
  THEN Append(s.keys[l], Key(l, Rope(s.position), Input(l, hid)))
  ELSE s.keys[l]

ValuesAfter(l, s, hid) ==
  IF Layers[l] = "full" THEN Append(s.values[l], Value(l, Input(l, hid))) ELSE s.values[l]

ConvolvedOf(l, s, hid) ==
  [b \in Blocks |-> Convolved(l, b, Convolution(s.convolution[l])[b], Input(l, hid))]

OperandsOf(l, s, hid, h) ==
  DeltaOperands(l, h, Recurrent(s.recurrent[l])[h], ConvolvedOf(l, s, hid),
                Decay(l, h, Input(l, hid)))

ConvolutionAfter(l, s, hid) ==
  IF Layers[l] = "full" THEN s.convolution[l]
  ELSE [b \in Blocks |-> Shift(l, b, Convolution(s.convolution[l])[b], Input(l, hid))]

RecurrentAfter(l, s, hid) ==
  IF Layers[l] = "full" THEN s.recurrent[l]
  ELSE [h \in Heads |-> NextBlock(OperandsOf(l, s, hid, h))]

QueryOf(l, s, hid) == Query(l, Rope(s.position), Input(l, hid))
AttendedOf(l, s, hid) ==
  Attend(QueryOf(l, s, hid), KeysAfter(l, s, hid), ValuesAfter(l, s, hid))
GatedOf(l, s, hid, h) == Gated(l, h, HeadOutput(OperandsOf(l, s, hid, h)), Input(l, hid))

(* the residual after the attention *)
AttentionOf(l, s, hid) ==
  IF Layers[l] = "full"
  THEN FullOutput(l, AttendedOf(l, s, hid))
  ELSE LinearOutput(l, [h \in Heads |-> GatedOf(l, s, hid, h)])

ResidualOf(l, s, hid) == Add(hid, AttentionOf(l, s, hid))

ExpertInput(l, s, hid) == Norm("post", l, ResidualOf(l, s, hid))

HiddenAfter(l, s, hid) ==
  Add(ResidualOf(l, s, hid), MoeForward(l, ExpertInput(l, s, hid)))

(* A state decode_token may be in.  A layer has the buffers of its kind. *)
Shaped(s) ==
  /\ s = [f \in StateFields |-> s[f]]
  /\ s.position \in Nat
  /\ s.keys = [l \in DOMAIN Layers |-> s.keys[l]]
  /\ s.values = [l \in DOMAIN Layers |-> s.values[l]]
  /\ s.convolution = [l \in DOMAIN Layers |-> s.convolution[l]]
  /\ s.recurrent = [l \in DOMAIN Layers |-> s.recurrent[l]]
  /\ \A l \in DOMAIN Layers : IF Layers[l] = "full"
                              THEN s.convolution[l] = <<>> /\ s.recurrent[l] = <<>>
                              ELSE s.keys[l] = <<>> /\ s.values[l] = <<>>

Sized(s) ==
  \A l \in DOMAIN Layers :
    IF Layers[l] = "full"
    THEN /\ IsSequence(s.keys[l]) /\ Len(s.keys[l]) = s.position
         /\ IsSequence(s.values[l]) /\ Len(s.values[l]) = s.position
    ELSE /\ s.convolution[l] = <<>> \/ s.convolution[l] = [b \in Blocks |-> s.convolution[l][b]]
         /\ s.recurrent[l] = <<>> \/ s.recurrent[l] = [h \in Heads |-> s.recurrent[l][h]]

Proper(s) == Shaped(s) /\ Sized(s)

(* layer l of two states is the same *)
LayerIs(s, l, g) ==
  IF Layers[l] = "full"
  THEN s.keys[l] = g.keys[l] /\ s.values[l] = g.values[l]
  ELSE s.convolution[l] = g.convolution[l] /\ s.recurrent[l] = g.recurrent[l]

LEMMA SameLayers ==
  ASSUME NEW s, NEW g, Shaped(s), Shaped(g), s.position = g.position,
         \A l \in DOMAIN Layers : LayerIs(s, l, g)
  PROVE  s = g
<1>1. /\ \A l \in DOMAIN Layers : s.keys[l] = g.keys[l] /\ s.values[l] = g.values[l]
      /\ \A l \in DOMAIN Layers :
           s.convolution[l] = g.convolution[l] /\ s.recurrent[l] = g.recurrent[l]
  BY ZenonT(60) DEF Shaped, LayerIs
<1>2. s.keys = g.keys
  BY <1>1 DEF Shaped
<1>3. s.values = g.values
  BY <1>1 DEF Shaped
<1>4. s.convolution = g.convolution
  BY <1>1 DEF Shaped
<1>5. s.recurrent = g.recurrent
  BY <1>1 DEF Shaped
<1>6. /\ s = [f \in StateFields |-> s[f]] /\ g = [f \in StateFields |-> g[f]]
  BY DEF Shaped
<1> QED  BY <1>2, <1>3, <1>4, <1>5, <1>6 DEF StateFields

LEMMA NotEmpty ==
  /\ \A f : f = [b \in Blocks |-> f[b]] => f # <<>> /\ Convolution(f) = f
  /\ \A f : f = [h \in Heads |-> f[h]] => f # <<>> /\ Recurrent(f) = f
<1>1. 1 \in Blocks /\ 1 \in Heads
  BY GeometryAssumption DEF Blocks, Heads
<1>2. DOMAIN <<>> = {}
  OBVIOUS
<1>3. \A f : f = [b \in Blocks |-> f[b]] => f # <<>>
  BY <1>1, <1>2
<1>4. \A f : f = [h \in Heads |-> f[h]] => f # <<>>
  BY <1>1, <1>2
<1> QED  BY <1>3, <1>4 DEF Convolution, Recurrent

LEMMA BuffersMade ==
  ASSUME NEW s, Proper(s), NEW l \in DOMAIN Layers, Layers[l] = "linear"
  PROVE  /\ Convolution(s.convolution[l]) = [b \in Blocks |-> Convolution(s.convolution[l])[b]]
         /\ Recurrent(s.recurrent[l]) = [h \in Heads |-> Recurrent(s.recurrent[l])[h]]
<1>1. /\ s.convolution[l] = <<>> \/ s.convolution[l] = [b \in Blocks |-> s.convolution[l][b]]
      /\ s.recurrent[l] = <<>> \/ s.recurrent[l] = [h \in Heads |-> s.recurrent[l][h]]
  BY DEF Proper, Sized
<1>2. Convolution(s.convolution[l]) = [b \in Blocks |-> Convolution(s.convolution[l])[b]]
  BY <1>1 DEF Convolution
<1>3. Recurrent(s.recurrent[l]) = [h \in Heads |-> Recurrent(s.recurrent[l])[h]]
  BY <1>1 DEF Recurrent
<1> QED  BY <1>2, <1>3

(* the caches, or the buffers, of one layer are replaced *)
LEMMA CachesShaped ==
  ASSUME NEW s, Shaped(s), NEW l \in DOMAIN Layers, Layers[l] = "full", NEW keys, NEW values,
         NEW n, n = [f \in StateFields |-> n[f]], n.position = s.position,
         n.keys = [s.keys EXCEPT ![l] = keys], n.values = [s.values EXCEPT ![l] = values],
         n.convolution = s.convolution, n.recurrent = s.recurrent
  PROVE  Shaped(n)
BY DEF Shaped

LEMMA BuffersShaped ==
  ASSUME NEW s, Shaped(s), NEW l \in DOMAIN Layers, Layers[l] = "linear",
         NEW convolution, NEW recurrent,
         NEW n, n = [f \in StateFields |-> n[f]], n.position = s.position,
         n.keys = s.keys, n.values = s.values,
         n.convolution = [s.convolution EXCEPT ![l] = convolution],
         n.recurrent = [s.recurrent EXCEPT ![l] = recurrent]
  PROVE  Shaped(n)
BY DEF Shaped

(* a layer sees no other layer *)
LEMMA OneLayerSeen ==
  ASSUME NEW l, NEW hid, NEW s, NEW g, s.position = g.position,
         s.keys[l] = g.keys[l], s.values[l] = g.values[l],
         s.convolution[l] = g.convolution[l], s.recurrent[l] = g.recurrent[l]
  PROVE  /\ KeysAfter(l, s, hid) = KeysAfter(l, g, hid)
         /\ ValuesAfter(l, s, hid) = ValuesAfter(l, g, hid)
         /\ ConvolutionAfter(l, s, hid) = ConvolutionAfter(l, g, hid)
         /\ RecurrentAfter(l, s, hid) = RecurrentAfter(l, g, hid)
         /\ HiddenAfter(l, s, hid) = HiddenAfter(l, g, hid)
<1>1. /\ KeysAfter(l, s, hid) = KeysAfter(l, g, hid)
      /\ ValuesAfter(l, s, hid) = ValuesAfter(l, g, hid)
      /\ ConvolutionAfter(l, s, hid) = ConvolutionAfter(l, g, hid)
  BY DEF KeysAfter, ValuesAfter, ConvolutionAfter
<1>2. ConvolvedOf(l, s, hid) = ConvolvedOf(l, g, hid)
  BY DEF ConvolvedOf
<1>3. \A h : OperandsOf(l, s, hid, h) = OperandsOf(l, g, hid, h)
  BY <1>2 DEF OperandsOf
<1>4. RecurrentAfter(l, s, hid) = RecurrentAfter(l, g, hid)
  BY <1>3 DEF RecurrentAfter
<1>5. \A h : GatedOf(l, s, hid, h) = GatedOf(l, g, hid, h)
  BY <1>3 DEF GatedOf
<1>6. [h \in Heads |-> GatedOf(l, s, hid, h)] = [h \in Heads |-> GatedOf(l, g, hid, h)]
  BY <1>5
<1>7. AttendedOf(l, s, hid) = AttendedOf(l, g, hid)
  BY <1>1 DEF AttendedOf, QueryOf
<1>8. ResidualOf(l, s, hid) = ResidualOf(l, g, hid)
  BY <1>6, <1>7 DEF ResidualOf, AttentionOf
<1> QED  BY <1>1, <1>4, <1>8 DEF HiddenAfter, ExpertInput

LEMMA FullForward ==
  ASSUME NEW s, Shaped(s), NEW hid, NEW l \in DOMAIN Layers, Layers[l] = "full"
  PROVE  LET result == FullAttentionForward(l, s, Input(l, hid))
         IN /\ Shaped(result.state) /\ result.state.position = s.position
            /\ result.state.keys = [s.keys EXCEPT ![l] = KeysAfter(l, s, hid)]
            /\ result.state.values = [s.values EXCEPT ![l] = ValuesAfter(l, s, hid)]
            /\ result.state.convolution = s.convolution
            /\ result.state.recurrent = s.recurrent
            /\ result.output = AttentionOf(l, s, hid)
<1> DEFINE result == FullAttentionForward(l, s, Input(l, hid))
           keys == KeysAfter(l, s, hid)
           values == ValuesAfter(l, s, hid)
           n == [s EXCEPT !.keys[l] = keys, !.values[l] = values]
<1>1. /\ keys = Append(s.keys[l], Key(l, Rope(s.position), Input(l, hid)))
      /\ values = Append(s.values[l], Value(l, Input(l, hid)))
  BY DEF KeysAfter, ValuesAfter
<1>2. AttentionOf(l, s, hid) = FullOutput(l, Attend(Query(l, Rope(s.position), Input(l, hid)), keys, values))
  BY DEF AttentionOf, AttendedOf, QueryOf
<1> HIDE DEF keys, values
<1>3. result = [state |-> n, output |-> AttentionOf(l, s, hid)]
  BY Zenon, <1>1, <1>2 DEF FullAttentionForward
<1>4. s = [f \in StateFields |-> s[f]]
  BY DEF Shaped
<1>5. n = [f \in StateFields |-> n[f]]
  BY <1>4
<1>6. /\ n.position = s.position
      /\ n.keys = [s.keys EXCEPT ![l] = keys] /\ n.values = [s.values EXCEPT ![l] = values]
      /\ n.convolution = s.convolution /\ n.recurrent = s.recurrent
  BY <1>4 DEF StateFields
<1> HIDE DEF n
<1>7. Shaped(n)
  BY <1>5, <1>6, CachesShaped
<1> HIDE DEF result
<1>8. result.state = n /\ result.output = AttentionOf(l, s, hid)
  BY <1>3
<1> QED  BY <1>6, <1>7, <1>8 DEF result, keys, values

LEMMA LinearForward ==
  ASSUME NEW s, Shaped(s), NEW hid, NEW l \in DOMAIN Layers, Layers[l] = "linear"
  PROVE  LET result == LinearAttentionForward(l, s, Input(l, hid))
         IN /\ Shaped(result.state) /\ result.state.position = s.position
            /\ result.state.keys = s.keys /\ result.state.values = s.values
            /\ result.state.convolution = [s.convolution EXCEPT ![l] = ConvolutionAfter(l, s, hid)]
            /\ result.state.recurrent = [s.recurrent EXCEPT ![l] = RecurrentAfter(l, s, hid)]
            /\ result.output = AttentionOf(l, s, hid)
<1> DEFINE x == Input(l, hid)
           result == LinearAttentionForward(l, s, x)
           history == Convolution(s.convolution[l])
           convolved == [b \in Blocks |-> Convolved(l, b, history[b], x)]
           recurrent == Recurrent(s.recurrent[l])
           operands == [h \in Heads |->
                          DeltaOperands(l, h, recurrent[h], convolved, Decay(l, h, x))]
           normalized == [h \in Heads |-> Gated(l, h, HeadOutput(operands[h]), x)]
           shifted == [b \in Blocks |-> Shift(l, b, history[b], x)]
           blocks == [h \in Heads |-> NextBlock(operands[h])]
           n == [s EXCEPT !.convolution[l] = shifted, !.recurrent[l] = blocks]
<1>1. result = [state |-> n, output |-> LinearOutput(l, normalized)]
  BY Zenon DEF LinearAttentionForward
<1>2. convolved = ConvolvedOf(l, s, hid)
  BY DEF ConvolvedOf
<1>3. \A h \in Heads : operands[h] = OperandsOf(l, s, hid, h)
  BY <1>2 DEF OperandsOf
<1>4. shifted = ConvolutionAfter(l, s, hid)
  BY DEF ConvolutionAfter
<1> HIDE DEF operands, shifted
<1>5. normalized = [h \in Heads |-> GatedOf(l, s, hid, h)]
  BY <1>3 DEF GatedOf
<1>6. blocks = RecurrentAfter(l, s, hid)
  BY <1>3 DEF RecurrentAfter
<1>7. LinearOutput(l, normalized) = AttentionOf(l, s, hid)
  BY <1>5 DEF AttentionOf
<1> HIDE DEF normalized, blocks
<1>8. s = [f \in StateFields |-> s[f]]
  BY DEF Shaped
<1>9. n = [f \in StateFields |-> n[f]]
  BY <1>8
<1>10. /\ n.position = s.position /\ n.keys = s.keys /\ n.values = s.values
       /\ n.convolution = [s.convolution EXCEPT ![l] = shifted]
       /\ n.recurrent = [s.recurrent EXCEPT ![l] = blocks]
  BY <1>8 DEF StateFields
<1> HIDE DEF n, result
<1>11. Shaped(n)
  BY <1>9, <1>10, BuffersShaped
<1>12. result.state = n /\ result.output = AttentionOf(l, s, hid)
  BY <1>1, <1>7
<1> QED  BY <1>4, <1>6, <1>10, <1>11, <1>12 DEF result

LEMMA OneLayer ==
  ASSUME NEW at, Shaped(at.state), NEW l \in DOMAIN Layers
  PROVE  LET s == at.state
             hid == at.hidden
             next == DecodeLayer(l, at).state
         IN /\ Shaped(next) /\ next.position = s.position
            /\ next.keys = [s.keys EXCEPT ![l] = KeysAfter(l, s, hid)]
            /\ next.values = [s.values EXCEPT ![l] = ValuesAfter(l, s, hid)]
            /\ next.convolution = [s.convolution EXCEPT ![l] = ConvolutionAfter(l, s, hid)]
            /\ next.recurrent = [s.recurrent EXCEPT ![l] = RecurrentAfter(l, s, hid)]
            /\ DecodeLayer(l, at).hidden = HiddenAfter(l, s, hid)
<1> DEFINE s == at.state
           hid == at.hidden
           next == DecodeLayer(l, at).state
           full == FullAttentionForward(l, s, Input(l, hid))
           linear == LinearAttentionForward(l, s, Input(l, hid))
           forward == IF Layers[l] = "full" THEN full ELSE linear
<1>1. /\ next = forward.state
      /\ DecodeLayer(l, at).hidden
           = Add(Add(hid, forward.output), MoeForward(l, Norm("post", l, Add(hid, forward.output))))
  BY DEF DecodeLayer, Input
<1>2. s.keys = [s.keys EXCEPT ![l] = s.keys[l]] /\ s.values = [s.values EXCEPT ![l] = s.values[l]]
  BY DEF Shaped
<1>3. /\ s.convolution = [s.convolution EXCEPT ![l] = s.convolution[l]]
      /\ s.recurrent = [s.recurrent EXCEPT ![l] = s.recurrent[l]]
  BY DEF Shaped
<1>4. Shaped(s)
  OBVIOUS
<1> HIDE DEF s, hid
<1>5. /\ Shaped(forward.state) /\ forward.state.position = s.position
      /\ forward.state.keys = [s.keys EXCEPT ![l] = KeysAfter(l, s, hid)]
      /\ forward.state.values = [s.values EXCEPT ![l] = ValuesAfter(l, s, hid)]
      /\ forward.state.convolution = [s.convolution EXCEPT ![l] = ConvolutionAfter(l, s, hid)]
      /\ forward.state.recurrent = [s.recurrent EXCEPT ![l] = RecurrentAfter(l, s, hid)]
      /\ forward.output = AttentionOf(l, s, hid)
  <2>1. CASE Layers[l] = "full"
    <3>1. forward = full
      BY <2>1
    <3>2. ConvolutionAfter(l, s, hid) = s.convolution[l] /\ RecurrentAfter(l, s, hid) = s.recurrent[l]
      BY <2>1 DEF ConvolutionAfter, RecurrentAfter
    <3>3. /\ Shaped(full.state) /\ full.state.position = s.position
          /\ full.state.keys = [s.keys EXCEPT ![l] = KeysAfter(l, s, hid)]
          /\ full.state.values = [s.values EXCEPT ![l] = ValuesAfter(l, s, hid)]
          /\ full.state.convolution = s.convolution /\ full.state.recurrent = s.recurrent
          /\ full.output = AttentionOf(l, s, hid)
      BY <1>4, <2>1, FullForward
    <3> HIDE DEF forward, full
    <3> QED  BY <1>3, <3>1, <3>2, <3>3
  <2>2. CASE Layers[l] # "full"
    <3>0. Layers[l] = "linear"
      BY <2>2, LayersFacts
    <3>1. forward = linear
      BY <2>2
    <3>2. KeysAfter(l, s, hid) = s.keys[l] /\ ValuesAfter(l, s, hid) = s.values[l]
      BY <2>2 DEF KeysAfter, ValuesAfter
    <3>3. /\ Shaped(linear.state) /\ linear.state.position = s.position
          /\ linear.state.keys = s.keys /\ linear.state.values = s.values
          /\ linear.state.convolution = [s.convolution EXCEPT ![l] = ConvolutionAfter(l, s, hid)]
          /\ linear.state.recurrent = [s.recurrent EXCEPT ![l] = RecurrentAfter(l, s, hid)]
          /\ linear.output = AttentionOf(l, s, hid)
      BY <1>4, <3>0, LinearForward
    <3> HIDE DEF forward, linear
    <3> QED  BY <1>2, <3>1, <3>2, <3>3
  <2> QED  BY <2>1, <2>2
<1> HIDE DEF next, forward
<1>6. DecodeLayer(l, at).hidden = HiddenAfter(l, s, hid)
  BY <1>1, <1>5 DEF HiddenAfter, ResidualOf, ExpertInput
<1> QED  BY <1>1, <1>5, <1>6 DEF next, s, hid

-----------------------------------------------------------------------------
(* The recursive functions of the model are what their definitions say. *)

LEMMA LayeredIsDefined ==
  ASSUME NEW state, NEW token
  PROVE  Layered(state, token) =
           [l \in 0 .. Len(Layers) |->
              IF l = 0 THEN [state |-> state, hidden |-> Embedding(token)]
              ELSE DecodeLayer(l, Layered(state, token)[l - 1])]
<1> DEFINE first == [state |-> state, hidden |-> Embedding(token)]
           Fits(f, n) == f = [l \in 0 .. n |-> IF l = 0 THEN first ELSE DecodeLayer(l, f[l - 1])]
           S == {n \in Nat : \E f : Fits(f, n)}
<1> HIDE DEF first
<1>1. 0 \in S
  <2> DEFINE f == [l \in 0 .. 0 |-> first]
  <2>1. Fits(f, 0)
    OBVIOUS
  <2> QED  BY <2>1
<1>2. ASSUME NEW n \in Nat, n \in S  PROVE n + 1 \in S
  <2>1. PICK f : Fits(f, n)
    BY <1>2
  <2> DEFINE g == [l \in 0 .. n + 1 |-> IF l = n + 1 THEN DecodeLayer(n + 1, f[n]) ELSE f[l]]
  <2>2. \A l \in 0 .. n + 1 : g[l] = IF l = 0 THEN first ELSE DecodeLayer(l, g[l - 1])
    <3> SUFFICES ASSUME NEW l \in 0 .. n + 1
                 PROVE  g[l] = IF l = 0 THEN first ELSE DecodeLayer(l, g[l - 1])
      OBVIOUS
    <3>1. CASE l = 0
      BY <2>1, <3>1
    <3>2. CASE l \in 1 .. n
      <4>1. g[l] = f[l] /\ g[l - 1] = f[l - 1] /\ l \in 0 .. n /\ l # 0
        BY <3>2
      <4>2. f[l] = DecodeLayer(l, f[l - 1])
        BY <2>1, <4>1
      <4> QED  BY <4>1, <4>2
    <3>3. CASE l = n + 1
      BY <3>3
    <3> QED  BY <3>1, <3>2, <3>3
  <2>3. g = [l \in 0 .. n + 1 |-> g[l]]
    OBVIOUS
  <2> HIDE DEF g
  <2>4. Fits(g, n + 1)
    BY <2>2, <2>3
  <2> QED  BY <2>4
<1>3. Nat \subseteq S
  <2> HIDE DEF S
  <2> QED  BY <1>1, <1>2, NumbersFromZero
<1>4. \E f : Fits(f, Len(Layers))
  BY <1>3, LayersFacts
<1>5. Layered(state, token) = CHOOSE f : Fits(f, Len(Layers))
  BY DEF Layered, first
<1>6. Fits(Layered(state, token), Len(Layers))
  <2> HIDE DEF Fits
  <2> QED  BY <1>4, <1>5
<1> QED  BY <1>6 DEF first

LEMMA TokenwiseIsDefined ==
  ASSUME NEW state, NEW tokens, Len(tokens) \in Nat
  PROVE  Tokenwise(state, tokens) =
           [n \in 0 .. Len(tokens) |->
              IF n = 0 THEN [state |-> state, logits |-> <<>>]
              ELSE DecodeToken(Tokenwise(state, tokens)[n - 1].state, tokens[n])]
<1> DEFINE first == [state |-> state, logits |-> <<>>]
           Fits(f, n) == f = [i \in 0 .. n |-> IF i = 0 THEN first
                                               ELSE DecodeToken(f[i - 1].state, tokens[i])]
           S == {n \in Nat : \E f : Fits(f, n)}
<1> HIDE DEF first
<1>1. 0 \in S
  <2> DEFINE f == [i \in 0 .. 0 |-> first]
  <2>1. Fits(f, 0)
    OBVIOUS
  <2> QED  BY <2>1
<1>2. ASSUME NEW n \in Nat, n \in S  PROVE n + 1 \in S
  <2>1. PICK f : Fits(f, n)
    BY <1>2
  <2> DEFINE g == [i \in 0 .. n + 1 |->
                     IF i = n + 1 THEN DecodeToken(f[n].state, tokens[n + 1]) ELSE f[i]]
  <2>2. \A i \in 0 .. n + 1 :
          g[i] = IF i = 0 THEN first ELSE DecodeToken(g[i - 1].state, tokens[i])
    <3> SUFFICES ASSUME NEW i \in 0 .. n + 1
                 PROVE  g[i] = IF i = 0 THEN first ELSE DecodeToken(g[i - 1].state, tokens[i])
      OBVIOUS
    <3>1. CASE i = 0
      BY <2>1, <3>1
    <3>2. CASE i \in 1 .. n
      <4>1. g[i] = f[i] /\ g[i - 1] = f[i - 1] /\ i \in 0 .. n /\ i # 0
        BY <3>2
      <4>2. f[i] = DecodeToken(f[i - 1].state, tokens[i])
        BY <2>1, <4>1
      <4> QED  BY <4>1, <4>2
    <3>3. CASE i = n + 1
      BY <3>3
    <3> QED  BY <3>1, <3>2, <3>3
  <2>3. g = [i \in 0 .. n + 1 |-> g[i]]
    OBVIOUS
  <2> HIDE DEF g
  <2>4. Fits(g, n + 1)
    BY <2>2, <2>3
  <2> QED  BY <2>4
<1>3. Nat \subseteq S
  <2> HIDE DEF S
  <2> QED  BY <1>1, <1>2, NumbersFromZero
<1>4. \E f : Fits(f, Len(tokens))
  BY <1>3
<1>5. Tokenwise(state, tokens) = CHOOSE f : Fits(f, Len(tokens))
  BY DEF Tokenwise, first
<1>6. Fits(Tokenwise(state, tokens), Len(tokens))
  <2> HIDE DEF Fits
  <2> QED  BY <1>4, <1>5
<1> QED  BY <1>6 DEF first

-----------------------------------------------------------------------------
(* decode_token, layer by layer *)

(* the layers up to l have taken the token, the others have not *)
LayersTaken(s, at, l) ==
  /\ Shaped(at[l].state) /\ at[l].state.position = s.position
  /\ \A m \in DOMAIN Layers :
       /\ at[l].state.keys[m] = IF m <= l THEN KeysAfter(m, s, at[m - 1].hidden) ELSE s.keys[m]
       /\ at[l].state.values[m]
            = IF m <= l THEN ValuesAfter(m, s, at[m - 1].hidden) ELSE s.values[m]
       /\ at[l].state.convolution[m]
            = IF m <= l THEN ConvolutionAfter(m, s, at[m - 1].hidden) ELSE s.convolution[m]
       /\ at[l].state.recurrent[m]
            = IF m <= l THEN RecurrentAfter(m, s, at[m - 1].hidden) ELSE s.recurrent[m]
  /\ l # 0 => at[l].hidden = HiddenAfter(l, s, at[l - 1].hidden)

LEMMA LayeredFacts ==
  ASSUME NEW s, Shaped(s), NEW token
  PROVE  /\ Layered(s, token)[0].hidden = Embedding(token)
         /\ \A l \in 0 .. Len(Layers) : LayersTaken(s, Layered(s, token), l)
<1> DEFINE at == Layered(s, token)
           S == {l \in Nat : l <= Len(Layers) => LayersTaken(s, at, l)}
<1>0. /\ at[0] = [state |-> s, hidden |-> Embedding(token)]
      /\ \A l \in 1 .. Len(Layers) : at[l] = DecodeLayer(l, at[l - 1])
  BY LayeredIsDefined, LayersFacts
<1> HIDE DEF at
<1>1. 0 \in S
  BY <1>0, LayersFacts DEF LayersTaken
<1>2. ASSUME NEW k \in Nat, k \in S  PROVE k + 1 \in S
  <2> SUFFICES ASSUME k + 1 <= Len(Layers)  PROVE LayersTaken(s, at, k + 1)
    OBVIOUS
  <2> DEFINE l == k + 1
             before == at[k].state
             hid == at[k].hidden
             after == at[l].state
  <2>1. l \in DOMAIN Layers /\ l \in 1 .. Len(Layers) /\ l - 1 = k
    BY LayersFacts
  <2>2. LayersTaken(s, at, k)
    BY <1>2, LayersFacts
  <2>3. at[l] = DecodeLayer(l, at[k])
    BY <1>0, <2>1
  <2> HIDE DEF l
  <2>4. /\ Shaped(after) /\ after.position = before.position
        /\ after.keys = [before.keys EXCEPT ![l] = KeysAfter(l, before, hid)]
        /\ after.values = [before.values EXCEPT ![l] = ValuesAfter(l, before, hid)]
        /\ after.convolution = [before.convolution EXCEPT ![l] = ConvolutionAfter(l, before, hid)]
        /\ after.recurrent = [before.recurrent EXCEPT ![l] = RecurrentAfter(l, before, hid)]
        /\ at[l].hidden = HiddenAfter(l, before, hid)
    <3>1. Shaped(at[k].state)
      BY <2>2 DEF LayersTaken
    <3> DEFINE from == at[k]
               to == at[l]
    <3>2. Shaped(from.state) /\ to = DecodeLayer(l, from)
      BY <2>3, <3>1
    <3> HIDE DEF from, to
    <3>3. /\ Shaped(to.state) /\ to.state.position = from.state.position
          /\ to.hidden = HiddenAfter(l, from.state, from.hidden)
      BY <2>1, <3>2, OneLayer
    <3>4. to.state.keys = [from.state.keys EXCEPT ![l] = KeysAfter(l, from.state, from.hidden)]
      BY <2>1, <3>2, OneLayer
    <3>5. to.state.values = [from.state.values EXCEPT ![l] = ValuesAfter(l, from.state, from.hidden)]
      BY <2>1, <3>2, OneLayer
    <3>6. to.state.convolution
            = [from.state.convolution EXCEPT ![l] = ConvolutionAfter(l, from.state, from.hidden)]
      BY <2>1, <3>2, OneLayer
    <3>7. to.state.recurrent
            = [from.state.recurrent EXCEPT ![l] = RecurrentAfter(l, from.state, from.hidden)]
      BY <2>1, <3>2, OneLayer
    <3> QED  BY <3>3, <3>4, <3>5, <3>6, <3>7 DEF from, to
  <2>5. /\ before.position = s.position
        /\ before.keys[l] = s.keys[l] /\ before.values[l] = s.values[l]
        /\ before.convolution[l] = s.convolution[l] /\ before.recurrent[l] = s.recurrent[l]
    BY <2>1, <2>2 DEF LayersTaken
  <2>6. /\ KeysAfter(l, before, hid) = KeysAfter(l, s, hid)
        /\ ValuesAfter(l, before, hid) = ValuesAfter(l, s, hid)
        /\ ConvolutionAfter(l, before, hid) = ConvolutionAfter(l, s, hid)
        /\ RecurrentAfter(l, before, hid) = RecurrentAfter(l, s, hid)
        /\ HiddenAfter(l, before, hid) = HiddenAfter(l, s, hid)
    BY <2>5, OneLayerSeen
  <2>7. /\ DOMAIN before.keys = DOMAIN Layers /\ DOMAIN before.values = DOMAIN Layers
        /\ DOMAIN before.convolution = DOMAIN Layers /\ DOMAIN before.recurrent = DOMAIN Layers
    BY <2>2 DEF LayersTaken, Shaped
  <2>8. \A m \in DOMAIN Layers :
          /\ m # l => /\ after.keys[m] = before.keys[m] /\ after.values[m] = before.values[m]
                      /\ after.convolution[m] = before.convolution[m]
                      /\ after.recurrent[m] = before.recurrent[m]
          /\ m # l => (m <= l <=> m <= k)
    BY <2>1, <2>4, <2>7, LayersFacts
  <2>9. /\ after.keys[l] = KeysAfter(l, s, hid) /\ after.values[l] = ValuesAfter(l, s, hid)
        /\ after.convolution[l] = ConvolutionAfter(l, s, hid)
        /\ after.recurrent[l] = RecurrentAfter(l, s, hid)
    BY <2>1, <2>4, <2>6, <2>7
  <2>10. ASSUME NEW m \in DOMAIN Layers
         PROVE  /\ after.keys[m] = IF m <= l THEN KeysAfter(m, s, at[m - 1].hidden) ELSE s.keys[m]
                /\ after.values[m]
                     = IF m <= l THEN ValuesAfter(m, s, at[m - 1].hidden) ELSE s.values[m]
                /\ after.convolution[m]
                     = IF m <= l THEN ConvolutionAfter(m, s, at[m - 1].hidden) ELSE s.convolution[m]
                /\ after.recurrent[m]
                     = IF m <= l THEN RecurrentAfter(m, s, at[m - 1].hidden) ELSE s.recurrent[m]
    <3>1. CASE m = l
      BY <2>1, <2>9, <3>1
    <3>2. CASE m # l
      BY <2>2, <2>8, <3>2 DEF LayersTaken
    <3> QED  BY <3>1, <3>2
  <2>11. LayersTaken(s, at, l)
    BY <2>1, <2>2, <2>4, <2>6, <2>10 DEF LayersTaken
  <2> QED  BY <2>11 DEF l
<1>3. Nat \subseteq S
  <2> HIDE DEF S
  <2> QED  BY <1>1, <1>2, NumbersFromZero
<1>4. \A l \in 0 .. Len(Layers) : LayersTaken(s, at, l)
  BY <1>3, LayersFacts
<1> QED  BY <1>0, <1>4 DEF at

(* the hidden vector of a token after layer l *)
HiddenOf(s, token, l) == Layered(s, token)[l].hidden

LEMMA TokenFacts ==
  ASSUME NEW s, Proper(s), NEW token
  PROVE  LET next == DecodeToken(s, token).state
         IN /\ Proper(next) /\ next.position = s.position + 1
            /\ \A l \in DOMAIN Layers :
                 /\ next.keys[l] = KeysAfter(l, s, HiddenOf(s, token, l - 1))
                 /\ next.values[l] = ValuesAfter(l, s, HiddenOf(s, token, l - 1))
                 /\ next.convolution[l] = ConvolutionAfter(l, s, HiddenOf(s, token, l - 1))
                 /\ next.recurrent[l] = RecurrentAfter(l, s, HiddenOf(s, token, l - 1))
            /\ HiddenOf(s, token, 0) = Embedding(token)
            /\ \A l \in DOMAIN Layers :
                 HiddenOf(s, token, l) = HiddenAfter(l, s, HiddenOf(s, token, l - 1))
            /\ DecodeToken(s, token)
                 = [state |-> next, logits |-> Logits(HiddenOf(s, token, Len(Layers)))]
<1> DEFINE at == Layered(s, token)
           last == at[Len(Layers)].state
           next == [last EXCEPT !.position = @ + 1]
<1>1. DecodeToken(s, token) = [state |-> next, logits |-> Logits(at[Len(Layers)].hidden)]
  BY Zenon DEF DecodeToken
<1>2. Shaped(s)
  BY DEF Proper
<1>3. at[0].hidden = Embedding(token) /\ \A l \in 0 .. Len(Layers) : LayersTaken(s, at, l)
  BY <1>2, LayeredFacts
<1> HIDE DEF at
<1>4. /\ Shaped(last) /\ last.position = s.position
      /\ \A l \in DOMAIN Layers :
           /\ last.keys[l] = KeysAfter(l, s, at[l - 1].hidden)
           /\ last.values[l] = ValuesAfter(l, s, at[l - 1].hidden)
           /\ last.convolution[l] = ConvolutionAfter(l, s, at[l - 1].hidden)
           /\ last.recurrent[l] = RecurrentAfter(l, s, at[l - 1].hidden)
  BY <1>3, LayersFacts DEF LayersTaken
<1>5. \A l \in DOMAIN Layers : at[l].hidden = HiddenAfter(l, s, at[l - 1].hidden)
  BY <1>3, LayersFacts DEF LayersTaken
<1> HIDE DEF last
<1>6. last = [f \in StateFields |-> last[f]]
  BY <1>4 DEF Shaped
<1>7. /\ next = [f \in StateFields |-> next[f]]
      /\ next.position = s.position + 1
      /\ next.keys = last.keys /\ next.values = last.values
      /\ next.convolution = last.convolution /\ next.recurrent = last.recurrent
  BY <1>4, <1>6 DEF StateFields
<1> HIDE DEF next
<1>8. Shaped(next)
  <2>1. next.position \in Nat
    BY <1>7 DEF Proper, Shaped
  <2> QED  BY <1>4, <1>7, <2>1 DEF Shaped
<1>9. Sized(next)
  <2> SUFFICES ASSUME NEW l \in DOMAIN Layers
               PROVE  IF Layers[l] = "full"
                      THEN /\ IsSequence(next.keys[l]) /\ Len(next.keys[l]) = next.position
                           /\ IsSequence(next.values[l]) /\ Len(next.values[l]) = next.position
                      ELSE /\ next.convolution[l] = [b \in Blocks |-> next.convolution[l][b]]
                           /\ next.recurrent[l] = [h \in Heads |-> next.recurrent[l][h]]
    BY Zenon DEF Sized
  <2>1. CASE Layers[l] = "full"
    <3>1. /\ IsSequence(s.keys[l]) /\ Len(s.keys[l]) = s.position
          /\ IsSequence(s.values[l]) /\ Len(s.values[l]) = s.position
      BY <2>1 DEF Proper, Sized
    <3> DEFINE key == Key(l, Rope(s.position), Input(l, at[l - 1].hidden))
               value == Value(l, Input(l, at[l - 1].hidden))
    <3>2. next.keys[l] = Append(s.keys[l], key) /\ next.values[l] = Append(s.values[l], value)
      BY <1>4, <1>7, <2>1 DEF KeysAfter, ValuesAfter
    <3> HIDE DEF key, value
    <3>3. IsSequence(Append(s.keys[l], key)) /\ Len(Append(s.keys[l], key)) = s.position + 1
      BY <3>1, SequenceAppend
    <3>4. IsSequence(Append(s.values[l], value)) /\ Len(Append(s.values[l], value)) = s.position + 1
      BY <3>1, SequenceAppend
    <3> QED  BY <1>7, <2>1, <3>2, <3>3, <3>4
  <2>2. CASE Layers[l] # "full"
    <3> DEFINE convolution == ConvolutionAfter(l, s, at[l - 1].hidden)
               recurrent == RecurrentAfter(l, s, at[l - 1].hidden)
    <3>1. convolution = [b \in Blocks |-> convolution[b]]
      BY <2>2 DEF ConvolutionAfter
    <3>2. recurrent = [h \in Heads |-> recurrent[h]]
      BY <2>2 DEF RecurrentAfter
    <3>3. next.convolution[l] = convolution /\ next.recurrent[l] = recurrent
      BY <1>4, <1>7
    <3> HIDE DEF convolution, recurrent
    <3> QED  BY <2>2, <3>1, <3>2, <3>3
  <2> QED  BY <2>1, <2>2
<1> DEFINE result == DecodeToken(s, token)
<1> HIDE DEF result
<1>10. result.state = next /\ result = [state |-> result.state, logits |-> Logits(at[Len(Layers)].hidden)]
  BY <1>1 DEF result
<1> QED  BY <1>3, <1>4, <1>5, <1>7, <1>8, <1>9, <1>10 DEF HiddenOf, at, result, Proper

-----------------------------------------------------------------------------
(* decode_token, token by token *)

LEMMA SequenceWhole ==
  ASSUME NEW s, IsSequence(s)
  PROVE  SubSeq(s, 1, Len(s)) = s
<1> DEFINE S == {s[i] : i \in DOMAIN s}
<1>1. s \in Seq(S)
  BY DEF IsSequence
<1> HIDE DEF S
<1> QED  BY <1>1

LEMMA SequenceBegins ==
  ASSUME NEW s, IsSequence(s), NEW x, NEW n \in 0 .. Len(s)
  PROVE  SubSeq(Append(s, x), 1, n) = SubSeq(s, 1, n)
<1> DEFINE S == {s[i] : i \in DOMAIN s} \cup {x}
<1>1. s \in Seq(S)
  BY DEF IsSequence
<1> HIDE DEF S
<1>2. Len(SubSeq(Append(s, x), 1, n)) = n /\ Len(SubSeq(s, 1, n)) = n
  BY <1>1
<1>3. \A i \in 1 .. n : SubSeq(Append(s, x), 1, n)[i] = s[i] /\ SubSeq(s, 1, n)[i] = s[i]
  BY <1>1
<1> QED  BY <1>1, <1>2, <1>3

LEMMA TokenwiseFacts ==
  ASSUME NEW s, Proper(s), NEW tokens, Len(tokens) \in Nat
  PROVE  LET at == Tokenwise(s, tokens)
         IN /\ at[0].state = s
            /\ \A k \in 0 .. Len(tokens) :
                 Proper(at[k].state) /\ at[k].state.position = s.position + k
            /\ \A k \in 1 .. Len(tokens) : at[k] = DecodeToken(at[k - 1].state, tokens[k])
<1> DEFINE at == Tokenwise(s, tokens)
           S == {k \in Nat : k <= Len(tokens) =>
                   Proper(at[k].state) /\ at[k].state.position = s.position + k}
<1>1. /\ at[0] = [state |-> s, logits |-> <<>>]
      /\ \A k \in 1 .. Len(tokens) : at[k] = DecodeToken(at[k - 1].state, tokens[k])
  BY TokenwiseIsDefined
<1> HIDE DEF at
<1>2. at[0].state = s /\ s.position \in Nat
  BY <1>1 DEF Proper, Shaped
<1>3. 0 \in S
  BY <1>2
<1>4. ASSUME NEW k \in Nat, k \in S  PROVE k + 1 \in S
  <2> SUFFICES ASSUME k + 1 <= Len(tokens)
               PROVE  Proper(at[k + 1].state) /\ at[k + 1].state.position = s.position + (k + 1)
    OBVIOUS
  <2>1. Proper(at[k].state) /\ at[k].state.position = s.position + k
    BY <1>4
  <2>2. at[k + 1] = DecodeToken(at[k].state, tokens[k + 1])
    BY <1>1
  <2>3. Proper(at[k + 1].state) /\ at[k + 1].state.position = at[k].state.position + 1
    BY <2>1, <2>2, TokenFacts
  <2> QED  BY <1>2, <2>1, <2>3
<1>5. Nat \subseteq S
  <2> HIDE DEF S
  <2> QED  BY <1>3, <1>4, NumbersFromZero
<1> QED  BY <1>1, <1>2, <1>5 DEF at

LEMMA TokenwiseStep ==
  ASSUME NEW s, Proper(s), NEW tokens, Len(tokens) \in Nat, NEW k \in 1 .. Len(tokens)
  PROVE  Tokenwise(s, tokens)[k] = DecodeToken(Tokenwise(s, tokens)[k - 1].state, tokens[k])
BY TokenwiseFacts

(* The caches of a full layer only grow. *)
LEMMA CachesGrow ==
  ASSUME NEW s, Proper(s), NEW tokens, Len(tokens) \in Nat,
         NEW l \in DOMAIN Layers, Layers[l] = "full",
         NEW n \in 0 .. Len(tokens), NEW k \in 0 .. n
  PROVE  LET at == Tokenwise(s, tokens)
         IN /\ SubSeq(at[n].state.keys[l], 1, s.position + k) = at[k].state.keys[l]
            /\ SubSeq(at[n].state.values[l], 1, s.position + k) = at[k].state.values[l]
<1> DEFINE at == Tokenwise(s, tokens)
           keys(m) == at[m].state.keys[l]
           values(m) == at[m].state.values[l]
           size == s.position + k
           S == {m \in Nat : k <= m /\ m <= Len(tokens) =>
                   SubSeq(keys(m), 1, size) = keys(k) /\ SubSeq(values(m), 1, size) = values(k)}
<1>1. /\ \A m \in 0 .. Len(tokens) :
           Proper(at[m].state) /\ at[m].state.position = s.position + m
      /\ \A m \in 1 .. Len(tokens) : at[m] = DecodeToken(at[m - 1].state, tokens[m])
  BY TokenwiseFacts
<1> HIDE DEF at
<1>2. s.position \in Nat
  BY DEF Proper, Shaped
<1>3. \A m \in 0 .. Len(tokens) :
        /\ IsSequence(keys(m)) /\ Len(keys(m)) = s.position + m
        /\ IsSequence(values(m)) /\ Len(values(m)) = s.position + m
  BY <1>1 DEF Proper, Sized
<1>4. ASSUME NEW m \in 1 .. Len(tokens)
      PROVE  \E key, value :
               keys(m) = Append(keys(m - 1), key) /\ values(m) = Append(values(m - 1), value)
  <2> DEFINE before == at[m - 1].state
             hid == HiddenOf(before, tokens[m], l - 1)
  <2>1. Proper(before) /\ at[m] = DecodeToken(before, tokens[m])
    BY <1>1
  <2>2. keys(m) = KeysAfter(l, before, hid) /\ values(m) = ValuesAfter(l, before, hid)
    <3> HIDE DEF before
    <3> QED  BY <2>1, TokenFacts
  <2>3. /\ KeysAfter(l, before, hid) = Append(keys(m - 1), Key(l, Rope(before.position), Input(l, hid)))
        /\ ValuesAfter(l, before, hid) = Append(values(m - 1), Value(l, Input(l, hid)))
    BY DEF KeysAfter, ValuesAfter
  <2> QED  BY <2>2, <2>3
<1> HIDE DEF keys, values
<1>5. SubSeq(keys(k), 1, size) = keys(k) /\ SubSeq(values(k), 1, size) = values(k)
  BY <1>3, SequenceWhole
<1>6. 0 \in S
  <2> SUFFICES ASSUME k <= 0
               PROVE  SubSeq(keys(0), 1, size) = keys(k) /\ SubSeq(values(0), 1, size) = values(k)
    OBVIOUS
  <2>1. k = 0
    OBVIOUS
  <2> HIDE DEF size
  <2> QED  BY <1>5, <2>1
<1>7. ASSUME NEW m \in Nat, m \in S  PROVE m + 1 \in S
  <2> SUFFICES ASSUME k <= m + 1, m + 1 <= Len(tokens)
               PROVE  /\ SubSeq(keys(m + 1), 1, size) = keys(k)
                      /\ SubSeq(values(m + 1), 1, size) = values(k)
    OBVIOUS
  <2>1. CASE k = m + 1
    BY <1>5, <2>1
  <2>2. CASE k # m + 1
    <3>1. SubSeq(keys(m), 1, size) = keys(k) /\ SubSeq(values(m), 1, size) = values(k)
      BY <1>7, <2>2
    <3>2. PICK key, value :
            keys(m + 1) = Append(keys(m), key) /\ values(m + 1) = Append(values(m), value)
      BY <1>4
    <3>3. m \in 0 .. Len(tokens) /\ size \in 0 .. (s.position + m)
      BY <1>2, <2>2
    <3>4. /\ IsSequence(keys(m)) /\ Len(keys(m)) = s.position + m
          /\ IsSequence(values(m)) /\ Len(values(m)) = s.position + m
      BY <1>3, <3>3
    <3>5. /\ IsSequence(keys(m)) /\ size \in 0 .. Len(keys(m))
          /\ IsSequence(values(m)) /\ size \in 0 .. Len(values(m))
      <4> HIDE DEF size
      <4> QED  BY <3>3, <3>4
    <3> QED  BY <3>1, <3>2, <3>5, SequenceBegins
  <2> QED  BY <2>1, <2>2
<1>8. Nat \subseteq S
  <2> HIDE DEF S
  <2> QED  BY <1>6, <1>7, NumbersFromZero
<1>9. SubSeq(keys(n), 1, size) = keys(k) /\ SubSeq(values(n), 1, size) = values(k)
  BY <1>8
<1> QED  BY <1>9 DEF keys, values, at

-----------------------------------------------------------------------------
(* What a call must come to, by decode_token.  The ghost of a row is its    *)
(* state before the call; a decode feeds a row one token, a prefill feeds   *)
(* the last row all of them.                                                *)

Active(r) == call.kind = "decode" \/ r = Len(states)
Feed(r) == IF call.kind = "decode" THEN <<call.tokens[r]>> ELSE call.tokens
Fed == IF call.kind = "decode" THEN 1 ELSE Len(call.tokens)

(* row r after k of its tokens, and after all of them *)
Stage(r, k) == Tokenwise(ghost[r].state, Feed(r))[k].state
Result(r) == Stage(r, Fed)

(* token i of the call: the states before and after it, and its hidden vectors *)
Nth(i) == IF call.kind = "decode" THEN 1 ELSE i
Prior(i) == Stage(Target(i), Nth(i) - 1)
Posterior(i) == Stage(Target(i), Nth(i))
Hidden(i, l) == HiddenOf(Prior(i), call.tokens[i], l)
Entering(i) == Hidden(i, Layer - 1)

(* what the phases of a layer must find for it *)
WantedInput(i) == Input(Layer, Entering(i))
WantedQuery(i) == QueryOf(Layer, Prior(i), Entering(i))
WantedAttended(i) == AttendedOf(Layer, Prior(i), Entering(i))
WantedConvolved(i) == ConvolvedOf(Layer, Prior(i), Entering(i))
WantedOperands(i, h) == OperandsOf(Layer, Prior(i), Entering(i), h)
WantedGated(i, h) == GatedOf(Layer, Prior(i), Entering(i), h)
WantedResidual(i) == ResidualOf(Layer, Prior(i), Entering(i))
WantedExpert(i) == ExpertInput(Layer, Prior(i), Entering(i))

(* the buffers of the layer that runs, made if they were empty *)
MadeConvolution(r) == Convolution(ghost[r].state.convolution[Layer])
MadeRecurrent(r) == Recurrent(ghost[r].state.recurrent[Layer])

-----------------------------------------------------------------------------
(* The states of the rows.  Layers behind the one that runs have taken the  *)
(* tokens, those ahead have not, and the one that runs has taken them for   *)
(* the rows, blocks and heads its phase has been through.                   *)

UnitOf(r, h) == (r - 1) * ValueHeads + h - 1

Appending(r) ==
  IF call.kind = "decode"
  THEN LayerIs(states[r], Layer, Stage(r, IF r \in call.pending THEN 0 ELSE 1))
  ELSE \A k \in 0 .. Len(call.tokens) :
         call.pending = (k + 1) .. Len(call.tokens) => LayerIs(states[r], Layer, Stage(r, k))

Sequencing(r) ==
  IF r \in call.pending THEN LayerIs(states[r], Layer, ghost[r].state)
  ELSE /\ states[r].convolution[Layer] = Result(r).convolution[Layer]
       /\ states[r].recurrent[Layer] = MadeRecurrent(r)

Uniting(r) ==
  /\ states[r].convolution[Layer] = Result(r).convolution[Layer]
  /\ states[r].recurrent[Layer] =
       [h \in Heads |-> IF UnitOf(r, h) \in call.pending THEN MadeRecurrent(r)[h]
                        ELSE Result(r).recurrent[Layer][h]]

WalkingBlocks(r) ==
  /\ states[r].convolution[Layer] =
       [b \in Blocks |-> IF b \in call.pending THEN MadeConvolution(r)[b]
                         ELSE Result(r).convolution[Layer][b]]
  /\ states[r].recurrent[Layer] = MadeRecurrent(r)

WalkingHeads(r) ==
  /\ states[r].convolution[Layer] = Result(r).convolution[Layer]
  /\ states[r].recurrent[Layer] =
       [h \in Heads |-> IF h \in call.pending THEN MadeRecurrent(r)[h]
                        ELSE Result(r).recurrent[Layer][h]]

WholePhases == {"attend", "gates", "route", "gather", "experts", "head"}

AtLayer(r) ==
  /\ call.phase = "layer" => LayerIs(states[r], Layer, ghost[r].state)
  /\ call.phase = "append" => Appending(r)
  /\ call.phase = "sequences" => Sequencing(r)
  /\ call.phase = "units" => Uniting(r)
  /\ call.phase = "blocks" => WalkingBlocks(r)
  /\ call.phase = "heads" => WalkingHeads(r)
  /\ call.phase \in WholePhases => LayerIs(states[r], Layer, Result(r))

RowReached(r) ==
  /\ Shaped(states[r]) /\ states[r].position = ghost[r].state.position
  /\ Idle \/ ~Active(r) => states[r] = ghost[r].state
  /\ ~Idle /\ Active(r) =>
       /\ \A l \in DOMAIN Layers : l < Layer => LayerIs(states[r], l, Result(r))
       /\ \A l \in DOMAIN Layers : l > Layer => LayerIs(states[r], l, ghost[r].state)
       /\ AtLayer(r)

RowsReached == \A r \in DOMAIN states : RowReached(r)

-----------------------------------------------------------------------------
(* The hidden vectors and the buffers. *)

AttentionPhases == {"layer"} \cup FullPhases \cup DecodePhases \cup PrefillPhases
ExpertPhases == {"route", "gather", "experts"}

HiddenReached ==
  \A i \in Rows :
    /\ call.phase \in AttentionPhases => hidden[i] = Entering(i)
    /\ call.phase \in ExpertPhases => hidden[i] = WantedResidual(i)
    /\ call.phase = "head" => hidden[i] = Hidden(i, Layer)

FullBuffers ==
  call.phase \in FullPhases =>
    /\ DOMAIN buffers.queries = Rows /\ DOMAIN buffers.attended = Rows
    /\ \A i \in Rows :
         /\ (call.phase = "append" => i \notin call.pending) => buffers.queries[i] = WantedQuery(i)
         /\ call.phase = "attend" /\ i \notin call.pending =>
              buffers.attended[i] = WantedAttended(i)

(* row-major buffers of the rows of the call *)
Holds(buffer, width) == IsSequence(buffer) /\ Len(buffer) = Len(call.tokens) * width

OutputAt(i, h) == buffers.recurrent[(i - 1) * ValueHeads + h]
GatedAt(i, h) == buffers.normalized[(i - 1) * ValueHeads + h]

LinearBuffers ==
  call.phase \in DecodePhases \cup PrefillPhases =>
    /\ Holds(buffers.convolved, Cardinality(Blocks))
    /\ Holds(buffers.recurrent, ValueHeads)
    /\ Holds(buffers.normalized, ValueHeads)
    /\ \A i \in Rows : buffers.inputs[i] = WantedInput(i)
    /\ \A i \in Rows : \A b \in Blocks :
         \/ call.phase = "sequences" /\ i \in call.pending
         \/ call.phase = "blocks" /\ b \in call.pending
         \/ call.phase = "gates"
         \/ buffers.convolved[Slot(i, b)] = WantedConvolved(i)[b]
    /\ \A i \in Rows : \A h \in Heads :
         /\ (call.phase = "heads" /\ h \notin call.pending) \/ call.phase = "gates" =>
              OutputAt(i, h) = HeadOutput(WantedOperands(i, h))
         /\ call.phase \in {"units", "gates"} /\ UnitOf(i, h) \notin call.pending =>
              GatedAt(i, h) = WantedGated(i, h)

ExpertBuffers ==
  /\ call.phase \in ExpertPhases => \A i \in Rows : buffers.inputs[i] = WantedExpert(i)
  /\ call.phase \in {"gather", "experts"} =>
       /\ call.routes = [i \in Rows |-> Routes(Layer, WantedExpert(i))]
       /\ DOMAIN buffers.gathered = Positions
       /\ DOMAIN buffers.projected = Positions
       /\ \A p \in Positions :
            \/ call.phase = "gather" /\ p \in call.pending
            \/ buffers.gathered[p] = WantedExpert(GroupedRow(call.routes, p))
  /\ call.phase = "experts" =>
       \A task \in Tasks(call.routes) : \A p \in Positions :
         p \in task.first .. task.last /\ task \notin call.pending =>
           buffers.projected[p] =
             ExpertOutput(Layer, task.expert, WantedExpert(GroupedRow(call.routes, p)))

-----------------------------------------------------------------------------
(* The rows of the batcher's arrays *)

GhostsOK ==
  /\ IsSequence(ghost) /\ Len(ghost) = Len(states)
  /\ \A r \in DOMAIN states : Proper(ghost[r].state)

RopesOK ==
  /\ IsSequence(ropes) /\ Len(ropes) = Len(states)
  /\ \A r \in DOMAIN states : ropes[r] = NoRope \/ ropes[r].rotation = Rope(ropes[r].position)

(* The logits of the row that is prefilled come with its last token, a      *)
(* chunk of the head at a time.                                             *)
HeadChunksOf(i, n) == [chunk \in 1 .. n |-> HeadChunk(chunk, Norm("final", 0, Hidden(i, Len(Layers))))]

LogitsReached ==
  /\ IsSequence(logits) /\ Len(logits) = Len(states)
  /\ \A r \in DOMAIN states : ~(Admitting /\ r = Len(states)) => logits[r] = ghost[r].logits
  /\ Admitting /\ states # <<>> =>
       \/ logits[Len(states)] = <<>>
       \/ /\ ~Idle /\ call.phase = "head" /\ call.wanted
          /\ \E n \in 0 .. HeadChunks : logits[Len(states)] = HeadChunksOf(Len(call.tokens), n)

WantedOK ==
  ~Idle /\ call.kind = "prefill" => (call.wanted <=> prompt.offset = Len(prompt.tokens))

BuffersOK == DOMAIN buffers = DOMAIN NoBuffers

UnitsLeft ==
  /\ call.phase = "attend" => call.pending \subseteq Rows
  /\ call.phase \in {"units", "gates"} => call.pending \subseteq Units
  /\ call.phase = "gather" => call.pending \subseteq Positions

TokenInv ==
  /\ GhostsOK /\ RowsReached /\ RopesOK /\ LogitsReached /\ WantedOK /\ BuffersOK
  /\ ~Idle => UnitsLeft /\ HiddenReached /\ FullBuffers /\ LinearBuffers /\ ExpertBuffers

-----------------------------------------------------------------------------
LEMMA SameCall ==
  ASSUME ghost' = ghost, call'.kind = call.kind, call'.tokens = call.tokens,
         Len(states') = Len(states)
  PROVE  /\ \A r : Active(r)' <=> Active(r)
         /\ \A r, k : Stage(r, k)' = Stage(r, k)
         /\ \A r : Result(r)' = Result(r)
         /\ Fed' = Fed /\ Rows' = Rows /\ Positions' = Positions /\ Units' = Units
         /\ \A i : Target(i)' = Target(i) /\ Nth(i)' = Nth(i)
         /\ \A i : Prior(i)' = Prior(i) /\ Posterior(i)' = Posterior(i)
         /\ \A i, l : Hidden(i, l)' = Hidden(i, l)
<1>1. /\ \A r : Active(r)' <=> Active(r)
      /\ Fed' = Fed /\ Rows' = Rows /\ Positions' = Positions /\ Units' = Units
      /\ \A i : Target(i)' = Target(i) /\ Nth(i)' = Nth(i)
      /\ \A r : Feed(r)' = Feed(r)
  BY DEF Active, Fed, Rows, Target, Nth, Feed, Positions, Units
<1>2. \A r, k : Stage(r, k)' = Stage(r, k)
  BY <1>1 DEF Stage
<1>3. /\ \A r : Result(r)' = Result(r)
      /\ \A i : Prior(i)' = Prior(i) /\ Posterior(i)' = Posterior(i)
  BY <1>1, <1>2 DEF Result, Prior, Posterior
<1>4. \A i, l : Hidden(i, l)' = Hidden(i, l)
  BY <1>3 DEF Hidden
<1> QED  BY <1>1, <1>2, <1>3, <1>4

LEMMA SameLayer ==
  ASSUME ghost' = ghost, call'.kind = call.kind, call'.tokens = call.tokens,
         Len(states') = Len(states), call'.layer = call.layer
  PROVE  /\ Layer' = Layer
         /\ \A i : /\ Entering(i)' = Entering(i)
                   /\ WantedInput(i)' = WantedInput(i)
                   /\ WantedQuery(i)' = WantedQuery(i)
                   /\ WantedAttended(i)' = WantedAttended(i)
                   /\ WantedConvolved(i)' = WantedConvolved(i)
                   /\ WantedResidual(i)' = WantedResidual(i)
                   /\ WantedExpert(i)' = WantedExpert(i)
         /\ \A i, h : /\ WantedOperands(i, h)' = WantedOperands(i, h)
                      /\ WantedGated(i, h)' = WantedGated(i, h)
         /\ \A r : /\ MadeConvolution(r)' = MadeConvolution(r)
                   /\ MadeRecurrent(r)' = MadeRecurrent(r)
<1>1. Layer' = Layer
  BY DEF Layer
<1>2. /\ \A i : Prior(i)' = Prior(i)
      /\ \A i, l : Hidden(i, l)' = Hidden(i, l)
  BY SameCall
<1>3. \A i : Entering(i)' = Entering(i)
  BY <1>1, <1>2 DEF Entering
<1> QED
  BY <1>1, <1>2, <1>3 DEF WantedInput, WantedQuery, WantedAttended, WantedConvolved, WantedResidual,
       WantedExpert, WantedOperands, WantedGated, MadeConvolution, MadeRecurrent

(* the rows of a call, and what its tokens do to them *)
LEMMA CallRows ==
  ASSUME IInv, TokenInv, ~Idle
  PROVE  /\ Fed \in Nat \ {0}
         /\ \A r \in DOMAIN states : Active(r) =>
              /\ Stage(r, 0) = ghost[r].state
              /\ \A k \in 0 .. Fed :
                   Proper(Stage(r, k)) /\ Stage(r, k).position = ghost[r].state.position + k
              /\ Proper(Result(r)) /\ Result(r).position = ghost[r].state.position + Fed
         /\ \A i \in Rows :
              /\ Target(i) \in DOMAIN states /\ Active(Target(i)) /\ Nth(i) \in 1 .. Fed
              /\ Proper(Prior(i)) /\ Prior(i).position = Position(i)
              /\ Posterior(i) = DecodeToken(Prior(i), call.tokens[i]).state
         /\ \A r \in DOMAIN states : Active(r) => Proper(ghost[r].state)
<1>1. \A r \in DOMAIN states : Proper(ghost[r].state) /\ ghost[r].state.position \in Nat
  BY DEF TokenInv, GhostsOK, Proper, Shaped
<1>2. Fed \in Nat \ {0}
  BY InCall DEF Fed
<1>3. ASSUME NEW r \in DOMAIN states, Active(r)
      PROVE  /\ Len(Feed(r)) = Fed
             /\ Stage(r, 0) = ghost[r].state
             /\ \A k \in 0 .. Fed :
                  Proper(Stage(r, k)) /\ Stage(r, k).position = ghost[r].state.position + k
             /\ Proper(Result(r)) /\ Result(r).position = ghost[r].state.position + Fed
             /\ \A k \in 1 .. Fed : Stage(r, k) = DecodeToken(Stage(r, k - 1), Feed(r)[k]).state
  <2>1. Len(Feed(r)) = Fed
    BY InCall DEF Feed, Fed
  <2>2. LET at == Tokenwise(ghost[r].state, Feed(r))
        IN /\ at[0].state = ghost[r].state
           /\ \A k \in 0 .. Fed :
                Proper(at[k].state) /\ at[k].state.position = ghost[r].state.position + k
           /\ \A k \in 1 .. Fed : at[k] = DecodeToken(at[k - 1].state, Feed(r)[k])
    <3> DEFINE s == ghost[r].state
               tokens == Feed(r)
    <3>1. Proper(s) /\ Len(tokens) \in Nat /\ Len(tokens) = Fed
      BY <1>1, <1>2, <2>1
    <3> HIDE DEF s, tokens
    <3>2. LET at == Tokenwise(s, tokens)
          IN /\ at[0].state = s
             /\ \A k \in 0 .. Len(tokens) :
                  Proper(at[k].state) /\ at[k].state.position = s.position + k
             /\ \A k \in 1 .. Len(tokens) : at[k] = DecodeToken(at[k - 1].state, tokens[k])
      <4>1. Tokenwise(s, tokens)[0].state = s
        BY <3>1, TokenwiseFacts
      <4>2. ASSUME NEW k \in 0 .. Len(tokens)
            PROVE  /\ Proper(Tokenwise(s, tokens)[k].state)
                   /\ Tokenwise(s, tokens)[k].state.position = s.position + k
        BY <3>1, TokenwiseFacts
      <4>3. \A k \in 1 .. Len(tokens) :
              Tokenwise(s, tokens)[k] = DecodeToken(Tokenwise(s, tokens)[k - 1].state, tokens[k])
        BY <3>1, TokenwiseStep
      <4> QED  BY <4>1, <4>2, <4>3
    <3> QED  BY <3>1, <3>2 DEF s, tokens
  <2>3. /\ Stage(r, 0) = ghost[r].state
        /\ \A k \in 0 .. Fed :
             Proper(Stage(r, k)) /\ Stage(r, k).position = ghost[r].state.position + k
        /\ \A k \in 1 .. Fed : Stage(r, k) = DecodeToken(Stage(r, k - 1), Feed(r)[k]).state
    BY <2>2 DEF Stage
  <2> QED  BY <1>2, <2>1, <2>3 DEF Result
<1>4. ASSUME NEW i \in Rows
      PROVE  /\ Target(i) \in DOMAIN states /\ Active(Target(i)) /\ Nth(i) \in 1 .. Fed
             /\ Proper(Prior(i)) /\ Prior(i).position = Position(i)
             /\ Posterior(i) = DecodeToken(Prior(i), call.tokens[i]).state
  <2>1. /\ Target(i) \in DOMAIN states /\ Active(Target(i)) /\ Nth(i) \in 1 .. Fed
        /\ Feed(Target(i))[Nth(i)] = call.tokens[i]
    <3>1. CASE call.kind = "decode"
      BY <3>1, InCall DEF Rows, Target, Active, Nth, Fed, Feed
    <3>2. CASE call.kind # "decode"
      BY <3>2, InCall DEF Rows, Target, Active, Nth, Fed, Feed
    <3> QED  BY <3>1, <3>2
  <2>2. Nth(i) - 1 \in 0 .. Fed /\ Nth(i) \in Nat
    BY <1>2, <2>1
  <2>3. Proper(Prior(i)) /\ Prior(i).position = ghost[Target(i)].state.position + (Nth(i) - 1)
    BY <1>3, <2>1, <2>2 DEF Prior
  <2>4. states[Target(i)].position = ghost[Target(i)].state.position
    BY <2>1 DEF TokenInv, RowsReached, RowReached
  <2>5. Prior(i).position = Position(i)
    BY <1>1, <2>1, <2>3, <2>4, InCall DEF PositionsOK, Nth, Rows
  <2>6. Posterior(i) = DecodeToken(Prior(i), call.tokens[i]).state
    BY <1>3, <2>1 DEF Posterior, Prior
  <2> QED  BY <2>1, <2>3, <2>5, <2>6
<1> QED  BY <1>1, <1>2, <1>3, <1>4

LEMMA CallTokens ==
  ASSUME IInv, TokenInv, ~Idle, NEW i \in Rows
  PROVE  /\ Hidden(i, 0) = Embedding(call.tokens[i])
         /\ \A l \in DOMAIN Layers :
              /\ Hidden(i, l) = HiddenAfter(l, Prior(i), Hidden(i, l - 1))
              /\ Posterior(i).keys[l] = KeysAfter(l, Prior(i), Hidden(i, l - 1))
              /\ Posterior(i).values[l] = ValuesAfter(l, Prior(i), Hidden(i, l - 1))
              /\ Posterior(i).convolution[l] = ConvolutionAfter(l, Prior(i), Hidden(i, l - 1))
              /\ Posterior(i).recurrent[l] = RecurrentAfter(l, Prior(i), Hidden(i, l - 1))
<1>1. Proper(Prior(i)) /\ Posterior(i) = DecodeToken(Prior(i), call.tokens[i]).state
  BY CallRows
<1> DEFINE s == Prior(i)
           token == call.tokens[i]
<1> HIDE DEF s, token
<1>2. Proper(s) /\ Posterior(i) = DecodeToken(s, token).state
  BY <1>1 DEF s, token
<1>3. /\ HiddenOf(s, token, 0) = Embedding(token)
      /\ \A l \in DOMAIN Layers :
           /\ HiddenOf(s, token, l) = HiddenAfter(l, s, HiddenOf(s, token, l - 1))
           /\ Posterior(i).keys[l] = KeysAfter(l, s, HiddenOf(s, token, l - 1))
           /\ Posterior(i).values[l] = ValuesAfter(l, s, HiddenOf(s, token, l - 1))
           /\ Posterior(i).convolution[l] = ConvolutionAfter(l, s, HiddenOf(s, token, l - 1))
           /\ Posterior(i).recurrent[l] = RecurrentAfter(l, s, HiddenOf(s, token, l - 1))
  BY <1>2, TokenFacts
<1> QED  BY <1>3 DEF Hidden, s, token

(* the caches after a token are a prefix of those after the last *)
LEMMA CallCaches ==
  ASSUME IInv, TokenInv, ~Idle, NEW i \in Rows, NEW l \in DOMAIN Layers, Layers[l] = "full"
  PROVE  /\ SubSeq(Result(Target(i)).keys[l], 1, Position(i) + 1) = Posterior(i).keys[l]
         /\ SubSeq(Result(Target(i)).values[l], 1, Position(i) + 1) = Posterior(i).values[l]
<1> DEFINE r == Target(i)
           k == Nth(i)
<1>1. /\ r \in DOMAIN states /\ Active(r) /\ k \in 1 .. Fed /\ Fed \in Nat
      /\ Prior(i) = Stage(r, k - 1) /\ Prior(i).position = Position(i)
      /\ Posterior(i) = Stage(r, k)
  BY CallRows DEF Prior, Posterior
<1>2. Proper(ghost[r].state)
  BY <1>1, CallRows
<1>3. Prior(i).position = ghost[r].state.position + (k - 1)
  BY <1>1, CallRows
<1>4. ghost[r].state.position \in Nat
  BY <1>2 DEF Proper, Shaped
<1>5. Position(i) + 1 = ghost[r].state.position + k
  BY <1>1, <1>3, <1>4
<1>6. Len(Feed(r)) = Fed
  BY InCall DEF Feed, Fed
<1> HIDE DEF r, k
<1>7. k \in 0 .. Fed /\ Fed \in 0 .. Len(Feed(r)) /\ Len(Feed(r)) \in Nat
  BY <1>1, <1>6
<1>8. /\ SubSeq(Stage(r, Fed).keys[l], 1, ghost[r].state.position + k) = Stage(r, k).keys[l]
      /\ SubSeq(Stage(r, Fed).values[l], 1, ghost[r].state.position + k) = Stage(r, k).values[l]
  <2> DEFINE before == ghost[r].state
             fed == Feed(r)
             at == Tokenwise(before, fed)
             n == Fed
  <2>1. Proper(before) /\ n \in 0 .. Len(fed) /\ Len(fed) \in Nat /\ k \in 0 .. n
    BY <1>2, <1>7
  <2> HIDE DEF before, fed, n
  <2>2. /\ SubSeq(at[n].state.keys[l], 1, before.position + k) = at[k].state.keys[l]
        /\ SubSeq(at[n].state.values[l], 1, before.position + k) = at[k].state.values[l]
    BY <2>1, CachesGrow
  <2> QED  BY ZenonT(30), <2>2 DEF Stage, before, fed, n
<1> QED  BY <1>1, <1>5, <1>8 DEF r, Result

-----------------------------------------------------------------------------
(* A step inside a call, before its head.  What is fixed for the call stays. *)

Within ==
  /\ ~Idle /\ ~Idle' /\ call.phase # "head"
  /\ ghost' = ghost /\ prompt' = prompt /\ logits' = logits
  /\ call'.kind = call.kind /\ call'.tokens = call.tokens /\ call'.wanted = call.wanted
  /\ call'.positions = call.positions
  /\ Len(states') = Len(states) /\ DOMAIN states' = DOMAIN states
  /\ DOMAIN buffers' = DOMAIN buffers

SameLayerWithin == Within /\ call'.layer = call.layer

LEMMA Inside ==
  ASSUME IInv, TokenInv, Within, RopesOK', RowsReached', UnitsLeft',
         HiddenReached', FullBuffers', LinearBuffers', ExpertBuffers'
  PROVE  TokenInv'
<1>1. GhostsOK'
  BY DEF TokenInv, GhostsOK, Within
<1>2. WantedOK'
  BY DEF TokenInv, WantedOK, Within
<1>3. BuffersOK'
  BY DEF TokenInv, BuffersOK, Within, NoBuffers
<1>4. LogitsReached'
  <2>1. IsSequence(logits') /\ Len(logits') = Len(states')
    BY DEF TokenInv, LogitsReached, Within
  <2>2. \A r \in DOMAIN states' : ~(Admitting' /\ r = Len(states')) => logits'[r] = ghost'[r].logits
    BY DEF TokenInv, LogitsReached, Within, Admitting
  <2>3. Admitting' /\ states' # <<>> => logits'[Len(states')] = <<>>
    <3> SUFFICES ASSUME Admitting', states' # <<>>  PROVE logits[Len(states)] = <<>>
      BY DEF Within
    <3>1. Admitting /\ states # <<>>
      <4>1. Admitting
        BY DEF Within, Admitting
      <4>2. Len(states) \in Nat \ {0}
        BY InCall DEF Within
      <4> QED  BY <4>1, <4>2
    <3> QED  BY <3>1 DEF TokenInv, LogitsReached, Within
  <2> QED  BY <2>1, <2>2, <2>3 DEF LogitsReached
<1> QED  BY <1>1, <1>2, <1>3, <1>4 DEF TokenInv

(* a phase follows another in the same layer *)
LEMMA Going ==
  ASSUME IInv, ~Idle, NEW phase, NEW pending, Go(phase, pending)
  PROVE  /\ ~Idle' /\ call'.kind = call.kind /\ call'.tokens = call.tokens
         /\ call'.wanted = call.wanted /\ call'.positions = call.positions
         /\ call'.layer = call.layer /\ call'.phase = phase /\ call'.pending = pending
         /\ call'.routes = call.routes
BY InCall DEF Go, CallFields, Idle, NoCall

(* one unit of a phase is run *)
LEMMA UnitTaken ==
  ASSUME IInv, NEW phase, NEW u, Unit(phase, u)
  PROVE  /\ ~Idle /\ ~Idle' /\ call'.kind = call.kind /\ call'.tokens = call.tokens
         /\ call'.wanted = call.wanted /\ call'.positions = call.positions
         /\ call'.layer = call.layer /\ call.phase = phase /\ call'.phase = phase
         /\ u \in call.pending /\ call'.pending = call.pending \ {u}
         /\ call'.routes = call.routes
         /\ prompt' = prompt /\ logits' = logits /\ ghost' = ghost
<1>1. ~Idle /\ call' = [call EXCEPT !.pending = @ \ {u}]
  BY DEF Unit
<1>2. DOMAIN call = CallFields
  BY <1>1, InCall
<1>3. /\ DOMAIN call' = CallFields /\ call'.kind = call.kind /\ call'.tokens = call.tokens
      /\ call'.wanted = call.wanted /\ call'.positions = call.positions
      /\ call'.layer = call.layer /\ call'.phase = call.phase
      /\ call'.pending = call.pending \ {u} /\ call'.routes = call.routes
  BY <1>1, <1>2 DEF CallFields
<1> QED  BY <1>1, <1>3 DEF Unit, Idle, NoCall, CallFields

(* the states stay as they are *)
LEMMA QuietRows ==
  ASSUME TokenInv, SameLayerWithin, states' = states,
         \A r \in DOMAIN states : Active(r) => AtLayer(r)'
  PROVE  RowsReached'
<1>1. /\ \A r : Active(r)' <=> Active(r)
      /\ \A r : Result(r)' = Result(r)
  BY SameCall DEF SameLayerWithin, Within
<1>2. Layer' = Layer
  BY DEF SameLayerWithin, Layer
<1> SUFFICES ASSUME NEW r \in DOMAIN states
             PROVE  RowReached(r)'
  BY DEF RowsReached
<1>3. RowReached(r)
  BY DEF TokenInv, RowsReached
<1> QED  BY <1>1, <1>2, <1>3 DEF RowReached, SameLayerWithin, Within

(* one row's layer that runs is changed *)
LEMMA RowChanged ==
  ASSUME IInv, TokenInv, SameLayerWithin, NEW t \in DOMAIN states, Active(t),
         Shaped(states'[t]), states'[t].position = states[t].position,
         \A l \in DOMAIN Layers : l # Layer => LayerIs(states'[t], l, states[t]),
         \A r \in DOMAIN states : r # t => states'[r] = states[r],
         \A r \in DOMAIN states : Active(r) => AtLayer(r)'
  PROVE  RowsReached'
<1>1. /\ \A r : Active(r)' <=> Active(r)
      /\ \A r : Result(r)' = Result(r)
  BY SameCall DEF SameLayerWithin, Within
<1>2. Layer' = Layer
  BY DEF SameLayerWithin, Layer
<1> SUFFICES ASSUME NEW r \in DOMAIN states
             PROVE  RowReached(r)'
  BY DEF RowsReached, SameLayerWithin, Within
<1>3. RowReached(r)
  BY DEF TokenInv, RowsReached
<1>4. CASE r # t
  BY <1>1, <1>2, <1>3, <1>4 DEF RowReached, SameLayerWithin, Within
<1>5. CASE r = t
  <2>1. \A l \in DOMAIN Layers : \A g : l # Layer /\ LayerIs(states[t], l, g) => LayerIs(states'[t], l, g)
    BY DEF LayerIs
  <2>2. \A l \in DOMAIN Layers : l < Layer \/ l > Layer => l # Layer
    BY InCall, LayersFacts DEF SameLayerWithin, Within, Layer
  <2>3. ~Idle /\ Active(t)
    BY DEF SameLayerWithin, Within
  <2>4. /\ \A l \in DOMAIN Layers : l < Layer => LayerIs(states[t], l, Result(t))
        /\ \A l \in DOMAIN Layers : l > Layer => LayerIs(states[t], l, ghost[t].state)
    BY <1>3, <1>5, <2>3 DEF RowReached
  <2>5. /\ \A l \in DOMAIN Layers : l < Layer => LayerIs(states'[t], l, Result(t))
        /\ \A l \in DOMAIN Layers : l > Layer => LayerIs(states'[t], l, ghost[t].state)
    BY <2>1, <2>2, <2>4
  <2> QED  BY <1>1, <1>2, <1>3, <1>5, <2>5 DEF RowReached, SameLayerWithin, Within
<1> QED  BY <1>4, <1>5

-----------------------------------------------------------------------------
(* What a step leaves alone *)

LEMMA SameRopes ==
  ASSUME TokenInv, Within, ropes' = ropes
  PROVE  RopesOK'
BY DEF TokenInv, RopesOK, Within

LEMMA SameHidden ==
  ASSUME TokenInv, SameLayerWithin, hidden' = hidden,
         \/ call.phase \in AttentionPhases /\ call'.phase \in AttentionPhases
         \/ call.phase \in ExpertPhases /\ call'.phase \in ExpertPhases
  PROVE  HiddenReached'
<1>1. /\ \A i : Entering(i)' = Entering(i) /\ WantedResidual(i)' = WantedResidual(i)
      /\ Rows' = Rows
  BY SameCall, SameLayer DEF SameLayerWithin, Within
<1>2. HiddenReached
  BY DEF TokenInv, SameLayerWithin, Within
<1>3. AttentionPhases \cap ExpertPhases = {} /\ "head" \notin AttentionPhases \cup ExpertPhases
  BY DEF AttentionPhases, ExpertPhases, FullPhases, DecodePhases, PrefillPhases
<1> QED  BY <1>1, <1>2, <1>3 DEF HiddenReached

LEMMA OtherPhases ==
  /\ call.phase \notin FullPhases => FullBuffers
  /\ call.phase \notin DecodePhases \cup PrefillPhases => LinearBuffers
  /\ call.phase \notin ExpertPhases => ExpertBuffers
  /\ call.phase \notin {"attend", "units", "gates", "gather"} => UnitsLeft
BY DEF FullBuffers, LinearBuffers, ExpertBuffers, UnitsLeft, ExpertPhases

LEMMA ResizeFacts ==
  ASSUME NEW buffer, NEW n \in Nat
  PROVE  /\ IsSequence(Resize(buffer, n)) /\ Len(Resize(buffer, n)) = n
         /\ DOMAIN Resize(buffer, n) = 1 .. n
<1> DEFINE s == Resize(buffer, n)
           S == {s[i] : i \in 1 .. n}
<1>1. s \in [1 .. n -> S]
  BY DEF Resize
<1>2. s \in Seq(S)
  BY <1>1
<1>3. DOMAIN s = 1 .. n
  BY <1>1
<1> HIDE DEF s, S
<1>4. Len(s) = n
  BY <1>2, <1>3
<1> QED  BY <1>2, <1>3, <1>4, SequenceOfAny DEF s

(* a row a call works on *)
LEMMA RowInCall ==
  ASSUME IInv, TokenInv, ~Idle, NEW r \in DOMAIN states, Active(r)
  PROVE  /\ Shaped(states[r]) /\ states[r].position = ghost[r].state.position
         /\ AtLayer(r)
         /\ \A l \in DOMAIN Layers : l < Layer => LayerIs(states[r], l, Result(r))
         /\ \A l \in DOMAIN Layers : l > Layer => LayerIs(states[r], l, ghost[r].state)
         /\ Proper(ghost[r].state) /\ Proper(Result(r))
         /\ Stage(r, 0) = ghost[r].state
BY CallRows DEF TokenInv, RowsReached, RowReached

(* the layer that runs *)
LEMMA LayerRuns ==
  ASSUME IInv, ~Idle
  PROVE  /\ Layer \in DOMAIN Layers /\ Layer \in 1 .. Len(Layers) /\ Len(Layers) \in Nat
         /\ call.phase \in FullPhases => Layers[Layer] = "full"
         /\ call.phase \in DecodePhases => Layers[Layer] = "linear" /\ call.kind = "decode"
         /\ call.phase \in PrefillPhases => Layers[Layer] = "linear" /\ call.kind = "prefill"
         /\ call.kind = "decode" => DOMAIN states = Rows /\ Fed = 1
         /\ call.kind = "prefill" => Fed = Len(call.tokens)
BY InCall, LayersFacts DEF PhaseOK, Layer, Rows, Fed

-----------------------------------------------------------------------------
(* Full attention *)

LEMMA FullLayerTokens ==
  ASSUME IInv, IInv', TokenInv, FullLayer
  PROVE  TokenInv'
<1> DEFINE n == Len(call.tokens)
<1>1. /\ ~Idle /\ call.phase = "layer" /\ Go("append", Rows)
      /\ buffers' = [buffers EXCEPT !.queries = Resize(@, n), !.attended = Resize(@, n)]
      /\ UNCHANGED <<states, ropes, logits, prompt, hidden, ghost>>
  BY DEF FullLayer, After
<1>2. n \in Nat /\ Rows = 1 .. n
  BY <1>1, InCall DEF Rows
<1>3. /\ DOMAIN buffers' = DOMAIN buffers
      /\ buffers'.queries = Resize(buffers.queries, n)
      /\ buffers'.attended = Resize(buffers.attended, n)
  BY <1>1 DEF TokenInv, BuffersOK, NoBuffers
<1>4. SameLayerWithin /\ Within /\ call'.phase = "append" /\ call'.pending = Rows
  BY <1>1, <1>3, Going DEF SameLayerWithin, Within
<1>5. Layer' = Layer /\ Rows' = Rows /\ \A r, k : Stage(r, k)' = Stage(r, k)
  BY <1>4, SameCall, SameLayer DEF SameLayerWithin, Within
<1>6. ASSUME NEW r \in DOMAIN states, Active(r)  PROVE AtLayer(r)'
  <2>1. LayerIs(states[r], Layer, Stage(r, 0))
    BY <1>1, <1>6, RowInCall DEF AtLayer
  <2>2. call.kind = "decode" => r \in Rows
    BY <1>1, LayerRuns
  <2>3. \A k \in 0 .. n : Rows = (k + 1) .. n => k = 0
    BY <1>2
  <2>4. Appending(r)'
    BY <1>1, <1>4, <1>5, <2>1, <2>2, <2>3 DEF Appending, Within
  <2> QED  BY <1>4, <2>4 DEF AtLayer, WholePhases
<1>7. RowsReached'
  BY <1>1, <1>4, <1>6, QuietRows
<1>8. RopesOK' /\ HiddenReached'
  BY <1>1, <1>4, SameRopes, SameHidden DEF AttentionPhases, FullPhases
<1>9. UnitsLeft' /\ LinearBuffers' /\ ExpertBuffers'
  BY <1>4, OtherPhases DEF DecodePhases, PrefillPhases, ExpertPhases, UnitsLeft, LinearBuffers, ExpertBuffers
<1>10. FullBuffers'
  <2>1. DOMAIN buffers'.queries = Rows /\ DOMAIN buffers'.attended = Rows
    BY <1>2, <1>3, ResizeFacts
  <2> QED  BY <1>4, <1>5, <2>1 DEF FullBuffers
<1> QED  BY <1>4, <1>7, <1>8, <1>9, <1>10, Inside

LEMMA AppendsDoneTokens ==
  ASSUME IInv, IInv', TokenInv, AppendsDone
  PROVE  TokenInv'
<1> DEFINE n == Len(call.tokens)
<1>1. /\ ~Idle /\ call.phase = "append" /\ call.pending = {} /\ Go("attend", Rows)
      /\ UNCHANGED <<states, ropes, logits, prompt, hidden, buffers, ghost>>
  BY DEF AppendsDone, After
<1>2. n \in Nat /\ Rows = 1 .. n
  BY <1>1, InCall DEF Rows
<1>4. SameLayerWithin /\ Within /\ call'.phase = "attend" /\ call'.pending = Rows
  BY <1>1, Going DEF SameLayerWithin, Within
<1>5. /\ Layer' = Layer /\ Rows' = Rows /\ \A r : Result(r)' = Result(r)
      /\ \A i : WantedQuery(i)' = WantedQuery(i)
  BY <1>4, SameCall, SameLayer DEF SameLayerWithin, Within
<1>6. ASSUME NEW r \in DOMAIN states, Active(r)  PROVE AtLayer(r)'
  <2>1. Appending(r)
    BY <1>1, <1>6, RowInCall DEF AtLayer
  <2>2. n \in 0 .. n /\ (n + 1) .. n = {}
    BY <1>2
  <2>3. call.kind \in {"decode", "prefill"}
    BY <1>1, InCall
  <2>4. LayerIs(states[r], Layer, Result(r))
    BY <1>1, <2>1, <2>2, <2>3, LayerRuns DEF Appending, Result
  <2> QED  BY <1>1, <1>4, <1>5, <2>4 DEF AtLayer, WholePhases
<1>7. RowsReached'
  BY <1>1, <1>4, <1>6, QuietRows
<1>8. RopesOK' /\ HiddenReached'
  BY <1>1, <1>4, SameRopes, SameHidden DEF AttentionPhases, FullPhases
<1>9. LinearBuffers' /\ ExpertBuffers'
  BY <1>4 DEF DecodePhases, PrefillPhases, ExpertPhases, LinearBuffers, ExpertBuffers
<1>10. UnitsLeft'
  BY <1>4, <1>5 DEF UnitsLeft
<1>11. FullBuffers'
  BY <1>1, <1>4, <1>5 DEF FullBuffers, FullPhases, TokenInv
<1> QED  BY <1>4, <1>7, <1>8, <1>9, <1>10, <1>11, Inside

(* the state of a row before a token of the call, and after *)
LEMMA TokenInLayer ==
  ASSUME IInv, TokenInv, ~Idle, NEW i \in Rows
  PROVE  /\ Posterior(i).keys[Layer] = KeysAfter(Layer, Prior(i), Entering(i))
         /\ Posterior(i).values[Layer] = ValuesAfter(Layer, Prior(i), Entering(i))
         /\ Posterior(i).convolution[Layer] = ConvolutionAfter(Layer, Prior(i), Entering(i))
         /\ Posterior(i).recurrent[Layer] = RecurrentAfter(Layer, Prior(i), Entering(i))
         /\ Hidden(i, Layer) = HiddenAfter(Layer, Prior(i), Entering(i))
<1>1. Layer \in DOMAIN Layers
  BY LayerRuns
<1> QED  BY <1>1, CallTokens DEF Entering

LEMMA AttendRowTokens ==
  ASSUME IInv, IInv', TokenInv, NEW i, AttendRow(i)
  PROVE  TokenInv'
<1> DEFINE keys == states[Target(i)].keys[Layer]
           values == states[Target(i)].values[Layer]
           attended == Attend(buffers.queries[i], SubSeq(keys, 1, Position(i) + 1),
                              SubSeq(values, 1, Position(i) + 1))
<1>1. /\ Unit("attend", i) /\ buffers' = [buffers EXCEPT !.attended[i] = attended]
      /\ UNCHANGED <<states, ropes, hidden>>
  BY DEF AttendRow
<1>2. /\ ~Idle /\ call.phase = "attend" /\ call'.phase = "attend" /\ i \in call.pending
      /\ call'.pending = call.pending \ {i}
  BY <1>1, UnitTaken
<1>3. /\ DOMAIN buffers' = DOMAIN buffers /\ buffers'.queries = buffers.queries
      /\ buffers'.attended = [buffers.attended EXCEPT ![i] = attended]
  BY <1>1 DEF TokenInv, BuffersOK, NoBuffers
<1>4. SameLayerWithin /\ Within
  BY <1>1, <1>2, <1>3, UnitTaken DEF SameLayerWithin, Within
<1>5. /\ Layer' = Layer /\ Rows' = Rows /\ \A r : Result(r)' = Result(r)
      /\ \A j : WantedQuery(j)' = WantedQuery(j) /\ WantedAttended(j)' = WantedAttended(j)
  BY <1>4, SameCall, SameLayer DEF SameLayerWithin, Within
<1>6. \A r \in DOMAIN states : Active(r) => AtLayer(r)'
  BY <1>1, <1>2, <1>5, RowInCall DEF AtLayer, WholePhases
<1>7. RowsReached'
  BY <1>1, <1>4, <1>6, QuietRows
<1>8. RopesOK' /\ HiddenReached'
  BY <1>1, <1>2, <1>4, SameRopes, SameHidden DEF AttentionPhases, FullPhases
<1>9. LinearBuffers' /\ ExpertBuffers'
  BY <1>2 DEF DecodePhases, PrefillPhases, ExpertPhases, LinearBuffers, ExpertBuffers
<1>10. UnitsLeft' /\ i \in Rows
  BY <1>2, <1>5 DEF UnitsLeft, TokenInv
<1>11. attended = WantedAttended(i)
  <2>1. Layers[Layer] = "full" /\ Layer \in DOMAIN Layers
    BY <1>2, LayerRuns DEF FullPhases
  <2>2. Target(i) \in DOMAIN states /\ Active(Target(i))
    BY <1>2, <1>10, CallRows
  <2>3. keys = Result(Target(i)).keys[Layer] /\ values = Result(Target(i)).values[Layer]
    BY <1>2, <2>1, <2>2, RowInCall DEF AtLayer, WholePhases, LayerIs
  <2>4. /\ SubSeq(keys, 1, Position(i) + 1) = KeysAfter(Layer, Prior(i), Entering(i))
        /\ SubSeq(values, 1, Position(i) + 1) = ValuesAfter(Layer, Prior(i), Entering(i))
    BY <1>2, <1>10, <2>1, <2>3, CallCaches, TokenInLayer
  <2>5. buffers.queries[i] = WantedQuery(i)
    BY <1>2, <1>10 DEF TokenInv, FullBuffers, FullPhases
  <2> QED  BY <2>4, <2>5 DEF WantedAttended, AttendedOf, WantedQuery
<1> HIDE DEF attended
<1>12. FullBuffers'
  BY <1>2, <1>3, <1>5, <1>10, <1>11 DEF FullBuffers, FullPhases, TokenInv
<1> QED  BY <1>4, <1>7, <1>8, <1>9, <1>10, <1>12, Inside

LEMMA AppendRowTokens ==
  ASSUME IInv, IInv', TokenInv, NEW i, AppendRow(i)
  PROVE  TokenInv'
<1> DEFINE t == Target(i)
           rope == RopeOf(i, ropes[t])
           x == Normalized("input", i)
           keys == Append(states[t].keys[Layer], Key(Layer, rope.rotation, x))
           values == Append(states[t].values[Layer], Value(Layer, x))
           s == [states[t] EXCEPT !.keys[Layer] = keys, !.values[Layer] = values]
<1>1. /\ ~Idle /\ call.phase = "append" /\ i \in call.pending
      /\ \A j \in call.pending : i <= j
  BY DEF AppendRow
<1>2. /\ i \in Rows /\ Layer \in DOMAIN Layers /\ Layers[Layer] = "full"
      /\ call.pending = i .. Len(call.tokens)
      /\ call.pending \ {i} = (i + 1) .. Len(call.tokens)
      /\ StateMatches(states[t], i)
  BY <1>1, AppendsInOrder
<1>3. /\ ropes' = [ropes EXCEPT ![t] = rope] /\ states' = [states EXCEPT ![t] = s]
      /\ buffers' = [buffers EXCEPT !.queries[i] = Query(Layer, rope.rotation, x)]
      /\ call' = [call EXCEPT !.pending = @ \ {i}]
      /\ UNCHANGED <<logits, prompt, hidden, ghost>>
  BY Zenon, <1>2 DEF AppendRow
<1>4. /\ DOMAIN call = CallFields /\ DOMAIN call' = CallFields
      /\ call'.kind = call.kind /\ call'.tokens = call.tokens
      /\ call'.wanted = call.wanted /\ call'.positions = call.positions
      /\ call'.layer = call.layer /\ call'.phase = "append"
      /\ call'.pending = (i + 1) .. Len(call.tokens)
  BY <1>1, <1>2, <1>3, InCall DEF CallFields
<1>5. t \in DOMAIN states /\ Active(t) /\ Nth(i) \in 1 .. Fed
  BY <1>1, <1>2, CallRows
<1>6. IsSequence(states) /\ IsSequence(ropes) /\ Len(ropes) = Len(states)
  BY DEF IInv, StatesOK, TokenInv, RopesOK
<1> HIDE DEF s, rope, t
<1>7. /\ Len(states') = Len(states) /\ states'[t] = s /\ DOMAIN states' = DOMAIN states
      /\ \A r \in DOMAIN states : r # t => states'[r] = states[r]
  BY <1>3, <1>5, <1>6, SequenceExcept, SequenceFacts
<1>8. /\ IsSequence(ropes') /\ Len(ropes') = Len(states') /\ ropes'[t] = rope
      /\ \A r \in DOMAIN states : r # t => ropes'[r] = ropes[r]
  <2>1. DOMAIN ropes = DOMAIN states
    BY <1>6, SequenceFacts
  <2>2. t \in DOMAIN ropes
    BY <1>5, <2>1
  <2> QED  BY <1>3, <1>6, <1>7, <2>1, <2>2, SequenceExcept
<1>9. /\ DOMAIN buffers' = DOMAIN buffers
      /\ buffers'.queries = [buffers.queries EXCEPT ![i] = Query(Layer, rope.rotation, x)]
      /\ buffers'.attended = buffers.attended
  BY <1>3 DEF TokenInv, BuffersOK, NoBuffers
<1>10. call' # NoCall
  BY <1>4 DEF NoCall, CallFields
<1>11. SameLayerWithin /\ Within
  BY <1>1, <1>3, <1>4, <1>7, <1>9, <1>10 DEF SameLayerWithin, Within, Idle
<1>12. /\ Layer' = Layer /\ Rows' = Rows /\ \A r, k : Stage(r, k)' = Stage(r, k)
       /\ \A j : WantedQuery(j)' = WantedQuery(j)
  BY <1>11, SameCall, SameLayer DEF SameLayerWithin, Within
<1>13. Position(i) \in Nat /\ Prior(i).position = Position(i)
  BY <1>1, <1>2, CallRows DEF Proper, Shaped
<1>14. rope.rotation = Rope(Position(i)) /\ rope.rotation = Rope(rope.position)
  <2>1. ropes[t] = NoRope \/ ropes[t].rotation = Rope(ropes[t].position)
    BY <1>5 DEF TokenInv, RopesOK
  <2>2. ropes[t].position = Position(i) => ropes[t].rotation = Rope(Position(i))
    BY <1>13, <2>1 DEF NoRope
  <2> QED  BY <2>2 DEF rope, RopeOf, PrepareRope
<1>15. RopesOK'
  BY <1>5, <1>7, <1>8, <1>14, <1>6, SequenceFacts DEF RopesOK, TokenInv
<1>16. x = Input(Layer, Entering(i))
  BY <1>1, <1>2 DEF Normalized, Input, TokenInv, HiddenReached, AttentionPhases, FullPhases
<1>17. LayerIs(states[t], Layer, Prior(i))
  <2>1. Appending(t)
    BY <1>1, <1>5, RowInCall DEF AtLayer
  <2>2. CASE call.kind = "decode"
    <3>1. t = i /\ Nth(i) = 1
      BY <2>2 DEF t, Target, Nth
    <3> QED  BY <1>1, <2>1, <2>2, <3>1 DEF Appending, Prior, t
  <2>3. CASE call.kind # "decode"
    <3>1. i \in 1 .. Len(call.tokens) /\ Nth(i) = i /\ Len(call.tokens) \in Nat
      BY <1>1, <1>2, <2>3, InCall DEF Nth, Rows
    <3>2. i - 1 \in 0 .. Len(call.tokens) /\ (i - 1) + 1 = i
      BY <3>1
    <3> QED  BY <1>2, <2>1, <2>3, <3>1, <3>2 DEF Appending, Prior, t
  <2> QED  BY <2>2, <2>3
<1>18. /\ keys = Posterior(i).keys[Layer] /\ values = Posterior(i).values[Layer]
       /\ Query(Layer, rope.rotation, x) = WantedQuery(i)
  <2>1. /\ keys = KeysAfter(Layer, Prior(i), Entering(i))
        /\ values = ValuesAfter(Layer, Prior(i), Entering(i))
    BY <1>2, <1>13, <1>14, <1>16, <1>17 DEF KeysAfter, ValuesAfter, LayerIs
  <2>2. Query(Layer, rope.rotation, x) = WantedQuery(i)
    BY <1>13, <1>14, <1>16 DEF WantedQuery, QueryOf
  <2> QED  BY <1>1, <1>2, <2>1, <2>2, TokenInLayer
<1> HIDE DEF keys, values, x
<1>19. Shaped(states[t])
  BY <1>1, <1>5, RowInCall
<1>20. states[t] = [f \in StateFields |-> states[t][f]]
  BY <1>19 DEF Shaped
<1>21. s = [f \in StateFields |-> s[f]]
  BY <1>20 DEF s
<1>22. /\ s.position = states[t].position
       /\ s.keys = [states[t].keys EXCEPT ![Layer] = keys]
       /\ s.values = [states[t].values EXCEPT ![Layer] = values]
       /\ s.convolution = states[t].convolution /\ s.recurrent = states[t].recurrent
  BY <1>20 DEF s, StateFields
<1>23. Shaped(s)
  <2> DEFINE old == states[t]
  <2>1. /\ Shaped(old) /\ s.position = old.position
        /\ s.keys = [old.keys EXCEPT ![Layer] = keys]
        /\ s.values = [old.values EXCEPT ![Layer] = values]
        /\ s.convolution = old.convolution /\ s.recurrent = old.recurrent
    BY <1>19, <1>22
  <2> HIDE DEF old
  <2> QED  BY <1>2, <1>21, <2>1 DEF Shaped
<1>24. LayerIs(s, Layer, Posterior(i)) /\ \A l \in DOMAIN Layers : l # Layer => LayerIs(s, l, states[t])
  <2>1. DOMAIN states[t].keys = DOMAIN Layers /\ DOMAIN states[t].values = DOMAIN Layers
    BY <1>19 DEF Shaped
  <2> QED  BY <1>2, <1>18, <1>22, <2>1 DEF LayerIs
<1>25. ASSUME NEW r \in DOMAIN states, Active(r)  PROVE AtLayer(r)'
  <2>1. Appending(r)
    BY <1>1, <1>25, RowInCall DEF AtLayer
  <2>2. CASE call.kind = "decode"
    <3>1. t = i /\ Nth(i) = 1 /\ call.pending \ {i} = (i + 1) .. Len(call.tokens)
      BY <1>2, <2>2 DEF t, Target, Nth
    <3>2. r \in call'.pending <=> r \in call.pending /\ r # i
      BY <1>4, <3>1
    <3>3. CASE r = t
      <4>1. r \notin call'.pending /\ LayerIs(states'[r], Layer, Stage(r, 1))
        BY <1>7, <1>24, <3>1, <3>2, <3>3 DEF Posterior, t
      <4> QED  BY <1>4, <1>12, <2>2, <4>1 DEF Appending, AtLayer, WholePhases
    <3>4. CASE r # t
      <4>1. LayerIs(states'[r], Layer, Stage(r, IF r \in call'.pending THEN 0 ELSE 1))
        BY <1>7, <2>1, <2>2, <3>1, <3>2, <3>4 DEF Appending
      <4> QED  BY <1>4, <1>12, <2>2, <4>1 DEF Appending, AtLayer, WholePhases
    <3> QED  BY <3>3, <3>4
  <2>3. CASE call.kind # "decode"
    <3>1. r = t /\ Nth(i) = i /\ i \in 1 .. Len(call.tokens) /\ Len(call.tokens) \in Nat
      BY <1>1, <1>2, <1>25, <2>3, InCall DEF Active, t, Target, Nth, Rows
    <3>2. \A k \in 0 .. Len(call.tokens) : call'.pending = (k + 1) .. Len(call.tokens) => k = i
      BY <1>4, <3>1
    <3>3. LayerIs(states'[r], Layer, Stage(r, i))
      BY <1>7, <1>24, <3>1 DEF Posterior, t
    <3>4. Appending(r)'
      BY <1>4, <1>12, <2>3, <3>2, <3>3 DEF Appending
    <3> QED  BY <1>4, <3>4 DEF AtLayer, WholePhases
  <2> QED  BY <2>2, <2>3
<1>26. RowsReached'
  BY <1>5, <1>7, <1>11, <1>22, <1>23, <1>24, <1>25, RowChanged
<1>27. HiddenReached'
  BY <1>1, <1>3, <1>4, <1>11, SameHidden DEF AttentionPhases, FullPhases
<1>28. UnitsLeft' /\ LinearBuffers' /\ ExpertBuffers'
  BY <1>4 DEF DecodePhases, PrefillPhases, ExpertPhases, UnitsLeft, LinearBuffers, ExpertBuffers
<1>29. FullBuffers'
  <2>1. /\ DOMAIN buffers.queries = Rows /\ DOMAIN buffers.attended = Rows
        /\ \A j \in Rows : j \notin call.pending => buffers.queries[j] = WantedQuery(j)
    BY <1>1 DEF TokenInv, FullBuffers, FullPhases
  <2>2. \A j \in Rows : j \notin call'.pending => j \notin call.pending \/ j = i
    BY <1>2, <1>4
  <2>3. \A j \in Rows : j \notin call'.pending => buffers'.queries[j] = WantedQuery(j)
    BY <1>9, <1>18, <2>1, <2>2
  <2> QED  BY <1>4, <1>9, <1>12, <2>1, <2>3 DEF FullBuffers
<1> QED  BY <1>11, <1>15, <1>26, <1>27, <1>28, <1>29, Inside

(* the residual of the attention, and what the experts are given *)
LEMMA AttentionDoneTokens ==
  ASSUME IInv, IInv', TokenInv, NEW phase \in {"attend", "units", "gates"}, NEW output,
         AttentionDone(phase, output),
         \A i \in Rows : output[i] = AttentionOf(Layer, Prior(i), Entering(i)),
         \A r \in DOMAIN states : Active(r) => LayerIs(states[r], Layer, Result(r))
  PROVE  TokenInv'
<1>1. /\ ~Idle /\ call.phase = phase /\ Go("route", {})
      /\ hidden' = [i \in Rows |-> Add(hidden[i], output[i])]
      /\ buffers' = [buffers EXCEPT !.inputs = [i \in Rows |-> Norm("post", Layer, hidden'[i])]]
      /\ UNCHANGED <<states, ropes, logits, prompt, ghost>>
  BY DEF AttentionDone, After
<1>2. /\ DOMAIN buffers' = DOMAIN buffers
      /\ buffers'.inputs = [i \in Rows |-> Norm("post", Layer, hidden'[i])]
  BY <1>1 DEF TokenInv, BuffersOK, NoBuffers
<1>3. SameLayerWithin /\ Within /\ call'.phase = "route"
  BY <1>1, <1>2, Going DEF SameLayerWithin, Within
<1>4. /\ Layer' = Layer /\ Rows' = Rows /\ \A r : Result(r)' = Result(r)
      /\ \A i : WantedResidual(i)' = WantedResidual(i) /\ WantedExpert(i)' = WantedExpert(i)
  BY <1>3, SameCall, SameLayer DEF SameLayerWithin, Within
<1>5. \A r \in DOMAIN states : Active(r) => AtLayer(r)'
  BY <1>1, <1>3, <1>4 DEF AtLayer, WholePhases
<1>6. RowsReached'
  BY <1>1, <1>3, <1>5, QuietRows
<1>7. \A i \in Rows : hidden[i] = Entering(i)
  BY <1>1 DEF TokenInv, HiddenReached, AttentionPhases, FullPhases, DecodePhases, PrefillPhases
<1>8. \A i \in Rows : hidden'[i] = WantedResidual(i)
  BY <1>1, <1>7 DEF WantedResidual, ResidualOf
<1>9. \A i \in Rows : buffers'.inputs[i] = WantedExpert(i)
  BY <1>2, <1>8 DEF WantedExpert, ExpertInput, WantedResidual
<1>10. HiddenReached'
  BY <1>3, <1>4, <1>8 DEF HiddenReached, AttentionPhases, FullPhases, DecodePhases, PrefillPhases
<1>11. ExpertBuffers'
  BY <1>3, <1>4, <1>9 DEF ExpertBuffers
<1>12. UnitsLeft' /\ LinearBuffers' /\ FullBuffers' /\ RopesOK'
  BY <1>1, <1>3, SameRopes DEF DecodePhases, PrefillPhases, FullPhases, UnitsLeft, LinearBuffers, FullBuffers
<1> QED  BY <1>3, <1>6, <1>10, <1>11, <1>12, Inside

LEMMA FullDoneTokens ==
  ASSUME IInv, IInv', TokenInv, FullDone
  PROVE  TokenInv'
<1> DEFINE output == [i \in Rows |-> FullOutput(Layer, buffers.attended[i])]
<1>1. AttentionDone("attend", output) /\ ~Idle /\ call.phase = "attend" /\ call.pending = {}
  BY DEF FullDone, AttentionDone, After
<1>2. \A r \in DOMAIN states : Active(r) => LayerIs(states[r], Layer, Result(r))
  BY <1>1, RowInCall DEF AtLayer, WholePhases
<1>3. Layers[Layer] = "full"
  BY <1>1, LayerRuns DEF FullPhases
<1>4. \A i \in Rows : output[i] = AttentionOf(Layer, Prior(i), Entering(i))
  BY <1>1, <1>3 DEF TokenInv, FullBuffers, FullPhases, WantedAttended, AttentionOf
<1> HIDE DEF output
<1> QED  BY <1>1, <1>2, <1>4, AttentionDoneTokens

-----------------------------------------------------------------------------
(* Row-major buffers: rows of w elements, one after another *)

LEMMA RowMajorIn ==
  ASSUME NEW w \in Nat \ {0}, NEW n \in Nat, NEW i \in 1 .. n, NEW a \in 1 .. w
  PROVE  (i - 1) * w + a \in 1 .. n * w
<1>1. (i - 1) * w >= 0
  OBVIOUS
<1>2. i * w <= n * w
  OBVIOUS
<1>3. (i - 1) * w = i * w - w
  OBVIOUS
<1> QED  BY <1>1, <1>2, <1>3

LEMMA RowMajorOnce ==
  ASSUME NEW w \in Nat \ {0}, NEW i \in Nat, NEW j \in Nat, NEW a \in 1 .. w, NEW b \in 1 .. w,
         (i - 1) * w + a = (j - 1) * w + b
  PROVE  i = j /\ a = b
<1>1. ASSUME NEW p \in Int, NEW q \in Int, p < q  PROVE p * w + w <= q * w
  <2>1. (p + 1) * w <= q * w
    BY <1>1
  <2> QED  BY <2>1
<1>2. ~(i < j)
  <2> SUFFICES ASSUME i < j  PROVE FALSE
    OBVIOUS
  <2>1. (i - 1) * w + w <= (j - 1) * w
    BY <1>1
  <2> QED  BY <2>1
<1>3. ~(j < i)
  <2> SUFFICES ASSUME j < i  PROVE FALSE
    OBVIOUS
  <2>1. (j - 1) * w + w <= (i - 1) * w
    BY <1>1
  <2> QED  BY <2>1
<1> QED  BY <1>2, <1>3

LEMMA SliceFacts ==
  ASSUME NEW buffer, IsSequence(buffer), NEW w \in Nat \ {0}, NEW i \in Nat \ {0},
         i * w <= Len(buffer)
  PROVE  Slice(buffer, w, i) = [a \in 1 .. w |-> buffer[(i - 1) * w + a]]
<1> DEFINE S == {buffer[k] : k \in DOMAIN buffer}
           m == (i - 1) * w
<1>1. buffer \in Seq(S)
  BY DEF IsSequence
<1>2. m \in Nat /\ i * w = m + w /\ i * w <= Len(buffer) /\ Len(buffer) \in Nat
  <2>1. (i - 1) * w >= 0 /\ (i - 1) * w = i * w - w
    OBVIOUS
  <2> QED  BY <1>1, <2>1
<1> HIDE DEF S, m
<1>3. Slice(buffer, w, i) = SubSeq(buffer, m + 1, m + w)
  BY <1>2 DEF Slice, m
<1>4. /\ SubSeq(buffer, m + 1, m + w) \in Seq(S)
      /\ Len(SubSeq(buffer, m + 1, m + w)) = w
      /\ \A a \in 1 .. w : SubSeq(buffer, m + 1, m + w)[a] = buffer[m + a]
  BY <1>1, <1>2
<1> DEFINE cut == SubSeq(buffer, m + 1, m + w)
<1> HIDE DEF cut
<1>5. cut \in Seq(S) /\ Len(cut) = w /\ \A a \in 1 .. w : cut[a] = buffer[m + a]
  BY <1>4 DEF cut
<1>6. cut = [a \in 1 .. w |-> buffer[m + a]]
  BY <1>5
<1> QED  BY <1>3, <1>6 DEF cut, m

(* a sequence whose elements are replaced *)
LEMMA Replaced ==
  ASSUME NEW s, IsSequence(s), NEW new, new = [k \in DOMAIN s |-> new[k]]
  PROVE  IsSequence(new) /\ Len(new) = Len(s) /\ DOMAIN new = DOMAIN s
<1> DEFINE S == {new[k] : k \in 1 .. Len(s)}
<1>1. Len(s) \in Nat /\ DOMAIN s = 1 .. Len(s)
  BY SequenceFacts
<1>2. new \in [1 .. Len(s) -> S]
  BY <1>1
<1>3. new \in Seq(S) /\ DOMAIN new = DOMAIN s
  BY <1>1, <1>2
<1> HIDE DEF S
<1>4. Len(new) = Len(s)
  BY <1>1, <1>3
<1> QED  BY <1>3, <1>4, SequenceOfAny

LEMMA BlocksCount ==
  /\ Cardinality(Blocks) \in Nat \ {0} /\ Blocks = 1 .. Cardinality(Blocks)
  /\ Heads = 1 .. ValueHeads /\ ValueHeads \in Nat \ {0}
<1>1. /\ KeyHeads \in Nat \ {0} /\ ValueHeads \in Nat \ {0}
      /\ 2 * KeyHeads + ValueHeads \in Nat \ {0}
  BY GeometryAssumption
<1>2. Cardinality(Blocks) = 2 * KeyHeads + ValueHeads
  BY <1>1, CardinalityOfRows DEF Blocks
<1> QED  BY <1>1, <1>2 DEF Blocks, Heads

LEMMA SlotFacts ==
  ASSUME NEW n \in Nat, NEW i \in 1 .. n, NEW b \in Blocks
  PROVE  /\ Slot(i, b) \in 1 .. n * Cardinality(Blocks)
         /\ Slot(i, b) - Slot(i, 0) = b
         /\ \A j \in 1 .. n : \A c \in Blocks : Slot(j, c) = Slot(i, b) => j = i /\ c = b
<1> DEFINE w == Cardinality(Blocks)
<1>1. w \in Nat \ {0} /\ Blocks = 1 .. w
  BY BlocksCount
<1> HIDE DEF w
<1>2. \A j, c : Slot(j, c) = (j - 1) * w + c
  BY DEF Slot, w
<1>3. Slot(i, b) \in 1 .. n * w
  BY <1>1, <1>2, RowMajorIn
<1>4. Slot(i, b) - Slot(i, 0) = b
  BY <1>1, <1>2
<1>5. ASSUME NEW j \in 1 .. n, NEW c \in Blocks, Slot(j, c) = Slot(i, b)
      PROVE  j = i /\ c = b
  <2>1. (j - 1) * w + c = (i - 1) * w + b
    BY <1>2, <1>5
  <2>2. j \in Nat /\ i \in Nat /\ b \in 1 .. w /\ c \in 1 .. w
    BY <1>1
  <2> QED  BY <1>1, <2>1, <2>2, RowMajorOnce
<1> QED  BY <1>3, <1>4, <1>5 DEF w

LEMMA UnitFacts ==
  ASSUME NEW n \in Nat
  PROVE  /\ \A u \in 0 .. n * ValueHeads - 1 :
              /\ UnitRow(u) \in 1 .. n /\ UnitHead(u) \in Heads
              /\ UnitOf(UnitRow(u), UnitHead(u)) = u
         /\ \A i \in 1 .. n : \A h \in Heads :
              /\ UnitOf(i, h) \in 0 .. n * ValueHeads - 1
              /\ (i - 1) * ValueHeads + h = UnitOf(i, h) + 1
              /\ UnitOf(i, h) + 1 \in 1 .. n * ValueHeads
              /\ UnitRow(UnitOf(i, h)) = i /\ UnitHead(UnitOf(i, h)) = h
<1> DEFINE w == ValueHeads
<1>1. w \in Nat \ {0} /\ Heads = 1 .. w
  BY BlocksCount
<1> HIDE DEF w
<1>2. ASSUME NEW u \in 0 .. n * w - 1
      PROVE  /\ u \div w + 1 \in 1 .. n /\ (u % w) + 1 \in 1 .. w
             /\ ((u \div w + 1) - 1) * w + ((u % w) + 1) - 1 = u
  <2> DEFINE q == u \div w
             r == u % w
  <2>1. u \in Nat /\ n * w \in Nat /\ u < n * w
    BY <1>1
  <2>2. q \in Nat /\ w * q <= u /\ u < w * q + w
    BY <1>1, <2>1, Quotient
  <2>3. r \in 0 .. w - 1 /\ u = w * q + r
    BY <1>1, <2>1
  <2> HIDE DEF q, r
  <2>4. q < n
    <3> SUFFICES ASSUME n <= q  PROVE FALSE
      BY <2>2
    <3>1. w * n <= w * q
      BY <1>1, <2>2
    <3> QED  BY <1>1, <2>1, <2>2, <3>1
  <2>5. q + 1 \in 1 .. n /\ r + 1 \in 1 .. w /\ ((q + 1) - 1) * w + (r + 1) - 1 = u
    BY <1>1, <2>2, <2>3, <2>4
  <2> QED  BY <2>5 DEF q, r
<1>3. ASSUME NEW u \in 0 .. n * w - 1
      PROVE  /\ UnitRow(u) \in 1 .. n /\ UnitHead(u) \in Heads
             /\ UnitOf(UnitRow(u), UnitHead(u)) = u
  BY <1>1, <1>2 DEF UnitRow, UnitHead, UnitOf, w
<1>4. ASSUME NEW i \in 1 .. n, NEW h \in Heads
      PROVE  /\ UnitOf(i, h) \in 0 .. n * w - 1
             /\ (i - 1) * w + h = UnitOf(i, h) + 1
             /\ UnitOf(i, h) + 1 \in 1 .. n * w
             /\ UnitRow(UnitOf(i, h)) = i /\ UnitHead(UnitOf(i, h)) = h
  <2> DEFINE u == UnitOf(i, h)
             j == UnitRow(u)
             g == UnitHead(u)
  <2>1. (i - 1) * w + h \in 1 .. n * w
    BY <1>1, RowMajorIn
  <2>2. (i - 1) * w \in Int /\ h \in Int /\ n * w \in Int
    BY <1>1
  <2>3. u = (i - 1) * w + h - 1
    BY DEF UnitOf, w
  <2> HIDE DEF u
  <2>4. u \in 0 .. n * w - 1 /\ (i - 1) * w + h = u + 1 /\ u + 1 \in 1 .. n * w
    BY <2>1, <2>2, <2>3
  <2>5. j \in 1 .. n /\ g \in Heads /\ UnitOf(j, g) = u
    BY <1>3, <2>4
  <2> HIDE DEF j, g
  <2>6. u = (j - 1) * w + g - 1
    BY <2>5 DEF UnitOf, w
  <2>7. (j - 1) * w \in Int /\ g \in 1 .. w /\ h \in 1 .. w /\ i \in Nat /\ j \in Nat
    BY <1>1, <2>5
  <2>8. (j - 1) * w + g = (i - 1) * w + h
    BY <2>2, <2>3, <2>6, <2>7
  <2>9. j = i /\ g = h
    BY <1>1, <2>7, <2>8, RowMajorOnce
  <2> QED  BY <2>4, <2>9 DEF u, j, g
<1> QED  BY <1>3, <1>4 DEF w

-----------------------------------------------------------------------------
(* the buffers of the linear layer that runs are replaced in one row *)
LEMMA LinearRow ==
  ASSUME IInv, TokenInv, ~Idle, Layers[Layer] = "linear", NEW t \in DOMAIN states, Active(t),
         NEW s, states' = [states EXCEPT ![t] = s],
         s = [f \in StateFields |-> s[f]], s.position = states[t].position,
         s.keys = states[t].keys, s.values = states[t].values,
         s.convolution = [states[t].convolution EXCEPT ![Layer] = s.convolution[Layer]],
         s.recurrent = [states[t].recurrent EXCEPT ![Layer] = s.recurrent[Layer]]
  PROVE  /\ Len(states') = Len(states) /\ DOMAIN states' = DOMAIN states
         /\ Shaped(states'[t]) /\ states'[t].position = states[t].position
         /\ states'[t] = s
         /\ \A l \in DOMAIN Layers : l # Layer => LayerIs(states'[t], l, states[t])
         /\ \A q \in DOMAIN states : q # t => states'[q] = states[q]
<1>1. IsSequence(states)
  BY DEF IInv, StatesOK
<1>2. /\ Len(states') = Len(states) /\ DOMAIN states' = DOMAIN states /\ states'[t] = s
      /\ \A q \in DOMAIN states : q # t => states'[q] = states[q]
  BY <1>1, SequenceExcept, SequenceFacts
<1> DEFINE old == states[t]
<1>3. Shaped(old)
  BY RowInCall
<1>4. Layer \in DOMAIN Layers
  BY LayerRuns
<1> HIDE DEF old
<1>5. /\ s.position = old.position /\ s.keys = old.keys /\ s.values = old.values
      /\ s.convolution = [old.convolution EXCEPT ![Layer] = s.convolution[Layer]]
      /\ s.recurrent = [old.recurrent EXCEPT ![Layer] = s.recurrent[Layer]]
  BY DEF old
<1>6. Shaped(s)
  BY ZenonT(60), <1>3, <1>4, <1>5 DEF Shaped
<1>8. \A l \in DOMAIN Layers : l # Layer => LayerIs(s, l, old)
  BY <1>3, <1>5 DEF Shaped, LayerIs
<1> QED  BY <1>2, <1>5, <1>6, <1>8 DEF old

-----------------------------------------------------------------------------
(* Linear attention of a decode *)

(* the buffers are given their sizes, and the inputs are made *)
LEMMA ResizedLinear ==
  ASSUME IInv, TokenInv, ~Idle, call.phase = "layer", ResizeLinear
  PROVE  /\ DOMAIN buffers' = DOMAIN buffers
         /\ \A i \in Rows : buffers'.inputs[i] = WantedInput(i)
         /\ IsSequence(buffers'.convolved)
         /\ Len(buffers'.convolved) = Len(call.tokens) * Cardinality(Blocks)
         /\ IsSequence(buffers'.recurrent)
         /\ Len(buffers'.recurrent) = Len(call.tokens) * ValueHeads
         /\ IsSequence(buffers'.normalized)
         /\ Len(buffers'.normalized) = Len(call.tokens) * ValueHeads
<1> DEFINE n == Len(call.tokens)
<1>1. /\ DOMAIN buffers' = DOMAIN buffers
      /\ buffers'.inputs = [i \in Rows |-> Normalized("input", i)]
      /\ buffers'.convolved = Resize(buffers.convolved, n * Cardinality(Blocks))
      /\ buffers'.recurrent = Resize(buffers.recurrent, n * ValueHeads)
      /\ buffers'.normalized = Resize(buffers.normalized, n * ValueHeads)
  BY DEF ResizeLinear, TokenInv, BuffersOK, NoBuffers
<1>2. n * Cardinality(Blocks) \in Nat /\ n * ValueHeads \in Nat
  BY InCall, BlocksCount
<1>3. \A i \in Rows : Normalized("input", i) = WantedInput(i)
  BY DEF TokenInv, HiddenReached, AttentionPhases, Normalized, WantedInput, Input
<1> HIDE DEF n
<1> QED  BY <1>1, <1>2, <1>3, ResizeFacts DEF n

LEMMA LinearLayerTokens ==
  ASSUME IInv, IInv', TokenInv, LinearLayer
  PROVE  TokenInv'
<1>1. /\ ~Idle /\ call.phase = "layer" /\ Go("sequences", Rows) /\ ResizeLinear
      /\ call.kind = "decode"
      /\ UNCHANGED <<states, ropes, logits, prompt, hidden, ghost>>
  BY DEF LinearLayer, After
<1>2. /\ DOMAIN buffers' = DOMAIN buffers
      /\ \A i \in Rows : buffers'.inputs[i] = WantedInput(i)
      /\ IsSequence(buffers'.convolved)
      /\ Len(buffers'.convolved) = Len(call.tokens) * Cardinality(Blocks)
      /\ IsSequence(buffers'.recurrent)
      /\ Len(buffers'.recurrent) = Len(call.tokens) * ValueHeads
      /\ IsSequence(buffers'.normalized)
      /\ Len(buffers'.normalized) = Len(call.tokens) * ValueHeads
  BY <1>1, ResizedLinear
<1>3. SameLayerWithin /\ Within /\ call'.phase = "sequences" /\ call'.pending = Rows
  BY <1>1, <1>2, Going DEF SameLayerWithin, Within
<1>4. /\ Layer' = Layer /\ Rows' = Rows /\ \A i : WantedInput(i)' = WantedInput(i)
      /\ call'.tokens = call.tokens
  BY <1>3, SameCall, SameLayer DEF SameLayerWithin, Within
<1>5. ASSUME NEW r \in DOMAIN states, Active(r)  PROVE AtLayer(r)'
  <2>1. LayerIs(states[r], Layer, ghost[r].state)
    BY <1>1, <1>5, RowInCall DEF AtLayer
  <2>2. r \in Rows
    BY <1>1, LayerRuns
  <2> QED  BY <1>1, <1>3, <1>4, <2>1, <2>2 DEF AtLayer, Sequencing, WholePhases
<1>6. RowsReached'
  BY <1>1, <1>3, <1>5, QuietRows
<1>7. RopesOK' /\ HiddenReached'
  BY <1>1, <1>3, SameRopes, SameHidden DEF AttentionPhases, DecodePhases
<1>8. UnitsLeft' /\ FullBuffers' /\ ExpertBuffers'
  BY <1>3 DEF FullPhases, ExpertPhases, UnitsLeft, FullBuffers, ExpertBuffers
<1>9. LinearBuffers'
  BY <1>2, <1>3, <1>4 DEF LinearBuffers, Holds
<1> QED  BY <1>3, <1>6, <1>7, <1>8, <1>9, Inside

(* A row of a decode has one token, and its convolution and recurrence.  *)
LEMMA DecodeRow ==
  ASSUME IInv, TokenInv, ~Idle, call.kind = "decode", NEW i \in Rows
  PROVE  /\ Target(i) = i /\ i \in DOMAIN states /\ Active(i)
         /\ Prior(i) = ghost[i].state /\ Posterior(i) = Result(i)
         /\ Proper(Prior(i))
<1>1. Target(i) = i /\ Nth(i) = 1
  BY DEF Target, Nth
<1>2. i \in DOMAIN states /\ Active(i) /\ Proper(Prior(i))
  BY <1>1, CallRows
<1>3. Prior(i) = Stage(i, 0) /\ Posterior(i) = Stage(i, 1) /\ Result(i) = Stage(i, 1)
  BY <1>1, LayerRuns DEF Prior, Posterior, Result
<1>4. Stage(i, 0) = ghost[i].state
  BY <1>2, CallRows
<1> QED  BY <1>1, <1>2, <1>3, <1>4

LEMMA SequenceTokens ==
  ASSUME IInv, IInv', TokenInv, NEW i, Sequence(i)
  PROVE  TokenInv'
<1> DEFINE x == buffers.inputs[i]
           history == Convolution(states[i].convolution[Layer])
           shifted == [b \in Blocks |-> Shift(Layer, b, history[b], x)]
           made == Recurrent(states[i].recurrent[Layer])
           s == [states[i] EXCEPT !.convolution[Layer] = shifted, !.recurrent[Layer] = made]
           old == buffers.convolved
           convolved == [k \in DOMAIN old |->
                           IF \E b \in Blocks : k = Slot(i, b)
                           THEN Convolved(Layer, k - Slot(i, 0), history[k - Slot(i, 0)], x)
                           ELSE old[k]]
<1>1. /\ Unit("sequences", i) /\ states' = [states EXCEPT ![i] = s]
      /\ buffers' = [buffers EXCEPT !.convolved = convolved]
      /\ ropes' = ropes /\ hidden' = hidden
  BY Zenon DEF Sequence
<1>2. /\ ~Idle /\ call.phase = "sequences" /\ call'.phase = "sequences" /\ i \in call.pending
      /\ call'.pending = call.pending \ {i}
  BY <1>1, UnitTaken
<1>3. /\ i \in Rows /\ call.kind = "decode" /\ Layers[Layer] = "linear" /\ Layer \in DOMAIN Layers
  BY <1>2, InCall, LayerRuns DEF PendingOK, DecodePhases
<1>4. /\ i \in DOMAIN states /\ Active(i) /\ Prior(i) = ghost[i].state
      /\ Posterior(i) = Result(i) /\ Proper(Prior(i))
  BY <1>2, <1>3, DecodeRow
<1>5. Shaped(states[i])
  BY <1>2, <1>4, RowInCall
<1>6. /\ states[i].convolution[Layer] = ghost[i].state.convolution[Layer]
      /\ states[i].recurrent[Layer] = ghost[i].state.recurrent[Layer]
  BY <1>2, <1>3, <1>4, RowInCall DEF AtLayer, Sequencing, LayerIs
<1>7. x = WantedInput(i)
  BY <1>2, <1>3 DEF TokenInv, LinearBuffers, DecodePhases
<1>8. shifted = Result(i).convolution[Layer]
  <2>1. Posterior(i).convolution[Layer] = ConvolutionAfter(Layer, Prior(i), Entering(i))
    BY <1>2, <1>3, TokenInLayer
  <2> QED  BY <1>3, <1>4, <1>6, <1>7, <2>1 DEF ConvolutionAfter, WantedInput
<1>9. made = MadeRecurrent(i)
  BY <1>6 DEF MadeRecurrent
<1>10. \A b \in Blocks : Convolved(Layer, b, history[b], x) = WantedConvolved(i)[b]
  BY <1>4, <1>6, <1>7 DEF WantedConvolved, ConvolvedOf, WantedInput
<1>11. states[i] = [f \in StateFields |-> states[i][f]]
  BY <1>5 DEF Shaped
<1> HIDE DEF shifted, made
<1>12. s = [f \in StateFields |-> s[f]]
  BY <1>11
<1>13. /\ s.position = states[i].position /\ s.keys = states[i].keys /\ s.values = states[i].values
       /\ s.convolution = [states[i].convolution EXCEPT ![Layer] = shifted]
       /\ s.recurrent = [states[i].recurrent EXCEPT ![Layer] = made]
       /\ s.convolution[Layer] = shifted /\ s.recurrent[Layer] = made
  BY <1>3, <1>5, <1>11 DEF StateFields, Shaped
<1> HIDE DEF s, convolved
<1>14. /\ Len(states') = Len(states) /\ DOMAIN states' = DOMAIN states
       /\ Shaped(states'[i]) /\ states'[i].position = states[i].position
       /\ states'[i] = s
       /\ \A l \in DOMAIN Layers : l # Layer => LayerIs(states'[i], l, states[i])
       /\ \A q \in DOMAIN states : q # i => states'[q] = states[q]
  <2>1. /\ ~Idle /\ Layers[Layer] = "linear" /\ i \in DOMAIN states /\ Active(i)
        /\ states' = [states EXCEPT ![i] = s]
    BY <1>1, <1>2, <1>3, <1>4
  <2> HIDE DEF history
  <2> QED  BY <1>12, <1>13, <2>1, LinearRow
<1>15. /\ DOMAIN buffers' = DOMAIN buffers /\ buffers'.inputs = buffers.inputs
       /\ buffers'.recurrent = buffers.recurrent /\ buffers'.normalized = buffers.normalized
       /\ buffers'.convolved = convolved
  BY <1>1 DEF TokenInv, BuffersOK, NoBuffers
<1>16. SameLayerWithin /\ Within
  BY <1>1, <1>2, <1>14, <1>15, UnitTaken DEF SameLayerWithin, Within
<1>17. /\ Layer' = Layer /\ Rows' = Rows /\ \A j : WantedInput(j)' = WantedInput(j)
       /\ \A r : Result(r)' = Result(r) /\ MadeRecurrent(r)' = MadeRecurrent(r)
       /\ \A j : WantedConvolved(j)' = WantedConvolved(j)
       /\ call'.tokens = call.tokens /\ ghost' = ghost
  BY <1>16, SameCall, SameLayer DEF SameLayerWithin, Within
<1>18. ASSUME NEW r \in DOMAIN states, Active(r)  PROVE AtLayer(r)'
  <2>1. Sequencing(r)
    BY <1>2, <1>18, RowInCall DEF AtLayer
  <2>2. CASE r = i
    BY <1>2, <1>8, <1>9, <1>13, <1>14, <1>17, <2>2 DEF AtLayer, Sequencing, WholePhases
  <2>3. CASE r # i
    BY <1>2, <1>14, <1>17, <2>1, <2>3 DEF AtLayer, Sequencing, WholePhases
  <2> QED  BY <2>2, <2>3
<1>19. RowsReached'
  BY <1>2, <1>4, <1>14, <1>16, <1>18, RowChanged
<1>20. RopesOK' /\ HiddenReached'
  BY <1>1, <1>2, <1>16, SameRopes, SameHidden DEF AttentionPhases, DecodePhases
<1>21. UnitsLeft' /\ FullBuffers' /\ ExpertBuffers'
  BY <1>2 DEF FullPhases, ExpertPhases, UnitsLeft, FullBuffers, ExpertBuffers
<1>22. LinearBuffers
  BY <1>2 DEF TokenInv
<1>23. IsSequence(convolved) /\ Len(convolved) = Len(old)
  <2>1. IsSequence(old)
    BY <1>2, <1>22 DEF LinearBuffers, Holds, DecodePhases
  <2>2. convolved = [k \in DOMAIN old |-> convolved[k]]
    BY DEF convolved
  <2> QED  BY <2>1, <2>2, Replaced
<1>24. ASSUME NEW j \in Rows, NEW b \in Blocks, j \notin call'.pending
       PROVE  convolved[Slot(j, b)] = WantedConvolved(j)[b]
  <2>1. Len(old) = Len(call.tokens) * Cardinality(Blocks) /\ IsSequence(old)
    BY <1>2, <1>22 DEF LinearBuffers, Holds, DecodePhases
  <2>2. /\ Len(call.tokens) \in Nat /\ i \in 1 .. Len(call.tokens) /\ j \in 1 .. Len(call.tokens)
    BY <1>2, <1>3, InCall DEF Rows
  <2>3. Slot(j, b) \in DOMAIN old
    BY <2>1, <2>2, SlotFacts, SequenceFacts
  <2>4. CASE j = i
    <3>1. Slot(i, b) - Slot(i, 0) = b
      BY <2>2, SlotFacts
    <3> QED  BY <1>10, <2>3, <2>4, <3>1 DEF convolved
  <2>5. CASE j # i
    <3>1. \A c \in Blocks : Slot(j, b) # Slot(i, c)
      BY <2>2, <2>5, SlotFacts
    <3>2. convolved[Slot(j, b)] = old[Slot(j, b)]
      BY <2>3, <3>1 DEF convolved
    <3>3. j \notin call.pending
      BY <1>2, <1>24, <2>5
    <3> QED  BY <1>2, <1>22, <3>2, <3>3 DEF LinearBuffers, DecodePhases
  <2> QED  BY <2>4, <2>5
<1>25. LinearBuffers'
  BY <1>2, <1>15, <1>17, <1>22, <1>23, <1>24 DEF LinearBuffers, Holds, DecodePhases
<1> QED  BY <1>16, <1>19, <1>20, <1>21, <1>25, Inside

LEMMA SequencesDoneTokens ==
  ASSUME IInv, IInv', TokenInv, SequencesDone
  PROVE  TokenInv'
<1>1. /\ ~Idle /\ call.phase = "sequences" /\ call.pending = {} /\ Go("units", Units)
      /\ UNCHANGED <<states, ropes, logits, prompt, hidden, buffers, ghost>>
  BY DEF SequencesDone, After
<1>2. /\ call.kind = "decode" /\ Layers[Layer] = "linear" /\ Layer \in DOMAIN Layers
      /\ DOMAIN states = Rows
  BY <1>1, LayerRuns DEF DecodePhases
<1>3. SameLayerWithin /\ Within /\ call'.phase = "units" /\ call'.pending = Units
  BY <1>1, Going DEF SameLayerWithin, Within
<1>4. /\ Layer' = Layer /\ Rows' = Rows /\ Units' = Units /\ call'.tokens = call.tokens
      /\ \A r : Result(r)' = Result(r) /\ MadeRecurrent(r)' = MadeRecurrent(r)
      /\ \A i : WantedInput(i)' = WantedInput(i) /\ WantedConvolved(i)' = WantedConvolved(i)
  BY <1>3, SameCall, SameLayer DEF SameLayerWithin, Within
<1>5. \A i \in Rows : \A h \in Heads : UnitOf(i, h) \in Units
  BY <1>1, InCall, UnitFacts DEF Rows, Units
<1>6. ASSUME NEW r \in DOMAIN states, Active(r)  PROVE AtLayer(r)'
  <2>1. Sequencing(r)
    BY <1>1, <1>6, RowInCall DEF AtLayer
  <2>2. Proper(ghost[r].state)
    BY <1>1, <1>6, RowInCall
  <2>3. MadeRecurrent(r) = [h \in Heads |-> MadeRecurrent(r)[h]]
    BY <1>2, <2>2, BuffersMade DEF MadeRecurrent
  <2>4. Uniting(r)'
    BY <1>1, <1>2, <1>3, <1>4, <1>5, <2>1, <2>3 DEF Uniting, Sequencing
  <2> QED  BY <1>3, <2>4 DEF AtLayer, WholePhases
<1>7. RowsReached'
  BY <1>1, <1>3, <1>6, QuietRows
<1>8. RopesOK' /\ HiddenReached'
  BY <1>1, <1>3, SameRopes, SameHidden DEF AttentionPhases, DecodePhases
<1>9. UnitsLeft' /\ FullBuffers' /\ ExpertBuffers'
  BY <1>3, <1>4 DEF FullPhases, ExpertPhases, UnitsLeft, FullBuffers, ExpertBuffers
<1>10. LinearBuffers'
  BY <1>1, <1>3, <1>4, <1>5 DEF TokenInv, LinearBuffers, Holds, DecodePhases
<1> QED  BY <1>3, <1>7, <1>8, <1>9, <1>10, Inside

(* row i of a row-major buffer *)
LEMMA RowOf ==
  ASSUME IInv, ~Idle, NEW buffer, NEW w \in Nat \ {0}, Holds(buffer, w), NEW i \in Rows
  PROVE  Slice(buffer, w, i) = [a \in 1 .. w |-> buffer[(i - 1) * w + a]]
<1> DEFINE n == Len(call.tokens)
<1>1. n \in Nat /\ i \in 1 .. n
  BY InCall DEF Rows
<1>2. IsSequence(buffer) /\ Len(buffer) = n * w
  BY DEF Holds
<1> HIDE DEF n
<1>3. i * w <= n * w
  BY <1>1
<1>4. i \in Nat \ {0} /\ i * w <= Len(buffer)
  BY <1>1, <1>2, <1>3
<1> QED  BY <1>2, <1>4, SliceFacts

(* row i of the convolved rows *)
LEMMA ConvolvedRowIs ==
  ASSUME IInv, TokenInv, ~Idle, call.phase \in {"units", "heads"}, NEW i \in Rows
  PROVE  ConvolvedRow(i) = WantedConvolved(i)
<1> DEFINE w == Cardinality(Blocks)
           buffer == buffers.convolved
<1>1. LinearBuffers
  BY DEF TokenInv
<1>2. /\ Holds(buffer, w)
      /\ \A b \in Blocks : buffer[Slot(i, b)] = WantedConvolved(i)[b]
  BY <1>1 DEF LinearBuffers, DecodePhases, PrefillPhases
<1>3. w \in Nat \ {0} /\ Blocks = 1 .. w
  BY BlocksCount
<1>4. \A b : Slot(i, b) = (i - 1) * w + b
  BY DEF Slot
<1>5. ConvolvedRow(i) = Slice(buffer, w, i)
  BY DEF ConvolvedRow
<1> HIDE DEF w, buffer
<1>6. Slice(buffer, w, i) = [b \in 1 .. w |-> buffer[(i - 1) * w + b]]
  BY <1>2, <1>3, RowOf
<1> QED  BY <1>2, <1>3, <1>4, <1>5, <1>6 DEF WantedConvolved, ConvolvedOf

(* a head's new state is the one decode_token gives it *)
LEMMA HeadAfter ==
  ASSUME IInv, TokenInv, ~Idle, Layers[Layer] = "linear", NEW i \in Rows
  PROVE  Posterior(i).recurrent[Layer] = [h \in Heads |-> NextBlock(WantedOperands(i, h))]
BY TokenInLayer DEF RecurrentAfter, WantedOperands

(* a unit writes the gated head of its row and head only *)
LEMMA GatedOnce ==
  ASSUME IInv, TokenInv, ~Idle, call.phase \in {"units", "gates"}, NEW u \in Units,
         NEW i \in Rows, NEW h \in Heads, UnitOf(i, h) = u,
         buffers'.normalized = [buffers.normalized EXCEPT ![u + 1] = WantedGated(i, h)],
         call'.pending = call.pending \ {u}
  PROVE  \A j \in Rows : \A g \in Heads : UnitOf(j, g) \notin call'.pending =>
           buffers'.normalized[(j - 1) * ValueHeads + g] = WantedGated(j, g)
<1>1. Rows = 1 .. Len(call.tokens) /\ Len(call.tokens) \in Nat
  BY InCall DEF Rows
<1> SUFFICES ASSUME NEW j \in Rows, NEW g \in Heads, UnitOf(j, g) \notin call'.pending
             PROVE  buffers'.normalized[(j - 1) * ValueHeads + g] = WantedGated(j, g)
  OBVIOUS
<1>2. /\ (j - 1) * ValueHeads + g = UnitOf(j, g) + 1
      /\ UnitOf(j, g) + 1 \in 1 .. Len(call.tokens) * ValueHeads /\ UnitOf(j, g) \in Int
      /\ UnitRow(UnitOf(j, g)) = j /\ UnitHead(UnitOf(j, g)) = g
  <2>1. UnitOf(j, g) \in 0 .. Len(call.tokens) * ValueHeads - 1
    BY <1>1, UnitFacts
  <2>2. UnitOf(j, g) \in Int
    BY <2>1
  <2>3. /\ (j - 1) * ValueHeads + g = UnitOf(j, g) + 1
        /\ UnitOf(j, g) + 1 \in 1 .. Len(call.tokens) * ValueHeads
    BY ZenonT(60), <1>1, UnitFacts
  <2>4. UnitRow(UnitOf(j, g)) = j /\ UnitHead(UnitOf(j, g)) = g
    BY <1>1, UnitFacts
  <2> QED  BY <2>2, <2>3, <2>4
<1>3. /\ UnitRow(UnitOf(i, h)) = i /\ UnitHead(UnitOf(i, h)) = h /\ UnitOf(i, h) \in Int
  BY <1>1, UnitFacts
<1>4. LinearBuffers
  BY DEF TokenInv
<1>5. Len(buffers.normalized) = Len(call.tokens) * ValueHeads /\ IsSequence(buffers.normalized)
  BY <1>4 DEF LinearBuffers, Holds, DecodePhases, PrefillPhases
<1>6. UnitOf(j, g) + 1 \in DOMAIN buffers.normalized
  BY <1>2, <1>5, SequenceFacts
<1>7. CASE UnitOf(j, g) = u
  <2>1. j = i /\ g = h
    BY <1>2, <1>7, <1>3
  <2> QED  BY <1>2, <1>6, <1>7, <2>1
<1>8. CASE UnitOf(j, g) # u
  <2>1. UnitOf(j, g) \notin call.pending
    BY <1>8
  <2>2. GatedAt(j, g) = WantedGated(j, g)
    BY <1>4, <2>1 DEF LinearBuffers, DecodePhases, PrefillPhases
  <2>3. UnitOf(j, g) + 1 # u + 1
    BY <1>2, <1>8, <1>3
  <2> QED  BY <1>2, <1>6, <2>2, <2>3 DEF GatedAt
<1> QED  BY <1>7, <1>8

LEMMA HeadUnitTokens ==
  ASSUME IInv, IInv', TokenInv, NEW u, HeadUnit(u)
  PROVE  TokenInv'
<1> DEFINE i == UnitRow(u)
           h == UnitHead(u)
           x == buffers.inputs[i]
           operands == DeltaOperands(Layer, h, states[i].recurrent[Layer][h], ConvolvedRow(i),
                                     Decay(Layer, h, x))
           gated == Gated(Layer, h, HeadOutput(operands), x)
           s == [states[i] EXCEPT !.recurrent[Layer][h] = NextBlock(operands)]
           new == [states[i].recurrent[Layer] EXCEPT ![h] = NextBlock(operands)]
<1>1. /\ Unit("units", u) /\ states' = [states EXCEPT ![i] = s]
      /\ buffers' = [buffers EXCEPT !.normalized[u + 1] = gated]
      /\ ropes' = ropes /\ hidden' = hidden
  BY Zenon DEF HeadUnit
<1>2. /\ ~Idle /\ call.phase = "units" /\ call'.phase = "units" /\ u \in call.pending
      /\ call'.pending = call.pending \ {u}
  BY <1>1, UnitTaken
<1>3. /\ call.kind = "decode" /\ Layers[Layer] = "linear" /\ Layer \in DOMAIN Layers
      /\ DOMAIN states = Rows
  BY <1>2, LayerRuns DEF DecodePhases
<1>4. u \in Units /\ call.pending \subseteq Units
  BY <1>2 DEF TokenInv, UnitsLeft
<1>5. Rows = 1 .. Len(call.tokens) /\ Len(call.tokens) \in Nat
  BY <1>2, InCall DEF Rows
<1>6. /\ i \in Rows /\ h \in Heads /\ UnitOf(i, h) = u
      /\ \A j \in Rows : \A g \in Heads : UnitOf(j, g) = u => j = i /\ g = h
  BY <1>4, <1>5, UnitFacts DEF Units
<1> HIDE DEF i, h
<1>7. /\ i \in DOMAIN states /\ Active(i) /\ Prior(i) = ghost[i].state
      /\ Posterior(i) = Result(i) /\ Proper(Prior(i))
  BY <1>2, <1>3, <1>6, DecodeRow
<1>8. Shaped(states[i])
  BY <1>2, <1>7, RowInCall
<1>9. Uniting(i)
  BY <1>2, <1>7, RowInCall DEF AtLayer
<1>10. states[i].recurrent[Layer][h] = MadeRecurrent(i)[h] /\ DOMAIN states[i].recurrent[Layer] = Heads
  BY <1>2, <1>6, <1>9 DEF Uniting
<1>11. x = WantedInput(i)
  BY <1>2, <1>6 DEF TokenInv, LinearBuffers, DecodePhases
<1>12. operands = WantedOperands(i, h)
  <2>1. ConvolvedRow(i) = WantedConvolved(i)
    BY <1>2, <1>6, ConvolvedRowIs
  <2> QED  BY <1>7, <1>10, <1>11, <2>1
           DEF WantedOperands, OperandsOf, WantedConvolved, WantedInput, MadeRecurrent
<1>13. gated = WantedGated(i, h)
  BY <1>11, <1>12 DEF WantedGated, GatedOf, WantedOperands, WantedInput
<1> HIDE DEF gated
<1>14. NextBlock(operands) = Result(i).recurrent[Layer][h]
  <2>1. Posterior(i).recurrent[Layer] = [g \in Heads |-> NextBlock(WantedOperands(i, g))]
    BY <1>2, <1>3, <1>6, HeadAfter
  <2> QED  BY <1>6, <1>7, <1>12, <2>1
<1>15. states[i] = [f \in StateFields |-> states[i][f]]
  BY <1>8 DEF Shaped
<1> HIDE DEF operands, x
<1>16. s = [f \in StateFields |-> s[f]]
  BY <1>15
<1>17. /\ s.position = states[i].position /\ s.keys = states[i].keys /\ s.values = states[i].values
       /\ s.convolution = states[i].convolution
       /\ s.recurrent = [states[i].recurrent EXCEPT ![Layer] = new]
  BY <1>15 DEF StateFields
<1> HIDE DEF s
<1>18. s.recurrent[Layer] = new /\ s.convolution = [states[i].convolution EXCEPT ![Layer] = s.convolution[Layer]]
  BY <1>3, <1>8, <1>17 DEF Shaped
<1>19. /\ Len(states') = Len(states) /\ DOMAIN states' = DOMAIN states
       /\ Shaped(states'[i]) /\ states'[i].position = states[i].position
       /\ states'[i] = s
       /\ \A l \in DOMAIN Layers : l # Layer => LayerIs(states'[i], l, states[i])
       /\ \A q \in DOMAIN states : q # i => states'[q] = states[q]
  BY <1>1, <1>2, <1>3, <1>7, <1>16, <1>17, <1>18, LinearRow
<1>20. /\ DOMAIN buffers' = DOMAIN buffers /\ buffers'.inputs = buffers.inputs
       /\ buffers'.recurrent = buffers.recurrent /\ buffers'.convolved = buffers.convolved
       /\ buffers'.normalized = [buffers.normalized EXCEPT ![u + 1] = gated]
  BY <1>1 DEF TokenInv, BuffersOK, NoBuffers
<1>21. SameLayerWithin /\ Within
  BY <1>1, <1>2, <1>19, <1>20, UnitTaken DEF SameLayerWithin, Within
<1>22. /\ Layer' = Layer /\ Rows' = Rows /\ Units' = Units /\ call'.tokens = call.tokens
       /\ \A r : Result(r)' = Result(r) /\ MadeRecurrent(r)' = MadeRecurrent(r)
       /\ \A j : WantedInput(j)' = WantedInput(j) /\ WantedConvolved(j)' = WantedConvolved(j)
       /\ \A j, g : WantedGated(j, g)' = WantedGated(j, g)
  BY <1>21, SameCall, SameLayer DEF SameLayerWithin, Within
<1>23. ASSUME NEW r \in DOMAIN states, Active(r)  PROVE AtLayer(r)'
  <2>1. Uniting(r)
    BY <1>2, <1>23, RowInCall DEF AtLayer
  <2>2. CASE r = i
    <3>1. states'[r].convolution[Layer] = Result(r).convolution[Layer]
      BY <1>9, <1>17, <1>19, <2>2 DEF Uniting
    <3>2. states'[r].recurrent[Layer] = new
      BY <1>18, <1>19, <2>2
    <3>3. \A g \in Heads : UnitOf(i, g) \in call'.pending <=> UnitOf(i, g) \in call.pending /\ g # h
      BY <1>2, <1>6
    <3>4. new = [g \in Heads |-> IF UnitOf(i, g) \in call'.pending THEN MadeRecurrent(i)[g]
                                 ELSE Result(i).recurrent[Layer][g]]
      BY <1>9, <1>14, <3>3 DEF Uniting
    <3> HIDE DEF new
    <3> QED  BY <1>2, <1>22, <2>2, <3>1, <3>2, <3>4 DEF AtLayer, Uniting, WholePhases
  <2>3. CASE r # i
    <3>1. \A g \in Heads : UnitOf(r, g) \in call'.pending <=> UnitOf(r, g) \in call.pending
      BY <1>2, <1>3, <1>6, <2>3
    <3>2. states'[r] = states[r]
      BY <1>19, <2>3
    <3>3. Uniting(r)'
      BY <1>22, <2>1, <3>1, <3>2 DEF Uniting
    <3> QED  BY <1>2, <3>3 DEF AtLayer, WholePhases
  <2> QED  BY <2>2, <2>3
<1>24. RowsReached'
  BY <1>7, <1>19, <1>21, <1>23, RowChanged
<1>25. RopesOK' /\ HiddenReached'
  BY <1>1, <1>2, <1>21, SameRopes, SameHidden DEF AttentionPhases, DecodePhases
<1>26. UnitsLeft' /\ FullBuffers' /\ ExpertBuffers'
  BY <1>2, <1>4, <1>22 DEF FullPhases, ExpertPhases, UnitsLeft, FullBuffers, ExpertBuffers
<1>27. LinearBuffers
  BY <1>2 DEF TokenInv
<1>28. Holds(buffers'.normalized, ValueHeads)
  <2>1. Holds(buffers.normalized, ValueHeads)
    BY <1>2, <1>27 DEF LinearBuffers, DecodePhases
  <2>2. IsSequence(buffers.normalized)
    BY <2>1 DEF Holds
  <2>3. /\ buffers'.normalized = [k \in DOMAIN buffers.normalized |-> buffers'.normalized[k]]
    BY <1>20
  <2> QED  BY <2>1, <2>2, <2>3, Replaced DEF Holds
<1>29. \A j \in Rows : \A g \in Heads : UnitOf(j, g) \notin call'.pending =>
         buffers'.normalized[(j - 1) * ValueHeads + g] = WantedGated(j, g)
  BY <1>2, <1>4, <1>6, <1>13, <1>20, GatedOnce
<1>30. LinearBuffers'
  BY <1>2, <1>20, <1>22, <1>27, <1>28, <1>29 DEF LinearBuffers, Holds, DecodePhases, GatedAt
<1> QED  BY <1>21, <1>24, <1>25, <1>26, <1>30, Inside

(* the last token a call gives a row leaves the row's result *)
LEMMA ResultOf ==
  ASSUME IInv, TokenInv, ~Idle, NEW r \in DOMAIN states, Active(r)
  PROVE  \E i \in Rows : Target(i) = r /\ Nth(i) = Fed /\ Posterior(i) = Result(r)
<1>1. call.kind \in {"decode", "prefill"} /\ Len(call.tokens) \in Nat \ {0}
  BY InCall
<1>2. CASE call.kind = "decode"
  <2>1. r \in Rows /\ Target(r) = r /\ Nth(r) = Fed
    BY <1>2, LayerRuns DEF Target, Nth
  <2> QED  BY <2>1 DEF Posterior, Result
<1>3. CASE call.kind = "prefill"
  <2> DEFINE n == Len(call.tokens)
  <2>1. n \in Rows /\ Target(n) = r /\ Nth(n) = Fed
    BY <1>1, <1>3, LayerRuns DEF Rows, Target, Nth, Active
  <2> QED  BY <2>1 DEF Posterior, Result
<1> QED  BY <1>1, <1>2, <1>3

LEMMA ResultBuffers ==
  ASSUME IInv, TokenInv, ~Idle, NEW r \in DOMAIN states, Active(r), Layers[Layer] = "linear"
  PROVE  /\ Result(r).convolution[Layer] = [b \in Blocks |-> Result(r).convolution[Layer][b]]
         /\ Result(r).recurrent[Layer] = [h \in Heads |-> Result(r).recurrent[Layer][h]]
<1>1. PICK i \in Rows : Posterior(i) = Result(r)
  BY ResultOf
<1>2. /\ Posterior(i).convolution[Layer] = ConvolutionAfter(Layer, Prior(i), Entering(i))
      /\ Posterior(i).recurrent[Layer] = RecurrentAfter(Layer, Prior(i), Entering(i))
  BY TokenInLayer
<1>3. Posterior(i).convolution[Layer] = [b \in Blocks |-> Posterior(i).convolution[Layer][b]]
  BY <1>2 DEF ConvolutionAfter
<1>4. Posterior(i).recurrent[Layer] = [h \in Heads |-> Posterior(i).recurrent[Layer][h]]
  BY <1>2 DEF RecurrentAfter
<1> QED  BY <1>1, <1>3, <1>4

(* the output of a linear layer, from the gated heads of a row *)
LEMMA GatedRows ==
  ASSUME IInv, TokenInv, ~Idle, call.phase \in {"units", "gates"}, call.pending = {}, NEW i \in Rows
  PROVE  LinearOutput(Layer, Slice(buffers.normalized, ValueHeads, i)) =
           AttentionOf(Layer, Prior(i), Entering(i))
<1> DEFINE w == ValueHeads
           buffer == buffers.normalized
<1>1. LinearBuffers
  BY DEF TokenInv
<1>2. /\ Holds(buffer, w)
      /\ \A h \in Heads : buffer[(i - 1) * w + h] = WantedGated(i, h)
  BY <1>1 DEF LinearBuffers, DecodePhases, PrefillPhases, GatedAt
<1>3. w \in Nat \ {0} /\ Heads = 1 .. w
  BY BlocksCount
<1> HIDE DEF w, buffer
<1>4. Slice(buffer, w, i) = [h \in 1 .. w |-> buffer[(i - 1) * w + h]]
  BY <1>2, <1>3, RowOf
<1>5. Slice(buffer, w, i) = [h \in Heads |-> WantedGated(i, h)]
  BY <1>2, <1>3, <1>4
<1>6. Layers[Layer] = "linear"
  BY LayerRuns DEF DecodePhases, PrefillPhases
<1>7. Layers[Layer] # "full"
  BY <1>6
<1> QED  BY <1>5, <1>7 DEF AttentionOf, WantedGated, w, buffer

LEMMA LinearDoneTokens ==
  ASSUME IInv, IInv', TokenInv, LinearDone
  PROVE  TokenInv'
<1> DEFINE output == [i \in Rows |-> LinearOutput(Layer, Slice(buffers.normalized, ValueHeads, i))]
<1>1. AttentionDone("units", output) /\ ~Idle /\ call.phase = "units" /\ call.pending = {}
  BY DEF LinearDone, AttentionDone, After
<1>2. Layers[Layer] = "linear"
  BY <1>1, LayerRuns DEF DecodePhases
<1>3. ASSUME NEW r \in DOMAIN states, Active(r)  PROVE LayerIs(states[r], Layer, Result(r))
  <2>1. Uniting(r)
    BY <1>1, <1>3, RowInCall DEF AtLayer
  <2>2. Result(r).recurrent[Layer] = [h \in Heads |-> Result(r).recurrent[Layer][h]]
    BY <1>1, <1>2, <1>3, ResultBuffers
  <2>3. states[r].recurrent[Layer] = Result(r).recurrent[Layer]
    BY <1>1, <2>1, <2>2 DEF Uniting
  <2>4. Layers[Layer] # "full"
    BY <1>2
  <2> QED  BY <2>1, <2>3, <2>4 DEF LayerIs, Uniting
<1>4. \A i \in Rows : output[i] = AttentionOf(Layer, Prior(i), Entering(i))
  BY <1>1, GatedRows
<1> HIDE DEF output
<1> QED  BY <1>1, <1>3, <1>4, AttentionDoneTokens

-----------------------------------------------------------------------------
(* Linear attention of a prefill *)

LEMMA SameFromZero ==
  ASSUME NEW n \in Nat, NEW f, NEW g, f[0] = g[0],
         \A i \in 1 .. n : f[i - 1] = g[i - 1] => f[i] = g[i]
  PROVE  \A i \in 0 .. n : f[i] = g[i]
<1> DEFINE S == {i \in Nat : i <= n => f[i] = g[i]}
<1>1. 0 \in S
  OBVIOUS
<1>2. ASSUME NEW i \in Nat, i \in S  PROVE i + 1 \in S
  <2> SUFFICES ASSUME i + 1 <= n  PROVE f[i + 1] = g[i + 1]
    OBVIOUS
  <2>1. f[i] = g[i] /\ i + 1 \in 1 .. n /\ (i + 1) - 1 = i
    BY <1>2
  <2> QED  BY <2>1
<1>3. Nat \subseteq S
  <2> HIDE DEF S
  <2> QED  BY <1>1, <1>2, NumbersFromZero
<1> QED  BY <1>3

(* the tokens of a prefill go through the last row *)
LEMMA PrefillRow ==
  ASSUME IInv, TokenInv, ~Idle, call.kind = "prefill"
  PROVE  LET t == Len(states)
         IN /\ t \in DOMAIN states /\ Active(t) /\ Target(1) = t
            /\ \A r : Active(r) <=> r = t
            /\ Len(call.tokens) \in Nat \ {0} /\ Rows = 1 .. Len(call.tokens)
            /\ \A i \in Rows : /\ Target(i) = t /\ Prior(i) = Stage(t, i - 1)
                               /\ Posterior(i) = Stage(t, i) /\ Proper(Prior(i))
            /\ Stage(t, 0) = ghost[t].state /\ Result(t) = Stage(t, Len(call.tokens))
            /\ Proper(ghost[t].state)
<1> DEFINE t == Len(states)
<1>1. t \in DOMAIN states /\ Len(call.tokens) \in Nat \ {0}
  BY InCall
<1>2. Target(1) = t /\ \A r : Active(r) <=> r = t
  BY DEF Target, Active
<1>3. Fed = Len(call.tokens) /\ Rows = 1 .. Len(call.tokens)
  BY LayerRuns DEF Rows
<1>4. \A i \in Rows : Target(i) = t /\ Nth(i) = i
  BY DEF Target, Nth
<1>5. \A i \in Rows : Prior(i) = Stage(t, i - 1) /\ Posterior(i) = Stage(t, i) /\ Proper(Prior(i))
  BY <1>4, CallRows DEF Prior, Posterior
<1>6. /\ Stage(t, 0) = ghost[t].state /\ Result(t) = Stage(t, Len(call.tokens))
      /\ Proper(ghost[t].state)
  BY <1>1, <1>2, <1>3, CallRows DEF Result
<1> QED  BY <1>1, <1>2, <1>3, <1>4, <1>5, <1>6

(* the buffers of the layer that runs, after i of its tokens *)
ConvolutionAt(i) == Convolution(Stage(Len(states), i).convolution[Layer])
RecurrentAt(i) == Recurrent(Stage(Len(states), i).recurrent[Layer])

LEMMA BuffersAt ==
  ASSUME IInv, TokenInv, ~Idle, call.kind = "prefill", Layers[Layer] = "linear"
  PROVE  /\ ConvolutionAt(0) = MadeConvolution(Len(states))
         /\ RecurrentAt(0) = MadeRecurrent(Len(states))
         /\ ConvolutionAt(Len(call.tokens)) = Result(Len(states)).convolution[Layer]
         /\ RecurrentAt(Len(call.tokens)) = Result(Len(states)).recurrent[Layer]
         /\ \A i \in Rows : \A b \in Blocks :
              /\ ConvolutionAt(i)[b] = Shift(Layer, b, ConvolutionAt(i - 1)[b], WantedInput(i))
              /\ WantedConvolved(i)[b] =
                   Convolved(Layer, b, ConvolutionAt(i - 1)[b], WantedInput(i))
         /\ \A i \in Rows : \A h \in Heads :
              /\ RecurrentAt(i)[h] = NextBlock(WantedOperands(i, h))
              /\ WantedOperands(i, h) =
                   DeltaOperands(Layer, h, RecurrentAt(i - 1)[h], WantedConvolved(i),
                                 Decay(Layer, h, WantedInput(i)))
<1> DEFINE t == Len(states)
<1>1. /\ Stage(t, 0) = ghost[t].state /\ Result(t) = Stage(t, Len(call.tokens))
      /\ t \in DOMAIN states /\ Active(t)
      /\ \A i \in Rows : Prior(i) = Stage(t, i - 1) /\ Posterior(i) = Stage(t, i)
  BY PrefillRow
<1>2. ConvolutionAt(0) = MadeConvolution(t) /\ RecurrentAt(0) = MadeRecurrent(t)
  BY <1>1 DEF ConvolutionAt, RecurrentAt, MadeConvolution, MadeRecurrent
<1>3. /\ Result(t).convolution[Layer] = [b \in Blocks |-> Result(t).convolution[Layer][b]]
      /\ Result(t).recurrent[Layer] = [h \in Heads |-> Result(t).recurrent[Layer][h]]
  BY <1>1, ResultBuffers
<1>4. /\ ConvolutionAt(Len(call.tokens)) = Result(t).convolution[Layer]
      /\ RecurrentAt(Len(call.tokens)) = Result(t).recurrent[Layer]
  BY <1>1, <1>3, NotEmpty DEF ConvolutionAt, RecurrentAt
<1>5. ASSUME NEW i \in Rows
      PROVE  /\ ConvolutionAt(i - 1) = Convolution(Prior(i).convolution[Layer])
             /\ RecurrentAt(i - 1) = Recurrent(Prior(i).recurrent[Layer])
             /\ ConvolutionAt(i) = [b \in Blocks |-> Shift(Layer, b, ConvolutionAt(i - 1)[b], WantedInput(i))]
             /\ RecurrentAt(i) = [h \in Heads |-> NextBlock(WantedOperands(i, h))]
  <2>1. /\ ConvolutionAt(i - 1) = Convolution(Prior(i).convolution[Layer])
        /\ RecurrentAt(i - 1) = Recurrent(Prior(i).recurrent[Layer])
    BY <1>1 DEF ConvolutionAt, RecurrentAt
  <2>2. /\ Posterior(i).convolution[Layer] = ConvolutionAfter(Layer, Prior(i), Entering(i))
        /\ Posterior(i).recurrent[Layer] = RecurrentAfter(Layer, Prior(i), Entering(i))
    BY TokenInLayer
  <2>3. Posterior(i).convolution[Layer] =
          [b \in Blocks |-> Shift(Layer, b, ConvolutionAt(i - 1)[b], WantedInput(i))]
    BY <2>1, <2>2 DEF ConvolutionAfter, WantedInput
  <2>4. Posterior(i).recurrent[Layer] = [h \in Heads |-> NextBlock(WantedOperands(i, h))]
    BY <2>2 DEF RecurrentAfter, WantedOperands
  <2>5. Convolution(Posterior(i).convolution[Layer]) = Posterior(i).convolution[Layer]
    <3> DEFINE f == Posterior(i).convolution[Layer]
    <3>1. f = [b \in Blocks |-> f[b]]
      BY <2>3
    <3> HIDE DEF f
    <3>2. Convolution(f) = f
      BY <3>1, NotEmpty
    <3> QED  BY <3>2 DEF f
  <2>6. Recurrent(Posterior(i).recurrent[Layer]) = Posterior(i).recurrent[Layer]
    <3> DEFINE f == Posterior(i).recurrent[Layer]
    <3>1. f = [h \in Heads |-> f[h]]
      BY <2>4
    <3> HIDE DEF f
    <3>2. Recurrent(f) = f
      BY <3>1, NotEmpty
    <3> QED  BY <3>2 DEF f
  <2>7. ConvolutionAt(i) = Posterior(i).convolution[Layer] /\ RecurrentAt(i) = Posterior(i).recurrent[Layer]
    BY <1>1, <2>5, <2>6 DEF ConvolutionAt, RecurrentAt
  <2> QED  BY <2>1, <2>3, <2>4, <2>7
<1>6. ASSUME NEW i \in Rows, NEW b \in Blocks
      PROVE  /\ ConvolutionAt(i)[b] = Shift(Layer, b, ConvolutionAt(i - 1)[b], WantedInput(i))
             /\ WantedConvolved(i)[b] = Convolved(Layer, b, ConvolutionAt(i - 1)[b], WantedInput(i))
  BY <1>5 DEF WantedConvolved, ConvolvedOf, WantedInput
<1>7. ASSUME NEW i \in Rows, NEW h \in Heads
      PROVE  /\ RecurrentAt(i)[h] = NextBlock(WantedOperands(i, h))
             /\ WantedOperands(i, h) =
                  DeltaOperands(Layer, h, RecurrentAt(i - 1)[h], WantedConvolved(i),
                                Decay(Layer, h, WantedInput(i)))
  BY <1>5 DEF WantedOperands, OperandsOf, WantedConvolved, WantedInput
<1> QED  BY <1>2, <1>4, <1>6, <1>7

LEMMA HistoriesAre ==
  ASSUME IInv, TokenInv, ~Idle, call.phase = "blocks", NEW b \in Blocks, b \in call.pending
  PROVE  \A i \in 0 .. Len(call.tokens) : Histories(b)[i] = ConvolutionAt(i)[b]
<1> DEFINE n == Len(call.tokens)
           start == states[Target(1)].convolution[Layer][b]
           Fits(f) == f = [i \in 0 .. n |-> IF i = 0 THEN start
                                            ELSE Shift(Layer, b, f[i - 1], buffers.inputs[i])]
           g == [i \in 0 .. n |-> ConvolutionAt(i)[b]]
<1>1. call.kind = "prefill" /\ Layers[Layer] = "linear"
  BY LayerRuns DEF PrefillPhases
<1>2. n \in Nat /\ Rows = 1 .. n
  BY <1>1, PrefillRow
<1>3. start = ConvolutionAt(0)[b]
  <2>1. WalkingBlocks(Len(states))
    BY <1>1, PrefillRow, RowInCall DEF AtLayer
  <2>2. Target(1) = Len(states)
    BY <1>1, PrefillRow
  <2> QED  BY <1>1, <2>1, <2>2, BuffersAt DEF WalkingBlocks
<1>4. \A i \in Rows : buffers.inputs[i] = WantedInput(i)
  BY DEF TokenInv, LinearBuffers, PrefillPhases
<1>5. \A i \in Rows : ConvolutionAt(i)[b] = Shift(Layer, b, ConvolutionAt(i - 1)[b], buffers.inputs[i])
  BY <1>1, <1>4, BuffersAt
<1> HIDE DEF n, start
<1>6. Fits(g)
  BY <1>2, <1>3, <1>5
<1>7. Histories(b) = CHOOSE f : Fits(f)
  BY DEF Histories, n, start
<1>8. Fits(Histories(b))
  <2> HIDE DEF Fits
  <2> QED  BY <1>6, <1>7
<1> DEFINE f == Histories(b)
<1> HIDE DEF f
<1>9. f[0] = start /\ \A i \in 1 .. n : f[i] = Shift(Layer, b, f[i - 1], buffers.inputs[i])
  BY <1>2, <1>8 DEF f
<1>10. \A i \in 0 .. n : g[i] = ConvolutionAt(i)[b]
  OBVIOUS
<1> HIDE DEF g
<1>11. g[0] = start /\ \A i \in 1 .. n : g[i] = Shift(Layer, b, g[i - 1], buffers.inputs[i])
  BY <1>2, <1>6
<1> HIDE DEF Fits
<1>12. \A i \in 0 .. n : f[i] = g[i]
  <2>1. f[0] = g[0] /\ \A i \in 1 .. n : f[i - 1] = g[i - 1] => f[i] = g[i]
    BY <1>9, <1>11
  <2>2. n \in Nat
    BY <1>2
  <2> QED  BY <2>1, <2>2, SameFromZero
<1> QED  BY <1>10, <1>12 DEF f, n

LEMMA HeadStatesAre ==
  ASSUME IInv, TokenInv, ~Idle, call.phase = "heads", NEW h \in Heads, h \in call.pending
  PROVE  /\ \A i \in 0 .. Len(call.tokens) : HeadStates(h)[i] = RecurrentAt(i)[h]
         /\ \A i \in Rows : TokenOperands(h, HeadStates(h)[i - 1], i) = WantedOperands(i, h)
<1> DEFINE n == Len(call.tokens)
           start == states[Target(1)].recurrent[Layer][h]
           Fits(f) == f = [i \in 0 .. n |-> IF i = 0 THEN start
                                            ELSE NextBlock(TokenOperands(h, f[i - 1], i))]
           g == [i \in 0 .. n |-> RecurrentAt(i)[h]]
<1>1. call.kind = "prefill" /\ Layers[Layer] = "linear"
  BY LayerRuns DEF PrefillPhases
<1>2. n \in Nat /\ Rows = 1 .. n
  BY <1>1, PrefillRow
<1>3. start = RecurrentAt(0)[h]
  <2>1. WalkingHeads(Len(states))
    BY <1>1, PrefillRow, RowInCall DEF AtLayer
  <2>2. Target(1) = Len(states)
    BY <1>1, PrefillRow
  <2> QED  BY <1>1, <2>1, <2>2, BuffersAt DEF WalkingHeads
<1>4. \A i \in Rows : TokenOperands(h, RecurrentAt(i - 1)[h], i) = WantedOperands(i, h)
  <2> SUFFICES ASSUME NEW i \in Rows
               PROVE  TokenOperands(h, RecurrentAt(i - 1)[h], i) = WantedOperands(i, h)
    OBVIOUS
  <2>1. buffers.inputs[i] = WantedInput(i)
    BY DEF TokenInv, LinearBuffers, PrefillPhases
  <2>2. ConvolvedRow(i) = WantedConvolved(i)
    BY ConvolvedRowIs
  <2> QED  BY <1>1, <2>1, <2>2, BuffersAt DEF TokenOperands
<1>5. \A i \in Rows : RecurrentAt(i)[h] = NextBlock(TokenOperands(h, RecurrentAt(i - 1)[h], i))
  BY <1>1, <1>4, BuffersAt
<1> HIDE DEF n, start
<1>6. Fits(g)
  BY <1>2, <1>3, <1>5
<1>7. HeadStates(h) = CHOOSE f : Fits(f)
  BY DEF HeadStates, n, start
<1>8. Fits(HeadStates(h))
  <2> HIDE DEF Fits
  <2> QED  BY <1>6, <1>7
<1> DEFINE f == HeadStates(h)
<1> HIDE DEF f
<1>9. f[0] = start /\ \A i \in 1 .. n : f[i] = NextBlock(TokenOperands(h, f[i - 1], i))
  BY <1>2, <1>8 DEF f
<1>10. \A i \in 0 .. n : g[i] = RecurrentAt(i)[h]
  OBVIOUS
<1> HIDE DEF g
<1>11. g[0] = start /\ \A i \in 1 .. n : g[i] = NextBlock(TokenOperands(h, g[i - 1], i))
  BY <1>2, <1>6
<1> HIDE DEF Fits
<1>12. \A i \in 0 .. n : f[i] = g[i]
  <2>1. f[0] = g[0] /\ \A i \in 1 .. n : f[i - 1] = g[i - 1] => f[i] = g[i]
    BY <1>9, <1>11
  <2>2. n \in Nat
    BY <1>2
  <2> QED  BY <2>1, <2>2, SameFromZero
<1>13. \A i \in Rows : TokenOperands(h, f[i - 1], i) = WantedOperands(i, h)
  BY <1>2, <1>4, <1>10, <1>12
<1> QED  BY <1>10, <1>12, <1>13 DEF f, n

LEMMA PrefillLayerTokens ==
  ASSUME IInv, IInv', TokenInv, PrefillLayer
  PROVE  TokenInv'
<1> DEFINE t == Len(states)
           convolution == Convolution(states[t].convolution[Layer])
           recurrent == Recurrent(states[t].recurrent[Layer])
           s == [states[t] EXCEPT !.convolution[Layer] = convolution, !.recurrent[Layer] = recurrent]
<1>1. /\ ~Idle /\ call.phase = "layer" /\ call.kind = "prefill" /\ Layers[Layer] = "linear"
      /\ ResizeLinear /\ Go("blocks", Blocks)
      /\ UNCHANGED <<ropes, logits, prompt, hidden, ghost>>
  BY DEF PrefillLayer, After
<1>2. t \in DOMAIN states /\ Active(t) /\ Target(1) = t /\ \A r : Active(r) <=> r = t
  BY <1>1, PrefillRow
<1>3. states' = [states EXCEPT ![t] = s]
  BY <1>2, Zenon DEF PrefillLayer
<1>4. Shaped(states[t]) /\ LayerIs(states[t], Layer, ghost[t].state) /\ Proper(ghost[t].state)
  BY <1>1, <1>2, RowInCall DEF AtLayer
<1>5. Layer \in DOMAIN Layers
  BY <1>1, LayerRuns
<1>6. convolution = MadeConvolution(t) /\ recurrent = MadeRecurrent(t)
  BY <1>1, <1>4 DEF LayerIs, MadeConvolution, MadeRecurrent
<1>7. states[t] = [f \in StateFields |-> states[t][f]]
  BY <1>4 DEF Shaped
<1> HIDE DEF convolution, recurrent
<1>8. s = [f \in StateFields |-> s[f]]
  BY <1>7
<1>9. /\ s.position = states[t].position /\ s.keys = states[t].keys /\ s.values = states[t].values
      /\ s.convolution = [states[t].convolution EXCEPT ![Layer] = convolution]
      /\ s.recurrent = [states[t].recurrent EXCEPT ![Layer] = recurrent]
      /\ s.convolution[Layer] = convolution /\ s.recurrent[Layer] = recurrent
  BY <1>4, <1>5, <1>7 DEF StateFields, Shaped
<1> HIDE DEF s, t
<1>10. /\ Len(states') = Len(states) /\ DOMAIN states' = DOMAIN states
       /\ Shaped(states'[t]) /\ states'[t].position = states[t].position
       /\ states'[t] = s
       /\ \A l \in DOMAIN Layers : l # Layer => LayerIs(states'[t], l, states[t])
       /\ \A q \in DOMAIN states : q # t => states'[q] = states[q]
  BY <1>1, <1>2, <1>3, <1>8, <1>9, LinearRow
<1>11. /\ DOMAIN buffers' = DOMAIN buffers
       /\ \A i \in Rows : buffers'.inputs[i] = WantedInput(i)
       /\ IsSequence(buffers'.convolved)
       /\ Len(buffers'.convolved) = Len(call.tokens) * Cardinality(Blocks)
       /\ IsSequence(buffers'.recurrent)
       /\ Len(buffers'.recurrent) = Len(call.tokens) * ValueHeads
       /\ IsSequence(buffers'.normalized)
       /\ Len(buffers'.normalized) = Len(call.tokens) * ValueHeads
  BY <1>1, ResizedLinear
<1>12. SameLayerWithin /\ Within /\ call'.phase = "blocks" /\ call'.pending = Blocks
  BY <1>1, <1>10, <1>11, Going DEF SameLayerWithin, Within
<1>13. /\ Layer' = Layer /\ Rows' = Rows /\ \A i : WantedInput(i)' = WantedInput(i)
       /\ call'.tokens = call.tokens
       /\ \A r : /\ Result(r)' = Result(r) /\ MadeConvolution(r)' = MadeConvolution(r)
                 /\ MadeRecurrent(r)' = MadeRecurrent(r)
  BY <1>12, SameCall, SameLayer DEF SameLayerWithin, Within
<1>14. MadeConvolution(t) = [b \in Blocks |-> MadeConvolution(t)[b]]
  BY <1>1, <1>4, <1>5, BuffersMade DEF MadeConvolution
<1>16. ASSUME NEW r \in DOMAIN states, Active(r)  PROVE AtLayer(r)'
  <2>1. r = t
    BY <1>2, <1>16
  <2>2. WalkingBlocks(r)'
    BY <1>6, <1>9, <1>10, <1>12, <1>13, <1>14, <2>1 DEF WalkingBlocks
  <2> QED  BY <1>12, <2>2 DEF AtLayer, WholePhases
<1>17. RowsReached'
  BY <1>2, <1>10, <1>12, <1>16, RowChanged
<1>18. RopesOK' /\ HiddenReached'
  BY <1>1, <1>12, SameRopes, SameHidden DEF AttentionPhases, PrefillPhases
<1>19. UnitsLeft' /\ FullBuffers' /\ ExpertBuffers'
  BY <1>12 DEF FullPhases, ExpertPhases, UnitsLeft, FullBuffers, ExpertBuffers
<1>20. LinearBuffers'
  BY <1>11, <1>12, <1>13 DEF LinearBuffers, Holds
<1> QED  BY <1>12, <1>17, <1>18, <1>19, <1>20, Inside

(* one buffer of the state that a prefill's rows share is changed *)
LEMMA BlockWalkTokens ==
  ASSUME IInv, IInv', TokenInv, NEW b \in Blocks, BlockWalk(b)
  PROVE  TokenInv'
<1> DEFINE n == Len(call.tokens)
           t == Len(states)
           block == Histories(b)[n]
           new == [states[t].convolution[Layer] EXCEPT ![b] = block]
           s == [states[t] EXCEPT !.convolution[Layer][b] = block]
           old == buffers.convolved
           convolved == [k \in DOMAIN old |->
                           IF \E i \in Rows : k = Slot(i, b)
                           THEN LET i == CHOOSE i \in Rows : k = Slot(i, b)
                                IN Convolved(Layer, b, Histories(b)[i - 1], buffers.inputs[i])
                           ELSE old[k]]
<1>1. /\ Unit("blocks", b) /\ states' = [states EXCEPT ![Target(1)].convolution[Layer][b] = block]
      /\ buffers' = [buffers EXCEPT !.convolved = convolved]
      /\ ropes' = ropes /\ hidden' = hidden
  BY Zenon DEF BlockWalk
<1>2. /\ ~Idle /\ call.phase = "blocks" /\ call'.phase = "blocks" /\ b \in call.pending
      /\ call'.pending = call.pending \ {b}
  BY <1>1, UnitTaken
<1>3. /\ call.kind = "prefill" /\ Layers[Layer] = "linear" /\ Layer \in DOMAIN Layers
  BY <1>2, LayerRuns DEF PrefillPhases
<1>4. /\ t \in DOMAIN states /\ Active(t) /\ Target(1) = t /\ \A r : Active(r) <=> r = t
      /\ n \in Nat \ {0} /\ Rows = 1 .. n
  BY <1>2, <1>3, PrefillRow
<1>5. states' = [states EXCEPT ![t] = s]
  BY <1>1, <1>4
<1>6. Shaped(states[t]) /\ WalkingBlocks(t)
  BY <1>2, <1>4, RowInCall DEF AtLayer
<1>7. block = Result(t).convolution[Layer][b]
  <2>1. n \in 0 .. n
    BY <1>4
  <2>2. Histories(b)[n] = ConvolutionAt(n)[b]
    BY <1>2, <2>1, HistoriesAre
  <2> QED  BY <1>2, <1>3, <2>2, BuffersAt
<1>8. \A i \in Rows : Convolved(Layer, b, Histories(b)[i - 1], buffers.inputs[i]) = WantedConvolved(i)[b]
  <2> SUFFICES ASSUME NEW i \in Rows
               PROVE  Convolved(Layer, b, Histories(b)[i - 1], buffers.inputs[i]) = WantedConvolved(i)[b]
    OBVIOUS
  <2>1. i - 1 \in 0 .. n
    BY <1>4
  <2>2. Histories(b)[i - 1] = ConvolutionAt(i - 1)[b]
    BY <1>2, <2>1, HistoriesAre
  <2>3. buffers.inputs[i] = WantedInput(i)
    BY <1>2 DEF TokenInv, LinearBuffers, PrefillPhases
  <2> QED  BY <1>2, <1>3, <2>2, <2>3, BuffersAt
<1>9. states[t] = [f \in StateFields |-> states[t][f]]
  BY <1>6 DEF Shaped
<1> HIDE DEF block
<1>10. s = [f \in StateFields |-> s[f]]
  BY <1>9
<1>11. /\ s.position = states[t].position /\ s.keys = states[t].keys /\ s.values = states[t].values
       /\ s.recurrent = states[t].recurrent
       /\ s.convolution = [states[t].convolution EXCEPT ![Layer] = new]
  BY <1>9 DEF StateFields
<1> HIDE DEF s, t, convolved, n
<1>12. s.convolution[Layer] = new /\ s.recurrent = [states[t].recurrent EXCEPT ![Layer] = s.recurrent[Layer]]
  BY <1>3, <1>6, <1>11 DEF Shaped
<1>13. /\ Len(states') = Len(states) /\ DOMAIN states' = DOMAIN states
       /\ Shaped(states'[t]) /\ states'[t].position = states[t].position
       /\ states'[t] = s
       /\ \A l \in DOMAIN Layers : l # Layer => LayerIs(states'[t], l, states[t])
       /\ \A q \in DOMAIN states : q # t => states'[q] = states[q]
  BY <1>2, <1>3, <1>4, <1>5, <1>10, <1>11, <1>12, LinearRow
<1>14. /\ DOMAIN buffers' = DOMAIN buffers /\ buffers'.inputs = buffers.inputs
       /\ buffers'.recurrent = buffers.recurrent /\ buffers'.normalized = buffers.normalized
       /\ buffers'.convolved = convolved
  BY <1>1 DEF TokenInv, BuffersOK, NoBuffers
<1>15. SameLayerWithin /\ Within
  BY <1>1, <1>2, <1>13, <1>14, UnitTaken DEF SameLayerWithin, Within
<1>16. /\ Layer' = Layer /\ Rows' = Rows /\ \A i : WantedInput(i)' = WantedInput(i)
       /\ call'.tokens = call.tokens
       /\ \A i : WantedConvolved(i)' = WantedConvolved(i)
       /\ \A r : /\ Result(r)' = Result(r) /\ MadeConvolution(r)' = MadeConvolution(r)
                 /\ MadeRecurrent(r)' = MadeRecurrent(r)
  BY <1>15, SameCall, SameLayer DEF SameLayerWithin, Within
<1>18. ASSUME NEW r \in DOMAIN states, Active(r)  PROVE AtLayer(r)'
  <2>1. new = [c \in Blocks |-> IF c \in call'.pending THEN MadeConvolution(t)[c]
                                ELSE Result(t).convolution[Layer][c]]
    BY <1>2, <1>6, <1>7 DEF WalkingBlocks
  <2>2. s.recurrent[Layer] = MadeRecurrent(t)
    BY <1>6, <1>11 DEF WalkingBlocks
  <2> HIDE DEF new
  <2>3. r = t
    BY <1>4, <1>18
  <2>4. WalkingBlocks(r)'
    BY <1>12, <1>13, <1>16, <2>1, <2>2, <2>3 DEF WalkingBlocks
  <2> QED  BY <1>2, <2>4 DEF AtLayer, WholePhases
<1>19. RowsReached'
  BY <1>4, <1>13, <1>15, <1>18, RowChanged
<1>20. RopesOK' /\ HiddenReached'
  BY <1>1, <1>2, <1>15, SameRopes, SameHidden DEF AttentionPhases, PrefillPhases
<1>21. UnitsLeft' /\ FullBuffers' /\ ExpertBuffers'
  BY <1>2 DEF FullPhases, ExpertPhases, UnitsLeft, FullBuffers, ExpertBuffers
<1>22. LinearBuffers
  BY <1>2 DEF TokenInv
<1>23. IsSequence(convolved) /\ Len(convolved) = Len(old)
  <2>1. IsSequence(old)
    BY <1>2, <1>22 DEF LinearBuffers, Holds, PrefillPhases
  <2>2. convolved = [k \in DOMAIN old |-> convolved[k]]
    BY DEF convolved
  <2> QED  BY <2>1, <2>2, Replaced
<1>24. ASSUME NEW j \in Rows, NEW c \in Blocks, c \notin call'.pending
       PROVE  convolved[Slot(j, c)] = WantedConvolved(j)[c]
  <2>1. Len(old) = Len(call.tokens) * Cardinality(Blocks) /\ IsSequence(old)
    BY <1>2, <1>22 DEF LinearBuffers, Holds, PrefillPhases
  <2>2. n \in Nat /\ j \in 1 .. n /\ Rows = 1 .. n
    BY <1>4
  <2>3. Slot(j, c) \in DOMAIN old
    BY <2>1, <2>2, SlotFacts, SequenceFacts DEF n
  <2>4. \A i \in Rows : Slot(j, c) = Slot(i, b) => i = j /\ c = b
    BY <2>2, SlotFacts
  <2>5. CASE c = b
    <3> DEFINE k == Slot(j, b)
               i == CHOOSE i \in Rows : k = Slot(i, b)
    <3>1. i \in Rows /\ k = Slot(i, b)
      BY Zenon
    <3>2. i = j
      BY <2>4, <2>5, <3>1
    <3>3. convolved[k] = Convolved(Layer, b, Histories(b)[i - 1], buffers.inputs[i])
      BY <2>3, <2>5, <3>1, Zenon DEF convolved
    <3> HIDE DEF i
    <3> QED  BY <1>8, <2>5, <3>2, <3>3
  <2>6. CASE c # b
    <3>1. convolved[Slot(j, c)] = old[Slot(j, c)]
      BY <2>3, <2>4, <2>6 DEF convolved
    <3>2. c \notin call.pending
      BY <1>2, <1>24, <2>6
    <3> QED  BY <1>2, <1>22, <3>1, <3>2 DEF LinearBuffers, PrefillPhases
  <2> QED  BY <2>5, <2>6
<1>25. LinearBuffers'
  BY <1>2, <1>14, <1>16, <1>22, <1>23, <1>24 DEF LinearBuffers, Holds, PrefillPhases
<1> QED  BY <1>15, <1>19, <1>20, <1>21, <1>25, Inside

LEMMA BlocksDoneTokens ==
  ASSUME IInv, IInv', TokenInv, BlocksDone
  PROVE  TokenInv'
<1>1. /\ ~Idle /\ call.phase = "blocks" /\ call.pending = {} /\ Go("heads", Heads)
      /\ UNCHANGED <<states, ropes, logits, prompt, hidden, buffers, ghost>>
  BY DEF BlocksDone, After
<1>2. /\ call.kind = "prefill" /\ Layers[Layer] = "linear" /\ Layer \in DOMAIN Layers
  BY <1>1, LayerRuns DEF PrefillPhases
<1>3. SameLayerWithin /\ Within /\ call'.phase = "heads" /\ call'.pending = Heads
  BY <1>1, Going DEF SameLayerWithin, Within
<1>4. /\ Layer' = Layer /\ Rows' = Rows /\ call'.tokens = call.tokens
      /\ \A r : Result(r)' = Result(r) /\ MadeRecurrent(r)' = MadeRecurrent(r)
      /\ \A i : WantedInput(i)' = WantedInput(i) /\ WantedConvolved(i)' = WantedConvolved(i)
  BY <1>3, SameCall, SameLayer DEF SameLayerWithin, Within
<1>5. ASSUME NEW r \in DOMAIN states, Active(r)  PROVE AtLayer(r)'
  <2>1. WalkingBlocks(r)
    BY <1>1, <1>5, RowInCall DEF AtLayer
  <2>2. Result(r).convolution[Layer] = [b \in Blocks |-> Result(r).convolution[Layer][b]]
    BY <1>1, <1>2, <1>5, ResultBuffers
  <2>3. states[r].convolution[Layer] = Result(r).convolution[Layer]
    BY <1>1, <2>1, <2>2 DEF WalkingBlocks
  <2>4. Proper(ghost[r].state)
    BY <1>1, <1>5, RowInCall
  <2>5. MadeRecurrent(r) = [h \in Heads |-> MadeRecurrent(r)[h]]
    BY <1>2, <2>4, BuffersMade DEF MadeRecurrent
  <2>6. WalkingHeads(r)'
    BY <1>1, <1>3, <1>4, <2>1, <2>3, <2>5 DEF WalkingHeads, WalkingBlocks
  <2> QED  BY <1>3, <2>6 DEF AtLayer, WholePhases
<1>6. RowsReached'
  BY <1>1, <1>3, <1>5, QuietRows
<1>7. RopesOK' /\ HiddenReached'
  BY <1>1, <1>3, SameRopes, SameHidden DEF AttentionPhases, PrefillPhases
<1>8. UnitsLeft' /\ FullBuffers' /\ ExpertBuffers'
  BY <1>3 DEF FullPhases, ExpertPhases, UnitsLeft, FullBuffers, ExpertBuffers
<1>9. LinearBuffers'
  BY <1>1, <1>3, <1>4 DEF TokenInv, LinearBuffers, Holds, PrefillPhases
<1> QED  BY <1>3, <1>6, <1>7, <1>8, <1>9, Inside

LEMMA HeadWalkTokens ==
  ASSUME IInv, IInv', TokenInv, NEW h \in Heads, HeadWalk(h)
  PROVE  TokenInv'
<1> DEFINE n == Len(call.tokens)
           t == Len(states)
           block == HeadStates(h)[n]
           new == [states[t].recurrent[Layer] EXCEPT ![h] = block]
           s == [states[t] EXCEPT !.recurrent[Layer][h] = block]
           old == buffers.recurrent
           outputs == [k \in DOMAIN old |->
                         IF UnitHead(k - 1) = h
                         THEN HeadOutput(TokenOperands(h, HeadStates(h)[UnitRow(k - 1) - 1], UnitRow(k - 1)))
                         ELSE old[k]]
<1>1. /\ Unit("heads", h) /\ states' = [states EXCEPT ![Target(1)].recurrent[Layer][h] = block]
      /\ buffers' = [buffers EXCEPT !.recurrent = outputs]
      /\ ropes' = ropes /\ hidden' = hidden
  BY Zenon DEF HeadWalk
<1>2. /\ ~Idle /\ call.phase = "heads" /\ call'.phase = "heads" /\ h \in call.pending
      /\ call'.pending = call.pending \ {h}
  BY <1>1, UnitTaken
<1>3. /\ call.kind = "prefill" /\ Layers[Layer] = "linear" /\ Layer \in DOMAIN Layers
  BY <1>2, LayerRuns DEF PrefillPhases
<1>4. /\ t \in DOMAIN states /\ Active(t) /\ Target(1) = t /\ \A r : Active(r) <=> r = t
      /\ n \in Nat \ {0} /\ Rows = 1 .. n
  BY <1>2, <1>3, PrefillRow
<1>5. states' = [states EXCEPT ![t] = s]
  BY <1>1, <1>4
<1>6. Shaped(states[t]) /\ WalkingHeads(t)
  BY <1>2, <1>4, RowInCall DEF AtLayer
<1>7. block = Result(t).recurrent[Layer][h]
  <2>1. n \in 0 .. n
    BY <1>4
  <2>2. HeadStates(h)[n] = RecurrentAt(n)[h]
    BY <1>2, <2>1, HeadStatesAre
  <2> QED  BY <1>2, <1>3, <2>2, BuffersAt
<1>8. \A i \in Rows : TokenOperands(h, HeadStates(h)[i - 1], i) = WantedOperands(i, h)
  BY <1>2, HeadStatesAre
<1>9. states[t] = [f \in StateFields |-> states[t][f]]
  BY <1>6 DEF Shaped
<1> HIDE DEF block
<1>10. s = [f \in StateFields |-> s[f]]
  BY <1>9
<1>11. /\ s.position = states[t].position /\ s.keys = states[t].keys /\ s.values = states[t].values
       /\ s.convolution = states[t].convolution
       /\ s.recurrent = [states[t].recurrent EXCEPT ![Layer] = new]
  BY <1>9 DEF StateFields
<1> HIDE DEF s, t, outputs, n
<1>12. s.recurrent[Layer] = new /\ s.convolution = [states[t].convolution EXCEPT ![Layer] = s.convolution[Layer]]
  BY <1>3, <1>6, <1>11 DEF Shaped
<1>13. /\ Len(states') = Len(states) /\ DOMAIN states' = DOMAIN states
       /\ Shaped(states'[t]) /\ states'[t].position = states[t].position
       /\ states'[t] = s
       /\ \A l \in DOMAIN Layers : l # Layer => LayerIs(states'[t], l, states[t])
       /\ \A q \in DOMAIN states : q # t => states'[q] = states[q]
  BY <1>2, <1>3, <1>4, <1>5, <1>10, <1>11, <1>12, LinearRow
<1>14. /\ DOMAIN buffers' = DOMAIN buffers /\ buffers'.inputs = buffers.inputs
       /\ buffers'.convolved = buffers.convolved /\ buffers'.normalized = buffers.normalized
       /\ buffers'.recurrent = outputs
  BY <1>1 DEF TokenInv, BuffersOK, NoBuffers
<1>15. SameLayerWithin /\ Within
  BY <1>1, <1>2, <1>13, <1>14, UnitTaken DEF SameLayerWithin, Within
<1>16. /\ Layer' = Layer /\ Rows' = Rows /\ \A i : WantedInput(i)' = WantedInput(i)
       /\ call'.tokens = call.tokens
       /\ \A i : WantedConvolved(i)' = WantedConvolved(i)
       /\ \A i, g : WantedOperands(i, g)' = WantedOperands(i, g)
       /\ \A r : Result(r)' = Result(r) /\ MadeRecurrent(r)' = MadeRecurrent(r)
  BY <1>15, SameCall, SameLayer DEF SameLayerWithin, Within
<1>18. ASSUME NEW r \in DOMAIN states, Active(r)  PROVE AtLayer(r)'
  <2>1. new = [g \in Heads |-> IF g \in call'.pending THEN MadeRecurrent(t)[g]
                                ELSE Result(t).recurrent[Layer][g]]
    BY <1>2, <1>6, <1>7 DEF WalkingHeads
  <2>2. s.convolution[Layer] = Result(t).convolution[Layer]
    BY <1>6, <1>11 DEF WalkingHeads
  <2> HIDE DEF new
  <2>3. r = t
    BY <1>4, <1>18
  <2>4. WalkingHeads(r)'
    BY <1>12, <1>13, <1>16, <2>1, <2>2, <2>3 DEF WalkingHeads
  <2> QED  BY <1>2, <2>4 DEF AtLayer, WholePhases
<1>19. RowsReached'
  BY <1>4, <1>13, <1>15, <1>18, RowChanged
<1>20. RopesOK' /\ HiddenReached'
  BY <1>1, <1>2, <1>15, SameRopes, SameHidden DEF AttentionPhases, PrefillPhases
<1>21. UnitsLeft' /\ FullBuffers' /\ ExpertBuffers'
  BY <1>2 DEF FullPhases, ExpertPhases, UnitsLeft, FullBuffers, ExpertBuffers
<1>22. LinearBuffers
  BY <1>2 DEF TokenInv
<1>23. IsSequence(outputs) /\ Len(outputs) = Len(old)
  <2>1. IsSequence(old)
    BY <1>2, <1>22 DEF LinearBuffers, Holds, PrefillPhases
  <2>2. outputs = [k \in DOMAIN old |-> outputs[k]]
    BY DEF outputs
  <2> QED  BY <2>1, <2>2, Replaced
<1>24. ASSUME NEW j \in Rows, NEW g \in Heads, g \notin call'.pending
       PROVE  outputs[(j - 1) * ValueHeads + g] = HeadOutput(WantedOperands(j, g))
  <2> DEFINE k == (j - 1) * ValueHeads + g
  <2>1. Len(old) = Len(call.tokens) * ValueHeads /\ IsSequence(old)
    BY <1>2, <1>22 DEF LinearBuffers, Holds, PrefillPhases
  <2>2. n \in Nat /\ j \in 1 .. n
    BY <1>4
  <2>3. /\ k = UnitOf(j, g) + 1 /\ k \in 1 .. n * ValueHeads
        /\ UnitOf(j, g) \in Int
        /\ UnitRow(UnitOf(j, g)) = j /\ UnitHead(UnitOf(j, g)) = g
    BY <2>2, UnitFacts
  <2> HIDE DEF k
  <2>4. k \in DOMAIN old
    BY <2>1, <2>3, SequenceFacts DEF n
  <2>5. k - 1 = UnitOf(j, g)
    BY <2>3
  <2>6. CASE g = h
    BY <1>8, <2>3, <2>4, <2>5, <2>6 DEF outputs, k
  <2>7. CASE g # h
    <3>1. outputs[k] = old[k]
      BY <2>3, <2>4, <2>5, <2>7 DEF outputs
    <3>2. g \notin call.pending
      BY <1>2, <1>24, <2>7
    <3>3. OutputAt(j, g) = HeadOutput(WantedOperands(j, g))
      BY <1>2, <1>22, <3>2 DEF LinearBuffers, PrefillPhases
    <3> QED  BY <3>1, <3>3 DEF OutputAt, k
  <2> QED  BY <2>6, <2>7
<1>25. LinearBuffers'
  BY <1>2, <1>14, <1>16, <1>22, <1>23, <1>24 DEF LinearBuffers, Holds, PrefillPhases, OutputAt
<1> QED  BY <1>15, <1>19, <1>20, <1>21, <1>25, Inside

LEMMA HeadsDoneTokens ==
  ASSUME IInv, IInv', TokenInv, HeadsDone
  PROVE  TokenInv'
<1>1. /\ ~Idle /\ call.phase = "heads" /\ call.pending = {} /\ Go("gates", Units)
      /\ UNCHANGED <<states, ropes, logits, prompt, hidden, buffers, ghost>>
  BY DEF HeadsDone, After
<1>2. /\ call.kind = "prefill" /\ Layers[Layer] = "linear" /\ Layer \in DOMAIN Layers
  BY <1>1, LayerRuns DEF PrefillPhases
<1>3. SameLayerWithin /\ Within /\ call'.phase = "gates" /\ call'.pending = Units
  BY <1>1, Going DEF SameLayerWithin, Within
<1>4. /\ Layer' = Layer /\ Rows' = Rows /\ Units' = Units /\ call'.tokens = call.tokens
      /\ \A r : Result(r)' = Result(r)
      /\ \A i : WantedInput(i)' = WantedInput(i) /\ WantedConvolved(i)' = WantedConvolved(i)
      /\ \A i, g : WantedOperands(i, g)' = WantedOperands(i, g)
  BY <1>3, SameCall, SameLayer DEF SameLayerWithin, Within
<1>5. ASSUME NEW r \in DOMAIN states, Active(r)  PROVE AtLayer(r)'
  <2>1. WalkingHeads(r)
    BY <1>1, <1>5, RowInCall DEF AtLayer
  <2>2. Result(r).recurrent[Layer] = [h \in Heads |-> Result(r).recurrent[Layer][h]]
    BY <1>1, <1>2, <1>5, ResultBuffers
  <2>3. states[r].recurrent[Layer] = Result(r).recurrent[Layer]
    BY <1>1, <2>1, <2>2 DEF WalkingHeads
  <2>4. Layers[Layer] # "full"
    BY <1>2
  <2>5. LayerIs(states[r], Layer, Result(r))
    BY <2>1, <2>3, <2>4 DEF LayerIs, WalkingHeads
  <2> QED  BY <1>1, <1>3, <1>4, <2>5 DEF AtLayer, WholePhases
<1>6. RowsReached'
  BY <1>1, <1>3, <1>5, QuietRows
<1>7. RopesOK' /\ HiddenReached'
  BY <1>1, <1>3, SameRopes, SameHidden DEF AttentionPhases, PrefillPhases
<1>8. UnitsLeft' /\ FullBuffers' /\ ExpertBuffers'
  BY <1>3, <1>4 DEF FullPhases, ExpertPhases, UnitsLeft, FullBuffers, ExpertBuffers
<1>9. \A i \in Rows : \A h \in Heads : UnitOf(i, h) \in Units
  BY <1>1, InCall, UnitFacts DEF Rows, Units
<1>10. LinearBuffers'
  BY <1>1, <1>3, <1>4, <1>9 DEF TokenInv, LinearBuffers, Holds, PrefillPhases, OutputAt
<1> QED  BY <1>3, <1>6, <1>7, <1>8, <1>10, Inside

LEMMA GateTokens ==
  ASSUME IInv, IInv', TokenInv, NEW u, Gate(u)
  PROVE  TokenInv'
<1> DEFINE i == UnitRow(u)
           h == UnitHead(u)
           gated == Gated(Layer, h, buffers.recurrent[u + 1], buffers.inputs[i])
<1>1. /\ Unit("gates", u) /\ states' = states
      /\ buffers' = [buffers EXCEPT !.normalized[u + 1] = gated]
      /\ ropes' = ropes /\ hidden' = hidden
  BY DEF Gate
<1>2. /\ ~Idle /\ call.phase = "gates" /\ call'.phase = "gates" /\ u \in call.pending
      /\ call'.pending = call.pending \ {u}
  BY <1>1, UnitTaken
<1>3. /\ call.kind = "prefill" /\ Layers[Layer] = "linear" /\ Layer \in DOMAIN Layers
  BY <1>2, LayerRuns DEF PrefillPhases
<1>4. u \in Units /\ call.pending \subseteq Units
  BY <1>2 DEF TokenInv, UnitsLeft
<1>5. Rows = 1 .. Len(call.tokens) /\ Len(call.tokens) \in Nat
  BY <1>2, InCall DEF Rows
<1>6. /\ i \in Rows /\ h \in Heads /\ UnitOf(i, h) = u
      /\ \A j \in Rows : \A g \in Heads : UnitOf(j, g) = u => j = i /\ g = h
  BY <1>4, <1>5, UnitFacts DEF Units
<1>7. (i - 1) * ValueHeads + h = u + 1
  BY <1>5, <1>6, UnitFacts
<1> HIDE DEF i, h
<1>8. gated = WantedGated(i, h)
  <2>1. LinearBuffers
    BY <1>2 DEF TokenInv
  <2>2. buffers.inputs[i] = WantedInput(i) /\ OutputAt(i, h) = HeadOutput(WantedOperands(i, h))
    BY <1>2, <1>6, <2>1 DEF LinearBuffers, PrefillPhases
  <2> QED  BY <1>7, <2>2 DEF OutputAt, WantedGated, GatedOf, WantedOperands, WantedInput
<1> HIDE DEF gated
<1>9. /\ DOMAIN buffers' = DOMAIN buffers /\ buffers'.inputs = buffers.inputs
      /\ buffers'.recurrent = buffers.recurrent /\ buffers'.convolved = buffers.convolved
      /\ buffers'.normalized = [buffers.normalized EXCEPT ![u + 1] = gated]
  BY <1>1 DEF TokenInv, BuffersOK, NoBuffers
<1>10. SameLayerWithin /\ Within
  BY <1>1, <1>2, <1>9, UnitTaken DEF SameLayerWithin, Within
<1>11. /\ Layer' = Layer /\ Rows' = Rows /\ Units' = Units /\ call'.tokens = call.tokens
       /\ \A r : Result(r)' = Result(r)
       /\ \A j : WantedInput(j)' = WantedInput(j) /\ WantedConvolved(j)' = WantedConvolved(j)
       /\ \A j, g : WantedGated(j, g)' = WantedGated(j, g) /\ WantedOperands(j, g)' = WantedOperands(j, g)
  BY <1>10, SameCall, SameLayer DEF SameLayerWithin, Within
<1>12. \A r \in DOMAIN states : Active(r) => AtLayer(r)'
  BY <1>1, <1>2, <1>11, RowInCall DEF AtLayer, WholePhases
<1>13. RowsReached'
  BY <1>1, <1>10, <1>12, QuietRows
<1>14. RopesOK' /\ HiddenReached'
  BY <1>1, <1>2, <1>10, SameRopes, SameHidden DEF AttentionPhases, PrefillPhases
<1>15. UnitsLeft' /\ FullBuffers' /\ ExpertBuffers'
  BY <1>2, <1>4, <1>11 DEF FullPhases, ExpertPhases, UnitsLeft, FullBuffers, ExpertBuffers
<1>16. LinearBuffers
  BY <1>2 DEF TokenInv
<1>17. Holds(buffers'.normalized, ValueHeads)
  <2>1. Holds(buffers.normalized, ValueHeads)
    BY <1>2, <1>16 DEF LinearBuffers, PrefillPhases
  <2>2. IsSequence(buffers.normalized)
    BY <2>1 DEF Holds
  <2>3. /\ buffers'.normalized = [k \in DOMAIN buffers.normalized |-> buffers'.normalized[k]]
    BY <1>9
  <2> QED  BY <1>11, <2>1, <2>2, <2>3, Replaced DEF Holds
<1>18. \A j \in Rows : \A g \in Heads : UnitOf(j, g) \notin call'.pending =>
         buffers'.normalized[(j - 1) * ValueHeads + g] = WantedGated(j, g)
  BY <1>2, <1>4, <1>6, <1>8, <1>9, GatedOnce
<1>19. LinearBuffers'
  BY <1>2, <1>9, <1>11, <1>16, <1>17, <1>18 DEF LinearBuffers, Holds, PrefillPhases, GatedAt, OutputAt
<1> QED  BY <1>10, <1>13, <1>14, <1>15, <1>19, Inside

LEMMA PrefillDoneTokens ==
  ASSUME IInv, IInv', TokenInv, PrefillDone
  PROVE  TokenInv'
<1> DEFINE output == [i \in Rows |-> LinearOutput(Layer, Slice(buffers.normalized, ValueHeads, i))]
<1>1. AttentionDone("gates", output) /\ ~Idle /\ call.phase = "gates" /\ call.pending = {}
  BY DEF PrefillDone, AttentionDone, After
<1>2. \A r \in DOMAIN states : Active(r) => LayerIs(states[r], Layer, Result(r))
  BY <1>1, RowInCall DEF AtLayer, WholePhases
<1>3. \A i \in Rows : output[i] = AttentionOf(Layer, Prior(i), Entering(i))
  BY <1>1, GatedRows
<1> HIDE DEF output
<1> QED  BY <1>1, <1>2, <1>3, AttentionDoneTokens

-----------------------------------------------------------------------------
(* The experts.  Every pair of a row and a route has one position. *)

LEMMA GroupedBounds ==
  ASSUME NEW n \in Nat, NEW routes, RoutesOK(routes, n), NEW p \in Pairs(routes)
  PROVE  Grouped(routes, p) \in 1 .. n * RoutesPerToken
<1> DEFINE P == Pairs(routes)
           e == ExpertOf(routes, p)
           before == {q \in P : routes[q[1]][q[2]].expert < e}
           sent == SentTo(routes, e)
<1>1. IsFiniteSet(P) /\ Cardinality(P) = n * RoutesPerToken /\ IsFiniteSet(sent)
  BY PairsFacts
<1>2. before \in SUBSET P /\ sent \in SUBSET P
  BY DEF SentTo
<1>3. IsFiniteSet(before)
  BY <1>1, <1>2, FS_Subset
<1>4. e \in Int
  BY DEF RoutesOK
<1>5. before \cap sent = {}
  BY <1>4 DEF SentTo
<1>6. Cardinality(before \cup sent) = Cardinality(before) + Cardinality(sent) - Cardinality({})
  BY <1>1, <1>3, <1>5, FS_Union
<1>7. before \cup sent \in SUBSET P
  BY <1>2
<1>8. Cardinality(before \cup sent) <= n * RoutesPerToken
  BY <1>1, <1>7, FS_Subset
<1>9. /\ Offset(routes, e) = Cardinality(before)
      /\ Offset(routes, e) \in Nat /\ Cardinality(sent) \in Nat
  BY PairsFacts DEF Offset
<1>10. Grouped(routes, p) \in Offset(routes, e) + 1 .. Offset(routes, e) + Cardinality(sent)
  BY GroupedAmongItsExpert
<1>11. Cardinality({}) = 0 /\ n * RoutesPerToken \in Nat
  BY FS_EmptySet, GeometryAssumption
<1> HIDE DEF before, sent, e, P
<1> QED  BY <1>6, <1>8, <1>9, <1>10, <1>11

LEMMA GroupedApart ==
  ASSUME NEW n \in Nat, NEW routes, RoutesOK(routes, n)
  PROVE  \A p, q \in Pairs(routes) : Grouped(routes, p) = Grouped(routes, q) => p = q
<1> DEFINE P == Pairs(routes)
           T == 1 .. n * RoutesPerToken
           f == [p \in P |-> Grouped(routes, p)]
<1>1. n * RoutesPerToken \in Nat
  BY GeometryAssumption
<1>2. IsFiniteSet(P) /\ Cardinality(P) = n * RoutesPerToken
  BY PairsFacts
<1>3. IsFiniteSet(T) /\ Cardinality(T) = n * RoutesPerToken
  BY <1>1, FS_Interval
<1>4. \A p \in P : f[p] \in T
  BY GroupedBounds
<1>5. \A k \in T : \E p \in P : f[p] = k
  BY GroupedIsRank
<1>6. f \in [P -> T]
  BY <1>4
<1> HIDE DEF T
<1>7. f \in Surjection(P, T)
  BY <1>5, <1>6 DEF Surjection
<1>8. f \in Injection(P, T)
  <2> HIDE DEF f, P
  <2> QED  BY <1>2, <1>3, <1>7, FS_SurjSameCardinalityImpliesInj
<1>9. \A p, q \in P : f[p] = f[q] => p = q
  <2> HIDE DEF f, P
  <2> QED  BY <1>8 DEF Injection, IsInjective
<1> QED  BY <1>9

LEMMA GroupedRows ==
  ASSUME NEW n \in Nat, NEW routes, RoutesOK(routes, n)
  PROVE  /\ \A p \in Pairs(routes) : GroupedRow(routes, Grouped(routes, p)) = p[1]
         /\ \A k \in 1 .. n * RoutesPerToken : GroupedRow(routes, k) \in 1 .. n
<1>1. ASSUME NEW p \in Pairs(routes)
      PROVE  GroupedRow(routes, Grouped(routes, p)) = p[1]
  <2> DEFINE q == CHOOSE q \in Pairs(routes) : Grouped(routes, q) = Grouped(routes, p)
  <2>1. q \in Pairs(routes) /\ Grouped(routes, q) = Grouped(routes, p)
    OBVIOUS
  <2> HIDE DEF q
  <2>2. q = p
    BY <2>1, GroupedApart
  <2> QED  BY <2>2 DEF GroupedRow, q
<1>2. ASSUME NEW k \in 1 .. n * RoutesPerToken
      PROVE  GroupedRow(routes, k) \in 1 .. n
  <2> DEFINE q == CHOOSE q \in Pairs(routes) : Grouped(routes, q) = k
  <2>1. q \in Pairs(routes)
    BY GroupedIsRank
  <2> HIDE DEF q
  <2>2. q[1] \in 1 .. n
    BY <2>1, PairsFacts
  <2> QED  BY <2>2 DEF GroupedRow, q
<1> QED  BY <1>1, <1>2

LEMMA PositionsFacts ==
  ASSUME IInv, ~Idle
  PROVE  /\ Len(call.tokens) \in Nat /\ Rows = 1 .. Len(call.tokens)
         /\ Positions = 1 .. Len(call.tokens) * RoutesPerToken
         /\ Cardinality(Positions) \in Nat /\ Positions = 1 .. Cardinality(Positions)
<1>1. Len(call.tokens) \in Nat /\ Rows = 1 .. Len(call.tokens)
  BY InCall DEF Rows
<1> DEFINE n == Len(call.tokens) * RoutesPerToken
<1>2. n \in Nat /\ Positions = 1 .. n
  BY <1>1, GeometryAssumption DEF Positions
<1> HIDE DEF n
<1>3. Cardinality(Positions) = n
  BY <1>2, CardinalityOfRows
<1> QED  BY <1>1, <1>2, <1>3 DEF n

LEMMA RouteTokens ==
  ASSUME IInv, IInv', TokenInv, Route
  PROVE  TokenInv'
<1> DEFINE n == Cardinality(Positions)
<1>1. /\ ~Idle /\ call.phase = "route"
      /\ call' = [call EXCEPT !.phase = "gather", !.pending = Positions, !.routes = RowRoutes]
      /\ buffers' = [buffers EXCEPT !.gathered = Resize(@, n), !.projected = Resize(@, n)]
      /\ UNCHANGED <<states, ropes, logits, prompt, hidden, ghost>>
  BY DEF Route, After
<1>2. DOMAIN call = CallFields
  BY <1>1, InCall
<1>3. /\ call'.kind = call.kind /\ call'.tokens = call.tokens /\ call'.wanted = call.wanted
      /\ call'.positions = call.positions /\ call'.layer = call.layer
      /\ call'.phase = "gather" /\ call'.pending = Positions /\ call'.routes = RowRoutes
      /\ DOMAIN call' = CallFields
  BY <1>1, <1>2 DEF CallFields
<1>4. /\ DOMAIN buffers' = DOMAIN buffers /\ buffers'.inputs = buffers.inputs
      /\ buffers'.gathered = Resize(buffers.gathered, n)
      /\ buffers'.projected = Resize(buffers.projected, n)
  BY <1>1 DEF TokenInv, BuffersOK, NoBuffers
<1>5. call' # NoCall
  BY <1>3 DEF NoCall, CallFields
<1>6. SameLayerWithin /\ Within
  BY <1>1, <1>3, <1>4, <1>5 DEF SameLayerWithin, Within, Idle
<1>7. /\ Layer' = Layer /\ Rows' = Rows /\ Positions' = Positions
      /\ \A r : Result(r)' = Result(r)
      /\ \A i : WantedExpert(i)' = WantedExpert(i)
  BY <1>6, SameCall, SameLayer DEF SameLayerWithin, Within
<1>8. \A r \in DOMAIN states : Active(r) => AtLayer(r)'
  BY <1>1, <1>3, <1>7, RowInCall DEF AtLayer, WholePhases
<1>9. RowsReached'
  BY <1>1, <1>6, <1>8, QuietRows
<1>10. RopesOK' /\ HiddenReached'
  BY <1>1, <1>3, <1>6, SameRopes, SameHidden DEF ExpertPhases
<1>11. UnitsLeft' /\ FullBuffers' /\ LinearBuffers'
  BY <1>3, <1>7 DEF FullPhases, DecodePhases, PrefillPhases, UnitsLeft, FullBuffers, LinearBuffers
<1>12. \A i \in Rows : buffers.inputs[i] = WantedExpert(i)
  BY <1>1 DEF TokenInv, ExpertBuffers, ExpertPhases
<1>13. RowRoutes = [i \in Rows |-> Routes(Layer, WantedExpert(i))]
  BY <1>12 DEF RowRoutes
<1>14. DOMAIN buffers'.gathered = Positions /\ DOMAIN buffers'.projected = Positions
  <2>1. n \in Nat /\ Positions = 1 .. n
    BY <1>1, PositionsFacts
  <2> HIDE DEF n
  <2> QED  BY <1>4, <2>1, ResizeFacts
<1>15. ExpertBuffers'
  BY <1>3, <1>4, <1>7, <1>12, <1>13, <1>14 DEF ExpertBuffers, ExpertPhases
<1> QED  BY <1>6, <1>9, <1>10, <1>11, <1>15, Inside

LEMMA GatherTokens ==
  ASSUME IInv, IInv', TokenInv, TasksOK, NEW p, Gather(p)
  PROVE  TokenInv'
<1> DEFINE row == buffers.inputs[GroupedRow(call.routes, p)]
<1>1. /\ Unit("gather", p) /\ buffers' = [buffers EXCEPT !.gathered[p] = row]
      /\ UNCHANGED <<states, ropes, hidden>>
  BY DEF Gather
<1>2. /\ ~Idle /\ call.phase = "gather" /\ call'.phase = "gather" /\ p \in call.pending
      /\ call'.pending = call.pending \ {p} /\ call'.routes = call.routes
  BY <1>1, UnitTaken
<1>3. /\ DOMAIN buffers' = DOMAIN buffers /\ buffers'.inputs = buffers.inputs
      /\ buffers'.gathered = [buffers.gathered EXCEPT ![p] = row]
      /\ buffers'.projected = buffers.projected
  BY <1>1 DEF TokenInv, BuffersOK, NoBuffers
<1>4. SameLayerWithin /\ Within
  BY <1>1, <1>2, <1>3, UnitTaken DEF SameLayerWithin, Within
<1>5. /\ Layer' = Layer /\ Rows' = Rows /\ Positions' = Positions
      /\ \A r : Result(r)' = Result(r)
      /\ \A i : WantedExpert(i)' = WantedExpert(i)
  BY <1>4, SameCall, SameLayer DEF SameLayerWithin, Within
<1>6. \A r \in DOMAIN states : Active(r) => AtLayer(r)'
  BY <1>1, <1>2, <1>5, RowInCall DEF AtLayer, WholePhases
<1>7. RowsReached'
  BY <1>1, <1>4, <1>6, QuietRows
<1>8. RopesOK' /\ HiddenReached'
  BY <1>1, <1>2, <1>4, SameRopes, SameHidden DEF ExpertPhases
<1>9. p \in Positions /\ call.pending \subseteq Positions
  BY <1>2 DEF TokenInv, UnitsLeft
<1>10. UnitsLeft' /\ FullBuffers' /\ LinearBuffers'
  BY <1>2, <1>5, <1>9 DEF FullPhases, DecodePhases, PrefillPhases, UnitsLeft, FullBuffers, LinearBuffers
<1>11. ExpertBuffers
  BY <1>2 DEF TokenInv
<1>12. row = WantedExpert(GroupedRow(call.routes, p))
  <2>1. RoutesOK(call.routes, Len(call.tokens))
    BY <1>2 DEF TasksOK
  <2>2. GroupedRow(call.routes, p) \in Rows
    BY <1>2, <1>9, <2>1, PositionsFacts, GroupedRows
  <2> QED  BY <1>2, <1>11, <2>2 DEF ExpertBuffers, ExpertPhases
<1> HIDE DEF row
<1>13. ExpertBuffers'
  BY <1>2, <1>3, <1>5, <1>9, <1>11, <1>12 DEF ExpertBuffers, ExpertPhases
<1> QED  BY <1>4, <1>7, <1>8, <1>10, <1>13, Inside

LEMMA GatherDoneTokens ==
  ASSUME IInv, IInv', TokenInv, GatherDone
  PROVE  TokenInv'
<1>1. /\ ~Idle /\ call.phase = "gather" /\ call.pending = {} /\ Go("experts", Tasks(call.routes))
      /\ UNCHANGED <<states, ropes, logits, prompt, hidden, buffers, ghost>>
  BY DEF GatherDone, After
<1>2. /\ SameLayerWithin /\ Within /\ call'.phase = "experts"
      /\ call'.pending = Tasks(call.routes) /\ call'.routes = call.routes
  BY <1>1, Going DEF SameLayerWithin, Within
<1>3. /\ Layer' = Layer /\ Rows' = Rows /\ Positions' = Positions
      /\ \A r : Result(r)' = Result(r)
      /\ \A i : WantedExpert(i)' = WantedExpert(i)
  BY <1>2, SameCall, SameLayer DEF SameLayerWithin, Within
<1>4. \A r \in DOMAIN states : Active(r) => AtLayer(r)'
  BY <1>1, <1>2, <1>3, RowInCall DEF AtLayer, WholePhases
<1>5. RowsReached'
  BY <1>1, <1>2, <1>4, QuietRows
<1>6. RopesOK' /\ HiddenReached'
  BY <1>1, <1>2, SameRopes, SameHidden DEF ExpertPhases
<1>7. UnitsLeft' /\ FullBuffers' /\ LinearBuffers'
  BY <1>2 DEF FullPhases, DecodePhases, PrefillPhases, UnitsLeft, FullBuffers, LinearBuffers
<1>8. ExpertBuffers
  BY <1>1 DEF TokenInv
<1>9. ExpertBuffers'
  BY <1>1, <1>2, <1>3, <1>8 DEF ExpertBuffers, ExpertPhases
<1> QED  BY <1>2, <1>5, <1>6, <1>7, <1>9, Inside

LEMMA ExpertTaskTokens ==
  ASSUME IInv, IInv', TokenInv, TasksOK, NEW task, ExpertTask(task)
  PROVE  TokenInv'
<1> DEFINE old == buffers.projected
           projected == [p \in DOMAIN old |->
                           IF p \in task.first .. task.last
                           THEN ExpertOutput(Layer, task.expert, buffers.gathered[p])
                           ELSE old[p]]
<1>1. /\ Unit("experts", task) /\ buffers' = [buffers EXCEPT !.projected = projected]
      /\ UNCHANGED <<states, ropes, hidden>>
  BY DEF ExpertTask
<1>2. /\ ~Idle /\ call.phase = "experts" /\ call'.phase = "experts" /\ task \in call.pending
      /\ call'.pending = call.pending \ {task} /\ call'.routes = call.routes
  BY <1>1, UnitTaken
<1>3. RoutesOK(call.routes, Len(call.tokens)) /\ call.pending \subseteq Tasks(call.routes)
  BY <1>2 DEF TasksOK
<1>4. /\ DOMAIN buffers' = DOMAIN buffers /\ buffers'.inputs = buffers.inputs
      /\ buffers'.gathered = buffers.gathered /\ buffers'.projected = projected
  BY <1>1 DEF TokenInv, BuffersOK, NoBuffers
<1>5. SameLayerWithin /\ Within
  BY <1>1, <1>2, <1>4, UnitTaken DEF SameLayerWithin, Within
<1>6. /\ Layer' = Layer /\ Rows' = Rows /\ Positions' = Positions
      /\ \A r : Result(r)' = Result(r)
      /\ \A i : WantedExpert(i)' = WantedExpert(i)
  BY <1>5, SameCall, SameLayer DEF SameLayerWithin, Within
<1>7. \A r \in DOMAIN states : Active(r) => AtLayer(r)'
  BY <1>1, <1>2, <1>6, RowInCall DEF AtLayer, WholePhases
<1>8. RowsReached'
  BY <1>1, <1>5, <1>7, QuietRows
<1>9. RopesOK' /\ HiddenReached'
  BY <1>1, <1>2, <1>5, SameRopes, SameHidden DEF ExpertPhases
<1>10. UnitsLeft' /\ FullBuffers' /\ LinearBuffers'
  BY <1>2 DEF FullPhases, DecodePhases, PrefillPhases, UnitsLeft, FullBuffers, LinearBuffers
<1>11. ExpertBuffers
  BY <1>2 DEF TokenInv
<1>12. /\ DOMAIN old = Positions
       /\ \A p \in Positions : buffers.gathered[p] = WantedExpert(GroupedRow(call.routes, p))
  BY <1>2, <1>11 DEF ExpertBuffers
<1>13. Positions \subseteq Int
  BY <1>2, PositionsFacts
<1>14. ASSUME NEW other \in Tasks(call.routes), NEW p \in Positions,
              p \in other.first .. other.last, other \notin call'.pending
       PROVE  projected[p] =
                ExpertOutput(Layer, other.expert, WantedExpert(GroupedRow(call.routes, p)))
  <2>1. CASE other = task
    BY <1>12, <1>14, <2>1
  <2>2. CASE other # task
    <3>1. p \notin task.first .. task.last
      <4>1. Len(call.tokens) \in Nat /\ p \in Int
        BY <1>2, <1>13, PositionsFacts
      <4> QED  BY <1>2, <1>3, <1>14, <2>2, <4>1, TasksAreApart
    <3>2. projected[p] = old[p]
      BY <1>12, <3>1
    <3>3. other \notin call.pending
      BY <1>2, <1>14, <2>2
    <3> HIDE DEF projected
    <3> QED  BY <1>2, <1>11, <1>14, <3>2, <3>3 DEF ExpertBuffers
  <2> QED  BY <2>1, <2>2
<1>15. DOMAIN projected = Positions
  BY <1>12
<1> HIDE DEF projected
<1>16. ExpertBuffers'
  BY <1>2, <1>4, <1>6, <1>11, <1>14, <1>15 DEF ExpertBuffers, ExpertPhases
<1> QED  BY <1>5, <1>8, <1>9, <1>10, <1>16, Inside

(* the sum of a row is moe_forward's *)
LEMMA ReducedIs ==
  ASSUME IInv, TokenInv, TasksOK, ~Idle, call.phase = "experts", call.pending = {}, NEW i \in Rows
  PROVE  WithShared(Layer, buffers.inputs[i], Reduced(call.routes, i))
           = MoeForward(Layer, WantedExpert(i))
<1> DEFINE routes == call.routes
           n == Len(call.tokens)
           x == WantedExpert(i)
<1>1. RoutesOK(routes, n) /\ n \in Nat /\ i \in 1 .. n
  BY PositionsFacts DEF TasksOK
<1>2. ExpertBuffers
  BY DEF TokenInv
<1>3. buffers.inputs[i] = x /\ routes[i] = Routes(Layer, x)
  BY <1>2 DEF ExpertBuffers, ExpertPhases
<1>4. ASSUME NEW r \in 1 .. RoutesPerToken
      PROVE  buffers.projected[Grouped(routes, <<i, r>>)] = ExpertOutput(Layer, routes[i][r].expert, x)
  <2> DEFINE p == <<i, r>>
             k == Grouped(routes, p)
  <2>1. p \in Pairs(routes) /\ p[1] = i /\ p[2] = r
    BY <1>1 DEF Pairs, RoutesOK
  <2> HIDE DEF p, k
  <2>2. k \in Positions
    BY <1>1, <2>1, GroupedBounds, PositionsFacts DEF k
  <2>3. GroupedRow(routes, k) = i
    BY <1>1, <2>1, GroupedRows DEF k
  <2>4. PICK t \in Tasks(routes) : k \in t.first .. t.last /\ t.expert = routes[i][r].expert
    BY <1>1, <2>1, GroupedInTask DEF k
  <2>5. buffers.projected[k] = ExpertOutput(Layer, t.expert, WantedExpert(GroupedRow(routes, k)))
    BY <1>2, <2>2, <2>4 DEF ExpertBuffers
  <2> QED  BY <2>3, <2>4, <2>5 DEF k, p
<1> DEFINE outputs == [r \in 1 .. RoutesPerToken |-> buffers.projected[Grouped(routes, <<i, r>>)]]
           wanted == [r \in 1 .. RoutesPerToken |-> ExpertOutput(Layer, Routes(Layer, x)[r].expert, x)]
<1>5. outputs = wanted
  BY <1>3, <1>4
<1>6. Reduced(routes, i) = WeightedSum(routes[i], outputs)
  BY DEF Reduced
<1>7. MoeForward(Layer, x) = WithShared(Layer, x, WeightedSum(Routes(Layer, x), wanted))
  BY DEF MoeForward
<1> HIDE DEF outputs, wanted, x, routes
<1> QED  BY <1>3, <1>5, <1>6, <1>7 DEF x, routes

LEMMA ReduceTokens ==
  ASSUME IInv, IInv', TokenInv, TasksOK, Reduce
  PROVE  TokenInv'
<1> DEFINE next == [i \in Rows |-> Add(hidden[i], WithShared(Layer, buffers.inputs[i], Reduced(call.routes, i)))]
<1>1. /\ ~Idle /\ call.phase = "experts" /\ call.pending = {} /\ hidden' = next
      /\ call' = [call EXCEPT !.phase = IF Layer = Len(Layers) THEN "head" ELSE "layer",
                              !.layer = IF Layer = Len(Layers) THEN @ ELSE @ + 1]
      /\ UNCHANGED <<states, ropes, logits, prompt, buffers, ghost>>
  BY DEF Reduce, After
<1>2. DOMAIN call = CallFields
  BY <1>1, InCall
<1>3. /\ call'.kind = call.kind /\ call'.tokens = call.tokens /\ call'.wanted = call.wanted
      /\ call'.positions = call.positions
      /\ call'.phase = (IF Layer = Len(Layers) THEN "head" ELSE "layer")
      /\ call'.layer = (IF Layer = Len(Layers) THEN Layer ELSE Layer + 1)
      /\ DOMAIN call' = CallFields
  BY <1>1, <1>2 DEF CallFields, Layer
<1>4. call' # NoCall
  BY <1>3 DEF NoCall, CallFields
<1>5. Within
  BY <1>1, <1>3, <1>4 DEF Within, Idle
<1>6. /\ Rows' = Rows /\ \A r : Result(r)' = Result(r)
      /\ \A i, l : Hidden(i, l)' = Hidden(i, l)
      /\ \A r : Active(r)' <=> Active(r)
  BY <1>5, SameCall DEF Within
<1>7. \A i \in Rows : hidden'[i] = Hidden(i, Layer)
  <2> SUFFICES ASSUME NEW i \in Rows  PROVE hidden'[i] = Hidden(i, Layer)
    OBVIOUS
  <2>1. hidden[i] = WantedResidual(i)
    BY <1>1 DEF TokenInv, HiddenReached, ExpertPhases
  <2>2. hidden'[i] = Add(WantedResidual(i), MoeForward(Layer, WantedExpert(i)))
    BY <1>1, <2>1, ReducedIs
  <2>3. Hidden(i, Layer) = HiddenAfter(Layer, Prior(i), Entering(i))
    BY <1>1, TokenInLayer
  <2> QED  BY <2>2, <2>3 DEF HiddenAfter, WantedResidual, WantedExpert
<1>8. Layer \in 1 .. Len(Layers) /\ Len(Layers) \in Nat
  BY <1>1, LayerRuns
<1>9. /\ Layer = Len(Layers) => Layer' = Layer
      /\ Layer # Len(Layers) => Layer' = Layer + 1
  BY <1>3 DEF Layer
<1>10. HiddenReached'
  <2>1. CASE Layer = Len(Layers)
    BY <1>3, <1>6, <1>7, <1>9, <2>1
       DEF HiddenReached, AttentionPhases, ExpertPhases, FullPhases, DecodePhases, PrefillPhases
  <2>2. CASE Layer # Len(Layers)
    <3>1. Layer' - 1 = Layer
      BY <1>8, <1>9, <2>2
    <3>2. \A i : Entering(i)' = Hidden(i, Layer)
      BY <1>6, <3>1 DEF Entering
    <3>3. \A i \in Rows : hidden'[i] = Entering(i)'
      BY <1>7, <3>2
    <3> QED  BY <1>3, <1>6, <2>2, <3>3 DEF HiddenReached, ExpertPhases
  <2> QED  BY <2>1, <2>2
<1>11. RowsReached'
  <2> SUFFICES ASSUME NEW r \in DOMAIN states  PROVE RowReached(r)'
    BY <1>1 DEF RowsReached
  <2>1. RowReached(r)
    BY DEF TokenInv, RowsReached
  <2>2. CASE ~Active(r)
    BY <1>1, <1>4, <1>6, <2>1, <2>2 DEF RowReached, Idle
  <2>3. CASE Active(r)
    <3>1. LayerIs(states[r], Layer, Result(r))
      BY <1>1, <2>3, RowInCall DEF AtLayer, WholePhases
    <3>2. /\ \A l \in DOMAIN Layers : l < Layer => LayerIs(states[r], l, Result(r))
          /\ \A l \in DOMAIN Layers : l > Layer => LayerIs(states[r], l, ghost[r].state)
          /\ Shaped(states[r]) /\ states[r].position = ghost[r].state.position
      BY <1>1, <2>3, RowInCall
    <3>3. CASE Layer = Len(Layers)
      <4>1. AtLayer(r)'
        BY <1>1, <1>3, <1>6, <1>9, <3>1, <3>3 DEF AtLayer
      <4> QED  BY <1>1, <1>5, <1>6, <1>9, <2>3, <3>2, <3>3, <4>1 DEF RowReached, Within
    <3>4. CASE Layer # Len(Layers)
      <4>1. /\ \A l \in DOMAIN Layers : l < Layer + 1 => LayerIs(states[r], l, Result(r))
            /\ \A l \in DOMAIN Layers : l > Layer + 1 => LayerIs(states[r], l, ghost[r].state)
            /\ LayerIs(states[r], Layer + 1, ghost[r].state)
        <5>1. /\ \A l \in Int : l < Layer + 1 => l < Layer \/ l = Layer
              /\ \A l \in Int : l > Layer + 1 => l > Layer
              /\ Layer + 1 \in 1 .. Len(Layers) /\ Layer + 1 > Layer
          BY <1>8, <3>4
        <5>2. DOMAIN Layers \subseteq Int /\ Layer + 1 \in DOMAIN Layers
          BY <5>1, LayersFacts
        <5> QED  BY <3>1, <3>2, <5>1, <5>2
      <4>2. AtLayer(r)'
        BY <1>1, <1>3, <1>9, <3>4, <4>1 DEF AtLayer, WholePhases
      <4> QED  BY <1>1, <1>5, <1>6, <1>9, <2>3, <3>2, <3>4, <4>1, <4>2 DEF RowReached, Within
    <3> QED  BY <3>3, <3>4
  <2> QED  BY <2>2, <2>3
<1>12. RopesOK'
  BY <1>1, <1>5, SameRopes
<1>13. UnitsLeft' /\ FullBuffers' /\ LinearBuffers' /\ ExpertBuffers'
  BY <1>3 DEF FullPhases, DecodePhases, PrefillPhases, ExpertPhases, UnitsLeft, FullBuffers,
              LinearBuffers, ExpertBuffers
<1> QED  BY <1>5, <1>10, <1>11, <1>12, <1>13, Inside

-----------------------------------------------------------------------------
(* Between two calls *)

LEMMA BetweenCalls ==
  ASSUME IInv, TokenInv, Idle
  PROVE  /\ \A r \in DOMAIN states :
              /\ states[r] = ghost[r].state /\ Proper(ghost[r].state)
              /\ ropes[r] = NoRope \/ ropes[r].rotation = Rope(ropes[r].position)
              /\ ~(Admitting /\ r = Len(states)) => logits[r] = ghost[r].logits
         /\ Admitting => states # <<>> /\ logits[Len(states)] = <<>>
         /\ IsSequence(states) /\ IsSequence(ghost) /\ IsSequence(ropes) /\ IsSequence(logits)
         /\ Len(ghost) = Len(states) /\ Len(ropes) = Len(states) /\ Len(logits) = Len(states)
         /\ Len(states) \in Nat /\ DOMAIN states = 1 .. Len(states)
         /\ DOMAIN ghost = DOMAIN states /\ DOMAIN ropes = DOMAIN states
         /\ DOMAIN logits = DOMAIN states
<1>1. /\ GhostsOK /\ RopesOK /\ LogitsReached
      /\ \A r \in DOMAIN states : states[r] = ghost[r].state
  BY DEF TokenInv, RowsReached, RowReached
<1>2. IsSequence(states) /\ (Admitting => states # <<>>)
  BY DEF IInv, StatesOK, PromptOK
<1>3. /\ IsSequence(ghost) /\ IsSequence(ropes) /\ IsSequence(logits)
      /\ Len(ghost) = Len(states) /\ Len(ropes) = Len(states) /\ Len(logits) = Len(states)
  BY <1>1 DEF GhostsOK, RopesOK, LogitsReached
<1>4. /\ Len(states) \in Nat /\ DOMAIN states = 1 .. Len(states)
      /\ DOMAIN ghost = DOMAIN states /\ DOMAIN ropes = DOMAIN states
      /\ DOMAIN logits = DOMAIN states
  BY <1>2, <1>3, SequenceFacts
<1>5. /\ \A r \in DOMAIN states : ~(Admitting /\ r = Len(states)) => logits[r] = ghost[r].logits
      /\ Admitting => logits[Len(states)] = <<>>
  BY <1>1, <1>2 DEF LogitsReached
<1>6. \A r \in DOMAIN states :
        /\ Proper(ghost[r].state)
        /\ ropes[r] = NoRope \/ ropes[r].rotation = Rope(ropes[r].position)
  BY <1>1 DEF GhostsOK, RopesOK
<1> QED  BY <1>1, <1>2, <1>3, <1>4, <1>5, <1>6

(* what the end of a call must leave *)
LEMMA RowsBetweenCalls ==
  ASSUME Idle', GhostsOK', RopesOK', LogitsReached', BuffersOK',
         \A r \in DOMAIN states' : states'[r] = ghost'[r].state
  PROVE  TokenInv'
<1>1. \A r \in DOMAIN states' : Shaped(ghost'[r].state)
  BY DEF GhostsOK, Proper
<1>2. RowsReached'
  BY <1>1 DEF RowsReached, RowReached
<1>3. WantedOK'
  BY DEF WantedOK
<1> QED  BY <1>2, <1>3 DEF TokenInv

LEMMA NothingThere ==
  IsSequence(<<>>) /\ Len(<<>>) = 0 /\ DOMAIN <<>> = {}
<1>1. IsSequence(<<>>)
  BY <<>> \in Seq({}), SequenceOfAny
<1> QED  BY <1>1

LEMMA NewStateIsProper == Proper(NewState)
<1>1. Shaped(NewState)
  <2>1. NewState = [f \in StateFields |-> NewState[f]]
    BY DEF NewState, StateFields
  <2> QED  BY <2>1 DEF Shaped, NewState
<1>2. Sized(NewState)
  BY NothingThere DEF Sized, NewState
<1> QED  BY <1>1, <1>2 DEF Proper

LEMMA InitTokens == Init => TokenInv
<1> SUFFICES ASSUME Init  PROVE TokenInv
  OBVIOUS
<1>1. /\ states = <<>> /\ ropes = <<>> /\ logits = <<>> /\ ghost = <<>>
      /\ prompt = NoPrompt /\ call = NoCall /\ buffers = NoBuffers
  BY DEF Init
<1>2. GhostsOK /\ RopesOK /\ LogitsReached
  BY <1>1, NothingThere DEF GhostsOK, RopesOK, LogitsReached, Admitting
<1>3. RowsReached /\ WantedOK /\ BuffersOK /\ Idle
  BY <1>1, NothingThere DEF RowsReached, WantedOK, BuffersOK, Idle
<1> QED  BY <1>2, <1>3 DEF TokenInv

LEMMA ContextExhaustedTokens ==
  ASSUME IInv, TokenInv, ContextExhausted
  PROVE  TokenInv'
<1>1. /\ Idle /\ states' = <<>> /\ ropes' = <<>> /\ logits' = <<>> /\ ghost' = <<>>
      /\ UNCHANGED <<prompt, call, buffers>> /\ ~Admitting
  BY DEF ContextExhausted
<1>2. GhostsOK' /\ RopesOK' /\ LogitsReached'
  BY <1>1, NothingThere DEF GhostsOK, RopesOK, LogitsReached, Admitting
<1>3. BuffersOK' /\ Idle'
  BY <1>1 DEF BuffersOK, Idle, TokenInv, NoBuffers
<1> QED  BY <1>1, <1>2, <1>3, NothingThere, RowsBetweenCalls

LEMMA AdmitTokens ==
  ASSUME IInv, TokenInv, NEW p \in Prompts, Admit(p)
  PROVE  TokenInv'
<1> DEFINE n == Len(states) + 1
           new == [state |-> NewState, logits |-> <<>>]
<1>1. /\ Idle /\ ~Admitting /\ prompt' = [tokens |-> p, offset |-> 0]
      /\ states' = Append(states, NewState) /\ ropes' = Append(ropes, NoRope)
      /\ logits' = Append(logits, <<>>) /\ ghost' = Append(ghost, new)
      /\ call' = call /\ buffers' = buffers
  BY DEF Admit
<1>2. /\ \A r \in DOMAIN states :
           /\ states[r] = ghost[r].state /\ Proper(ghost[r].state)
           /\ ropes[r] = NoRope \/ ropes[r].rotation = Rope(ropes[r].position)
           /\ logits[r] = ghost[r].logits
      /\ IsSequence(states) /\ IsSequence(ghost) /\ IsSequence(ropes) /\ IsSequence(logits)
      /\ Len(ghost) = Len(states) /\ Len(ropes) = Len(states) /\ Len(logits) = Len(states)
      /\ Len(states) \in Nat /\ DOMAIN states = 1 .. Len(states)
      /\ DOMAIN ghost = DOMAIN states /\ DOMAIN ropes = DOMAIN states
      /\ DOMAIN logits = DOMAIN states
  BY <1>1, BetweenCalls
<1> HIDE DEF new
<1>3. /\ IsSequence(states') /\ Len(states') = n /\ states'[n] = NewState
      /\ \A r \in DOMAIN states : states'[r] = states[r]
  BY <1>1, <1>2, SequenceAppend
<1>4. /\ IsSequence(ghost') /\ Len(ghost') = n /\ ghost'[n] = new
      /\ \A r \in DOMAIN states : ghost'[r] = ghost[r]
  BY <1>1, <1>2, SequenceAppend
<1>5. /\ IsSequence(ropes') /\ Len(ropes') = n /\ ropes'[n] = NoRope
      /\ \A r \in DOMAIN states : ropes'[r] = ropes[r]
  BY <1>1, <1>2, SequenceAppend
<1>6. /\ IsSequence(logits') /\ Len(logits') = n /\ logits'[n] = <<>>
      /\ \A r \in DOMAIN states : logits'[r] = logits[r]
  BY <1>1, <1>2, SequenceAppend
<1>7. \A r \in DOMAIN states' : r \in DOMAIN states \/ r = n
  BY <1>2, <1>3, SequenceFacts
<1>8. new.state = NewState /\ new.logits = <<>>
  BY DEF new
<1>9. GhostsOK'
  BY <1>2, <1>3, <1>4, <1>7, <1>8, NewStateIsProper DEF GhostsOK
<1>10. RopesOK'
  BY <1>2, <1>3, <1>5, <1>7 DEF RopesOK
<1>11. LogitsReached'
  BY <1>2, <1>3, <1>4, <1>6, <1>7, <1>8 DEF LogitsReached
<1>12. BuffersOK' /\ Idle'
  BY <1>1 DEF BuffersOK, Idle, TokenInv, NoBuffers
<1>13. \A r \in DOMAIN states' : states'[r] = ghost'[r].state
  BY <1>2, <1>3, <1>4, <1>7, <1>8
<1> QED  BY <1>9, <1>10, <1>11, <1>12, <1>13, RowsBetweenCalls

(* the row that row i was before row n left *)
RowBefore(n, i) == IF i < n THEN i ELSE i + 1

LEMMA WithoutOne ==
  ASSUME NEW s, IsSequence(s), NEW n \in DOMAIN s
  PROVE  /\ IsSequence(Without(s, n)) /\ Len(Without(s, n)) = Len(s) - 1
         /\ \A i \in 1 .. Len(s) - 1 : Without(s, n)[i] = s[RowBefore(n, i)]
<1> DEFINE S == {s[i] : i \in DOMAIN s}
           before == SubSeq(s, 1, n - 1)
           after == SubSeq(s, n + 1, Len(s))
<1>1. s \in Seq(S) /\ n \in 1 .. Len(s) /\ Len(s) \in Nat
  BY DEF IsSequence
<1>2. /\ before \in Seq(S) /\ Len(before) = n - 1
      /\ \A i \in 1 .. n - 1 : before[i] = s[i]
  BY SMTT(60), <1>1
<1>3. /\ after \in Seq(S) /\ Len(after) = Len(s) - n
      /\ \A i \in 1 .. Len(s) - n : after[i] = s[n + i]
  BY SMTT(60), <1>1
<1> HIDE DEF S, before, after
<1>4. /\ before \o after \in Seq(S) /\ Len(before \o after) = Len(s) - 1
      /\ \A i \in 1 .. n - 1 : (before \o after)[i] = before[i]
      /\ \A i \in n .. Len(s) - 1 : (before \o after)[i] = after[i - (n - 1)]
  BY <1>1, <1>2, <1>3
<1>5. ASSUME NEW i \in 1 .. Len(s) - 1
      PROVE  (before \o after)[i] = s[RowBefore(n, i)]
  <2>1. CASE i < n
    <3>1. i \in 1 .. n - 1 /\ RowBefore(n, i) = i
      BY <1>1, <2>1 DEF RowBefore
    <3> QED  BY <1>2, <1>4, <3>1
  <2>2. CASE ~(i < n)
    <3>1. /\ i \in n .. Len(s) - 1 /\ RowBefore(n, i) = i + 1
          /\ i - (n - 1) \in 1 .. Len(s) - n /\ n + (i - (n - 1)) = i + 1
      BY <1>1, <2>2 DEF RowBefore
    <3>2. (before \o after)[i] = after[i - (n - 1)]
      BY <1>4, <3>1
    <3>3. after[i - (n - 1)] = s[n + (i - (n - 1))]
      BY <1>3, <3>1
    <3> QED  BY <3>1, <3>2, <3>3
  <2> QED  BY <2>1, <2>2
<1>6. IsSequence(before \o after)
  BY <1>4, SequenceOfAny
<1> QED  BY <1>4, <1>5, <1>6 DEF Without, before, after

LEMMA LeaveTokens ==
  ASSUME IInv, TokenInv, NEW n \in DOMAIN states, Leave(n)
  PROVE  TokenInv'
<1> DEFINE from(r) == RowBefore(n, r)
<1>1. /\ Idle /\ ~Admitting
      /\ states' = Without(states, n) /\ ropes' = Without(ropes, n)
      /\ logits' = Without(logits, n) /\ ghost' = Without(ghost, n)
      /\ UNCHANGED <<prompt, call, buffers>>
  BY DEF Leave
<1>2. /\ \A r \in DOMAIN states :
           /\ states[r] = ghost[r].state /\ Proper(ghost[r].state)
           /\ ropes[r] = NoRope \/ ropes[r].rotation = Rope(ropes[r].position)
           /\ logits[r] = ghost[r].logits
      /\ IsSequence(states) /\ IsSequence(ghost) /\ IsSequence(ropes) /\ IsSequence(logits)
      /\ Len(ghost) = Len(states) /\ Len(ropes) = Len(states) /\ Len(logits) = Len(states)
      /\ Len(states) \in Nat /\ DOMAIN states = 1 .. Len(states)
      /\ DOMAIN ghost = DOMAIN states /\ DOMAIN ropes = DOMAIN states
      /\ DOMAIN logits = DOMAIN states
  BY <1>1, BetweenCalls
<1>3. /\ IsSequence(states') /\ Len(states') = Len(states) - 1
      /\ \A r \in 1 .. Len(states) - 1 : states'[r] = states[from(r)]
  BY <1>1, <1>2, WithoutOne
<1>4. /\ IsSequence(ghost') /\ Len(ghost') = Len(states) - 1
      /\ \A r \in 1 .. Len(states) - 1 : ghost'[r] = ghost[from(r)]
  <2>1. IsSequence(ghost) /\ n \in DOMAIN ghost /\ Len(ghost) = Len(states)
    BY <1>2
  <2>2. ghost' = Without(ghost, n)
    BY <1>1
  <2> QED  BY <2>1, <2>2, WithoutOne
<1>5. /\ IsSequence(ropes') /\ Len(ropes') = Len(states) - 1
      /\ \A r \in 1 .. Len(states) - 1 : ropes'[r] = ropes[from(r)]
  <2>1. IsSequence(ropes) /\ n \in DOMAIN ropes /\ Len(ropes) = Len(states)
    BY <1>2
  <2>2. ropes' = Without(ropes, n)
    BY <1>1
  <2> QED  BY <2>1, <2>2, WithoutOne
<1>6. /\ IsSequence(logits') /\ Len(logits') = Len(states) - 1
      /\ \A r \in 1 .. Len(states) - 1 : logits'[r] = logits[from(r)]
  <2>1. IsSequence(logits) /\ n \in DOMAIN logits /\ Len(logits) = Len(states)
    BY <1>2
  <2>2. logits' = Without(logits, n)
    BY <1>1
  <2> QED  BY <2>1, <2>2, WithoutOne
<1>7. \A r \in 1 .. Len(states) - 1 : from(r) \in DOMAIN states
  BY <1>2 DEF RowBefore
<1>8. DOMAIN states' = 1 .. Len(states) - 1
  BY <1>3, SequenceFacts
<1> HIDE DEF from
<1>9. GhostsOK'
  BY <1>2, <1>3, <1>4, <1>7, <1>8 DEF GhostsOK
<1>10. RopesOK'
  BY <1>2, <1>3, <1>5, <1>7, <1>8 DEF RopesOK
<1>11. LogitsReached'
  <2>1. ~Admitting'
    BY <1>1 DEF Admitting
  <2> QED  BY <1>2, <1>3, <1>4, <1>6, <1>7, <1>8, <2>1 DEF LogitsReached
<1>12. BuffersOK' /\ Idle'
  BY <1>1 DEF BuffersOK, Idle, TokenInv, NoBuffers
<1>13. \A r \in DOMAIN states' : states'[r] = ghost'[r].state
  BY <1>2, <1>3, <1>4, <1>7, <1>8
<1> QED  BY <1>9, <1>10, <1>11, <1>12, <1>13, RowsBetweenCalls

(* The rows a failed call leaves are those it did not work on. *)
LEMMA DropTokens ==
  ASSUME IInv, TokenInv, ~Idle, Drop
  PROVE  TokenInv'
<1> DEFINE kept == IF call.kind = "decode" THEN 0 ELSE Len(states) - 1
<1>1. /\ call' = NoCall /\ prompt' = NoPrompt /\ buffers' = buffers
      /\ states' = SubSeq(states, 1, kept) /\ ropes' = SubSeq(ropes, 1, kept)
      /\ logits' = SubSeq(logits, 1, kept) /\ ghost' = SubSeq(ghost, 1, kept)
  BY DEF Drop
<1>2. /\ IsSequence(states) /\ IsSequence(ghost) /\ IsSequence(ropes) /\ IsSequence(logits)
      /\ Len(ghost) = Len(states) /\ Len(ropes) = Len(states) /\ Len(logits) = Len(states)
  BY DEF IInv, StatesOK, TokenInv, GhostsOK, RopesOK, LogitsReached
<1>3. kept \in 0 .. Len(states)
  BY InCall
<1>4. ASSUME NEW r \in 1 .. kept
      PROVE  /\ r \in DOMAIN states /\ states[r] = ghost[r].state /\ Proper(ghost[r].state)
             /\ ropes[r] = NoRope \/ ropes[r].rotation = Rope(ropes[r].position)
             /\ logits[r] = ghost[r].logits
  <2>1. call.kind # "decode"
    BY <1>4
  <2>2. kept = Len(states) - 1
    BY <2>1
  <2>3. Len(states) \in Nat /\ DOMAIN states = 1 .. Len(states)
    BY InCall
  <2> HIDE DEF kept
  <2>4. r \in DOMAIN states /\ r # Len(states)
    BY <1>4, <2>2, <2>3
  <2>5. states[r] = ghost[r].state
    BY <2>1, <2>4 DEF TokenInv, RowsReached, RowReached, Active
  <2> QED  BY <2>4, <2>5 DEF TokenInv, GhostsOK, RopesOK, LogitsReached
<1> HIDE DEF kept
<1>5. /\ IsSequence(states') /\ Len(states') = kept
      /\ \A r \in 1 .. kept : states'[r] = states[r]
  BY <1>1, <1>2, <1>3, SequenceCut
<1>6. /\ IsSequence(ghost') /\ Len(ghost') = kept
      /\ \A r \in 1 .. kept : ghost'[r] = ghost[r]
  BY <1>1, <1>2, <1>3, SequenceCut
<1>7. /\ IsSequence(ropes') /\ Len(ropes') = kept
      /\ \A r \in 1 .. kept : ropes'[r] = ropes[r]
  BY <1>1, <1>2, <1>3, SequenceCut
<1>8. /\ IsSequence(logits') /\ Len(logits') = kept
      /\ \A r \in 1 .. kept : logits'[r] = logits[r]
  BY <1>1, <1>2, <1>3, SequenceCut
<1>9. DOMAIN states' = 1 .. kept
  BY <1>5, SequenceFacts
<1>10. GhostsOK'
  BY <1>4, <1>5, <1>6, <1>9 DEF GhostsOK
<1>11. RopesOK'
  BY <1>4, <1>5, <1>7, <1>9 DEF RopesOK
<1>12. LogitsReached'
  <2>1. ~Admitting'
    BY <1>1 DEF Admitting
  <2> QED  BY <1>4, <1>5, <1>6, <1>8, <1>9, <2>1 DEF LogitsReached
<1>13. BuffersOK' /\ Idle'
  BY <1>1 DEF BuffersOK, Idle, TokenInv, NoBuffers
<1>14. \A r \in DOMAIN states' : states'[r] = ghost'[r].state
  BY <1>4, <1>5, <1>6, <1>9
<1> QED  BY <1>10, <1>11, <1>12, <1>13, <1>14, RowsBetweenCalls

(* A call begins: no layer has taken its tokens yet. *)
LEMMA CallBeginsTokens ==
  ASSUME IInv, TokenInv, Idle,
         states' = states, ropes' = ropes, logits' = logits, ghost' = ghost, buffers' = buffers,
         NEW kind, NEW tokens, NEW positions, NEW wanted,
         Call(kind, tokens, positions, wanted), Admitting' <=> Admitting,
         \A i \in 1 .. Len(tokens) : hidden'[i] = Embedding(tokens[i]),
         kind = "prefill" => (wanted <=> prompt'.offset = Len(prompt'.tokens))
  PROVE  TokenInv'
<1>1. /\ call'.kind = kind /\ call'.tokens = tokens /\ call'.wanted = wanted
      /\ call'.layer = 1 /\ call'.phase = "layer"
  BY DEF Call
<1>2. ~Idle'
  BY DEF Call, Idle, NoCall
<1>3. /\ \A r \in DOMAIN states : states[r] = ghost[r].state /\ Proper(ghost[r].state)
      /\ Admitting => logits[Len(states)] = <<>>
  BY BetweenCalls
<1>4. GhostsOK' /\ RopesOK' /\ BuffersOK'
  BY DEF TokenInv, GhostsOK, RopesOK, BuffersOK, NoBuffers
<1>5. LogitsReached'
  BY <1>3 DEF TokenInv, LogitsReached
<1>6. WantedOK'
  BY <1>1 DEF WantedOK
<1>7. RowsReached'
  <2> SUFFICES ASSUME NEW r \in DOMAIN states  PROVE RowReached(r)'
    BY DEF RowsReached
  <2>1. states[r] = ghost[r].state /\ Shaped(states[r])
    BY <1>3 DEF Proper
  <2>2. Layer' = 1 /\ \A l \in DOMAIN Layers : ~(l < 1)
    BY <1>1, LayersFacts DEF Layer
  <2>3. \A l : LayerIs(states[r], l, ghost[r].state)
    BY <2>1 DEF LayerIs
  <2>4. AtLayer(r)'
    BY <1>1, <2>3 DEF AtLayer, WholePhases
  <2> QED  BY <1>2, <2>1, <2>2, <2>3, <2>4 DEF RowReached
<1>8. HiddenReached'
  <2>1. \A s, token : HiddenOf(s, token, 0) = Embedding(token)
    <3> SUFFICES ASSUME NEW s, NEW token  PROVE HiddenOf(s, token, 0) = Embedding(token)
      OBVIOUS
    <3>1. 0 \in 0 .. Len(Layers)
      BY LayersFacts
    <3>2. Layered(s, token)[0] = [state |-> s, hidden |-> Embedding(token)]
      BY <3>1, LayeredIsDefined
    <3> QED  BY <3>2 DEF HiddenOf
  <2>2. Layer' - 1 = 0
    BY <1>1 DEF Layer
  <2>3. \A i : Entering(i)' = Embedding(tokens[i])
    BY <1>1, <2>1, <2>2 DEF Entering, Hidden
  <2>4. Rows' = 1 .. Len(tokens)
    BY <1>1 DEF Rows
  <2> QED  BY <1>1, <2>3, <2>4 DEF HiddenReached, ExpertPhases
<1>9. UnitsLeft' /\ FullBuffers' /\ LinearBuffers' /\ ExpertBuffers'
  BY <1>1 DEF FullPhases, DecodePhases, PrefillPhases, ExpertPhases, UnitsLeft, FullBuffers,
              LinearBuffers, ExpertBuffers
<1> QED  BY <1>4, <1>5, <1>6, <1>7, <1>8, <1>9 DEF TokenInv

LEMMA PrefillTokens ==
  ASSUME IInv, TokenInv, Prefill
  PROVE  TokenInv'
<1> DEFINE count == Min({PrefillUbatch, Len(prompt.tokens) - prompt.offset})
           chunk == SubSeq(prompt.tokens, prompt.offset + 1, prompt.offset + count)
           first == states[Len(states)].position
           positions == [i \in 1 .. count |-> first + i - 1]
           wanted == prompt.offset + count = Len(prompt.tokens)
<1>1. /\ Idle /\ Admitting
      /\ UNCHANGED <<states, ropes, logits, buffers, ghost>>
      /\ prompt' = [prompt EXCEPT !.offset = @ + count]
      /\ hidden' = [i \in 1 .. count |-> Embedding(chunk[i])]
      /\ Call("prefill", chunk, positions, wanted)
  BY DEF Prefill
<1>2. /\ prompt.tokens \in Seq(Tokens) /\ DOMAIN prompt = {"tokens", "offset"}
      /\ prompt.offset \in 0 .. Len(prompt.tokens) /\ prompt.offset # Len(prompt.tokens)
  BY <1>1 DEF IInv, PromptOK
<1>3. /\ count \in Nat \ {0} /\ prompt.offset + count \in 1 .. Len(prompt.tokens)
  BY <1>2, SmallerOfTwo, BatchAssumption
<1> HIDE DEF count
<1>4. Len(chunk) = count
  BY <1>2, <1>3
<1>5. prompt'.tokens = prompt.tokens /\ prompt'.offset = prompt.offset + count
  BY <1>1, <1>2
<1>6. Admitting'
  BY <1>2, <1>3, <1>5 DEF Admitting, NoPrompt
<1> HIDE DEF chunk, positions, first
<1>7. \A i \in 1 .. Len(chunk) : hidden'[i] = Embedding(chunk[i])
  BY <1>1, <1>4
<1>8. wanted <=> prompt'.offset = Len(prompt'.tokens)
  BY <1>5
<1> HIDE DEF wanted
<1> QED  BY <1>1, <1>6, <1>7, <1>8, CallBeginsTokens

LEMMA DecodeBatchTokens ==
  ASSUME IInv, TokenInv, DecodeBatch
  PROVE  TokenInv'
<1> DEFINE positions == [i \in DOMAIN states |-> states[i].position]
<1>1. /\ Idle /\ ~Admitting /\ UNCHANGED <<states, ropes, logits, prompt, buffers, ghost>>
  BY DEF DecodeBatch
<1>2. PICK tokens \in [DOMAIN states -> Tokens] :
        /\ Call("decode", tokens, positions, TRUE)
        /\ hidden' = [i \in DOMAIN states |-> Embedding(tokens[i])]
  BY DEF DecodeBatch
<1>3. Len(states) \in Nat /\ DOMAIN states = 1 .. Len(states)
  BY SequenceFacts DEF IInv, StatesOK
<1>4. 1 .. Len(tokens) = DOMAIN states
  BY <1>3
<1>5. \A i \in 1 .. Len(tokens) : hidden'[i] = Embedding(tokens[i])
  BY <1>2, <1>4
<1>6. Admitting' <=> Admitting
  BY <1>1 DEF Admitting
<1> HIDE DEF positions
<1> QED  BY <1>1, <1>2, <1>5, <1>6, CallBeginsTokens

-----------------------------------------------------------------------------
(* The end of a call *)

LEMMA StateMoved ==
  ASSUME NEW s, Shaped(s), NEW g, Shaped(g), NEW n \in Nat, g.position = s.position + n,
         \A l \in DOMAIN Layers : LayerIs(s, l, g)
  PROVE  [s EXCEPT !.position = @ + n] = g
<1> DEFINE m == [s EXCEPT !.position = @ + n]
<1>1. s = [f \in StateFields |-> s[f]] /\ s.position \in Nat
  BY DEF Shaped
<1>2. /\ m = [f \in StateFields |-> m[f]] /\ m.position = s.position + n /\ m.position \in Nat
      /\ m.keys = s.keys /\ m.values = s.values
      /\ m.convolution = s.convolution /\ m.recurrent = s.recurrent
  BY <1>1 DEF StateFields
<1> HIDE DEF m
<1>3. Shaped(m)
  BY ZenonT(60), <1>2 DEF Shaped
<1>4. \A l \in DOMAIN Layers : LayerIs(m, l, g)
  BY <1>2 DEF LayerIs
<1>5. m = g
  BY <1>2, <1>3, <1>4, SameLayers
<1> QED  BY <1>5 DEF m

(* at the head the rows of a call lack only their new positions *)
LEMMA AtHead ==
  ASSUME IInv, TokenInv, ~Idle, call.phase = "head", NEW r \in DOMAIN states, Active(r)
  PROVE  /\ [states[r] EXCEPT !.position = @ + Fed] = Result(r)
         /\ Proper(Result(r))
<1>1. /\ Shaped(states[r]) /\ states[r].position = ghost[r].state.position
      /\ AtLayer(r)
      /\ \A l \in DOMAIN Layers : l < Layer => LayerIs(states[r], l, Result(r))
      /\ Proper(Result(r))
  BY RowInCall
<1>2. Fed \in Nat /\ Result(r).position = ghost[r].state.position + Fed
  BY CallRows
<1>3. Layer = Len(Layers)
  BY InCall DEF PhaseOK
<1>4. LayerIs(states[r], Layer, Result(r))
  BY <1>1 DEF AtLayer, WholePhases
<1>5. \A l \in DOMAIN Layers : l < Layer \/ l = Layer
  BY <1>3, LayersFacts
<1>6. \A l \in DOMAIN Layers : LayerIs(states[r], l, Result(r))
  BY <1>1, <1>4, <1>5
<1>7. Shaped(Result(r))
  BY <1>1 DEF Proper
<1> QED  BY <1>1, <1>2, <1>6, <1>7, StateMoved

(* what decode_token gives for the last token of a row *)
LEMMA LastToken ==
  ASSUME IInv, TokenInv, ~Idle, NEW i \in Rows, Nth(i) = Fed
  PROVE  Advance(ghost[Target(i)], Feed(Target(i)))
           = [state |-> Result(Target(i)), logits |-> Logits(Hidden(i, Len(Layers)))]
<1> DEFINE r == Target(i)
           s == ghost[r].state
           tokens == Feed(r)
           token == call.tokens[i]
           before == Tokenwise(s, tokens)[Fed - 1].state
<1>1. /\ r \in DOMAIN states /\ Active(r) /\ Proper(Prior(i)) /\ Fed \in Nat \ {0}
      /\ Prior(i) = Stage(r, Fed - 1)
  BY CallRows DEF Prior
<1>2. Proper(s)
  BY <1>1, CallRows
<1>3. Len(tokens) = Fed /\ tokens[Fed] = token
  BY InCall DEF Feed, Fed, Rows, Target, Nth
<1>4. before = Prior(i)
  BY <1>1 DEF Stage
<1>5. Result(r) = Tokenwise(s, tokens)[Fed].state
  BY DEF Result, Stage
<1>6. Advance(ghost[r], tokens) = Tokenwise(s, tokens)[Fed]
  BY <1>3 DEF Advance, DecodeTokens
<1> HIDE DEF r, s, tokens, token
<1>7. Tokenwise(s, tokens)[Fed] = DecodeToken(before, tokens[Fed])
  BY SMTT(60), <1>1, <1>2, <1>3, TokenwiseStep
<1> HIDE DEF before
<1>8. Tokenwise(s, tokens)[Fed] = DecodeToken(Prior(i), token)
  BY <1>3, <1>4, <1>7
<1>9. DecodeToken(Prior(i), token)
        = [state |-> DecodeToken(Prior(i), token).state,
           logits |-> Logits(HiddenOf(Prior(i), token, Len(Layers)))]
  BY <1>1, TokenFacts
<1>10. Hidden(i, Len(Layers)) = HiddenOf(Prior(i), token, Len(Layers))
  BY DEF Hidden, token
<1> QED  BY <1>5, <1>6, <1>8, <1>9, <1>10 DEF r, tokens

LEMMA SequenceOfFunction ==
  ASSUME NEW n \in Nat, NEW s, s = [i \in 1 .. n |-> s[i]]
  PROVE  IsSequence(s) /\ Len(s) = n
<1> DEFINE S == {s[i] : i \in 1 .. n}
<1>1. s \in [1 .. n -> S]
  OBVIOUS
<1> HIDE DEF S
<1>2. s \in Seq(S) /\ Len(s) = n
  BY <1>1
<1> QED  BY <1>2, SequenceOfAny

LEMMA DecodeDoneTokens ==
  ASSUME IInv, TokenInv, DecodeDone
  PROVE  TokenInv'
<1> DEFINE n == Len(call.tokens)
<1>1. /\ ~Idle /\ call.phase = "head" /\ call.kind = "decode" /\ call' = NoCall
      /\ states' = [i \in Rows |-> [states[i] EXCEPT !.position = @ + 1]]
      /\ logits' = [i \in Rows |-> Logits(hidden[i])]
      /\ ghost' = [i \in Rows |-> Advance(ghost[i], <<call.tokens[i]>>)]
      /\ UNCHANGED <<ropes, prompt, buffers>>
  BY DEF DecodeDone, After
<1>2. /\ Rows = 1 .. n /\ n \in Nat /\ Len(states) = n /\ DOMAIN states = Rows
      /\ Layer = Len(Layers) /\ ~Admitting /\ Fed = 1
  BY <1>1, InCall DEF Rows, Fed, IInv, CallOK, PhaseOK
<1>3. ASSUME NEW i \in Rows
      PROVE  /\ states'[i] = Result(i) /\ Proper(Result(i))
             /\ ghost'[i].state = Result(i) /\ ghost'[i].logits = logits'[i]
  <2>1. Active(i) /\ Target(i) = i /\ Nth(i) = Fed /\ Feed(i) = <<call.tokens[i]>>
    BY <1>1, <1>2 DEF Active, Target, Nth, Feed
  <2>2. [states[i] EXCEPT !.position = @ + Fed] = Result(i) /\ Proper(Result(i))
    BY <1>1, <1>2, <2>1, AtHead
  <2>3. Advance(ghost[i], <<call.tokens[i]>>)
          = [state |-> Result(i), logits |-> Logits(Hidden(i, Len(Layers)))]
    BY <1>1, <2>1, LastToken
  <2>4. hidden[i] = Hidden(i, Len(Layers))
    BY <1>1, <1>2 DEF TokenInv, HiddenReached
  <2>5. ghost'[i] = [state |-> Result(i), logits |-> logits'[i]]
    BY <1>1, <2>3, <2>4
  <2> QED  BY <1>1, <1>2, <2>2, <2>5
<1>4. /\ states' = [i \in 1 .. n |-> states'[i]]
      /\ logits' = [i \in 1 .. n |-> logits'[i]]
      /\ ghost' = [i \in 1 .. n |-> ghost'[i]]
  BY <1>1, <1>2
<1>5. /\ IsSequence(states') /\ Len(states') = n
      /\ IsSequence(logits') /\ Len(logits') = n
      /\ IsSequence(ghost') /\ Len(ghost') = n
  BY <1>2, <1>4, SequenceOfFunction
<1>6. DOMAIN states' = Rows
  BY <1>1
<1> HIDE DEF n
<1>7. GhostsOK'
  BY <1>3, <1>5, <1>6 DEF GhostsOK
<1>8. RopesOK'
  BY <1>1, <1>2, <1>5, <1>6 DEF TokenInv, RopesOK
<1>9. LogitsReached'
  <2>1. ~Admitting'
    BY <1>1, <1>2 DEF Admitting
  <2> QED  BY <1>3, <1>5, <1>6, <2>1 DEF LogitsReached
<1>10. BuffersOK' /\ Idle'
  BY <1>1 DEF BuffersOK, Idle, TokenInv, NoBuffers
<1>11. \A r \in DOMAIN states' : states'[r] = ghost'[r].state
  BY <1>3, <1>6
<1> QED  BY <1>7, <1>8, <1>9, <1>10, <1>11, RowsBetweenCalls

LEMMA PrefillReturnsTokens ==
  ASSUME IInv, IInv', TokenInv, PrefillReturns
  PROVE  TokenInv'
<1> DEFINE t == Target(1)
           n == Len(call.tokens)
           s == [states[t] EXCEPT !.position = @ + n]
           g == Advance(ghost[t], call.tokens)
           last == prompt.offset = Len(prompt.tokens)
<1>1. /\ ~Idle /\ call.phase = "head" /\ call.kind = "prefill" /\ call' = NoCall
      /\ call.wanted => Len(logits[t]) = HeadChunks
      /\ states' = [states EXCEPT ![t] = s]
      /\ ghost' = [ghost EXCEPT ![t] = g]
      /\ last => prompt' = NoPrompt /\ ropes' = [ropes EXCEPT ![t] = NoRope]
      /\ ~last => prompt' = prompt /\ ropes' = ropes
      /\ logits' = logits /\ buffers' = buffers
  <2>1. /\ states' = [states EXCEPT ![Target(1)].position = @ + Len(call.tokens)]
        /\ ghost' = [ghost EXCEPT ![Target(1)] = Advance(@, call.tokens)]
    BY DEF PrefillReturns
  <2> QED  BY <2>1 DEF PrefillReturns, After
<1>2. /\ t \in DOMAIN states /\ t = Len(states) /\ Active(t) /\ n \in Nat \ {0}
      /\ n \in Rows /\ Target(n) = t /\ Nth(n) = n /\ Fed = n /\ Feed(t) = call.tokens
      /\ Admitting /\ states # <<>> /\ Len(states) \in Nat /\ DOMAIN states = 1 .. Len(states)
  BY <1>1, InCall DEF Target, Rows, Active, Nth, Fed, Feed, IInv, CallOK
<1>3. /\ IsSequence(states) /\ IsSequence(ghost) /\ IsSequence(ropes) /\ IsSequence(logits)
      /\ Len(ghost) = Len(states) /\ Len(ropes) = Len(states) /\ Len(logits) = Len(states)
  BY DEF IInv, StatesOK, TokenInv, GhostsOK, RopesOK, LogitsReached
<1>4. DOMAIN ghost = DOMAIN states /\ DOMAIN ropes = DOMAIN states
  BY <1>2, <1>3, SequenceFacts
<1>5. ASSUME NEW r \in DOMAIN states
      PROVE  /\ r # t => states[r] = ghost[r].state /\ logits[r] = ghost[r].logits
             /\ Proper(ghost[r].state)
             /\ ropes[r] = NoRope \/ ropes[r].rotation = Rope(ropes[r].position)
  <2>1. r # t => ~Active(r)
    BY <1>1, <1>2 DEF Active
  <2>2. r # t => states[r] = ghost[r].state
    BY <2>1 DEF TokenInv, RowsReached, RowReached
  <2> QED  BY <1>2, <2>2 DEF TokenInv, GhostsOK, RopesOK, LogitsReached
<1>6. s = Result(t) /\ Proper(Result(t))
  BY <1>1, <1>2, AtHead
<1>7. g = [state |-> Result(t), logits |-> Logits(Hidden(n, Len(Layers)))]
  BY <1>1, <1>2, LastToken
<1>8. g.state = Result(t) /\ g.logits = Logits(Hidden(n, Len(Layers)))
  BY <1>7
<1>9. call.wanted <=> last
  BY <1>1 DEF TokenInv, WantedOK
<1>10. \/ logits[t] = <<>>
       \/ /\ call.wanted
          /\ \E k \in 0 .. HeadChunks : logits[t] = HeadChunksOf(n, k)
  BY <1>2 DEF TokenInv, LogitsReached
<1>11. last => logits[t] = g.logits
  <2> SUFFICES ASSUME last  PROVE logits[t] = g.logits
    OBVIOUS
  <2>1. Len(logits[t]) = HeadChunks /\ HeadChunks \in Nat \ {0}
    BY <1>1, <1>9, GeometryAssumption
  <2>2. logits[t] # <<>>
    BY <2>1
  <2>3. PICK k \in 0 .. HeadChunks : logits[t] = HeadChunksOf(n, k)
    BY <1>10, <2>2
  <2>4. Len(HeadChunksOf(n, k)) = k
    <3>1. k \in Nat
      BY <2>1
    <3>2. HeadChunksOf(n, k) = [c \in 1 .. k |-> HeadChunksOf(n, k)[c]]
      BY DEF HeadChunksOf
    <3> HIDE DEF n
    <3> QED  BY <3>1, <3>2, SequenceOfFunction
  <2>5. k = HeadChunks
    BY <2>1, <2>3, <2>4
  <2>6. HeadChunksOf(n, HeadChunks) = Logits(Hidden(n, Len(Layers)))
    BY DEF HeadChunksOf, Logits
  <2> QED  BY <1>8, <2>3, <2>5, <2>6
<1>12. ~last => logits[t] = <<>>
  BY <1>9, <1>10
<1> HIDE DEF t, s, g, last
<1>13. /\ IsSequence(states') /\ Len(states') = Len(states) /\ states'[t] = s
       /\ \A r \in DOMAIN states : r # t => states'[r] = states[r]
  BY <1>1, <1>2, <1>3, SequenceExcept
<1>14. /\ IsSequence(ghost') /\ Len(ghost') = Len(states) /\ ghost'[t] = g
       /\ \A r \in DOMAIN states : r # t => ghost'[r] = ghost[r]
  BY ZenonT(60), <1>1, <1>2, <1>3, <1>4, SequenceExcept
<1>15. /\ IsSequence(ropes') /\ Len(ropes') = Len(states)
       /\ \A r \in DOMAIN states : ropes'[r] = ropes[r] \/ ropes'[r] = NoRope
  <2>1. CASE last
    <3>1. t \in DOMAIN ropes /\ ropes' = [ropes EXCEPT ![t] = NoRope]
      BY <1>1, <1>2, <1>4, <2>1
    <3> QED  BY <1>3, <1>4, <3>1, SequenceExcept
  <2>2. CASE ~last
    BY <1>1, <1>3, <2>2
  <2> QED  BY <2>1, <2>2
<1>16. DOMAIN states' = DOMAIN states
  BY <1>2, <1>13, SequenceFacts
<1>17. GhostsOK'
  BY <1>5, <1>6, <1>8, <1>13, <1>14, <1>16 DEF GhostsOK
<1>18. RopesOK'
  BY <1>5, <1>13, <1>15, <1>16 DEF RopesOK
<1>19. LogitsReached'
  <2>1. \A r \in DOMAIN states : r # t => logits'[r] = ghost'[r].logits
    BY <1>1, <1>5, <1>14
  <2>2. CASE last
    <3>1. ~Admitting' /\ logits'[t] = ghost'[t].logits
      BY <1>1, <1>11, <1>14, <2>2 DEF Admitting
    <3> QED  BY <1>1, <1>3, <1>13, <1>16, <2>1, <3>1 DEF LogitsReached
  <2>3. CASE ~last
    <3>1. Admitting' /\ logits'[t] = <<>>
      BY <1>1, <1>2, <1>12, <2>3 DEF Admitting
    <3> QED  BY <1>1, <1>2, <1>3, <1>13, <1>16, <2>1, <3>1 DEF LogitsReached
  <2> QED  BY <2>2, <2>3
<1>20. BuffersOK' /\ Idle'
  BY <1>1 DEF BuffersOK, Idle, TokenInv, NoBuffers
<1>21. \A r \in DOMAIN states' : states'[r] = ghost'[r].state
  BY <1>5, <1>6, <1>8, <1>13, <1>14, <1>16
<1> QED  BY <1>17, <1>18, <1>19, <1>20, <1>21, RowsBetweenCalls

LEMMA HeadOfPrefillTokens ==
  ASSUME IInv, TokenInv, HeadOfPrefill
  PROVE  TokenInv'
<1> DEFINE t == Target(1)
           n == Len(call.tokens)
           size == Len(logits[t])
           chunk == HeadChunk(size + 1, Norm("final", 0, hidden[n]))
<1>1. /\ ~Idle /\ call.phase = "head" /\ call.kind = "prefill" /\ call.wanted
      /\ size < HeadChunks /\ logits' = [logits EXCEPT ![t] = Append(logits[t], chunk)]
      /\ UNCHANGED <<states, ropes, prompt, call, hidden, buffers, ghost>>
  BY DEF HeadOfPrefill, After
<1>2. /\ t \in DOMAIN states /\ t = Len(states) /\ n \in Rows
      /\ Admitting /\ states # <<>> /\ Len(states) \in Nat /\ DOMAIN states = 1 .. Len(states)
      /\ Layer = Len(Layers)
  BY <1>1, InCall DEF Target, Rows, IInv, CallOK, PhaseOK
<1>3. IsSequence(logits) /\ Len(logits) = Len(states) /\ DOMAIN logits = DOMAIN states
  BY <1>2, SequenceFacts DEF TokenInv, LogitsReached
<1>4. PICK k \in 0 .. HeadChunks : logits[t] = HeadChunksOf(n, k)
  <2>1. CASE logits[t] = <<>>
    <3>1. HeadChunksOf(n, 0) = <<>>
      BY DEF HeadChunksOf
    <3>2. 0 \in 0 .. HeadChunks
      BY GeometryAssumption
    <3> QED  BY <2>1, <3>1, <3>2
  <2>2. CASE logits[t] # <<>>
    BY <1>2, <2>2 DEF TokenInv, LogitsReached
  <2> QED  BY <2>1, <2>2
<1>5. HeadChunks \in Nat /\ k \in Nat
  BY GeometryAssumption
<1>6. hidden[n] = Hidden(n, Len(Layers))
  BY <1>1, <1>2 DEF TokenInv, HiddenReached
<1> DEFINE final == Norm("final", 0, hidden[n])
           at(m) == [c \in 1 .. m |-> HeadChunk(c, final)]
<1>7. \A m : HeadChunksOf(n, m) = at(m)
  BY <1>6 DEF HeadChunksOf
<1>8. IsSequence(at(k)) /\ Len(at(k)) = k
  <2>1. at(k) = [c \in 1 .. k |-> at(k)[c]]
    OBVIOUS
  <2> HIDE DEF at
  <2> QED  BY <1>5, <2>1, SequenceOfFunction
<1>9. size = k /\ chunk = HeadChunk(k + 1, final)
  BY <1>4, <1>7, <1>8
<1> HIDE DEF final, n, t
<1>10. Append(at(k), HeadChunk(k + 1, final)) = at(k + 1)
  BY <1>5
<1>11. k + 1 \in 0 .. HeadChunks
  BY <1>1, <1>5, <1>9
<1>12. Append(logits[t], chunk) = HeadChunksOf(n, k + 1)
  BY <1>4, <1>7, <1>9, <1>10
<1> HIDE DEF chunk, size
<1>13. /\ IsSequence(logits') /\ Len(logits') = Len(states)
       /\ logits'[t] = HeadChunksOf(n, k + 1)
       /\ \A r \in DOMAIN states : r # t => logits'[r] = logits[r]
  <2> DEFINE new == HeadChunksOf(n, k + 1)
  <2>1. t \in DOMAIN logits /\ logits' = [logits EXCEPT ![t] = new]
    BY <1>1, <1>2, <1>3, <1>12
  <2> HIDE DEF new
  <2>2. /\ IsSequence(logits') /\ Len(logits') = Len(logits) /\ logits'[t] = new
        /\ \A r \in DOMAIN logits : r # t => logits'[r] = logits[r]
    BY <1>3, <2>1, SequenceExcept
  <2> QED  BY <1>3, <2>2 DEF new
<1>14. /\ \A r : Active(r)' <=> Active(r)
       /\ \A r : Result(r)' = Result(r)
       /\ Rows' = Rows
       /\ \A i, l : Hidden(i, l)' = Hidden(i, l)
  BY <1>1, SameCall
<1>15. \A i, m : HeadChunksOf(i, m)' = HeadChunksOf(i, m)
  <2> SUFFICES ASSUME NEW i, NEW m
               PROVE  HeadChunksOf(i, m)' = HeadChunksOf(i, m)
    OBVIOUS
  <2>1. Hidden(i, Len(Layers))' = Hidden(i, Len(Layers))
    BY <1>14
  <2> QED  BY <2>1 DEF HeadChunksOf
<1>16. LogitsReached'
  <2>1. \A r \in DOMAIN states' : ~(Admitting' /\ r = Len(states')) => logits'[r] = ghost'[r].logits
    BY <1>1, <1>2, <1>13 DEF TokenInv, LogitsReached, Admitting
  <2>2. /\ ~Idle' /\ call'.phase = "head" /\ call'.wanted
        /\ \E m \in 0 .. HeadChunks : logits'[Len(states')] = HeadChunksOf(Len(call.tokens), m)'
    BY <1>1, <1>2, <1>11, <1>13, <1>15 DEF Idle, n
  <2> QED  BY <1>1, <1>13, <2>1, <2>2 DEF LogitsReached
<1>17. RowsReached'
  <2> SUFFICES ASSUME NEW r \in DOMAIN states  PROVE RowReached(r)'
    BY <1>1 DEF RowsReached
  <2>1. RowReached(r)
    BY DEF TokenInv, RowsReached
  <2>2. AtLayer(r) => AtLayer(r)'
    BY <1>1, <1>14 DEF AtLayer, WholePhases, Layer
  <2> QED  BY <1>1, <1>14, <2>1, <2>2 DEF RowReached, Idle, Layer
<1>18. GhostsOK' /\ RopesOK' /\ WantedOK' /\ BuffersOK'
  BY <1>1 DEF TokenInv, GhostsOK, RopesOK, WantedOK, BuffersOK, Idle, NoBuffers
<1>19. HiddenReached'
  BY <1>1, <1>2, <1>14
     DEF TokenInv, HiddenReached, AttentionPhases, ExpertPhases, FullPhases, DecodePhases,
         PrefillPhases, Layer
<1>20. UnitsLeft' /\ FullBuffers' /\ LinearBuffers' /\ ExpertBuffers'
  BY <1>1 DEF FullPhases, DecodePhases, PrefillPhases, ExpertPhases, UnitsLeft, FullBuffers,
              LinearBuffers, ExpertBuffers
<1> QED  BY <1>16, <1>17, <1>18, <1>19, <1>20 DEF TokenInv

LEMMA StutterTokens ==
  ASSUME TokenInv, UNCHANGED vars
  PROVE  TokenInv'
<1>1. UNCHANGED <<states, ropes, logits, prompt, call, hidden, buffers, ghost>>
  BY DEF vars
<1>2. /\ \A r : Active(r)' <=> Active(r)
      /\ \A r, k : Stage(r, k)' = Stage(r, k)
      /\ \A r : Result(r)' = Result(r)
      /\ Rows' = Rows /\ Positions' = Positions /\ Units' = Units
      /\ \A i, l : Hidden(i, l)' = Hidden(i, l)
  BY <1>1, SameCall
<1>3. /\ Layer' = Layer
      /\ \A i : /\ Entering(i)' = Entering(i)
                /\ WantedInput(i)' = WantedInput(i)
                /\ WantedQuery(i)' = WantedQuery(i)
                /\ WantedAttended(i)' = WantedAttended(i)
                /\ WantedConvolved(i)' = WantedConvolved(i)
                /\ WantedResidual(i)' = WantedResidual(i)
                /\ WantedExpert(i)' = WantedExpert(i)
      /\ \A i, h : /\ WantedOperands(i, h)' = WantedOperands(i, h)
                   /\ WantedGated(i, h)' = WantedGated(i, h)
      /\ \A r : /\ MadeConvolution(r)' = MadeConvolution(r)
                /\ MadeRecurrent(r)' = MadeRecurrent(r)
  BY <1>1, SameLayer
<1>4. \A i, m : HeadChunksOf(i, m)' = HeadChunksOf(i, m)
  <2> SUFFICES ASSUME NEW i, NEW m
               PROVE  HeadChunksOf(i, m)' = HeadChunksOf(i, m)
    OBVIOUS
  <2>1. Hidden(i, Len(Layers))' = Hidden(i, Len(Layers))
    BY <1>2
  <2> QED  BY <2>1 DEF HeadChunksOf
<1>5. GhostsOK' /\ RopesOK' /\ WantedOK' /\ BuffersOK'
  BY <1>1 DEF TokenInv, GhostsOK, RopesOK, WantedOK, BuffersOK, Idle, NoBuffers
<1>6. LogitsReached'
  BY <1>1, <1>4 DEF TokenInv, LogitsReached, Admitting, Idle
<1>7. RowsReached'
  <2> SUFFICES ASSUME NEW r \in DOMAIN states  PROVE RowReached(r)'
    BY <1>1 DEF RowsReached
  <2>1. RowReached(r)
    BY DEF TokenInv, RowsReached
  <2>2. /\ Appending(r) => Appending(r)'
        /\ Sequencing(r) => Sequencing(r)'
    BY <1>1, <1>2, <1>3 DEF Appending, Sequencing
  <2>3. Uniting(r) => Uniting(r)'
    BY <1>1, <1>2, <1>3 DEF Uniting
  <2>4. WalkingBlocks(r) => WalkingBlocks(r)'
    BY <1>1, <1>2, <1>3 DEF WalkingBlocks
  <2>5. WalkingHeads(r) => WalkingHeads(r)'
    BY <1>1, <1>2, <1>3 DEF WalkingHeads
  <2>6. AtLayer(r) => AtLayer(r)'
    BY <1>1, <1>2, <1>3, <2>2, <2>3, <2>4, <2>5 DEF AtLayer
  <2> QED  BY <1>1, <1>2, <1>3, <2>1, <2>6 DEF RowReached, Idle
<1>8. ~Idle' => UnitsLeft' /\ HiddenReached' /\ FullBuffers'
  BY <1>1, <1>2, <1>3 DEF TokenInv, Idle, UnitsLeft, HiddenReached, FullBuffers
<1>9. ~Idle' => LinearBuffers'
  BY <1>1, <1>2, <1>3 DEF TokenInv, Idle, LinearBuffers, Holds, OutputAt, GatedAt
<1>10. ~Idle' => ExpertBuffers'
  <2>1. ~Idle' => ExpertBuffers
    BY <1>1 DEF TokenInv, Idle
  <2>2. [i \in Rows |-> Routes(Layer, WantedExpert(i))]' = [i \in Rows |-> Routes(Layer, WantedExpert(i))]
    BY <1>2, <1>3
  <2> QED  BY <1>1, <1>2, <1>3, <2>1, <2>2 DEF ExpertBuffers
<1> QED  BY <1>5, <1>6, <1>7, <1>8, <1>9, <1>10 DEF TokenInv

LEMMA NextTokens ==
  ASSUME IInv, TokenInv, TasksOK, [Next]_vars
  PROVE  TokenInv'
<1>0. IInv'
  BY NextKeeps
<1>1. ASSUME NEW p \in Prompts, Admit(p)  PROVE TokenInv'
  BY <1>1, AdmitTokens
<1>2. CASE Prefill \/ DecodeBatch \/ ContextExhausted
  BY <1>2, PrefillTokens, DecodeBatchTokens, ContextExhaustedTokens
<1>3. ASSUME NEW n \in DOMAIN states, Leave(n)  PROVE TokenInv'
  BY <1>3, LeaveTokens
<1>4. CASE AllocationFails \/ Cancelled
  BY <1>4, DropTokens DEF AllocationFails, Cancelled
<1>5. CASE FullLayer \/ AppendsDone \/ LinearLayer \/ PrefillLayer
  BY <1>0, <1>5, FullLayerTokens, AppendsDoneTokens, LinearLayerTokens, PrefillLayerTokens
<1>6. ASSUME NEW i, AppendRow(i) \/ AttendRow(i) \/ Sequence(i)  PROVE TokenInv'
  BY <1>0, <1>6, AppendRowTokens, AttendRowTokens, SequenceTokens
<1>7. ASSUME NEW b \in Blocks, BlockWalk(b)  PROVE TokenInv'
  BY <1>0, <1>7, BlockWalkTokens
<1>8. ASSUME NEW h \in Heads, HeadWalk(h)  PROVE TokenInv'
  BY <1>0, <1>8, HeadWalkTokens
<1>9. ASSUME NEW unit, HeadUnit(unit) \/ Gate(unit) \/ Gather(unit) \/ ExpertTask(unit)
      PROVE  TokenInv'
  BY <1>0, <1>9, HeadUnitTokens, GateTokens, GatherTokens, ExpertTaskTokens
<1>10. CASE FullDone \/ SequencesDone \/ LinearDone
  BY <1>0, <1>10, FullDoneTokens, SequencesDoneTokens, LinearDoneTokens
<1>11. CASE BlocksDone \/ HeadsDone \/ PrefillDone
  BY <1>0, <1>11, BlocksDoneTokens, HeadsDoneTokens, PrefillDoneTokens
<1>12. CASE Route \/ GatherDone \/ Reduce
  BY <1>0, <1>12, RouteTokens, GatherDoneTokens, ReduceTokens
<1>13. CASE DecodeDone \/ HeadOfPrefill \/ PrefillReturns
  BY <1>0, <1>13, DecodeDoneTokens, HeadOfPrefillTokens, PrefillReturnsTokens
<1>14. CASE Stopped \/ UNCHANGED vars
  BY <1>14, StutterTokens DEF Stopped
<1> QED
  BY <1>1, <1>2, <1>3, <1>4, <1>5, <1>6, <1>7, <1>8, <1>9, <1>10, <1>11, <1>12, <1>13, <1>14
     DEF Next

(* A row's state and logits are those decode_token gives for its tokens,    *)
(* one after another, for any layers and kernels: whatever rows it is       *)
(* batched with, however its prompt is cut into chunks, in whatever order   *)
(* the workers take the units of a phase, and whatever calls fail.          *)
THEOREM BatchingChangesNoToken ==
  ASSUME ScoresAreNumbers
  PROVE  Spec => []BatchIsTokenByToken
<1>1. Init => IInv /\ TasksOK /\ TokenInv
  BY InitOK, InitTokens DEF Init, TasksOK, Idle
<1>2. IInv /\ TasksOK /\ TokenInv /\ [Next]_vars => (IInv /\ TasksOK /\ TokenInv)'
  BY NextKeeps, NextTasks, NextTokens
<1>3. ASSUME IInv, TokenInv  PROVE BatchIsTokenByToken
  BY <1>3, BetweenCalls DEF BatchIsTokenByToken
<1>4. IInv /\ TokenInv => BatchIsTokenByToken
  BY <1>3
<1> QED  BY <1>1, <1>2, <1>4, PTL DEF Spec
=============================================================================
