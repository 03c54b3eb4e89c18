----------------------------- MODULE MCExecutor -----------------------------
(* Three layers, so that each kind feeds another one; two value heads share *)
(* a key head; three experts, two per token, so that a chunk of three       *)
(* tokens gives an expert more rows than a task takes.                      *)
EXTENDS Executor

MCLayers == <<"linear", "full", "linear">>
MCTokens == {0, 1}
MCPrompts == {<<0, 1, 0, 1>>, <<1, 1>>}

Names == <<"norm input", "norm post", "norm final", "add", "router", "softmax",
           "expert", "shared", "shared gate", "multiply add", "rope", "query",
           "key", "value", "attend", "full output", "qkv", "convolution",
           "l2 norm", "decay", "delta state", "delta output", "gate",
           "linear output", "embedding", "head">>
Codes == [name \in Range(Names) |-> CHOOSE n \in DOMAIN Names : Names[n] = name]

(* a fixed pseudo-random function of the kernel and its operands *)
MCKernel(name, operands) ==
  FoldLeft(LAMBDA sum, x : (sum * ((x % 211) + 3) + x) % 9999991, Codes[name] * 7919, operands)
=============================================================================
