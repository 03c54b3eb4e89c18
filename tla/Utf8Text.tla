------------------------------- MODULE Utf8Text -------------------------------
(***************************************************************************)
(* Texts (std::string) as sequences of bytes, and UTF-8 (src/utf8.cpp).    *)
(*                                                                         *)
(* A word the program itself writes (a tag of the chat format, a JSON key, *)
(* a role) is one symbol, from Tag on; it behaves as an ASCII character.   *)
(*                                                                         *)
(* A definition whose comment begins with "Mutant" is a slip the code does *)
(* not make, for the property that would find it; no other one uses it.    *)
(***************************************************************************)
EXTENDS Integers, Sequences, SequencesExt, TLC

Tag == 2000000
TagWords ==
  <<"<tool_call>", "</tool_call>", "<function=", "</function>", "<parameter=", "</parameter>",
    "<think>", "</think>", "<tool_response>", "</tool_response>", "<|im_start|>", "<|im_end|>",
    "tools prompt", "tools prompt end",
    "type", "object", "properties", "required", "additionalProperties", "parameters",
    "function", "name", "description", "strict", "string", "number", "integer", "boolean",
    "array", "null", "input", "output", "instructions", "tools", "tool_choice", "auto", "none",
    "parallel_tool_calls", "previous_response_id", "message", "function_call",
    "function_call_output", "call_id", "arguments", "role", "content", "system", "developer",
    "user", "assistant", "tool", "text", "input_text", "output_text", "id", "status",
    "completed", "incomplete", "annotations", "resp_", "msg_", "fc_", "call_",
    "model", "stream", "max_output_tokens", "temperature", "top_p", "seed", "error", "usage">>
\* a sequence, each element of which is worked out once
Eager(seq) == seq \o <<>>

\* FlattenSeq by halves, for texts longer than TLC can go through one by one
RECURSIVE FlatRange(_, _, _)
FlatRange(seqs, i, j) ==
  CASE i > j -> <<>>
    [] i = j -> seqs[i]
    [] OTHER -> FlatRange(seqs, i, (i + j) \div 2) \o FlatRange(seqs, (i + j) \div 2 + 1, j)
Flat(seqs) == FlatRange(Eager(seqs), 1, Len(seqs))

Words ==
  [word \in Range(TagWords) |-> <<Tag + (CHOOSE i \in DOMAIN TagWords : TagWords[i] = word)>>] @@ <<>>
W(word) == Words[word]

At(text, p) == IF p \in DOMAIN text THEN text[p] ELSE -1
From(text, p) == SubSeq(text, p, Len(text))

\* positions of a symbol, and the first or the last of them; npos is 0
Places(text, symbol, p) == {q \in p .. Len(text) : text[q] = symbol}
Find(text, symbol, p) ==
  LET First(places) == IF places = {} THEN 0 ELSE Min(places) IN First(Places(text, symbol, p))
FindLast(text, symbol) == Max({0} \cup Places(text, symbol, 1))

NewLine == 10
SpaceByte == 32

-----------------------------------------------------------------------------
(* scan_utf8, one character at a time *)

Ascii(byte) == byte \in 0 .. 127 \/ byte >= Tag
Continuation(byte) == byte \in 128 .. 191

\* how long a character its first byte begins, with the bits it holds and the
\* smallest codepoint of that length
Lead(byte) ==
  CASE byte \in 194 .. 223 -> [length |-> 2, bits |-> byte % 32, minimum |-> 128]
    [] byte \in 224 .. 239 -> [length |-> 3, bits |-> byte % 16, minimum |-> 2048]
    [] byte \in 240 .. 244 -> [length |-> 4, bits |-> byte % 8, minimum |-> 65536]
    [] OTHER -> [length |-> 0, bits |-> 0, minimum |-> 0]

\* neither overlong, nor too large, nor a surrogate
Fits(codepoint, lead) == codepoint \in lead.minimum .. 1114111 /\ codepoint \notin 55296 .. 57343

Codepoint(bytes) ==
  IF Ascii(bytes[1]) THEN bytes[1]
  ELSE FoldLeft(LAMBDA value, byte : (value * 64) + (byte % 64), Lead(bytes[1]).bits, Tail(bytes))

\* what begins at p: its status, and how many bytes it or the error takes
Scan(text, p) ==
  LET Of(lead, bytes) ==
        IF Ascii(text[p]) THEN [status |-> "valid", length |-> 1]
        ELSE IF lead.length = 0 \/ \E i \in 2 .. Len(bytes) : ~Continuation(bytes[i])
        THEN [status |-> "invalid", length |-> 1]
        ELSE IF Len(bytes) < lead.length THEN [status |-> "incomplete", length |-> Len(bytes)]
        ELSE [status |-> IF Fits(Codepoint(bytes), lead) THEN "valid" ELSE "invalid", length |-> lead.length]
      Begun(lead) == Of(lead, SubSeq(text, p, Min({p + lead.length - 1, Len(text)})))
  IN Begun(Lead(text[p]))

\* where something begins that is no character, read from p on
Broken(text, p) ==
  {q \in p .. Len(text) :
     IF Continuation(text[q])
     THEN ~\E r \in q - 3 .. q - 1 : r >= p /\ ~Continuation(text[r]) /\ r + Scan(text, r).length > q
     ELSE Scan(text, q).status # "valid"}

\* valid_utf8
ValidUtf8(text) == Broken(text, 1) = {}

Replacement == <<239, 191, 189>>

RECURSIVE Sanitized(_, _)
\* sanitize_utf8 of the text from p on
Sanitized(text, p) ==
  LET Replaced(q, scan) ==
        SubSeq(text, p, q - 1) \o Replacement
        \o (IF scan.status = "incomplete" THEN <<>> ELSE Sanitized(text, q + scan.length))
      Cut(q) == Replaced(q, Scan(text, q))
      Without(broken) == IF broken = {} THEN From(text, p) ELSE Cut(Min(broken))
  IN Without(Broken(text, p))

\* utf8_codepoints of a valid text
Codepoints(text) ==
  LET starts == SelectSeq(Eager([p \in DOMAIN text |-> p]), LAMBDA p : ~Continuation(text[p]))
  IN Eager([i \in DOMAIN starts |->
              Codepoint(SubSeq(text, starts[i], IF i = Len(starts) THEN Len(text) ELSE starts[i + 1] - 1))])

\* append_utf8
Utf8(codepoint) ==
  LET Low(shift) == 128 + ((codepoint \div shift) % 64)
  IN CASE codepoint <= 127 \/ codepoint >= Tag -> <<codepoint>>
       [] codepoint \in 128 .. 2047 -> <<192 + codepoint \div 64, Low(1)>>
       [] codepoint \in 2048 .. 65535 -> <<224 + codepoint \div 4096, Low(64), Low(1)>>
       [] OTHER -> <<240 + codepoint \div 262144, Low(4096), Low(64), Low(1)>>

CodepointsUtf8(codepoints) == Flat([i \in DOMAIN codepoints |-> Utf8(codepoints[i])])
=============================================================================
