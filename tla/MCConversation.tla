---------------------------- MODULE MCConversation ----------------------------
(***************************************************************************)
(* A small conversation: two questions, bodies that are mostly refused, two*)
(* tools, nine things the model may write, and a Unicode of a few letters. *)
(***************************************************************************)
EXTENDS Conversation

\* S, e with acute (233) and with dot below (7865), three Hangul letters and their syllable
MCLetters == 97 .. 122 \cup {83, 233, 7865, 4370, 4449, 4520, 54617}
MCNumbers == 48 .. 57
MCMarks == {769, 803}
MCSpaces == {9, 10, 11, 12, 13, 32, 133, 160}
MCCombiningClasses == << <<769, 230>>, <<803, 220>> >>
MCDecompositions == << <<233, <<101, 769>>>>, <<7865, <<101, 803>>>> >>
MCCompositions == << <<101, 769, 233>>, <<101, 803, 7865>> >>
MCCasefolds == << <<83, 115>> >>

MCMerges == << << <<34>>, <<58>> >>, << <<34, 58>>, <<34>> >>, << <<266>>, <<266>> >>, << <<195>>, <<169>> >> >>
MCSpecials == {Symbol(W(word)) : word \in {"<|im_start|>", "<|im_end|>", "<think>", "</think>",
                                           "<tool_call>", "</tool_call>"}}

\* the rules of tests/bpe_test.cpp, and rules whose better pairs appear only after worse ones
A == <<97>>
B == <<98>>
C == <<99>>
MCBpeTables ==
  { << <<A, B>>, <<B, C>>, <<A \o B, C>>, <<A, A>>, <<A \o A, A \o A>>, <<A \o B, A \o B>>,
       <<A \o B \o A \o B, C>> >>,
    << <<A \o A, B>>, <<B, A \o A>>, <<B, A>>, <<A, A>> >> }
MCBpeInputs == UNION {[1 .. n -> {A, B, C}] : n \in 0 .. 6}

MCModelName == <<109>>
Option(key, value) == << <<W(key), value>> >>
Integer(n) == Number([negative |-> FALSE, mantissa |-> n, exponent |-> 0])
Question(text, members) == [text |-> text, members |-> members]
MCQuestions ==
  { \* e + acute + dot below, 'S, a digit, Hangul, line breaks, an emoji and spaces; with tools
    Question(CodepointsUtf8(<<101, 769, 803, 39, 83, 32, 52, 4370, 4449, 4520, 10, 10, 128512, 32, 32, 97>>),
             Option("instructions", Str(<<105>>))),
    \* characters JSON escapes, no tools, options
    Question(<<34, 92, 1, 9, 47, 10>>,
             Option("tool_choice", Str(W("none"))) \o Option("parallel_tool_calls", Bool(FALSE))
             \o Option("max_output_tokens", Integer(5)) \o Option("stream", Bool(TRUE))
             \o Option("temperature", Number([negative |-> FALSE, mantissa |-> 7, exponent |-> -1]))) }

Typed(name, type) == <<name, Obj(Option("type", Str(W(type))))>>
F == <<102>>
G == <<103>>
MCToolDefinitions ==
  << Obj(Option("type", Str(W("function"))) \o Option("name", Str(F))
         \o Option("parameters",
                   Obj(Option("type", Str(W("object")))
                       \o Option("properties", Obj(<<Typed(<<115>>, "string"), Typed(<<110>>, "integer"),
                                                     << <<117>>, Obj(<<>>) >> >>))
                       \o Option("required", Arr(<<Str(<<115>>)>>))))),
     Obj(Option("type", Str(W("function"))) \o Option("name", Str(G)) \o Option("strict", Bool(FALSE))
         \o Option("parameters", Obj(Option("additionalProperties", Bool(FALSE))))) >>

Quoted(text) == <<Quote>> \o text \o <<Quote>>
\* {"input":"..."} as it is written
InputBody(text) == <<123>> \o Quoted(W("input")) \o <<Colon>> \o Quoted(text) \o <<125>>
UnicodeOf(hex) == <<Backslash, 117>> \o hex
Items(items) == Dump(Obj(Option("input", Arr(items))))
Saying(role, text) == Obj(Option("role", Str(W(role))) \o Option("content", Str(text)))
Refusable(member) == Dump(Obj(Option("input", Str(<<97>>)) \o Option("model", Str(MCModelName)) \o member))
MCOtherBodies ==
  { InputBody(UnicodeOf(<<100, 56, 51, 100>>) \o UnicodeOf(<<100, 69, 48, 48>>) \o <<Backslash, 47>>),
    InputBody(UnicodeOf(<<100, 56, 51, 100>>)),
    InputBody(<<195, 40>>),
    InputBody(<<10>>),
    InputBody(<<97>>) \o <<32, 120>>,
    Items(<<Saying("user", <<97>>), Saying("system", <<98>>)>>),
    Items(<<Saying("developer", <<97>>), Saying("system", <<98>>), Saying("user", <<99>>)>>),
    Items(<<Saying("assistant", <<97>>)>>),
    Items(<<Obj(Option("type", Str(W("function_call_output"))) \o Option("call_id", Str(<<97>>))
                \o Option("output", Str(<<97>>)))>>),
    Items(<<Obj(Option("type", Str(W("function_call"))) \o Option("call_id", Str(<<97>>))
                \o Option("name", Str(F)) \o Option("arguments", Str(<<91, 93>>)))>>),
    Refusable(Option("tools", Arr(<<MCToolDefinitions[2], MCToolDefinitions[2]>>))),
    Refusable(Option("previous_response_id", Str(<<97>>))),
    Refusable(Option("tool_choice", Str(W("object")))),
    Refusable(Option("max_output_tokens", Integer(0))),
    Refusable(Option("seed", Number([negative |-> FALSE, mantissa |-> 15, exponent |-> -1]))),
    Refusable(Option("top_p", Number([negative |-> FALSE, mantissa |-> 1, exponent |-> 39]))),
    Refusable(Option("model", Str(MCModelName))) }

MCToolOutputs ==
  {Str(<<114, 10>>), Arr(<<Obj(Option("type", Str(W("input_text"))) \o Option("text", Str(<<34>>)))>>)}

Parameter(name, value) == ParameterOpen \o name \o <<TagEnd, NewLine>> \o value \o <<NewLine>> \o ParameterClose
CallOf(name, parameters) ==
  ToolOpen \o <<NewLine>> \o FunctionOpen \o name \o <<TagEnd, NewLine>> \o parameters
  \o FunctionClose \o <<NewLine>> \o ToolClose
SArgument == Parameter(<<115>>, <<34, 92, 10, 32>>)
Brackets == [i \in 1 .. 7 |-> 91] \o [i \in 1 .. 7 |-> 93]
Completed(text) == [text |-> text, status |-> "completed"]
MCModelOutputs ==
  { [text |-> <<111, 195, 40, 226, 130>>, status |-> "incomplete"],
    Completed(<<116>> \o ThinkClose \o <<10, 10, 104, 105>>),
    \* a second argument {"k":[true,null,0.001]}
    Completed(CallOf(F, SArgument \o Parameter(<<117>>, <<123, 34, 107, 34, 58, 91, 116, 114, 117, 101, 44,
                                   110, 117, 108, 108, 44, 48, 46, 48, 48, 49, 93, 125>>))),
    Completed(<<97>> \o CallOf(F, SArgument \o <<NewLine>> \o Parameter(<<110>>, <<45, 49, 46, 53, 48, 101, 50>>))
              \o <<NewLine>> \o CallOf(G, <<>>)),
    Completed(CallOf(F, SArgument \o Parameter(<<117>>, Brackets))),
    [text |-> CallOf(G, <<>>), status |-> "incomplete"],
    Completed(CallOf(F, SArgument \o Parameter(<<110>>, <<49, 46, 53>>))),
    Completed(CallOf(G, SArgument)),
    Completed(CallOf(G, <<>>) \o <<97>>) }
=============================================================================
