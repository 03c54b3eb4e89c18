------------------------------ MODULE ToolCalls ------------------------------
(***************************************************************************)
(* The tools a request offers, and the calls of them that are read out of  *)
(* what the model wrote (src/tool_call.cpp).  A result that may be an      *)
(* error is a sequence of at most one value; a position that is Failed is  *)
(* one too.                                                                *)
(***************************************************************************)
EXTENDS JsonText

CONSTANTS
  MaxNameLength,   \* of a function or a parameter (64)
  MaxTools         \* in a request (128)

ToolOpen == W("<tool_call>")
ToolClose == W("</tool_call>")
FunctionOpen == W("<function=")
FunctionClose == W("</function>")
ParameterOpen == W("<parameter=")
ParameterClose == W("</parameter>")
ThinkClose == W("</think>")
TagEnd == 62

\* the one symbol of a word
Symbol(word) == word[1]

NameBytes == 97 .. 122 \cup 65 .. 90 \cup 48 .. 57 \cup {95, 45}
ValidName(name) == Len(name) \in 1 .. MaxNameLength /\ Range(name) \subseteq NameBytes

-----------------------------------------------------------------------------
(* The definitions in the request *)

IsText(value, word) == value = Str(W(word))
EmptyParameters == Obj(<< <<W("type"), Str(W("object"))>>, <<W("properties"), Obj(<<>>)>> >>)

ParametersOk(parameters) ==
  LET Absent(key) == Member(parameters, W(key)) = <<>>
      Field(key) == Member(parameters, W(key))[1]
      NameOk(name) == Is(name, "string") /\ ValidName(name[2])
  IN /\ Is(parameters, "object")
     /\ Absent("type") \/ IsText(Field("type"), "object")
     /\ Absent("properties") \/ Is(Field("properties"), "object")
     /\ \/ Absent("required")
        \/ Is(Field("required"), "array") /\ \A i \in DOMAIN Field("required")[2] : NameOk(Field("required")[2][i])

\* an optional field, or its default
FieldOr(value, key, default) ==
  IF Member(value, W(key)) = <<>> THEN default ELSE Member(value, W(key))[1]

FunctionTool(item) ==
  LET Of(name, description, strict, parameters) ==
        LET typed == << <<W("type"), Str(W("function"))>> >>
            named == << <<W("name"), Str(name)>> >>
                     \o IF description = Str(<<>>) THEN <<>> ELSE << <<W("description"), description>> >>
        IN IF ValidName(name) /\ Is(description, "string") /\ strict = Bool(FALSE) /\ ParametersOk(parameters)
           THEN << [name |-> name,
                    parameters |-> parameters,
                    response |-> Obj(typed \o named \o << <<W("parameters"), parameters>>,
                                                          <<W("strict"), Bool(FALSE)>> >>),
                    prompt |-> Obj(Append(typed, <<W("function"),
                                                   Obj(Append(named, <<W("parameters"), parameters>>))>>))] >>
           ELSE <<>>
  IN IF Member(item, W("type")) = <<Str(W("function"))>> /\ Has(item, W("name"), "string")
     THEN Of(Get(item, W("name")), FieldOr(item, "description", Str(<<>>)),
             FieldOr(item, "strict", Bool(FALSE)), FieldOr(item, "parameters", EmptyParameters))
     ELSE <<>>

\* parse_function_tools
FunctionTools(value) ==
  LET All(read) ==
        IF \/ Len(read) > MaxTools \/ <<>> \in Range(read)
           \/ \E i \in DOMAIN read : \E j \in 1 .. i - 1 : read[j][1].name = read[i][1].name
        THEN <<>> ELSE << Flat(read) >>
  IN IF Is(value, "array") THEN All(Eager([i \in DOMAIN value[2] |-> FunctionTool(value[2][i])])) ELSE <<>>

-----------------------------------------------------------------------------
(* One argument of a call *)

PropertySchema(tool, name) ==
  IF Has(tool.parameters, W("properties"), "object")
  THEN Member(Member(tool.parameters, W("properties"))[1], name) ELSE <<>>

HasType(value, type) ==
  \/ type \in {W("number"), W("boolean"), W("array"), W("object"), W("null")} /\ W(value[1]) = type
  \/ type = W("integer") /\ Is(value, "number") /\ value[2].exponent >= 0

TypedArgument(tool, name, text) ==
  LET Untyped(parsed) == IF parsed = <<>> THEN <<Str(text)>> ELSE parsed
      Typed(type, parsed) ==
        CASE ~Is(type, "string") -> <<>>
          [] type = Str(W("string")) -> <<Str(text)>>
          [] OTHER -> IF parsed # <<>> /\ HasType(parsed[1], type[2]) THEN parsed ELSE <<>>
      BySchema(schema, type, parsed) ==
        IF ~Is(schema, "object") THEN <<>> ELSE IF type = <<>> THEN Untyped(parsed) ELSE Typed(type[1], parsed)
      Of(schema) ==
        IF schema # <<>> THEN BySchema(schema[1], Member(schema[1], W("type")), ParseJson(text))
        ELSE IF Member(tool.parameters, W("additionalProperties")) = <<Bool(FALSE)>> THEN <<>>
        ELSE <<Str(text)>>
  IN Of(PropertySchema(tool, name))

RequiredGiven(tool, arguments) ==
  \/ Member(tool.parameters, W("required")) = <<>>
  \/ Range(Get(tool.parameters, W("required"))) \subseteq {Str(arguments[i][1]) : i \in DOMAIN arguments}

-----------------------------------------------------------------------------
(* The calls the model wrote *)

NoTag == [p |-> Failed, name |-> <<>>]

\* parse_tag_name: the name, and what follows the tag
TagName(output, p, opening) ==
  LET Of(end, name) == IF end = 0 \/ ~ValidName(name) THEN NoTag ELSE [p |-> end + 1, name |-> name]
      UpTo(end) == Of(end, SubSeq(output, p + 1, end - 1))
  IN IF At(output, p) = Symbol(opening) THEN UpTo(Find(output, TagEnd, p + 1)) ELSE NoTag

\* the line breaks next to the tags are not of the value
Unwrapped(text) ==
  LET Closed(opened) == IF At(opened, Len(opened)) = NewLine THEN Front(opened) ELSE opened
  IN Closed(IF At(text, 1) = NewLine THEN Tail(text) ELSE text)

RECURSIVE Arguments(_, _, _, _)
NoArguments == [p |-> Failed, arguments |-> <<>>]

\* after a parameter of that value
Argument(output, tool, read, tag, end, value) ==
  IF end = 0 \/ value = <<>> \/ \E i \in DOMAIN read : read[i][1] = tag.name THEN NoArguments
  ELSE Arguments(output, Whitespace(output, end + 1), tool, Append(read, <<tag.name, value[1]>>))

\* after the tag of a parameter, which ends at end
ArgumentUpTo(output, tool, read, tag, end) ==
  Argument(output, tool, read, tag, end,
           TypedArgument(tool, tag.name, Unwrapped(SubSeq(output, tag.p, end - 1))))

\* the parameters from p on, after those already read
Arguments(output, p, tool, read) ==
  LET Tagged(tag) == IF tag.p = Failed THEN NoArguments
                     ELSE ArgumentUpTo(output, tool, read, tag, Find(output, Symbol(ParameterClose), tag.p))
  IN IF At(output, p) = Symbol(ParameterOpen) THEN Tagged(TagName(output, p, ParameterOpen))
     ELSE [p |-> p, arguments |-> read]

NoCall == [p |-> Failed, call |-> <<>>]

\* the call of that function, if it is one of the tools
CallWith(output, function, found) ==
  LET Closed(read, close) ==
        IF \/ At(output, read.p) # Symbol(FunctionClose) \/ At(output, close) # Symbol(ToolClose)
           \/ ~RequiredGiven(found[1], read.arguments)
        THEN NoCall
        ELSE [p |-> close + 1, call |-> << [name |-> function.name, arguments |-> Obj(read.arguments)] >>]
      Given(read) == IF read.p = Failed THEN NoCall ELSE Closed(read, Whitespace(output, read.p + 1))
  IN IF function.p = Failed \/ found = <<>> THEN NoCall
     ELSE Given(Arguments(output, Whitespace(output, function.p), found[1], <<>>))

\* parse_call: the call that begins at p, and what follows it
Call(output, p, tools) ==
  LET Named(function) == CallWith(output, function, SelectSeq(tools, LAMBDA tool : tool.name = function.name))
  IN Named(TagName(output, Whitespace(output, p + 1), FunctionOpen))

RECURSIVE Calls(_, _, _, _)
Calls(output, p, tools, read) ==
  LET Then(call, next) ==
        CASE call.p # Failed /\ next > Len(output) -> <<read \o call.call>>
          [] call.p # Failed /\ At(output, next) = Symbol(ToolOpen) -> Calls(output, next, tools, read \o call.call)
          [] OTHER -> <<>>
      Of(call) == Then(call, Whitespace(output, call.p))
  IN Of(Call(output, p, tools))

\* parse_tool_calls
ParseToolCalls(output, tools, parallel) ==
  LET first == Find(output, Symbol(ToolOpen), 1)
      Text(said) == IF said # <<>> /\ Find(said, Symbol(ThinkClose), 1) = 0
                    THEN said \o <<NewLine>> \o ThinkClose ELSE said
      With(calls) ==
        IF calls = <<>> \/ (~parallel /\ Len(calls[1]) > 1) THEN <<>>
        ELSE << [text |-> Text(SubSeq(output, 1, first - 1)), calls |-> calls[1]] >>
  IN IF first = 0 THEN << [text |-> output, calls |-> <<>>] >> ELSE With(Calls(output, first, tools, <<>>))
=============================================================================
