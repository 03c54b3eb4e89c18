----------------------------- MODULE Conversation -----------------------------
(***************************************************************************)
(* A conversation over /v1/responses (src/server.cpp): the server keeps    *)
(* none of it, so the client sends it whole with every request, as the     *)
(* items the server answered with and the outputs of the tools it called.  *)
(* A request is read (JsonText), checked, written as a prompt (ChatPrompt),*)
(* encoded piece by piece (Tokenizer), answered, and the answer written.   *)
(***************************************************************************)
EXTENDS ChatPrompt, Tokenizer

CONSTANTS
  ModelName,       \* of the loaded model
  ToolDefinitions, \* what the client gives as "tools"
  Questions,       \* what a user may ask: a text, and further members of the request
  OtherBodies,     \* bodies other clients send
  ToolOutputs,     \* what a tool may answer, as JSON
  ModelOutputs,    \* what the model may write, and whether it ends there
  MaxU32,          \* the largest integer option (2^32 - 1)
  MaxFloatExponent,\* of a finite float (38)
  MaxRequests, MaxFailures, \* bounds of a check
  BpeTables, BpeInputs      \* merges and symbols that bpe_merge is compared on

-----------------------------------------------------------------------------
(* The options of a request *)

\* a number's value, or above the limit when it is not small
Whole(number, limit) ==
  IF number.exponent > 4 THEN limit + 1
  ELSE number.mantissa * (CASE number.exponent = 1 -> 10 [] number.exponent = 2 -> 100
                            [] number.exponent = 3 -> 1000 [] number.exponent = 4 -> 10000 [] OTHER -> 1)

\* integer_option and optional_u32_option, from the least value allowed on
IntegerOk(root, key, least) ==
  LET value == Member(root, W(key))
  IN \/ value = <<>>
     \/ /\ Is(value[1], "number") /\ value[1][2].exponent >= 0
        /\ ~value[1][2].negative \/ value[1][2].mantissa = 0
        /\ Whole(value[1][2], MaxU32) \in least .. MaxU32

\* float_option: neither infinite nor flushed to zero
FloatOk(root, key) ==
  LET value == Member(root, W(key))
      n == value[1][2]
      power == n.exponent + Len(Digits(n.mantissa)) - 1
  IN \/ value = <<>>
     \/ Is(value[1], "number") /\ (n.mantissa = 0 \/ power \in -MaxFloatExponent - 7 .. MaxFloatExponent)

OptionsOk(root) ==
  /\ IntegerOk(root, "max_output_tokens", 1)
  /\ FloatOk(root, "temperature") /\ FloatOk(root, "top_p")
  /\ IntegerOk(root, "seed", 0)

ModelOk(root) == Member(root, W("model")) \in {<<>>, <<Str(ModelName)>>}

-----------------------------------------------------------------------------
(* The messages of a request *)

NoMessages == <<>>

PartOk(part) ==
  /\ Has(part, W("type"), "string") /\ Has(part, W("text"), "string")
  /\ Get(part, W("type")) \in {W("input_text"), W("output_text")}

\* content_text: at most one text
ContentText(content) ==
  CASE Is(content, "string") -> <<content[2]>>
    [] Is(content, "array") ->
         IF \A i \in DOMAIN content[2] : PartOk(content[2][i])
         THEN << Flat([i \in DOMAIN content[2] |-> Get(content[2][i], W("text"))]) >>
         ELSE <<>>
    [] OTHER -> <<>>

\* what has been read of the input: its messages and calls, or an error
Reading == [ok |-> TRUE, messages |-> NoMessages, ids |-> {}]
Refused(read) == [read EXCEPT !.ok = FALSE]
Said(read, message) == [read EXCEPT !.messages = Append(@, message)]

\* append_system_message
AppendSystem(read, text) ==
  LET first == read.messages[1]
      between == IF first.content # <<>> /\ text # <<>> THEN Line \o Line ELSE <<>>
  IN CASE read.messages = <<>> -> Said(read, Message("system", text))
       [] Len(read.messages) = 1 /\ first.role = System ->
            [read EXCEPT !.messages[1].content = @ \o between \o text]
       [] OTHER -> Refused(read)

\* the messages with an assistant's at the end
Joined(messages) ==
  IF messages # <<>> /\ messages[Len(messages)].role = Assistant
  THEN messages ELSE Append(messages, Message("assistant", <<>>))

\* append_function_call
AppendCall(read, item) ==
  LET HasText(key) == Has(item, W(key), "string")
      Joining(id, name, arguments, messages) ==
        IF /\ id # <<>> /\ name # <<>> /\ id \notin read.ids
           /\ arguments # <<>> /\ Is(arguments[1], "object")
        THEN [read EXCEPT !.ids = @ \cup {id},
                          !.messages = [messages EXCEPT ![Len(messages)].calls =
                                          Append(@, [name |-> name, arguments |-> arguments[1]])]]
        ELSE Refused(read)
  IN IF HasText("call_id") /\ HasText("name") /\ HasText("arguments")
     THEN Joining(Get(item, W("call_id")), Get(item, W("name")), ParseJson(Get(item, W("arguments"))),
                  Joined(read.messages))
     ELSE Refused(read)

\* append_function_output
AppendOutput(read, item) ==
  LET Of(output, text) ==
        IF /\ Has(item, W("call_id"), "string") /\ Get(item, W("call_id")) \in read.ids
           /\ output # <<>> /\ text # <<>>
        THEN Said(read, Message("tool", text[1])) ELSE Refused(read)
      Given(output) == Of(output, ContentText(output[1]))
  IN Given(Member(item, W("output")))

AppendMessage(read, item) ==
  LET Of(role, text) ==
        CASE text = <<>> -> Refused(read)
          [] text # <<>> /\ role \in {System, W("developer")} -> AppendSystem(read, text[1])
          [] text # <<>> /\ role \in {User, Assistant} ->
               Said(read, [Message("user", text[1]) EXCEPT !.role = role])
          [] OTHER -> Refused(read)
  IN IF Has(item, W("role"), "string") /\ Member(item, W("content")) # <<>>
     THEN Of(Get(item, W("role")), ContentText(Member(item, W("content"))[1])) ELSE Refused(read)

AppendItem(read, item) ==
  LET Of(type) == CASE type = <<Str(W("function_call"))>> -> AppendCall(read, item)
                    [] type = <<Str(W("function_call_output"))>> -> AppendOutput(read, item)
                    [] type \in {<<>>, <<Str(W("message"))>>} -> AppendMessage(read, item)
                    [] OTHER -> Refused(read)
  IN IF Is(item, "object") THEN Of(Member(item, W("type"))) ELSE Refused(read)

RECURSIVE ReadItems(_, _)
ReadItems(read, items) ==
  IF ~read.ok \/ items = <<>> THEN read ELSE ReadItems(AppendItem(read, Head(items)), Tail(items))

\* the messages of the input, after the instructions
InputMessages(input, instructed) ==
  CASE Is(input, "string") -> Said(instructed, Message("user", input[2]))
    [] Is(input, "array") -> IF input[2] = <<>> THEN Refused(instructed) ELSE ReadItems(instructed, input[2])
    [] OTHER -> Refused(instructed)

\* response_messages
ResponseMessages(root) ==
  LET input == Member(root, W("input"))
      Instructed(instructions) ==
        CASE instructions \in {<<>>, <<Null>>} -> Reading
          [] OTHER -> IF Is(instructions[1], "string") THEN AppendSystem(Reading, instructions[1][2])
                      ELSE Refused(Reading)
  IN IF input = <<>> THEN Refused(Reading)
     ELSE InputMessages(input[1], Instructed(Member(root, W("instructions"))))

-----------------------------------------------------------------------------
(* prepare_request *)

NoRequest == [ok |-> FALSE, prompt |-> <<>>, messages |-> <<>>, tools |-> <<>>, enabled |-> FALSE,
              choice |-> <<>>, parallel |-> FALSE]

\* with the tools and the choice of the request, and its messages and prompt
Prepared(root, tools, choice, read, prompt) ==
  IF read.ok /\ prompt # <<>>
  THEN [ok |-> TRUE, prompt |-> prompt[1], messages |-> read.messages, tools |-> tools,
        enabled |-> choice = W("auto") /\ tools # <<>>, choice |-> choice,
        parallel |-> IF Member(root, W("parallel_tool_calls")) = <<>> THEN tools # <<>>
                     ELSE Get(root, W("parallel_tool_calls"))]
  ELSE NoRequest

Prompted(root, tools, choice) ==
  LET Read(read) == Prepared(root, tools, choice, read,
                             ChatText(read.messages, IF choice = W("auto") THEN tools ELSE <<>>))
  IN IF choice \in {W("auto"), W("none")} THEN Read(ResponseMessages(root)) ELSE NoRequest

\* with the tools as they were read, at most one sequence of them
WithTools(root, read) ==
  LET tools == read[1]
      choice == IF Member(root, W("tool_choice")) # <<>> THEN Member(root, W("tool_choice"))[1]
                ELSE Str(W(IF tools = <<>> THEN "none" ELSE "auto"))
  IN IF read # <<>> /\ Is(choice, "string") THEN Prompted(root, tools, choice[2]) ELSE NoRequest

PrepareRequest(root) ==
  IF /\ Member(root, W("previous_response_id")) \in {<<>>, <<Null>>}
     /\ Member(root, W("parallel_tool_calls")) = <<>> \/ Has(root, W("parallel_tool_calls"), "boolean")
  THEN WithTools(root, IF Member(root, W("tools")) \in {<<>>, <<Null>>} THEN << <<>> >>
                       ELSE FunctionTools(Member(root, W("tools"))[1]))
  ELSE NoRequest

\* handle_client up to the generation, with the body as it was parsed
HandledJson(parsed) ==
  LET root == parsed[1]
  IN IF /\ parsed # <<>> /\ Is(root, "object")
        /\ Member(root, W("stream")) = <<>> \/ Has(root, W("stream"), "boolean")
        /\ ModelOk(root) /\ OptionsOk(root)
     THEN PrepareRequest(root) ELSE NoRequest

Handled(body) == HandledJson(ParseJson(body))

-----------------------------------------------------------------------------
(* response_json *)

Identity(prefix, serial) == W(prefix) \o Digits(serial)

MessageItem(serial, text, status) ==
  Obj(<< <<W("id"), Str(Identity("msg_", serial))>>, <<W("type"), Str(W("message"))>>,
         <<W("status"), Str(W(status))>>, <<W("role"), Str(Assistant)>>,
         <<W("content"), Arr(<< Obj(<< <<W("type"), Str(W("output_text"))>>, <<W("text"), Str(text)>>,
                                       <<W("annotations"), Arr(<<>>)>> >>) >>)>> >>)

CallItem(serial, index, call) ==
  LET Id(prefix) == Identity(prefix, serial) \o <<95>> \o Digits(index - 1)
  IN Obj(<< <<W("id"), Str(Id("fc_"))>>, <<W("call_id"), Str(Id("call_"))>>,
            <<W("type"), Str(W("function_call"))>>, <<W("name"), Str(call.name)>>,
            <<W("arguments"), Str(Dump(call.arguments))>>, <<W("status"), Str(W("completed"))>> >>)

OutputItems(serial, output, status) ==
  (IF output.text # <<>> \/ output.calls = <<>> THEN <<MessageItem(serial, output.text, status)>> ELSE <<>>)
  \o [i \in DOMAIN output.calls |-> CallItem(serial, i, output.calls[i])]

ResponseJson(serial, request, output, status) ==
  Obj(<< <<W("id"), Str(Identity("resp_", serial))>>, <<W("status"), Str(W(status))>>,
         <<W("error"), Null>>, <<W("model"), Str(ModelName)>>,
         <<W("parallel_tool_calls"), Bool(request.parallel)>>, <<W("tool_choice"), Str(request.choice)>>,
         <<W("tools"), Arr([i \in DOMAIN request.tools |-> request.tools[i].response])>>,
         <<W("output"), Arr(OutputItems(serial, output, status))>> >>)

-----------------------------------------------------------------------------
(* The conversation *)

VARIABLES
  phase,    \* "idle", "encoding" a request, "calls" to be answered, or "refused"
  history,  \* what the client keeps: items, and for the properties what the server said in them
  turn,     \* the same with the turn that is not over yet
  request,  \* the request the server holds, or NoRequest
  serial    \* response_counter
vars == <<tokenizerVars, phase, history, turn, request, serial>>

NoHistory == [items |-> <<>>, said |-> <<>>]

Init ==
  /\ todo = <<>> /\ tokens = <<>> /\ cache = <<>> /\ recency = <<>> /\ failures = 0
  /\ phase = "idle" /\ history = NoHistory /\ turn = NoHistory
  /\ request = NoRequest /\ serial = 0

MayRequest == serial + failures < MaxRequests

\* the server reads a body and prepares its prompt, or answers 400
Submit(body) ==
  /\ serial' = serial + 1
  /\ request' = Handled(body)
  /\ phase' = IF request'.ok THEN "encoding" ELSE "refused"
  /\ todo' = IF request'.ok THEN Work(request'.prompt, 1) ELSE <<>>
  /\ tokens' = <<>>
  /\ UNCHANGED <<cache, recency, failures>>

Body(items, members) ==
  Dump(Obj(<< <<W("model"), Str(ModelName)>>, <<W("input"), Arr(items)>>,
              <<W("tools"), Arr(ToolDefinitions)>> >> \o members))

UserItem(text) == Obj(<< <<W("role"), Str(User)>>, <<W("content"), Str(text)>> >>)

\* the user asks something
Ask(question) ==
  /\ phase = "idle" /\ MayRequest
  /\ LET items == Append(history.items, UserItem(question.text))
     IN /\ turn' = [history EXCEPT !.items = items]
        /\ Submit(Body(items, question.members))
  /\ UNCHANGED history

\* the client answers the calls of the last response
AnswerCalls(output) ==
  /\ phase = "calls" /\ MayRequest
  /\ LET calls == SelectSeq(turn.items, LAMBDA item : Member(item, W("type")) = <<Str(W("function_call"))>>)
         answered == SelectSeq(turn.items, LAMBDA item :
                                 Member(item, W("type")) = <<Str(W("function_call_output"))>>)
         Answer(call) == Obj(<< <<W("type"), Str(W("function_call_output"))>>,
                                <<W("call_id"), Member(call, W("call_id"))[1]>>, <<W("output"), output>> >>)
         open == From(calls, Len(answered) + 1)
         items == turn.items \o [i \in DOMAIN open |-> Answer(open[i])]
     IN /\ turn' = [turn EXCEPT !.items = items]
        /\ Submit(Body(items, <<>>))
  /\ UNCHANGED history

\* another client has sent a body of its own before; the answer to it is not followed
OtherRequest(body) ==
  /\ phase = "idle" /\ serial = 0
  /\ Submit(body)
  /\ turn' = NoHistory
  /\ UNCHANGED history

\* the turn is given up
GiveUp ==
  /\ phase' = "idle"
  /\ turn' = NoHistory
  /\ request' = NoRequest
  /\ UNCHANGED history

Forget == phase = "refused" /\ GiveUp /\ UNCHANGED <<tokenizerVars, serial>>

Encode == phase = "encoding" /\ (PushSpecial \/ Hit \/ Miss)
          /\ UNCHANGED <<phase, history, turn, request, serial>>
EncodingFails ==
  phase = "encoding" /\ failures < MaxFailures /\ (MissFails \/ CancelEncoding) /\ GiveUp /\ UNCHANGED serial

\* the text and the calls of what was written, at most one
Outputs(written) ==
  Range(IF request.enabled THEN ParseToolCalls(Sanitized(written, 1), request.tools, request.parallel)
        ELSE << [text |-> Sanitized(written, 1), calls |-> <<>>] >>)

\* the conversation with the answer, as the client reads it
Answered(output, status) ==
  LET answer == ParseJson(Dump(ResponseJson(serial, request, output, status)))[1]
  IN [items |-> turn.items \o Get(answer, W("output")), said |-> Append(turn.said, output)]

\* the model writes something, the server answers, and the client keeps the answer
Respond(written, status) ==
  /\ phase = "encoding" /\ todo = <<>> /\ turn # NoHistory
  /\ \E output \in Outputs(written) :
       CASE output.calls = <<>> -> history' = Answered(output, status) /\ turn' = NoHistory /\ phase' = "idle"
         [] output.calls # <<>> /\ status = "completed" ->
              turn' = Answered(output, status) /\ phase' = "calls" /\ UNCHANGED history
         [] OTHER -> turn' = NoHistory /\ phase' = "idle" /\ UNCHANGED history
  /\ request' = NoRequest
  /\ tokens' = <<>>
  /\ UNCHANGED <<todo, cache, recency, failures, serial>>

\* what the model wrote is no call of the tools it was given
RespondError(written) ==
  /\ phase = "encoding" /\ todo = <<>> /\ turn # NoHistory
  /\ Outputs(written) = {}
  /\ GiveUp
  /\ tokens' = <<>>
  /\ UNCHANGED <<todo, cache, recency, failures, serial>>

RespondOther ==
  /\ phase = "encoding" /\ todo = <<>> /\ turn = NoHistory
  /\ GiveUp
  /\ tokens' = <<>>
  /\ UNCHANGED <<todo, cache, recency, failures, serial>>

Next ==
  \/ \E question \in Questions : Ask(question)
  \/ \E output \in ToolOutputs : AnswerCalls(output)
  \/ \E body \in OtherBodies : OtherRequest(body)
  \/ Forget \/ Encode \/ EncodingFails
  \/ \E output \in ModelOutputs : Respond(output.text, output.status) \/ RespondError(output.text)
  \/ RespondOther

Spec == Init /\ [][Next]_vars

-----------------------------------------------------------------------------
(* Properties *)

\* tests/bpe_test.cpp, reference_merge: the best pair is merged wherever it occurs,
\* from the left, until there is none
BestRank(merges, symbols) ==
  LET ranks == {i \in DOMAIN merges : \E p \in 1 .. Len(symbols) - 1 : <<symbols[p], symbols[p + 1]>> = merges[i]}
  IN IF ranks = {} THEN NoRule ELSE CHOOSE i \in ranks : \A j \in ranks : i <= j

RECURSIVE MergedOnce(_, _), ReferenceMerge(_, _)
MergedOnce(symbols, pair) ==
  CASE Len(symbols) < 2 -> symbols
    [] Len(symbols) >= 2 /\ SubSeq(symbols, 1, 2) = pair ->
         <<pair[1] \o pair[2]>> \o MergedOnce(SubSeq(symbols, 3, Len(symbols)), pair)
    [] OTHER -> <<symbols[1]>> \o MergedOnce(Tail(symbols), pair)
ReferenceMerge(merges, symbols) ==
  LET rank == BestRank(merges, symbols)
  IN IF rank = NoRule THEN symbols ELSE ReferenceMerge(merges, MergedOnce(symbols, merges[rank]))

(***************************************************************************)
(* bpe_merge keeps the pairs it may merge in sets of positions, some of    *)
(* which are stale when their turn comes, and still does what merging the  *)
(* best pair everywhere, again and again, does: whatever the symbols and   *)
(* the order of the merges, overlapping pairs and merges that make a       *)
(* better pair included.                                                   *)
(***************************************************************************)
BpeIsRepeatedBestMerge ==
  serial = 0 =>
    \A merges \in BpeTables, symbols \in BpeInputs : BpeMerge(merges, symbols) = ReferenceMerge(merges, symbols)

(***************************************************************************)
(* Every cached piece has the tokens it would get without the cache, and   *)
(* one live node of the recency list, its own, also after an insertion     *)
(* that ran out of memory has left a node without an entry; until one did, *)
(* list and map have the same keys and at most MaxEntries of them.  A      *)
(* prompt is encoded as it would be without the cache.                     *)
(***************************************************************************)
TokenCacheSound ==
  /\ \A key \in DOMAIN cache :
       /\ cache[key].tokens = Merged(key)
       /\ Cardinality({i \in DOMAIN recency : recency[i].node = cache[key].node}) = 1
       /\ [node |-> cache[key].node, key |-> key] \in Range(recency)
  /\ Len(recency) <= Cardinality(DOMAIN cache) + failures
  /\ failures = 0 => Len(recency) = Cardinality(DOMAIN cache) /\ Len(recency) <= MaxEntries
  /\ phase = "encoding" /\ todo = <<>> => tokens = Encoded(Work(request.prompt, 1))

(***************************************************************************)
(* The tokens of a prompt decode to the text of the prompt: nothing is     *)
(* lost or doubled between special tokens, pieces, merges and the bytes    *)
(* they stand for, and the composition of each part leaves it canonically  *)
(* the text it was.                                                        *)
(***************************************************************************)
PromptSurvivesTokens ==
  phase = "encoding" /\ todo = <<>> =>
    /\ ValidUtf8(Decode(tokens))
    /\ Nfc(Codepoints(Decode(tokens))) = Nfc(Codepoints(request.prompt))

RECURSIVE Depth(_)
Depth(value) ==
  CASE Is(value, "array") /\ value[2] # <<>> -> 1 + Max({Depth(value[2][i]) : i \in DOMAIN value[2]})
    [] Is(value, "object") /\ value[2] # <<>> -> 1 + Max({Depth(value[2][i][2]) : i \in DOMAIN value[2]})
    [] OTHER -> 0
TooDeep(output) == \E i \in DOMAIN output.calls : Depth(output.calls[i].arguments) > MaxNesting

(***************************************************************************)
(* A client that sends back what the server answered, as it is, with the   *)
(* outputs of the tools, is not refused, and the server reads in it what   *)
(* it said: the texts and the calls, each with its arguments.  The         *)
(* exception is an argument nested as deep as the parser goes: it was read *)
(* alone, and is one level deeper in the arguments.                        *)
(***************************************************************************)
HistoryRoundTrips ==
  /\ phase = "refused" /\ turn # NoHistory => \E i \in DOMAIN turn.said : TooDeep(turn.said[i])
  /\ phase = "encoding" /\ turn # NoHistory =>
       LET said == SelectSeq(request.messages, LAMBDA message : message.role = Assistant)
       IN [i \in DOMAIN said |-> [text |-> said[i].content, calls |-> said[i].calls]] = turn.said
=============================================================================
