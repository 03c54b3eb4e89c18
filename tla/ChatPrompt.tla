------------------------------ MODULE ChatPrompt ------------------------------
(***************************************************************************)
(* The prompt a conversation is written as (src/chat.cpp).  A message is a *)
(* role (a word), a content and the calls of tools made in it.             *)
(***************************************************************************)
EXTENDS ToolCalls, UnicodeText

Message(role, content) == [role |-> W(role), content |-> content, calls |-> <<>>]
From0(text, symbol) == From(text, FindLast(text, symbol) + 1)

RECURSIVE Unbroken(_), Unending(_)
\* without the line breaks it begins with, and without those it ends with
Unbroken(text) == IF At(text, 1) = NewLine THEN Unbroken(Tail(text)) ELSE text
Unending(text) == IF At(text, Len(text)) = NewLine THEN Unending(Front(text)) ELSE text

\* strip_assistant_reasoning
Stripped(content) ==
  LET Thought(thought) == Trimmed(Unbroken(From0(thought, Symbol(W("<think>")))))
      Closed(close) ==
        IF close = 0 THEN [content |-> content, reasoning |-> <<>>]
        ELSE [content |-> Unbroken(From0(content, Symbol(ThinkClose))),
              reasoning |-> Thought(Unending(SubSeq(content, 1, close - 1)))]
  IN Closed(Find(content, Symbol(ThinkClose), 1))

Line == <<NewLine>>

\* append_tool_call
ToolCallText(call) ==
  LET arguments == call.arguments[2]
  IN ToolOpen \o Line \o FunctionOpen \o call.name \o <<TagEnd>> \o Line
     \o Flat([i \in DOMAIN arguments |->
                ParameterOpen \o arguments[i][1] \o <<TagEnd>> \o Line
                \o (IF Is(arguments[i][2], "string") THEN arguments[i][2][2] ELSE Dump(arguments[i][2]))
                \o Line \o ParameterClose \o Line])
     \o FunctionClose \o Line \o ToolClose

ImStart(role) == W("<|im_start|>") \o role
ImEnd == W("<|im_end|>") \o Line
User == W("user")
Assistant == W("assistant")
System == W("system")
Tool == W("tool")

Responded(content) ==
  /\ At(content, 1) = Symbol(W("<tool_response>"))
  /\ At(content, Len(content)) = Symbol(W("</tool_response>"))

\* the last message that asks something, or 0
LastQuery(messages, contents) ==
  Max({0} \cup {i \in DOMAIN messages : messages[i].role = User /\ ~Responded(contents[i])})

\* the system message, with the tools where there are any
SystemText(messages, contents, tools) ==
  LET system == messages[1].role = System
  IN CASE tools # <<>> ->
            ImStart(System) \o Line \o W("tools prompt")
            \o Flat([i \in DOMAIN tools |-> Line \o Dump(tools[i].prompt)]) \o W("tools prompt end")
            \o (IF system /\ contents[1] # <<>> THEN Line \o Line \o contents[1] ELSE <<>>) \o ImEnd
       [] tools = <<>> /\ system -> ImStart(System) \o Line \o contents[1] \o ImEnd
       [] OTHER -> <<>>

AssistantText(message, stripped, after) ==
  LET Separator(i) == CASE i > 1 -> Line
                        [] i = 1 /\ stripped.content # <<>> -> Line \o Line
                        [] OTHER -> <<>>
  IN ImStart(Assistant) \o Line
     \o (IF after THEN W("<think>") \o Line \o stripped.reasoning \o Line \o ThinkClose \o Line \o Line
         ELSE <<>>)
     \o stripped.content
     \o Flat([i \in DOMAIN message.calls |-> Separator(i) \o ToolCallText(message.calls[i])])
     \o ImEnd

\* consecutive tool results share one user turn
ToolText(messages, contents, i) ==
  LET IsTool(j) == j \in DOMAIN messages /\ messages[j].role = Tool
  IN (IF IsTool(i - 1) THEN <<>> ELSE ImStart(User)) \o Line
     \o W("<tool_response>") \o Line \o contents[i] \o Line \o W("</tool_response>")
     \o (IF IsTool(i + 1) THEN <<>> ELSE ImEnd)

MessageText(messages, contents, query, i) ==
  CASE messages[i].role = System -> <<>>
    [] messages[i].role = User -> ImStart(User) \o Line \o contents[i] \o ImEnd
    [] messages[i].role = Tool -> ToolText(messages, contents, i)
    [] OTHER -> AssistantText(messages[i], Stripped(contents[i]), i > query)

\* the prompt of messages with these trimmed contents, at most one
PromptText(messages, contents, query, tools) ==
  IF query = 0 \/ \E i \in DOMAIN messages \ {1} : messages[i].role = System THEN <<>>
  ELSE << SystemText(messages, contents, tools)
          \o Flat([i \in DOMAIN messages |-> MessageText(messages, contents, query, i)])
          \o ImStart(Assistant) \o Line \o W("<think>") \o Line >>

\* qwen35_chat_prompt
ChatText(messages, tools) ==
  LET Of(contents) == PromptText(messages, contents, LastQuery(messages, contents), tools)
  IN Of(Eager([i \in DOMAIN messages |-> Trimmed(messages[i].content)]))
=============================================================================
