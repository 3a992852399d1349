-------------------------- MODULE AnthropicMessages --------------------------
(* The conversions between Chat messages and the Messages API of Anthropic      *)
(* (providers/anthropic/provider.go), and from Responses input items to Chat     *)
(* messages (gateway/responses.go).                                              *)
(* Images, cache breakpoints and the schemas of the tools are left out.          *)
EXTENDS Naturals, Sequences, SequencesExt, ChatMessages, SortedIndexes

\* The arguments of a call as JSON: a call without any is the empty object.
EmptyObject == << <<0, 0>> >>
AsJSON(args) == IF args = <<>> THEN EmptyObject ELSE args

------------------------------------------------------------------------------
(* An answer that came in one piece: messageResponse.toChatResponse.           *)

TextOf(blocks) ==
  FlattenSeq([n \in DOMAIN blocks |-> IF blocks[n].type = "text" THEN blocks[n].text ELSE <<>>])

\* The tool calls among the blocks of an answer, in their order.
ToolBlocks(blocks) ==
  LET places == Ascending({n \in DOMAIN blocks : blocks[n].type = "tool_use"})
  IN [k \in DOMAIN places |-> blocks[places[k]]]

ToChatResponse(blocks) ==
  LET tools == ToolBlocks(blocks)
  IN Assistant(TextOf(blocks),
               [n \in DOMAIN tools |->
                  [id |-> tools[n].id, name |-> tools[n].name, args |-> AsJSON(tools[n].args)]])

------------------------------------------------------------------------------
(* A request: convertMessages.                                                 *)

\* mutant: every Chat message becomes a message of its own
AppendApart(messages, role, blocks) ==
  IF blocks = <<>> THEN messages ELSE Append(messages, [role |-> role, blocks |-> blocks])

\* Blocks of the role that spoke last are added to its message.
AppendMessage(messages, role, blocks) ==
  IF blocks = <<>> THEN messages
  ELSE IF messages # <<>> /\ Last(messages).role = role
       THEN [messages EXCEPT ![Len(messages)].blocks = @ \o blocks]
       ELSE Append(messages, [role |-> role, blocks |-> blocks])

ContentBlocks(message) ==
  IF message.text = <<>> THEN <<>> ELSE << [type |-> "text", text |-> message.text] >>

\* The arguments of a call that comes back are JSON; for others no request is made.
ToolUse(call) == [type |-> "tool_use", id |-> call.id, name |-> call.name, args |-> AsJSON(call.args)]

\* Instructions become the system prompt, wherever they stand.
System(message) == message.role \in {"system", "developer"}

ConvertMessage(messages, message) ==
  CASE System(message) -> messages
    [] message.role = "tool" ->
         AppendMessage(messages, "user", << [type |-> "tool_result", answers |-> message.answers] >>)
    [] OTHER ->
         AppendMessage(messages, IF message.role = "assistant" THEN "assistant" ELSE "user",
                       ContentBlocks(message) \o [n \in DOMAIN message.calls |-> ToolUse(message.calls[n])])

ConvertMessages(input) == FoldLeft(ConvertMessage, <<>>, input)

------------------------------------------------------------------------------
(* Responses input items: responseInputMessages.  An item is read by its role   *)
(* and its content, unless it is the output of a call.                           *)

RoleOf(item) == IF "role" \in DOMAIN item THEN item.role ELSE "user"
ContentOf(item) == IF "text" \in DOMAIN item THEN item.text ELSE <<>>

InputMessage(item) ==
  IF item.type = "function_call_output" THEN ToolResult(item.id)
  ELSE Chat(RoleOf(item), ContentOf(item), <<>>, Unset)

InputMessages(instructions, items) ==
  (IF instructions = <<>> THEN <<>> ELSE << Chat("developer", instructions, <<>>, Unset) >>)
  \o [n \in DOMAIN items |-> InputMessage(items[n])]

------------------------------------------------------------------------------
(* What the Messages API demands of a request.                                 *)

BlocksOf(message, type) == {n \in DOMAIN message.blocks : message.blocks[n].type = type}

RolesAlternate(messages) ==
  \A n \in 2 .. Len(messages) : messages[n].role # messages[n - 1].role

\* A tool result stands in the message after the one that made the call.
ResultsFollowCalls(messages) ==
  \A n \in DOMAIN messages : \A b \in BlocksOf(messages[n], "tool_result") :
    /\ n > 1 /\ messages[n - 1].role = "assistant"
    /\ \E c \in BlocksOf(messages[n - 1], "tool_use") :
         messages[n - 1].blocks[c].id = messages[n].blocks[b].answers

\* And every call that was made has its result there.
CallsAnswered(messages) ==
  \A n \in DOMAIN messages : \A c \in BlocksOf(messages[n], "tool_use") :
    /\ n < Len(messages)
    /\ \E b \in BlocksOf(messages[n + 1], "tool_result") :
         messages[n + 1].blocks[b].answers = messages[n].blocks[c].id
==============================================================================
