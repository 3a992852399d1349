----------------------------- MODULE AdaptedTurn -----------------------------
(* One answer of a backend that has no Responses API, as its three callers see   *)
(* it: a Chat stream (streamChat), a Responses stream (streamAdaptedResponse)    *)
(* and a caller that waits for the whole of it (Chat), and the request with tool *)
(* results that follows.  The backend is Anthropic, whose events are translated  *)
(* by anthropic.sseStream, or the turn of a Codex stream, which gives chunks.    *)
(* A stream is pulled: a Recv of the handler reads one event, translates it and  *)
(* writes what it makes of it, so one event is one action.                       *)
EXTENDS Integers, Sequences, FiniteSets, ResponseAdapter, AnthropicMessages

CONSTANTS Forms,         \* the blocks of an answer: [kind, parts], kind "text" (the answer),
                         \* "note" (commentary), "plain" (text of Codex without a
                         \* phase), "hidden" (thinking) or "tool"
          MaxBlocks,     \* bound on the blocks of an answer
          Apis           \* how the caller asks again: "chat", "responses"

ASSUME FormsAssumption     == Forms \subseteq [kind : {"text", "note", "plain", "hidden", "tool"}, parts : Nat]
ASSUME MaxBlocksAssumption == MaxBlocks \in Nat

VARIABLES
  backend,     \* "anthropic" or "codex"
  said,        \* the answer: a sequence of blocks
  block,       \* the block being streamed, 0 before the first
  part,        \* how many of its parts were
  upstream,    \* "streaming", "reason" (the stop reason came), or how it ended:
               \* "stopped", "cut" (the connection closed early), "failed"
  chat,        \* the caller of a Chat stream: text, calls by index, end
  adapted,     \* the adapter, with the events the Responses caller got
  resent       \* the messages of the next request, as Anthropic gets them

turnVars == <<backend, said, block, part, upstream, chat, adapted, resent>>

\* A thought is nothing Codex streams, and phases are nothing Anthropic has.
Speaks(b, f) ==
  f.kind \in IF b = "codex" THEN {"text", "note", "plain", "tool"} ELSE {"text", "hidden", "tool"}
Answers(b) == UNION {[1 .. n -> {f \in Forms : Speaks(b, f)}] : n \in 1 .. MaxBlocks}

CallId(b)   == <<"id", b>>
Parts(b, n) == [p \in 1 .. n |-> <<b, p>>]

\* The backend names every call.
ASSUME UnsetAssumption == \A b \in 1 .. MaxBlocks : CallId(b) # Unset

TurnInit ==
  /\ backend \in {"anthropic", "codex"}
  /\ said \in Answers(backend)
  /\ block = 0 /\ part = 0 /\ upstream = "streaming"
  /\ chat = [text |-> <<>>, calls |-> NoCalls, end |-> "open"]
  /\ adapted = Opened
  /\ resent = <<>>

------------------------------------------------------------------------------
(* What the callers do with a chunk, and with the end.                         *)

\* The phase of a chunk tells the Chat caller what is commentary.
Heard(chunk, phase) == IF phase = "commentary" THEN <<>> ELSE chunk.text

ToCallers(chunk, phase) ==
  /\ chat' = [chat EXCEPT !.text = @ \o Heard(chunk, phase), !.calls = FoldLeft(Merge, @, chunk.calls)]
  /\ adapted' = Receive(adapted, chunk)

\* io.EOF: "data: [DONE]", and response.completed.
EndOfStream ==
  /\ chat' = [chat EXCEPT !.end = "done"]
  /\ adapted' = Complete(adapted)

ErrorToCallers ==
  /\ chat' = [chat EXCEPT !.end = "error"]
  /\ adapted' = Fail(adapted)

NothingToCallers == UNCHANGED <<chat, adapted>>

------------------------------------------------------------------------------
(* Anthropic: sseStream.Recv.  message_start, ping, and the stop of a block say *)
(* nothing to the callers.                                                       *)

Streaming == upstream = "streaming"
BlockOver == IF block = 0 THEN TRUE ELSE part = said[block].parts

\* mutant: the index of a call counts the calls, its fragments name their block
CallIndexByCount(b) == Cardinality({c \in 1 .. b : said[c].kind = "tool"}) - 1 + (IF part = 0 THEN 0 ELSE 1)

\* A call has the index of its block.
CallIndex(b) == b - 1

ContentBlockStart ==
  /\ backend = "anthropic" /\ Streaming /\ BlockOver /\ block < Len(said)
  /\ block' = block + 1 /\ part' = 0
  /\ IF said[block + 1].kind = "tool"
     THEN ToCallers(Chunk(<<>>, <<Fragment(CallIndex(block + 1), CallId(block + 1), <<"name">>, <<>>)>>), "")
     ELSE NothingToCallers
  /\ UNCHANGED <<backend, said, upstream, resent>>

ContentBlockDelta ==
  /\ backend = "anthropic" /\ Streaming /\ ~BlockOver
  /\ part' = part + 1
  /\ CASE said[block].kind = "text" -> ToCallers(Chunk(<< <<block, part'>> >>, <<>>), "")
       [] said[block].kind = "tool" ->
            ToCallers(Chunk(<<>>, <<Fragment(CallIndex(block), Unset, <<>>, << <<block, part'>> >>)>>), "")
       [] OTHER -> NothingToCallers
  /\ UNCHANGED <<backend, said, block, upstream, resent>>

\* The stop reason and the usage come in a chunk without text.
MessageDelta ==
  /\ backend = "anthropic" /\ Streaming /\ BlockOver /\ block = Len(said)
  /\ upstream' = "reason"
  /\ ToCallers(Chunk(<<>>, <<>>), "")
  /\ UNCHANGED <<backend, said, block, part, resent>>

MessageStop ==
  /\ backend = "anthropic" /\ upstream = "reason"
  /\ upstream' = "stopped"
  /\ EndOfStream
  /\ UNCHANGED <<backend, said, block, part, resent>>

\* The connection closes early: Recv returns the io.EOF of the read.
Cut ==
  /\ backend = "anthropic" /\ upstream \in {"streaming", "reason"}
  /\ upstream' = "cut"
  /\ EndOfStream
  /\ UNCHANGED <<backend, said, block, part, resent>>

\* An error event, an event that does not decode, a read that fails.
StreamFails ==
  /\ upstream \in {"streaming", "reason"}
  /\ upstream' = "failed"
  /\ ErrorToCallers
  /\ UNCHANGED <<backend, said, block, part, resent>>

------------------------------------------------------------------------------
(* Codex: the chunks of a turn.  A parked call comes whole; parallel calls are   *)
(* numbered from 0.  The stream ends when the turn does, or waits for results.   *)

CodexCall(b) ==
  Fragment(Cardinality({c \in 1 .. b : said[c].kind = "tool"}) - 1, CallId(b), <<"name">>,
           Parts(b, said[b].parts))

CodexTool ==
  /\ backend = "codex" /\ Streaming /\ BlockOver /\ block < Len(said)
  /\ block' = block + 1
  /\ IF said[block + 1].kind = "tool"
     THEN part' = said[block + 1].parts /\ ToCallers(Chunk(<<>>, <<CodexCall(block + 1)>>), "")
     ELSE part' = 0 /\ NothingToCallers
  /\ UNCHANGED <<backend, said, upstream, resent>>

\* The phase that item/started told of the message, if it told one.
ItemPhase(b) ==
  CASE said[b].kind = "note" -> "commentary" [] said[b].kind = "plain" -> "" [] OTHER -> "final_answer"

CodexDelta ==
  /\ backend = "codex" /\ Streaming /\ ~BlockOver
  /\ part' = part + 1
  /\ ToCallers(Chunk(<< <<block, part'>> >>, <<>>), ItemPhase(block))
  /\ UNCHANGED <<backend, said, block, upstream, resent>>

CodexEnd ==
  /\ backend = "codex" /\ Streaming /\ BlockOver /\ block = Len(said)
  /\ upstream' = "stopped"
  /\ EndOfStream
  /\ UNCHANGED <<backend, said, block, part, resent>>

------------------------------------------------------------------------------
(* The same answer without streaming: the providers' Chat.                     *)

SaidBlock(b) ==
  CASE said[b].kind = "tool" ->
         [type |-> "tool_use", id |-> CallId(b), name |-> <<"name">>, args |-> Parts(b, said[b].parts)]
    [] said[b].kind = "hidden" -> [type |-> "thinking"]
    [] OTHER -> [type |-> "text", text |-> Parts(b, said[b].parts)]

SaidBlocks == [b \in DOMAIN said |-> SaidBlock(b)]

\* codex.Provider.Chat: the final answer if there is one, else all that was said.
FinalText == FlattenSeq([b \in DOMAIN said |->
               IF said[b].kind = "text" THEN Parts(b, said[b].parts) ELSE <<>>])
CollectCodex ==
  LET all == ToChatResponse(SaidBlocks)
  IN [all EXCEPT !.text = IF FinalText = <<>> THEN @ ELSE FinalText]

Collected == IF backend = "codex" THEN CollectCodex ELSE ToChatResponse(SaidBlocks)

------------------------------------------------------------------------------
(* The caller asks again, with the results of the calls, in any order.          *)

Streamed ==
  LET indexes == Ascending(DOMAIN chat.calls)
  IN Assistant(chat.text, [n \in DOMAIN indexes |-> chat.calls[indexes[n]]])

\* The items of a Responses output as the next request's input: messages carry a role.
AsInput(item) ==
  IF item.type = "message" THEN [type |-> "message", role |-> "assistant", text |-> item.text] ELSE item

Question == << <<0, 1>> >>

NextRequest(api, results) ==
  IF api = "chat"
  THEN <<Chat("system", Question, <<>>, Unset), User(Question), Streamed>>
       \o [n \in DOMAIN results |-> ToolResult(results[n])]
  ELSE InputMessages(Question,
         << [type |-> "message", role |-> "user", text |-> Question] >>
         \o [n \in DOMAIN Output(adapted) |-> AsInput(Output(adapted)[n])]
         \o [n \in DOMAIN results |-> [type |-> "function_call_output", id |-> results[n]]])

AskAgain ==
  /\ backend = "anthropic" /\ upstream = "stopped" /\ resent = <<>> /\ DOMAIN chat.calls # {}
  /\ \E api \in Apis : \E results \in SetToSeqs({chat.calls[i].id : i \in DOMAIN chat.calls}) :
       resent' = ConvertMessages(NextRequest(api, results))
  /\ UNCHANGED <<backend, said, block, part, upstream, chat, adapted>>

------------------------------------------------------------------------------
TurnNext == \/ ContentBlockStart \/ ContentBlockDelta \/ MessageDelta \/ MessageStop \/ Cut
            \/ StreamFails \/ CodexTool \/ CodexDelta \/ CodexEnd \/ AskAgain

TurnSpec == TurnInit /\ [][TurnNext]_turnVars

------------------------------------------------------------------------------
(* Properties.                                                                 *)

\* The events of an adapted response come in pairs, with indexes in order, and its
\* final output has no hole, however text and tool calls interleave and wherever
\* the backend breaks off (responses.go:431-564).
EventsWellFormed == WellOrdered(adapted.events) /\ NoHoles(adapted.events)

Calls(seq) == {[seq[n] EXCEPT !.args = AsJSON(@)] : n \in DOMAIN seq}

ItemsOf(output) ==
  {IF output[n].type = "function_call" THEN [output[n] EXCEPT !.args = AsJSON(@)] ELSE output[n]
     : n \in DOMAIN output}

\* Text of these kinds was said.
Told(kinds) == \E b \in DOMAIN said : said[b].kind \in kinds /\ said[b].parts > 0

\* What is not the final answer reaches a Responses caller that streams as part of the message.
Commented == FinalText # <<>> /\ Told({"note", "plain"})

\* A Chat stream passes on text without a phase, which Chat drops when there is a final
\* answer, and no commentary, which Chat returns when there is none.
HeardOtherwise == Told(IF FinalText = <<>> THEN {"note"} ELSE {"plain"})

\* A finished answer is the same whether it was streamed as Chat, streamed as
\* Responses events, or collected: the same text and the same calls with the same
\* arguments, no fragment lost, doubled or given to another call.
SameEitherWay ==
  upstream = "stopped" =>
    /\ ~HeardOtherwise => chat.text = Collected.text
    /\ Calls(Streamed.calls) = Calls(Collected.calls)
    /\ ~Commented => ItemsOf(Output(adapted)) = ItemsOf(ResponseOutput(Collected))

\* What a Chat caller sends back is what the model said: its calls in order with their
\* arguments, and right after them their results, as the Messages API demands.
ReplayedAsSaid ==
  resent # <<>> =>
    /\ RolesAlternate(resent) /\ ResultsFollowCalls(resent) /\ CallsAnswered(resent)
    /\ ToolBlocks(resent[2].blocks)
         = [n \in DOMAIN Collected.calls |-> ToolUse(Collected.calls[n])]

\* Tool results that a Responses caller sends stand next to the calls they answer:
\* the adapter is for "text/message/function-tool" use (README.md:277).
AdapterKeepsCalls == ResultsFollowCalls(resent)
==============================================================================
