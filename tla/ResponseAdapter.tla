--------------------------- MODULE ResponseAdapter ---------------------------
(* How gateway/responses.go turns the chunks of a Chat stream into the events of *)
(* a Responses stream (streamAdaptedResponse), and a whole Chat answer into the  *)
(* output of a Responses object (responseOutput).  The adapter is a record that  *)
(* each chunk, and the end of the stream, transforms; the events it wrote are    *)
(* kept in the order of their sequence numbers.                                  *)
(* Text is a sequence of fragments; item ids are left out, for an output index   *)
(* names its item.                                                               *)
EXTENDS Integers, Sequences, SequencesExt, ChatMessages, SortedIndexes

CONSTANTS NoItem          \* the null of an output slot that nothing filled

TextItem(text)  == [type |-> "message", text |-> text]
CallItem(call)  == [type |-> "function_call", id |-> call.id, name |-> call.name, args |-> call.args]

Emit(a, event) == [a EXCEPT !.events = Append(@, event)]
On(type, out)  == [type |-> type, out |-> out]
With(type, out, data) == [type |-> type, out |-> out, data |-> data]

Opened == [events    |-> << [type |-> "created"], [type |-> "in_progress"] >>,
           text      |-> <<>>, textIndex |-> -1, next |-> 0,
           calls     |-> NoCalls,       \* toolCalls: by the index of the call
           outs      |-> NoCalls,       \* toolOutputIndexes
           end       |-> "open"]

------------------------------------------------------------------------------
(* One chunk.                                                                  *)

StartText(a) ==
  IF a.textIndex # -1 THEN a
  ELSE Emit(Emit([a EXCEPT !.textIndex = a.next, !.next = @ + 1],
                 On("item.added", a.next)),
            On("part.added", a.next))

AddText(a, text) ==
  IF text = <<>> THEN a
  ELSE LET b == StartText(a)
       IN Emit([b EXCEPT !.text = @ \o text], With("text.delta", b.textIndex, text))

\* mutant: the first fragment of a call does not move the next index on
StartCallInPlace(a, f) ==
  [a EXCEPT !.outs = [i \in DOMAIN @ \cup {f.index} |-> IF i = f.index THEN a.next ELSE @[i]],
            !.calls[f.index].id = IF @ = Unset THEN <<"call", a.next>> ELSE @]

\* The first fragment of a call gives it an output index, and an id if it has none.
StartCall(a, f) ==
  [a EXCEPT !.outs = [i \in DOMAIN @ \cup {f.index} |-> IF i = f.index THEN a.next ELSE @[i]],
            !.calls[f.index].id = IF @ = Unset THEN <<"call", a.next>> ELSE @,
            !.next = @ + 1]

AddCall(a, f) ==
  LET known  == Known(a.calls, f.index)
      merged == [a EXCEPT !.calls = Merge(@, f)]
      b == IF known THEN merged
           ELSE LET c == StartCall(merged, f) IN Emit(c, On("item.added", c.outs[f.index]))
  IN IF f.args = <<>> THEN b
     ELSE Emit(b, With("args.delta", b.outs[f.index], f.args))

Receive(a, chunk) == FoldLeft(AddCall, AddText(a, chunk.text), chunk.calls)

------------------------------------------------------------------------------
(* The end of the stream.                                                      *)

\* The events that end the text, and those that end a call.
FinishText(a) ==
  IF a.textIndex = -1 THEN <<>>
  ELSE << With("text.done", a.textIndex, a.text), On("part.done", a.textIndex),
          With("item.done", a.textIndex, TextItem(a.text)) >>

FinishCall(a, index) ==
  << With("args.done", a.outs[index], a.calls[index].args),
     With("item.done", a.outs[index], CallItem(a.calls[index])) >>

\* The indexes of the calls, sorted.
CallIndexes(a) == Ascending(DOMAIN a.calls)

ItemAt(a, out) ==
  IF out = a.textIndex THEN TextItem(a.text)
  ELSE IF \E i \in DOMAIN a.outs : a.outs[i] = out
       THEN CallItem(a.calls[CHOOSE i \in DOMAIN a.outs : a.outs[i] = out])
       ELSE NoItem

Output(a) == [n \in 1 .. a.next |-> ItemAt(a, n - 1)]

Complete(a) ==
  LET calls == FlattenSeq([n \in DOMAIN CallIndexes(a) |-> FinishCall(a, CallIndexes(a)[n])])
      b == [a EXCEPT !.events = (@ \o FinishText(a)) \o calls]
  IN [Emit(b, [type |-> "completed", output |-> Output(a)]) EXCEPT !.end = "completed"]

Fail(a) == [Emit(a, [type |-> "error"]) EXCEPT !.end = "error"]

------------------------------------------------------------------------------
(* A Chat answer that came in one piece: its text, then its calls.             *)

ResponseOutput(message) ==
  (IF message.text = <<>> THEN <<>> ELSE << TextItem(message.text) >>)
  \o [n \in DOMAIN message.calls |-> CallItem(message.calls[n])]

------------------------------------------------------------------------------
(* What a reader of the Responses protocol relies on.                          *)

Places(events, type) == {n \in DOMAIN events : events[n].type = type}
Outs(events, type)   == {events[n].out : n \in Places(events, type)}

\* The data of the deltas of an item, in order.
Deltas(events, out) ==
  FlattenSeq([n \in DOMAIN events |->
                IF events[n].type \in {"text.delta", "args.delta"} /\ events[n].out = out
                THEN events[n].data ELSE <<>>])

WellOrdered(events) ==
  \* Items are announced once each, with output indexes 0, 1, 2, ...
  /\ \A m, n \in Places(events, "item.added") : m < n => events[m].out < events[n].out
  /\ \A out \in Outs(events, "item.added") : out = 0 \/ out - 1 \in Outs(events, "item.added")
  \* Whatever concerns an item lies between its announcement and its end,
  /\ \A n \in DOMAIN events : "out" \in DOMAIN events[n] =>
       /\ \E m \in Places(events, "item.added") : m <= n /\ events[m].out = events[n].out
       /\ \A m \in Places(events, "item.done") : events[m].out = events[n].out => n <= m
  \* and what ends it repeats what its deltas said.
  /\ \A n \in Places(events, "text.done") \cup Places(events, "args.done") :
       events[n].data = Deltas(events, events[n].out)
  \* Only the last event says that the response is over.
  /\ \A n \in Places(events, "completed") \cup Places(events, "error") : n = Len(events)

\* A completed response lists every item it announced, and each as it ended.
NoHoles(events) ==
  \A n \in Places(events, "completed") :
    /\ Outs(events, "item.done") = Outs(events, "item.added")
    /\ Outs(events, "item.added") = {k - 1 : k \in DOMAIN events[n].output}
    /\ \A m \in Places(events, "item.done") :
         events[n].output[events[m].out + 1] = events[m].data
==============================================================================
