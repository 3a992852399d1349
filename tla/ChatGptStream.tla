---------------------------- MODULE ChatGptStream ----------------------------
(* One answer of the ChatGPT backend (providers/chatgpt/provider.go) as the three *)
(* callers of the provider get it: a Responses caller that streams (the gateway   *)
(* forwards the events), a Chat caller that streams (chatStream), and a caller    *)
(* that waits for the whole (CreateResponse).  All of them read the backend       *)
(* through responseStream.Recv, which decides what counts as a finished answer.   *)
(* An item of the answer is named by its place in it, and its snapshots, deltas   *)
(* and terminal copy by the same number.                                          *)
EXTENDS Naturals, Sequences, FiniteSets, SequencesExt, FiniteSetsExt, SortedIndexes

CONSTANTS ItemKinds,    \* what an item may be: [kind, parts], kind "text", "note" (a
                        \* message in the commentary phase), "call" or "think"
          MaxItems      \* bound on the items of an answer

ASSUME ItemKindsAssumption == ItemKinds \subseteq [kind : {"text", "note", "call", "think"}, parts : Nat]
ASSUME MaxItemsAssumption  == MaxItems \in Nat

VARIABLES
  answer,      \* the items
  named,       \* the items that carry an id
  opened,      \* how many items the backend has begun
  announced,   \* those with a response.output_item.added
  streamed,    \* how many parts of each item came as deltas
  finished,    \* the items with a response.output_item.done
  terminal,    \* those that response.completed repeats
  malformed,   \* the kinds of event, "added" and "done", that came without their item
  backendEnd,  \* "streaming", "completed" or "fault"
  native,      \* how the three callers' streams stand: "open", "completed", "closed"
  chatEnd,     \* (without a terminal event) or "error"; for a Chat stream
  wholeEnd,    \* "completed" is data: [DONE], for the whole a body
  heard,       \* chatStream.text: what the Chat caller got that is not commentary
  collected    \* the output of the final response, as item numbers

chatgptVars == <<answer, named, opened, announced, streamed, finished, terminal,
                 malformed, backendEnd, native, chatEnd, wholeEnd, heard, collected>>

Items      == DOMAIN answer
Message(i) == answer[i].kind \in {"text", "note"}

\* Ids are on all items, on none, or on all but the calls.
Named(items) == {DOMAIN items, {}, {i \in DOMAIN items : items[i].kind # "call"}}

ChatGptInit ==
  /\ answer \in UNION {[1 .. n -> ItemKinds] : n \in 1 .. MaxItems}
  /\ named \in Named(answer)
  /\ opened = 0 /\ announced = {} /\ streamed = [i \in Items |-> 0]
  /\ finished = {} /\ terminal = {} /\ malformed = {} /\ backendEnd = "streaming"
  /\ native = "open" /\ chatEnd = "open" /\ wholeEnd = "open"
  /\ heard = <<>> /\ collected = <<>>

------------------------------------------------------------------------------
(* responseStream.Recv.                                                        *)

\* mutant: the end of the backend's stream is passed on
RecvPassesEnd(event) ==
  CASE event = "eof" -> "EOF"
    [] event \in {"failed", "unfinished", "broken"} -> "error"
    [] OTHER -> "event"

\* Only a response.completed whose response has completed ends a stream well: an end
\* of file or [DONE] before it, response.failed, response.incomplete, error, another
\* status, and an event that does not decode are errors.
Recv(event) ==
  IF event \in {"eof", "failed", "unfinished", "broken"} THEN "error" ELSE "event"

------------------------------------------------------------------------------
(* collectResponseOutput: the snapshots at their indexes, then the items of the *)
(* terminal output that they lack.                                              *)

Put(out, index, item) ==
  [slots |-> [j \in DOMAIN out.slots \cup {index} |-> IF j = index THEN item ELSE out.slots[j]],
   ids   |-> out.ids \cup ({item} \cap named),
   next  |-> Max({out.next, index + 1})]

\* mutant: ids are not looked at
AddAnyTerminal(out, index, item) ==
  IF index \in DOMAIN out.slots
  THEN IF item \in named THEN Put(out, out.next, item) ELSE out
  ELSE Put(out, index, item)

\* An item without an id is known by its index in the terminal output, where another
\* one with an id goes to the end.
AddTerminal(out, index, item) ==
  IF item \in out.ids THEN out
  ELSE IF index \in DOMAIN out.slots
       THEN IF item \in named THEN Put(out, out.next, item) ELSE out
       ELSE Put(out, index, item)

Snapshots == [slots |-> [i \in finished |-> i], ids |-> finished \cap named,
              next |-> Max({i + 1 : i \in finished} \cup {1})]

CollectResponseOutput(items) ==
  LET listed == Ascending(items)
      out[k \in 0 .. Len(listed)] ==
        IF k = 0 THEN Snapshots ELSE AddTerminal(out[k - 1], k, listed[k])
      slots == out[Len(listed)].slots
      indexes == Ascending(DOMAIN slots)
  IN IF finished = {} THEN listed ELSE [n \in DOMAIN indexes |-> slots[indexes[n]]]

\* responseChat: the text of the answer is that of its messages but for commentary.
Text(i) == IF answer[i].kind = "text" THEN [p \in 1 .. answer[i].parts |-> <<i, p>>] ELSE <<>>
Spoken(items) == FlattenSeq([n \in DOMAIN items |-> Text(items[n])])

------------------------------------------------------------------------------
(* What the callers make of an event that says nothing about the end, and of an *)
(* end that Recv reported.                                                       *)

Live == backendEnd = "streaming"

Stop(native1, chat1, whole1) == native' = native1 /\ chatEnd' = chat1 /\ wholeEnd' = whole1

\* An error of Recv ends all three with an error; io.EOF would be no error to
\* streamNativeResponse and streamChat.
Ended(result) ==
  IF result = "EOF" THEN Stop("closed", "completed", "error") ELSE Stop("error", "error", "error")

------------------------------------------------------------------------------
(* The events of the backend.                                                  *)

\* An item begins; response.output_item.added tells the phase of a message.
OpenItem ==
  /\ Live /\ opened < Len(answer)
  /\ opened' = opened + 1
  /\ announced' \in IF answer[opened'].kind = "note" THEN {announced, announced \cup {opened'}}
                    ELSE {announced \cup {opened'}}
  /\ UNCHANGED <<answer, named, streamed, finished, terminal, malformed, backendEnd,
                 native, chatEnd, wholeEnd, heard, collected>>

\* The phase of a delta is that of the item announced at its index.
Phase(i) == IF i \in announced /\ answer[i].kind = "note" THEN "commentary" ELSE "final_answer"

TextDelta ==
  /\ Live /\ opened > 0
  /\ Message(opened) /\ streamed[opened] < answer[opened].parts /\ opened \notin finished
  /\ streamed' = [streamed EXCEPT ![opened] = @ + 1]
  /\ heard' = IF Phase(opened) = "commentary" THEN heard
              ELSE Append(heard, <<opened, streamed'[opened]>>)
  /\ UNCHANGED <<answer, named, opened, announced, finished, terminal, malformed, backendEnd,
                 native, chatEnd, wholeEnd, collected>>

ItemDone ==
  /\ Live
  /\ \E i \in (1 .. opened) \ finished : finished' = finished \cup {i}
  /\ UNCHANGED <<answer, named, opened, announced, streamed, terminal, malformed, backendEnd,
                 native, chatEnd, wholeEnd, heard, collected>>

\* An output_item event without its item (or a done without its index): a native caller
\* gets it.  chatStream refuses both, CreateResponse reads no other than the done.
Malformed(event) ==
  /\ Live /\ event \notin malformed
  /\ malformed' = malformed \cup {event}
  /\ chatEnd' = "error"
  /\ wholeEnd' = IF event = "done" THEN "error" ELSE wholeEnd
  /\ UNCHANGED <<answer, named, opened, announced, streamed, finished, terminal, backendEnd,
                 native, heard, collected>>

\* chatStream refuses an answer that does not begin with what it passed on.
Continues(text) == IsPrefix(heard, text)

\* response.completed, with any part of the output.  The last chunk of chatStream
\* brings the rest of the text.
Completed ==
  /\ Live
  /\ backendEnd' = "completed"
  /\ terminal' \in SUBSET Items
  /\ LET output == CollectResponseOutput(terminal')
         text   == Spoken(output)
         whole  == chatEnd = "open" /\ Continues(text)
     IN /\ collected' = output
        /\ heard' = IF whole THEN heard \o SubSeq(text, Len(heard) + 1, Len(text)) ELSE heard
        /\ Stop("completed",
                IF whole THEN "completed" ELSE "error",
                IF wholeEnd = "open" THEN "completed" ELSE "error")
  /\ UNCHANGED <<answer, named, opened, announced, streamed, finished, malformed>>

Fault(event) ==
  /\ Live
  /\ backendEnd' = "fault"
  /\ Ended(Recv(event))
  /\ UNCHANGED <<answer, named, opened, announced, streamed, finished, terminal, malformed,
                 heard, collected>>

ChatGptNext == \/ OpenItem \/ TextDelta \/ ItemDone \/ Completed
               \/ \E event \in {"added", "done"} : Malformed(event)
               \/ \E event \in {"eof", "failed", "unfinished", "broken"} : Fault(event)

ChatGptSpec == ChatGptInit /\ [][ChatGptNext]_chatgptVars

------------------------------------------------------------------------------
(* Properties.                                                                 *)

\* An end of file, a failed or incomplete response or a broken stream after part of
\* an answer is never taken for a finished inference by any of the callers, and no
\* caller is left waiting (providers/chatgpt/README.md:107-109).
OnlyFinishedCompletes ==
  backendEnd # "streaming" =>
    /\ \A end \in {native, chatEnd, wholeEnd} : end \in {"completed", "error"}
    /\ "completed" \in {native, chatEnd, wholeEnd} => backendEnd = "completed"

\* The terminal output begins with the answer: its items are at their own indexes.
Prefix == terminal = 1 .. Cardinality(terminal)

\* Deltas came complete and in order, of items whose phase was told, and every item came.
Orderly ==
  /\ \A i \in 1 .. opened : Message(i) => i \in announced /\ streamed[i] = answer[i].parts
  /\ \A i \in 1 .. opened : i \in finished \cup terminal
  /\ Prefix /\ malformed = {}

\* Each of these items once, and those that came in an event in the order of the answer.
EachOnce(output, items) ==
  /\ ToSet(output) = items
  /\ \A m, n \in DOMAIN output :
       /\ output[m] = output[n] => m = n
       /\ m < n /\ {output[m], output[n]} \subseteq finished => output[m] < output[n]

\* The collected answer has every item that a snapshot or the terminal event brought,
\* once (provider.go:274-276): in the order of the answer when the terminal output begins
\* with it, and under any index when the items have ids.  A Chat caller gets its text,
\* neither refused nor repeated, when the deltas came in order.
AnswerIsWhole ==
  backendEnd = "completed" =>
    /\ Prefix => collected = Ascending(finished \cup terminal)
    /\ named = Items => EachOnce(collected, finished \cup terminal)
    /\ Orderly => chatEnd = "completed" /\ wholeEnd = "completed"
    /\ chatEnd = "completed" => heard = Spoken(collected)
==============================================================================
