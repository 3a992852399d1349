---------------------------- MODULE ChatMessages -----------------------------
(* The messages and stream chunks that every provider speaks (types.go), with    *)
(* what the gateway's properties tell apart: a text is a sequence of fragments,  *)
(* and so are the name and the arguments of a call.                              *)
EXTENDS Naturals, Sequences

CONSTANTS Unset        \* the empty string of an id

\* A message: its role, text and tool calls, and, in the role "tool", the call it answers.
Chat(role, text, calls, answers) ==
  [role |-> role, text |-> text, calls |-> calls, answers |-> answers]

User(text)             == Chat("user", text, <<>>, Unset)
Assistant(text, calls) == Chat("assistant", text, calls, Unset)
ToolResult(id)         == Chat("tool", <<>>, <<>>, id)

\* A stream chunk: text, and fragments of calls.
Fragment(index, id, name, args) == [index |-> index, id |-> id, name |-> name, args |-> args]
Chunk(text, fragments) == [text |-> text, calls |-> fragments]

NoCalls == [i \in {} |-> Unset]
Known(calls, index) == index \in DOMAIN calls

\* A reader of a stream keeps its calls by index: a fragment tells the id of its call,
\* and more of its name and its arguments.
Merge(calls, f) ==
  LET old == IF Known(calls, f.index) THEN calls[f.index]
             ELSE [id |-> Unset, name |-> <<>>, args |-> <<>>]
      new == [id   |-> IF f.id # Unset THEN f.id ELSE old.id,
              name |-> old.name \o f.name,
              args |-> old.args \o f.args]
  IN [i \in DOMAIN calls \cup {f.index} |-> IF i = f.index THEN new ELSE calls[i]]
==============================================================================
