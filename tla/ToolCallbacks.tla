---------------------------- MODULE ToolCallbacks ----------------------------
(* What the Codex provider promises about the App Server's tool callbacks     *)
(* (requests "item/tool/call") of one turn, whatever queues, flags, streams   *)
(* and locks it uses: a callback is either refused at once, or parked, shown  *)
(* to the API caller once and answered with the caller's result, in that      *)
(* order; and with parallel_tool_calls = false the caller has at most one     *)
(* unanswered callback in its hands.                                          *)
EXTENDS FiniteSets

CONSTANTS Calls,     \* the callbacks the App Server may issue
          Parallel   \* parallel_tool_calls

VARIABLE status

Statuses == {"none", "asked", "parked", "shown", "answered"}

Init == status = [c \in Calls |-> "none"]

Move(c, from, to) == /\ status[c] = from
                     /\ status' = [status EXCEPT ![c] = to]

Ask(c)    == Move(c, "none", "asked")
Park(c)   == Move(c, "asked", "parked")
Refuse(c) == Move(c, "asked", "answered")
Answer(c) == Move(c, "shown", "answered")
Show(c)   == /\ Parallel \/ \A d \in Calls : status[d] # "shown"
             /\ Move(c, "parked", "shown")

\* The turn may end, or its connection be lost, with callbacks in any status:
\* they then keep it, so no action is needed for that.
Next == \E c \in Calls : Ask(c) \/ Park(c) \/ Refuse(c) \/ Show(c) \/ Answer(c)

Spec == Init /\ [][Next]_status
==============================================================================
