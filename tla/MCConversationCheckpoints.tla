---------------------- MODULE MCConversationCheckpoints ----------------------
(* ConversationCheckpoints with a few requests, in the environments that the     *)
(* runs are about.                                                               *)
EXTENDS ConversationCheckpoints

Symmetry == Permutations(Requests)

\* One request after the other, through unloaded threads and lost entries.
Orderly == [faults |-> {"lineage", "session"}, abandon |-> FALSE, alone |-> TRUE,
            unloads |-> TRUE]

\* Requests that overlap and are abandoned, and head entries that fail.
Unruly == [faults |-> {"head"}, abandon |-> TRUE, alone |-> FALSE, unloads |-> FALSE]

OrderlyAndUnruly == {Orderly, Unruly}

\* Nothing but an abandoned turn disturbs the conversation.
OnlyAbandoned == {[faults |-> {}, abandon |-> TRUE, alone |-> TRUE, unloads |-> FALSE]}
==============================================================================
