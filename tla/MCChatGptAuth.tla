---------------------------- MODULE MCChatGptAuth ----------------------------
(* ChatGptAuth with a few sign-ins, in the environments that the run is about.   *)
EXTENDS ChatGptAuth, TLC

Symmetry == Permutations(Attempts) \cup Permutations(Profiles) \cup Permutations(Owners)
            \cup Permutations(Users)

\* A busy lock and providers that are closed; a server that answers badly; a disk
\* that fails; processes that end.
OneTroubleAtATime == {{"busy", "close"}, {"revoke", "lost"}, {"save"}, {"crash"}}
==============================================================================
