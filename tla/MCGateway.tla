------------------------------ MODULE MCGateway ------------------------------
(* The parts of a Gateway that do not meet in one step: a behaviour is one of     *)
(* GatewayRuntime, ModelCatalog, CacheAffinity, AdaptedTurn, ChatGptStream or      *)
(* LruCache, chosen at the start, with the variables of the others at rest.       *)
EXTENDS GatewayRuntime, ModelCatalog, CacheAffinity, AdaptedTurn, ChatGptStream, LruCache

CONSTANTS Subjects     \* the parts that a run is about
VARIABLES subject

gatewayVars == <<subject, vars, catalogueVars, affinityVars, turnVars, chatgptVars, cacheVars>>

MCRoutes ==
  [kind : {"openai", "openrouter", "grok", "chatgpt", "anthropic", "codex", "generic"},
   chatDefault : {FALSE}, responseDefault : {FALSE}]
  \cup [kind : {"openai", "openrouter"}, chatDefault : {TRUE}, responseDefault : {TRUE}]
  \cup [kind : {"grok"}, chatDefault : BOOLEAN, responseDefault : BOOLEAN]
  \cup [kind : {"anthropic"}, chatDefault : {TRUE}, responseDefault : {FALSE}]

MCForms == [kind : {"text", "tool"}, parts : 0 .. 2] \cup [kind : {"note", "plain", "hidden"}, parts : {1}]

MCItemKinds == [kind : {"text"}, parts : {2}] \cup [kind : {"note"}, parts : {1}]
               \cup [kind : {"call", "think"}, parts : {0}]

\* A part that is not the subject stands in one of its initial states.
StartOf(name, first, resting) == first /\ (subject = name \/ resting)

MCInit ==
  /\ subject \in Subjects
  /\ Init /\ AffinityInit /\ CacheInit
  /\ StartOf("catalogue", CatalogueInit, around = "requests" /\ cachedModels = Nobody)
  /\ StartOf("turn", TurnInit, backend = "codex" /\ said = <<[kind |-> "note", parts |-> 1]>>)
  /\ StartOf("chatgpt", ChatGptInit, named = {} /\ answer = <<[kind |-> "note", parts |-> 1]>>)

MCRuntimeNext   == subject = "runtime" /\ Next
MCCatalogueNext == subject = "catalogue" /\ CatalogueNext
MCAffinityNext  == subject = "affinity" /\ AffinityNext
MCTurnNext      == subject = "turn" /\ TurnNext
MCChatGptNext   == subject = "chatgpt" /\ ChatGptNext
MCCacheNext     == subject = "cache" /\ CacheNext

MCNext ==
  /\ UNCHANGED subject
  /\ \/ MCRuntimeNext /\ UNCHANGED <<catalogueVars, affinityVars, turnVars, chatgptVars, cacheVars>>
     \/ MCCatalogueNext /\ UNCHANGED <<vars, affinityVars, turnVars, chatgptVars, cacheVars>>
     \/ MCAffinityNext /\ UNCHANGED <<vars, catalogueVars, turnVars, chatgptVars, cacheVars>>
     \/ MCTurnNext /\ UNCHANGED <<vars, catalogueVars, affinityVars, chatgptVars, cacheVars>>
     \/ MCChatGptNext /\ UNCHANGED <<vars, catalogueVars, affinityVars, turnVars, cacheVars>>
     \/ MCCacheNext /\ UNCHANGED <<vars, catalogueVars, affinityVars, turnVars, chatgptVars>>

MCSafeSpec == MCInit /\ [][MCNext]_gatewayVars

\* The fairness of the part that runs.
MCFairness ==
  /\ \A q \in Requests : WF_vars(subject = "runtime" /\ Return(q))
  /\ \A w \in Reloaders : WF_vars(subject = "runtime" /\ ReloadStep(w))
  /\ WF_vars(subject = "runtime" /\ FinishClose)
  /\ WF_catalogueVars(subject = "catalogue" /\ RefreshStep)

MCSpec == MCSafeSpec /\ MCFairness
==============================================================================
