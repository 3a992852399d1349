---------------------------- MODULE CacheAffinity ----------------------------
(* How the gateway keeps a conversation on one prompt cache (gateway/              *)
(* prompt_cache.go, prepareResponseCache, and the ids that http.go returns): it   *)
(* makes an id, gives it to the backend as the key its cache goes by and to the   *)
(* client as conversation_id, and knows it again in the next request, on whatever *)
(* route that is.  A client is a conversation that sends what it was given.        *)
(* Images, embeddings and the cache_control of Claude models on OpenRouter are     *)
(* left out.                                                                       *)
EXTENDS Naturals, FiniteSets

CONSTANTS Routes,     \* [kind, chatDefault, responseDefault]: the effective provider kind,
                      \* and whether the provider's configuration sets the cache key (the
                      \* cache control, for Anthropic) of Chat and of Responses requests
          MaxIds,     \* bound on the ids the gateway and Codex make
          NoId        \* no conversation_id; no key

VARIABLES
  heldId,     \* the conversation_id the client has
  issued,     \* ids made so far
  derived,    \* the keys the gateway chose in this conversation
  exchange    \* the last request of the client, and what the backend got

affinityVars == <<heldId, issued, derived, exchange>>

CacheId(n)     == <<"cache_", n>>
ThreadId(n)    == <<"thread", n>>
RequestKey     == <<"request", 0>>       \* a key that the request or the
DefaultKey     == <<"default", 0>>       \* configuration brought along
Generated(id)  == id \in {CacheId(n) : n \in 1 .. MaxIds}

ASSUME MaxIdsAssumption == MaxIds \in Nat
ASSUME NoIdAssumption   == \A n \in 0 .. MaxIds : NoId \notin {CacheId(n), ThreadId(n)}

\* promptCacheMechanism
Keyed(route) == route.kind \in {"openai", "openrouter", "grok", "chatgpt"}
Cached(route) == Keyed(route) \/ route.kind = "anthropic"

\* What a client may ask: a key or a cache control of its own, and a policy.
Requests1 == [key : BOOLEAN, control : {"none", "request", "block"},
              policy : {"none", "1h", "off", "other"}]

AffinityInit ==
  /\ heldId = NoId /\ issued = 0 /\ derived = {}
  /\ exchange = NoId

------------------------------------------------------------------------------
(* preparePromptCache.                                                         *)

\* A policy is for Anthropic routes, and for requests without controls of their own.
Rejected(route, asked) ==
  asked.policy # "none" /\ (route.kind # "anthropic" \/ asked.policy = "other" \/ asked.control # "none")

\* mutant: an id of the gateway is sent like any other
SentOn(id) == id

\* The gateway's ids are no conversations of a backend.
Strip(id) == IF Generated(id) THEN NoId ELSE id

\* The controls of the request's Extra, "null" for one that takes away the provider's.
Extra(route, asked) ==
  IF route.kind # "anthropic" THEN "none"
  ELSE IF asked.policy = "off" THEN (IF route.chatDefault THEN "null" ELSE "none")
  ELSE IF asked.policy = "1h" THEN "1h"
  ELSE IF asked.control = "request" THEN "request"
  ELSE IF route.chatDefault THEN "none" ELSE "ephemeral"

\* The key that is put into the request, and the id that is returned.
Prepare(route, asked, id, new) ==
  LET kept  == IF id = NoId THEN new ELSE id
      plain == [key |-> NoId, id |-> id]
  IN IF asked.policy = "off" THEN [plain EXCEPT !.id = NoId]
     ELSE IF ~Cached(route) THEN [plain EXCEPT !.id = Strip(id)]
     ELSE IF ~Keyed(route) THEN [plain EXCEPT !.id = kept]
     ELSE IF route.chatDefault \/ asked.key THEN plain
     ELSE [key |-> kept, id |-> kept]

------------------------------------------------------------------------------
(* What the backend gets: the request's fields over those of the configuration. *)

SentKey(route, asked, key, default) ==
  IF ~Keyed(route) THEN NoId
  ELSE IF asked.key THEN RequestKey
  ELSE IF key = NoId /\ default THEN DefaultKey ELSE key

SentControl(route, extra) ==
  IF route.kind # "anthropic" \/ extra = "null" THEN "none"
  ELSE IF extra = "none" /\ route.chatDefault THEN "default" ELSE extra

\* Anthropic and ChatGPT have no field for it.
SentConversation(route, id) == IF route.kind \in {"anthropic", "chatgpt"} THEN NoId ELSE Strip(id)

------------------------------------------------------------------------------
(* The client.                                                                 *)

\* mutant: a stream without an id of the backend's own names none
BackendIdOnly(own, prepared) == own

\* handleChatCompletions and streamChat: the backend's own id, or else the gateway's.
Returned(own, prepared) == IF own # NoId THEN own ELSE prepared

Refused(route, asked) ==
  /\ Rejected(route, asked)
  /\ exchange' = NoId
  /\ UNCHANGED <<heldId, issued, derived>>

\* A Chat request.  Codex answers with the thread it was given, or with a new one.
ChatTurn(route, asked) ==
  LET prepared == Prepare(route, asked, heldId, CacheId(issued + 1))
      given    == SentConversation(route, heldId)
      own      == IF route.kind # "codex" THEN NoId
                  ELSE IF given # NoId THEN given ELSE ThreadId(issued + 1)
      answered == Returned(own, prepared.id)
  IN /\ ~Rejected(route, asked) /\ issued < MaxIds
     /\ exchange' = [route |-> route, asked |-> asked, conversation |-> given,
                     key |-> SentKey(route, asked, prepared.key, route.chatDefault),
                     control |-> SentControl(route, Extra(route, asked))]
     /\ heldId' = IF answered = NoId THEN heldId ELSE answered
     /\ issued' = IF CacheId(issued + 1) \in {prepared.key, prepared.id} \/ own = ThreadId(issued + 1)
                  THEN issued + 1 ELSE issued
     /\ derived' = IF own # NoId /\ own # heldId THEN {}
                   ELSE derived \cup ({prepared.key} \ {NoId})

\* prepareResponseCache: a Responses request names the id as cache_affinity_id.
ResponseKey(route, asked, affinity) ==
  IF Keyed(route) /\ ~route.responseDefault /\ ~asked.key THEN affinity ELSE NoId

\* Nothing is returned; a backend without a Responses API is asked without any key.
ResponseTurn(route, asked) ==
  LET key == ResponseKey(route, asked, heldId)
  IN /\ asked.policy = "none" /\ asked.control = "none"
     /\ exchange' = [route |-> route, asked |-> asked, conversation |-> NoId,
                     key |-> SentKey(route, asked, key, route.responseDefault),
                     control |-> SentControl(route, "none")]
     /\ derived' = derived \cup ({key} \ {NoId})
     /\ UNCHANGED <<heldId, issued>>

\* A client that compacts its history starts a new lifecycle.
StartOver ==
  /\ heldId # NoId
  /\ heldId' = NoId /\ derived' = {}
  /\ UNCHANGED <<issued, exchange>>

AffinityNext ==
  \/ \E route \in Routes, asked \in Requests1 :
       Refused(route, asked) \/ ChatTurn(route, asked) \/ ResponseTurn(route, asked)
  \/ StartOver

AffinitySpec == AffinityInit /\ [][AffinityNext]_affinityVars

------------------------------------------------------------------------------
(* Properties.                                                                 *)

\* What the client and the configuration say about caching goes before what the gateway
\* adds, and the gateway's ids are never a backend's conversation (README.md:366-398).
CallersKeepControl ==
  exchange # NoId =>
    LET asked == exchange.asked  route == exchange.route
    IN /\ ~Generated(exchange.conversation)
       /\ Keyed(route) /\ asked.key => exchange.key = RequestKey
       /\ route.kind = "anthropic" =>
            /\ asked.policy = "off" => exchange.control = "none"
            /\ asked.policy = "1h" => exchange.control = "1h"
            /\ asked.control = "request" => exchange.control = "request"
            /\ exchange.control = "ephemeral" => ~route.chatDefault

\* In a conversation the gateway never changes the key it chose, whichever routes,
\* APIs and policies its turns take and wherever they leave the keyed routes; only a
\* thread of Codex, or the client, begins another.
AffinityIsStable == Cardinality(derived) <= 1
==============================================================================
