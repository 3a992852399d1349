---------------------------- MODULE Gateway_proofs ----------------------------
(* Proofs about four parts of a Gateway, for any number of accounts, concurrent    *)
(* requests, routes, ids, items and blocks: the model choices of a ChatGPT route,  *)
(* the cache key of a conversation, what counts as a finished answer, and the      *)
(* answer of a backend that has no Responses API, as its callers get it and send   *)
(* it back.                                                                        *)
EXTENDS ModelCatalog, CacheAffinity, ChatGptStream, AdaptedTurn, FiniteSetTheorems,
        SequenceTheorems, WellFoundedInduction, TLAPS

------------------------------------------------------------------------------
(* ModelCatalog.                                                               *)

Signatures == [account : Accounts \cup {Nobody}, connected : BOOLEAN]

CatalogueTypeOK ==
  /\ active \in Accounts
  /\ authProfile \in Signatures
  /\ cachedModels \in Accounts \cup {Nobody}
  /\ doing \in [Callers -> [at : {"done", "status", "sync", "look", "list", "store"},
                            status : Signatures, changed : BOOLEAN,
                            listed : Accounts \cup {Nobody}]]
  /\ refreshing \in [at : {"idle", "list", "store"}, listed : Accounts \cup {Nobody}]

\* Accounts are taken up in order, so "not before" is >=.  What a request found was true
\* when it looked, and what it listed is not older than the status it holds.
Honest(c) ==
  /\ doing[c].at \in {"sync", "look", "list", "store"} =>
       doing[c].status.account \in Accounts /\ doing[c].status.account <= active
  /\ doing[c].at = "store" =>
       /\ doing[c].listed \in Accounts /\ doing[c].listed <= active
       /\ doing[c].status.account <= doing[c].listed

\* The cache is not older than the status it was synced with, and not from the future.
CacheInOrder ==
  cachedModels # Nobody =>
    /\ cachedModels <= active
    /\ authProfile.account # Nobody => authProfile.account <= cachedModels

\* The inductive invariant: between two ticks no refresh is under way.
CatalogueInv ==
  /\ CatalogueTypeOK
  /\ around = "requests" =>
       /\ refreshing.at = "idle"
       /\ CacheInOrder
       /\ \A c \in Callers : Honest(c)

LEMMA CatalogueInvInit == CatalogueInit => CatalogueInv
  BY AccountsAssumption, NobodyAssumption
  DEF CatalogueInit, CatalogueInv, CatalogueTypeOK, CacheInOrder, Honest, Signatures, Unsynced, Resting

\* Requests and refreshes keep the variables in their types.
LEMMA CatalogueTypeStep == CatalogueTypeOK /\ [CatalogueNext]_catalogueVars => CatalogueTypeOK'
<1> SUFFICES ASSUME CatalogueTypeOK, [CatalogueNext]_catalogueVars PROVE CatalogueTypeOK'
  OBVIOUS
<1> USE DEF CatalogueTypeOK, Signatures, Here
<1>1. ASSUME NEW c \in Callers, Begin(c) PROVE CatalogueTypeOK'
  BY <1>1 DEF Begin, Move
<1>2. ASSUME NEW c \in Callers, ReadStatus(c) PROVE CatalogueTypeOK'
  <2>1. Signature \in Signatures
    BY DEF Signature
  <2> QED
    BY <1>2, <2>1 DEF ReadStatus
<1>3. ASSUME NEW c \in Callers, StatusFails(c) \/ Look(c) \/ ListFails(c) PROVE CatalogueTypeOK'
  <2>1. Move(c, "list") \/ Move(c, "done")
    BY <1>3 DEF StatusFails, Look, ListFails
  <2>2. UNCHANGED <<active, authProfile, cachedModels, refreshing>>
    BY <1>3 DEF StatusFails, Look, ListFails
  <2>3. CASE Move(c, "list")
    BY <2>2, <2>3 DEF Move
  <2>4. CASE Move(c, "done")
    <3>1. Resting \in [at : {"done"}, status : Signatures, changed : BOOLEAN,
                       listed : Accounts \cup {Nobody}]
      BY DEF Resting, Unsynced
    <3>2. doing' = [doing EXCEPT ![c] = Resting]
      BY <2>4 DEF Move
    <3> QED
      BY <2>2, <3>1, <3>2
  <2> QED
    BY <2>1, <2>3, <2>4
<1>4. ASSUME NEW c \in Callers, Compare(c) PROVE CatalogueTypeOK'
  <2>1. doing[c] \in [at : {"done", "status", "sync", "look", "list", "store"},
                       status : Signatures, changed : BOOLEAN, listed : Accounts \cup {Nobody}]
    OBVIOUS
  <2>2. PICK changed \in BOOLEAN :
          /\ doing' = [doing EXCEPT ![c] = [@ EXCEPT !.at = "look", !.changed = changed]]
          /\ cachedModels' \in {Nobody, cachedModels}
    BY <1>4 DEF Compare, Flushed
  <2>3. [doing[c] EXCEPT !.at = "look", !.changed = changed]
          \in [at : {"done", "status", "sync", "look", "list", "store"},
               status : Signatures, changed : BOOLEAN, listed : Accounts \cup {Nobody}]
    BY <2>1
  <2>4. authProfile' = doing[c].status /\ UNCHANGED <<active, refreshing>>
    BY <1>4 DEF Compare
  <2> QED
    BY <2>1, <2>2, <2>3, <2>4
<1>5. ASSUME NEW c \in Callers, TakeToken(c) PROVE CatalogueTypeOK'
  BY <1>5 DEF TakeToken
<1>6. ASSUME NEW c \in Callers, StoreListed(c) PROVE CatalogueTypeOK'
  BY <1>6 DEF StoreListed, Move, Resting, Unsynced
<1>7. CASE RefreshStep
  BY <1>7 DEF RefreshStep, Tick, RefreshTakesToken, RefreshFails, RefreshStores, Refreshed
<1>8. CASE UNCHANGED catalogueVars
  BY <1>8 DEF catalogueVars
<1> QED
  BY <1>1, <1>2, <1>3, <1>4, <1>5, <1>6, <1>7, <1>8 DEF CatalogueNext, CallerStep

\* A request changes what is true of itself only, unless the active account changes, which
\* it does forwards.
LEMMA OthersStayHonest ==
  ASSUME CatalogueTypeOK, CatalogueTypeOK', NEW c \in Callers, NEW d \in Callers, Honest(d),
         d # c, active <= active', doing' = [doing EXCEPT ![c] = doing'[c]]
  PROVE  Honest(d)'
<1>1. doing'[d] = doing[d]
  BY DEF CatalogueTypeOK
<1>2. \A a \in Accounts : a <= active => a <= active'
  BY AccountsAssumption DEF CatalogueTypeOK
<1> QED
  BY <1>1, <1>2 DEF Honest

LEMMA CatalogueInvStep == CatalogueInv /\ [CatalogueNext]_catalogueVars => CatalogueInv'
<1> SUFFICES ASSUME CatalogueInv, [CatalogueNext]_catalogueVars PROVE CatalogueInv'
  OBVIOUS
<1>0. CatalogueTypeOK /\ CatalogueTypeOK' /\ around' = around
  BY CatalogueTypeStep
  DEF CatalogueInv, CatalogueNext, CallerStep, Begin, ReadStatus, StatusFails, Compare, Look, TakeToken,
      ListFails, StoreListed, RefreshStep, Tick, RefreshTakesToken, RefreshFails, RefreshStores,
      catalogueVars
<1> SUFFICES ASSUME around = "requests"
             PROVE  refreshing'.at = "idle" /\ CacheInOrder' /\ \A c \in Callers : Honest(c)'
  BY <1>0 DEF CatalogueInv
<1>1. refreshing.at = "idle" /\ CacheInOrder /\ \A c \in Callers : Honest(c)
  BY DEF CatalogueInv
<1> DEFINE Goal == refreshing' = refreshing /\ CacheInOrder' /\ \A d \in Callers : Honest(d)'
<1>2. ASSUME NEW c \in Callers, Begin(c) PROVE Goal
  <2>1. active <= active' /\ refreshing' = refreshing /\ cachedModels' = cachedModels
        /\ authProfile' = authProfile /\ doing' = [doing EXCEPT ![c].at = "status"]
    BY <1>2, <1>0, AccountsAssumption DEF Begin, Move, CatalogueTypeOK
  <2>2. CacheInOrder'
    BY <2>1, <1>1, <1>0, AccountsAssumption DEF CacheInOrder, CatalogueTypeOK
  <2>3. Honest(c)'
    BY <2>1, <1>0 DEF Honest, CatalogueTypeOK
  <2>4. doing' = [doing EXCEPT ![c] = doing'[c]]
    BY <2>1, <1>0 DEF CatalogueTypeOK
  <2> QED
    BY <2>1, <2>2, <2>3, <2>4, <1>0, <1>1, OthersStayHonest
<1>3. ASSUME NEW c \in Callers,
             ReadStatus(c) \/ StatusFails(c) \/ Look(c) \/ TakeToken(c) \/ ListFails(c)
      PROVE  Goal
  <2>1. UNCHANGED <<active, refreshing, cachedModels, authProfile>>
        /\ doing' = [doing EXCEPT ![c] = doing'[c]]
    BY <1>3, <1>0
    DEF ReadStatus, StatusFails, Look, TakeToken, ListFails, Move, Resting, Unsynced, CatalogueTypeOK
  <2>2. CacheInOrder'
    BY <2>1, <1>1 DEF CacheInOrder
  <2>3. Honest(c)'
    <3>1. CASE ReadStatus(c)
      BY <3>1, <1>0, AccountsAssumption DEF ReadStatus, Signature, Honest, CatalogueTypeOK
    <3>2. CASE StatusFails(c) \/ ListFails(c)
      BY <3>2, <1>0 DEF StatusFails, ListFails, Move, Resting, Honest, CatalogueTypeOK
    <3>3. CASE Look(c)
      BY <3>3, <1>0, <1>1 DEF Look, Move, Here, Resting, Honest, CatalogueTypeOK
    <3>4. CASE TakeToken(c)
      BY <3>4, <1>0, <1>1, AccountsAssumption DEF TakeToken, Here, Honest, CatalogueTypeOK
    <3> QED
      BY <1>3, <3>1, <3>2, <3>3, <3>4
  <2>4. active <= active'
    BY <2>1, <1>0, AccountsAssumption DEF CatalogueTypeOK
  <2> QED
    BY <2>1, <2>2, <2>3, <2>4, <1>0, <1>1, OthersStayHonest
<1>4. ASSUME NEW c \in Callers, Compare(c) PROVE Goal
  <2>1. UNCHANGED <<active, refreshing>> /\ doing' = [doing EXCEPT ![c] = doing'[c]]
    BY <1>4, <1>0 DEF Compare, CatalogueTypeOK
  <2>2. CacheInOrder'
    \* either the cache was emptied, or the recorded status is the one it already had
    BY <1>4, <1>1 DEF Compare, Flushed, CacheInOrder
  <2>3. Honest(c)'
    BY <1>4, <1>0, <1>1 DEF Compare, Here, Honest, CatalogueTypeOK
  <2>4. active <= active'
    BY <2>1, <1>0, AccountsAssumption DEF CatalogueTypeOK
  <2> QED
    BY <2>1, <2>2, <2>3, <2>4, <1>0, <1>1, OthersStayHonest
<1>5. ASSUME NEW c \in Callers, StoreListed(c) PROVE Goal
  <2>1. UNCHANGED <<active, refreshing, authProfile>> /\ doing' = [doing EXCEPT ![c] = doing'[c]]
    BY <1>5, <1>0 DEF StoreListed, Move, Resting, Unsynced, CatalogueTypeOK
  <2>2. CacheInOrder'
    \* what is stored is not older than the status that it was compared with
    BY <1>5, <1>1 DEF StoreListed, StillCurrent, Here, Honest, CacheInOrder
  <2>3. Honest(c)'
    BY <1>5, <1>0 DEF StoreListed, Move, Resting, Honest, CatalogueTypeOK
  <2>4. active <= active'
    BY <2>1, <1>0, AccountsAssumption DEF CatalogueTypeOK
  <2> QED
    BY <2>1, <2>2, <2>3, <2>4, <1>0, <1>1, OthersStayHonest
<1>6. ~RefreshStep
  BY <1>1 DEF RefreshStep, Tick, RefreshTakesToken, RefreshFails, RefreshStores
<1>7. CASE UNCHANGED catalogueVars
  BY <1>7, <1>1 DEF catalogueVars, CacheInOrder, Honest
<1> QED
  BY <1>1, <1>2, <1>3, <1>4, <1>5, <1>6, <1>7 DEF CatalogueNext, CallerStep

\* Between two ticks of the refresh, however many requests switch, disconnect and list at
\* the same time, the choices that were synced with the active account are its own or none.
THEOREM CatalogueOfActive == CatalogueSpec => []CatalogueIsActive
<1>1. CatalogueInv => CatalogueIsActive
  BY AccountsAssumption, NobodyAssumption
  DEF CatalogueInv, CatalogueTypeOK, CacheInOrder, CatalogueIsActive, Signature
<1> QED
  BY CatalogueInvInit, CatalogueInvStep, <1>1, PTL DEF CatalogueSpec

------------------------------------------------------------------------------
(* CacheAffinity.                                                              *)

\* The inductive invariant: the gateway chose no key but the id that the client holds.
KeyIsHeld ==
  /\ issued \in 0 .. MaxIds
  /\ derived \subseteq {heldId} \ {NoId}

\* What preparePromptCache puts into a request is what it returns, and a conversation
\* that has an id keeps it.
LEMMA PreparedKeyIsReturned ==
  ASSUME NEW route, NEW asked, NEW id, NEW new,
         new # NoId, NEW p, p = Prepare(route, asked, id, new)
  PROVE  /\ p.key # NoId => p.id = p.key
         /\ id # NoId /\ p.id # NoId => p.id = id
  BY DEF Prepare, Strip

LEMMA KeyIsHeldStep == KeyIsHeld /\ [AffinityNext]_affinityVars => KeyIsHeld'
<1> SUFFICES ASSUME KeyIsHeld, [AffinityNext]_affinityVars PROVE KeyIsHeld'
  OBVIOUS
<1> USE DEF KeyIsHeld
<1>1. ASSUME NEW route \in Routes, NEW asked \in Requests1, ChatTurn(route, asked)
      PROVE  KeyIsHeld'
  <2> DEFINE prepared == Prepare(route, asked, heldId, CacheId(issued + 1))
             given    == SentConversation(route, heldId)
             own      == IF route.kind # "codex" THEN NoId
                         ELSE IF given # NoId THEN given ELSE ThreadId(issued + 1)
  <2>1. /\ heldId' = IF Returned(own, prepared.id) = NoId THEN heldId ELSE Returned(own, prepared.id)
        /\ derived' = IF own # NoId /\ own # heldId THEN {} ELSE derived \cup ({prepared.key} \ {NoId})
    BY <1>1 DEF ChatTurn
  <2>2. CacheId(issued + 1) # NoId
    BY <1>1, MaxIdsAssumption, NoIdAssumption DEF ChatTurn
  <2>3. /\ prepared.key # NoId => prepared.id = prepared.key
        /\ heldId # NoId /\ prepared.id # NoId => prepared.id = heldId
    BY <2>2, PreparedKeyIsReturned
  <2>4. own # NoId => prepared.key = NoId
    BY DEF Prepare, Keyed, Cached
  <2>5. issued' \in 0 .. MaxIds
    BY <1>1, MaxIdsAssumption DEF ChatTurn
  <2> HIDE DEF prepared, own
  <2> QED
    BY <2>1, <2>2, <2>3, <2>4, <2>5 DEF Returned
<1>2. ASSUME NEW route \in Routes, NEW asked \in Requests1,
             Refused(route, asked) \/ ResponseTurn(route, asked)
      PROVE  KeyIsHeld'
  BY <1>2 DEF Refused, ResponseTurn, ResponseKey
<1>3. CASE StartOver
  BY <1>3 DEF StartOver
<1>4. CASE UNCHANGED affinityVars
  BY <1>4 DEF affinityVars
<1> QED
  BY <1>1, <1>2, <1>3, <1>4 DEF AffinityNext

\* Whatever routes, APIs and policies the turns of a conversation take, in any order, the
\* gateway gives its backends at most one key of its own choice.
THEOREM OneKeyPerConversation == AffinitySpec => []AffinityIsStable
<1>1. AffinityInit => KeyIsHeld
  BY MaxIdsAssumption DEF AffinityInit, KeyIsHeld
<1>2. KeyIsHeld => AffinityIsStable
  <2> SUFFICES ASSUME KeyIsHeld PROVE Cardinality(derived) <= 1
    BY DEF AffinityIsStable
  <2>1. derived = {} \/ derived = {heldId}
    BY DEF KeyIsHeld
  <2>2. Cardinality({}) = 0 /\ Cardinality({heldId}) = 1
    BY FS_EmptySet, FS_Singleton
  <2> QED
    BY <2>1, <2>2
<1> QED
  BY <1>1, <1>2, KeyIsHeldStep, PTL DEF AffinitySpec

\* No id of the gateway is sent to a backend as a conversation.
LEMMA StripHidesIds == ASSUME NEW id PROVE ~Generated(Strip(id))
<1>1. ~Generated(NoId)
  BY NoIdAssumption, MaxIdsAssumption DEF Generated
<1> QED
  BY <1>1 DEF Strip

\* Requests1 has the controls apart that a request may bring and a policy may ask for:
\* an accepted policy comes without a control of the request's own.
LEMMA AcceptedPolicy ==
  ASSUME NEW route, NEW asked \in Requests1, ~Rejected(route, asked), asked.policy # "none"
  PROVE  route.kind = "anthropic" /\ asked.control = "none" /\ asked.policy \in {"1h", "off"}
  BY DEF Rejected, Requests1

\* A request that was accepted keeps its own keys and controls, whatever came before it,
\* and no id of the gateway reaches a backend as a conversation.
THEOREM CallersControlCaching == AffinitySpec => []CallersKeepControl
<1>1. AffinityInit => CallersKeepControl
  BY DEF AffinityInit, CallersKeepControl
<1>2. CallersKeepControl /\ [AffinityNext]_affinityVars => CallersKeepControl'
  <2> SUFFICES ASSUME CallersKeepControl, [AffinityNext]_affinityVars PROVE CallersKeepControl'
    OBVIOUS
  <2>1. ASSUME NEW route \in Routes, NEW asked \in Requests1, ChatTurn(route, asked)
        PROVE  CallersKeepControl'
    <3> DEFINE prepared == Prepare(route, asked, heldId, CacheId(issued + 1))
               conversation == SentConversation(route, heldId)
               key == SentKey(route, asked, prepared.key, route.chatDefault)
               control == SentControl(route, Extra(route, asked))
    <3>1. exchange' = [route |-> route, asked |-> asked, conversation |-> conversation,
                       key |-> key, control |-> control] /\ ~Rejected(route, asked)
      BY <2>1 DEF ChatTurn
    <3>2. ~Generated(conversation)
      BY StripHidesIds, NoIdAssumption, MaxIdsAssumption DEF SentConversation, Strip, Generated
    <3>3. Keyed(route) /\ asked.key => key = RequestKey
      BY DEF SentKey
    <3>4. ASSUME route.kind = "anthropic"
          PROVE  /\ asked.policy = "off" => control = "none"
                 /\ asked.policy = "1h" => control = "1h"
                 /\ asked.control = "request" => control = "request"
                 /\ control = "ephemeral" => ~route.chatDefault
      <4>1. asked.policy # "none" => asked.control = "none" /\ asked.policy \in {"1h", "off"}
        BY <3>1, AcceptedPolicy
      <4>2. asked.policy = "off" => control = "none"
        BY <3>4 DEF SentControl, Extra
      <4>3. asked.policy = "1h" => control = "1h"
        BY <3>4 DEF SentControl, Extra
      <4>4. asked.control = "request" => control = "request"
        BY <3>4, <4>1 DEF SentControl, Extra
      <4>5. control = "ephemeral" => ~route.chatDefault
        BY <3>4, <4>1 DEF SentControl, Extra
      <4> QED
        BY <4>2, <4>3, <4>4, <4>5
    <3> HIDE DEF conversation, key, control
    <3>5. /\ exchange'.route = route /\ exchange'.asked = asked /\ exchange'.key = key
          /\ exchange'.conversation = conversation /\ exchange'.control = control
      BY <3>1
    <3> QED
      BY <3>2, <3>3, <3>4, <3>5 DEF CallersKeepControl
  <2>2. ASSUME NEW route \in Routes, NEW asked \in Requests1, ResponseTurn(route, asked)
        PROVE  CallersKeepControl'
    <3> DEFINE key == SentKey(route, asked, ResponseKey(route, asked, heldId), route.responseDefault)
               control == SentControl(route, "none")
    <3>1. exchange' = [route |-> route, asked |-> asked, conversation |-> NoId,
                       key |-> key, control |-> control]
          /\ asked.policy = "none" /\ asked.control = "none"
      BY <2>2 DEF ResponseTurn
    <3>2. ~Generated(NoId)
      BY NoIdAssumption, MaxIdsAssumption DEF Generated
    <3>3. Keyed(route) /\ asked.key => key = RequestKey
      BY DEF SentKey
    <3>4. control # "ephemeral"
      BY DEF SentControl
    <3> HIDE DEF key, control
    <3>5. /\ exchange'.route = route /\ exchange'.asked = asked /\ exchange'.key = key
          /\ exchange'.conversation = NoId /\ exchange'.control = control
      BY <3>1
    <3> QED
      BY <3>1, <3>2, <3>3, <3>4, <3>5, Zenon DEF CallersKeepControl
  <2>3. ASSUME NEW route \in Routes, NEW asked \in Requests1, Refused(route, asked)
        PROVE  CallersKeepControl'
    BY <2>3 DEF Refused, CallersKeepControl
  <2>4. CASE StartOver \/ UNCHANGED affinityVars
    BY <2>4 DEF StartOver, affinityVars, CallersKeepControl
  <2> QED
    BY <2>1, <2>2, <2>3, <2>4 DEF AffinityNext
<1> QED
  BY <1>1, <1>2, PTL DEF AffinitySpec

------------------------------------------------------------------------------
(* ChatGptStream.                                                              *)

\* Before the backend's end the native caller has no end, and the others at most an error.
EndsFollow ==
  /\ backendEnd = "streaming" =>
       native = "open" /\ chatEnd \in {"open", "error"} /\ wholeEnd \in {"open", "error"}
  /\ OnlyFinishedCompletes

LEMMA EndsFollowStep == EndsFollow /\ [ChatGptNext]_chatgptVars => EndsFollow'
<1> SUFFICES ASSUME EndsFollow, [ChatGptNext]_chatgptVars PROVE EndsFollow'
  OBVIOUS
<1> USE DEF EndsFollow, OnlyFinishedCompletes
<1>1. CASE OpenItem \/ TextDelta \/ ItemDone
  <2>1. UNCHANGED <<backendEnd, native, chatEnd, wholeEnd>>
    BY <1>1 DEF OpenItem, TextDelta, ItemDone
  <2> QED
    BY <2>1
<1>2. ASSUME NEW event \in {"added", "done"}, Malformed(event) PROVE EndsFollow'
  <2>1. /\ backendEnd = "streaming" /\ UNCHANGED <<backendEnd, native>>
        /\ chatEnd' = "error" /\ wholeEnd' \in {"error", wholeEnd}
    BY <1>2 DEF Malformed, Live
  <2> QED
    BY <2>1
<1>3. CASE Completed
  <2>1. /\ backendEnd = "streaming" /\ backendEnd' = "completed" /\ native' = "completed"
        /\ chatEnd' \in {"completed", "error"} /\ wholeEnd' \in {"completed", "error"}
    BY <1>3 DEF Completed, Live, Stop
  <2> QED
    BY <2>1
<1>4. ASSUME NEW event \in {"eof", "failed", "unfinished", "broken"}, Fault(event) PROVE EndsFollow'
  BY <1>4 DEF Fault, Live, Ended, Recv, Stop
<1>5. CASE UNCHANGED chatgptVars
  BY <1>5 DEF chatgptVars
<1> QED
  BY <1>1, <1>2, <1>3, <1>4, <1>5 DEF ChatGptNext

\* Whatever the backend answers, in however many items, and however its stream ends: it is
\* a finished answer for a caller only if the backend completed it, and every caller ends.
THEOREM UnfinishedIsNeverSuccess == ChatGptSpec => []OnlyFinishedCompletes
<1>1. ChatGptInit => EndsFollow
  BY DEF ChatGptInit, EndsFollow, OnlyFinishedCompletes
<1>2. EndsFollow => OnlyFinishedCompletes
  BY DEF EndsFollow
<1> QED
  BY <1>1, <1>2, EndsFollowStep, PTL DEF ChatGptSpec

------------------------------------------------------------------------------
(* Sorted indexes and flattened sequences.                                     *)

\* A set of numbers has a least one: the form of induction the proofs below use.
LEMMA LeastNat == ASSUME NEW T, T \subseteq Nat, T # {} PROVE \E x \in T : \A y \in T : x <= y
<1> DEFINE R == OpToRel(<, Nat)
<1>1. IsWellFoundedOn(R, Nat)
  BY NatLessThanWellFounded, Zenon
<1>2. \E x \in T : \A y \in T : ~ (<<y, x>> \in R)
  <2> HIDE DEF R
  <2> QED
    BY <1>1, WFMin, Zenon
<1>3. \A x, y \in Nat : ~ (<<y, x>> \in R) => x <= y
  BY DEF OpToRel
<1> QED
  BY <1>2, <1>3

\* Induction over the numbers, for a set in place of a predicate.
LEMMA NatSetInduction ==
  ASSUME NEW T, 0 \in T, \A n \in Nat : n \in T => n + 1 \in T
  PROVE  Nat \subseteq T
<1> DEFINE F == {n \in Nat : n \notin T}
<1>1. SUFFICES ASSUME F # {} PROVE FALSE
  OBVIOUS
<1>2. PICK x \in F : \A y \in F : x <= y
  BY <1>1, LeastNat, Zenon
<1>3. x # 0 /\ x - 1 \in Nat /\ x - 1 \in T /\ x \notin T
  BY <1>2
<1> QED
  BY <1>3

\* The greatest element of a bounded set of numbers.
LEMMA MaxFacts ==
  ASSUME NEW S, S \subseteq Nat, S # {}, NEW b \in Nat, \A x \in S : x <= b
  PROVE  Max(S) \in S /\ \A y \in S : y <= Max(S)
<1> DEFINE B == {n \in Nat : \A x \in S : x <= n}
<1>1. PICK m \in B : \A n \in B : m <= n
  <2>1. B \subseteq Nat /\ b \in B
    OBVIOUS
  <2> HIDE DEF B
  <2> QED
    BY <2>1, LeastNat, Zenon
<1>2. m \in S
  <2>1. SUFFICES ASSUME m \notin S PROVE FALSE
    OBVIOUS
  <2>2. PICK z \in S : TRUE
    OBVIOUS
  <2>3. m > 0
    BY <2>1, <2>2
  <2>4. m - 1 \in B
    BY <2>1, <2>3
  <2> QED
    BY <1>1, <2>3, <2>4
<1>3. \A y \in S : m >= y
  OBVIOUS
<1>4. Max(S) \in S /\ \A y \in S : Max(S) >= y
  BY <1>2, <1>3, Zenon DEF Max
<1> QED
  BY <1>4

\* A finite set of numbers can be put in order.
LEMMA AscendingExists ==
  ASSUME NEW S, S \subseteq Nat, IsFiniteSet(S)
  PROVE  \E s \in [1 .. Cardinality(S) -> S] :
           \A m, n \in 1 .. Cardinality(S) : m < n => s[m] < s[n]
<1> DEFINE Sorted(A, s) == \A m, n \in 1 .. Cardinality(A) : m < n => s[m] < s[n]
           T == {c \in Nat : \A A \in SUBSET Nat : IsFiniteSet(A) /\ Cardinality(A) = c
                   => \E s \in [1 .. Cardinality(A) -> A] : Sorted(A, s)}
<1>1. 0 \in T
  <2> SUFFICES ASSUME NEW A \in SUBSET Nat, IsFiniteSet(A), Cardinality(A) = 0
               PROVE  \E s \in [1 .. Cardinality(A) -> A] : Sorted(A, s)
    OBVIOUS
  <2>1. [k \in 1 .. Cardinality(A) |-> 0] \in [1 .. Cardinality(A) -> A]
    OBVIOUS
  <2>2. Sorted(A, [k \in 1 .. Cardinality(A) |-> 0])
    OBVIOUS
  <2> QED
    BY <2>1, <2>2, Zenon
<1>2. ASSUME NEW c \in Nat, c \in T PROVE c + 1 \in T
  <2> SUFFICES ASSUME NEW A \in SUBSET Nat, IsFiniteSet(A), Cardinality(A) = c + 1
               PROVE  \E s \in [1 .. Cardinality(A) -> A] : Sorted(A, s)
    OBVIOUS
  <2>1. A # {}
    BY FS_EmptySet
  <2>2. PICK x \in A : \A y \in A : x <= y
    BY <2>1, LeastNat, Zenon
  <2>3. IsFiniteSet(A \ {x}) /\ Cardinality(A \ {x}) = c
    <3>1. IsFiniteSet(A \ {x}) /\ Cardinality(A \ {x}) = Cardinality(A) - 1
      BY FS_RemoveElement
    <3> QED
      BY <3>1
  <2>4. PICK t \in [1 .. c -> A \ {x}] : \A m, n \in 1 .. c : m < n => t[m] < t[n]
    BY <1>2, <2>3
  <2> DEFINE s == [k \in 1 .. c + 1 |-> IF k = 1 THEN x ELSE t[k - 1]]
  <2>5. s \in [1 .. c + 1 -> A]
    OBVIOUS
  <2>6. ASSUME NEW m \in 1 .. c + 1, NEW n \in 1 .. c + 1, m < n PROVE s[m] < s[n]
    <3>1. n - 1 \in 1 .. c /\ s[n] = t[n - 1] /\ t[n - 1] \in A \ {x}
      BY <2>6
    <3>2. CASE m = 1
      <4>1. s[m] = x
        BY <3>2
      <4>2. x \in Nat /\ t[n - 1] \in Nat /\ x <= t[n - 1] /\ t[n - 1] # x
        BY <2>2, <3>1
      <4> HIDE DEF s
      <4> QED
        BY <3>1, <4>1, <4>2
    <3>3. CASE m # 1
      <4>1. m - 1 \in 1 .. c /\ s[m] = t[m - 1] /\ m - 1 < n - 1
        BY <2>6, <3>3
      <4> QED
        BY <2>4, <3>1, <4>1
    <3> QED
      BY <3>2, <3>3
  <2> HIDE DEF s
  <2> QED
    BY <2>5, <2>6
<1> HIDE DEF T
<1>3. Cardinality(S) \in T
  BY <1>1, <1>2, NatSetInduction, FS_CardinalityType
<1> QED
  BY <1>3 DEF T

\* What sort.Ints returns: every element, once, in order.
LEMMA AscendingFacts ==
  ASSUME NEW S, S \subseteq Nat, IsFiniteSet(S)
  PROVE  /\ Cardinality(S) \in Nat
         /\ Ascending(S) \in [1 .. Cardinality(S) -> S]
         /\ \A m, n \in 1 .. Cardinality(S) : m < n => Ascending(S)[m] < Ascending(S)[n]
         /\ \A x \in S : \E n \in 1 .. Cardinality(S) : Ascending(S)[n] = x
<1> DEFINE c == Cardinality(S)
           s == Ascending(S)
<1>1. c \in Nat
  BY FS_CardinalityType
<1>2. s \in [1 .. c -> S] /\ \A m, n \in 1 .. c : m < n => s[m] < s[n]
  BY AscendingExists, Zenon DEF Ascending
<1>3. s \in Injection(1 .. c, S)
  <2> HIDE DEF s, c
  <2>1. \A m, n \in 1 .. c : s[m] = s[n] => m = n
    <3> SUFFICES ASSUME NEW m \in 1 .. c, NEW n \in 1 .. c, s[m] = s[n], m # n PROVE FALSE
      OBVIOUS
    <3>1. m \in Nat /\ n \in Nat /\ s[m] \in Nat
      <4>1. s[m] \in Nat
        BY <1>2, Zenon
      <4>2. \A k \in Nat : \A i \in 1 .. k : i \in Nat
        OBVIOUS
      <4>3. m \in Nat /\ n \in Nat
        BY <1>1, <4>2, Zenon
      <4> QED
        BY <4>1, <4>3, Zenon
    <3>2. CASE m < n
      BY <1>2, <3>1, <3>2
    <3>3. CASE n < m
      BY <1>2, <3>1, <3>3
    <3> QED
      BY <3>1, <3>2, <3>3
  <2> QED
    BY <1>2, <2>1 DEF Injection, IsInjective
<1>4. IsFiniteSet(1 .. c) /\ Cardinality(1 .. c) = c
  <2> HIDE DEF c
  <2> QED
    BY <1>1, FS_Interval
<1>5. s \in Surjection(1 .. c, S)
  <2> HIDE DEF s
  <2> QED
    BY <1>3, <1>4, FS_Injection
<1> HIDE DEF s, c
<1>6. \A x \in S : \E n \in 1 .. c : s[n] = x
  BY <1>5 DEF Surjection
<1> QED
  BY <1>1, <1>2, <1>6 DEF s, c

\* The numbers up to k are in order already.
LEMMA AscendingInterval == ASSUME NEW k \in Nat PROVE Ascending(1 .. k) = [i \in 1 .. k |-> i]
<1> DEFINE s == Ascending(1 .. k)
<1>1. Cardinality(1 .. k) = k /\ IsFiniteSet(1 .. k)
  BY FS_Interval
<1>2. /\ s \in [1 .. k -> 1 .. k]
      /\ \A m, n \in 1 .. k : m < n => s[m] < s[n]
  <2>1. 1 .. k \subseteq Nat
    OBVIOUS
  <2> QED
    BY <1>1, <2>1, AscendingFacts
<1> HIDE DEF s
<1>3. \A n \in 1 .. k : s[n] >= n
  <2> DEFINE T == {n \in Nat : n \in 1 .. k => s[n] >= n}
  <2>1. 0 \in T
    OBVIOUS
  <2>2. ASSUME NEW n \in Nat, n \in T PROVE n + 1 \in T
    <3>1. CASE n \in 1 .. k /\ n + 1 \in 1 .. k
      <4>1. s[n] < s[n + 1] /\ s[n] >= n /\ s[n] \in 1 .. k /\ s[n + 1] \in 1 .. k
        BY <1>2, <2>2, <3>1
      <4> QED
        BY <3>1, <4>1
    <3>2. CASE n = 0
      BY <1>2, <3>2
    <3> QED
      BY <3>1, <3>2
  <2> HIDE DEF T
  <2>3. \A n \in Nat : n \in T
    BY <2>1, <2>2, NatSetInduction
  <2> QED
    BY <2>3 DEF T
<1>4. \A n \in 1 .. k : s[n] <= n
  <2> DEFINE T == {d \in Nat : d \in 0 .. k - 1 => s[k - d] <= k - d}
  <2>1. 0 \in T
    BY <1>2
  <2>2. ASSUME NEW d \in Nat, d \in T PROVE d + 1 \in T
    <3>1. SUFFICES ASSUME d + 1 \in 0 .. k - 1 PROVE s[k - (d + 1)] <= k - (d + 1)
      OBVIOUS
    <3>2. k - d \in 1 .. k /\ k - (d + 1) \in 1 .. k /\ k - (d + 1) < k - d
      BY <3>1
    <3>3. s[k - (d + 1)] < s[k - d] /\ s[k - d] \in 1 .. k /\ s[k - (d + 1)] \in 1 .. k
      BY <1>2, <3>2
    <3>4. s[k - d] <= k - d
      BY <2>2, <3>1
    <3> QED
      BY <3>3, <3>4
  <2> HIDE DEF T
  <2>3. \A d \in Nat : d \in T
    BY <2>1, <2>2, NatSetInduction
  <2>4. ASSUME NEW n \in 1 .. k PROVE s[n] <= n
    <3>1. k - n \in T /\ k - n \in 0 .. k - 1 /\ k - (k - n) = n
      BY <2>3
    <3> QED
      BY <3>1 DEF T
  <2> QED
    BY <2>4
<1>5. \A n \in 1 .. k : s[n] = n
  BY <1>2, <1>3, <1>4
<1> QED
  BY <1>2, <1>5 DEF s

\* A chain of concatenations that starts with the first sequence ends with all of them.
LEMMA FlattenIs ==
  ASSUME NEW E, NEW ss \in Seq(Seq(E)), ss # <<>>, NEW h \in [1 .. Len(ss) -> Seq(E)],
         h[1] = ss[1], \A i \in 2 .. Len(ss) : h[i] = h[i - 1] \o ss[i]
  PROVE  FlattenSeq(ss) = h[Len(ss)]
<1> DEFINE n == Len(ss)
           Step(f) == [i \in 1 .. n |-> IF i = 1 THEN ss[i] ELSE f[i - 1] \o ss[i]]
           flat == CHOOSE f : f = Step(f)
<1>1. n \in Nat /\ n > 0
  BY EmptySeq
<1> HIDE DEF n
<1>2. h = Step(h)
  <2>1. h \in [1 .. n -> Seq(E)] /\ h[1] = ss[1] /\ \A i \in 2 .. n : h[i] = h[i - 1] \o ss[i]
    BY DEF n
  <2>2. \A i \in 1 .. n : i = 1 \/ i \in 2 .. n
    BY <1>1
  <2>3. \A i \in 1 .. n : h[i] = IF i = 1 THEN ss[i] ELSE h[i - 1] \o ss[i]
    BY <2>1, <2>2, Zenon
  <2> QED
    BY <2>1, <2>3
<1>3. flat = Step(flat)
  <2> HIDE DEF Step
  <2> QED
    BY <1>2, Zenon
<1> HIDE DEF flat
<1>4. flat[1] = ss[1] /\ \A i \in 2 .. n : flat[i] = flat[i - 1] \o ss[i]
  <2>1. 1 \in 1 .. n /\ \A i \in 2 .. n : i \in 1 .. n /\ i # 1
    BY <1>1
  <2>2. ASSUME NEW i \in 1 .. n PROVE flat[i] = IF i = 1 THEN ss[i] ELSE flat[i - 1] \o ss[i]
    BY <1>3, Zenon
  <2> QED
    BY <2>1, <2>2, Zenon
<1>5. \A i \in 1 .. n : flat[i] = h[i]
  <2> DEFINE T == {i \in Nat : i + 1 \in 1 .. n => flat[i + 1] = h[i + 1]}
  <2>1. 0 \in T
    BY <1>4
  <2>2. ASSUME NEW i \in Nat, i \in T PROVE i + 1 \in T
    <3>1. SUFFICES ASSUME i + 2 \in 1 .. n PROVE flat[i + 2] = h[i + 2]
      BY <1>1
    <3>2. i + 2 \in 2 .. n /\ (i + 2) - 1 = i + 1 /\ i + 1 \in 1 .. n
      BY <1>1, <3>1
    <3>3. flat[i + 2] = flat[i + 1] \o ss[i + 2] /\ h[i + 2] = h[i + 1] \o ss[i + 2]
      BY <1>4, <3>2 DEF n
    <3>4. flat[i + 1] = h[i + 1]
      BY <2>2, <3>2
    <3> QED
      BY <3>3, <3>4
  <2> HIDE DEF T
  <2>3. \A i \in Nat : i \in T
    BY <2>1, <2>2, NatSetInduction
  <2>4. ASSUME NEW i \in 1 .. n PROVE flat[i] = h[i]
    <3>1. i - 1 \in T /\ i - 1 + 1 = i
      BY <1>1, <2>3
    <3> QED
      BY <3>1 DEF T
  <2> QED
    BY <2>4
<1>6. FlattenSeq(ss) = flat[n]
  BY <1>1 DEF FlattenSeq, flat, n
<1> QED
  BY <1>1, <1>5, <1>6 DEF n

\* Such a chain exists.
LEMMA FlattenSteps ==
  ASSUME NEW E, NEW ss \in Seq(Seq(E)), ss # <<>>
  PROVE  \E h \in [1 .. Len(ss) -> Seq(E)] :
           h[1] = ss[1] /\ \A i \in 2 .. Len(ss) : h[i] = h[i - 1] \o ss[i]
<1> DEFINE n == Len(ss)
           Upto(k, h) == h[1] = ss[1] /\ \A i \in 2 .. k : h[i] = h[i - 1] \o ss[i]
           T == {k \in Nat : k + 1 \in 1 .. n => \E h \in [1 .. k + 1 -> Seq(E)] : Upto(k + 1, h)}
<1>1. n \in Nat /\ n > 0 /\ \A i \in 1 .. n : ss[i] \in Seq(E)
  BY EmptySeq
<1> HIDE DEF n
<1>2. 0 \in T
  <2> DEFINE h == [i \in 1 .. 1 |-> ss[1]]
  <2>1. h \in [1 .. 1 -> Seq(E)] /\ h[1] = ss[1]
    BY <1>1
  <2>2. (2 .. 1) = {} /\ 0 + 1 = 1 /\ 0 \in Nat
    OBVIOUS
  <2> HIDE DEF h
  <2>3. Upto(1, h)
    BY <2>1, <2>2, Zenon
  <2> HIDE DEF Upto
  <2> QED
    BY <2>1, <2>2, <2>3
<1>3. ASSUME NEW k \in Nat, k \in T PROVE k + 1 \in T
  <2>1. SUFFICES ASSUME k + 2 \in 1 .. n PROVE \E h \in [1 .. k + 2 -> Seq(E)] : Upto(k + 2, h)
    <3>1. (k + 1) + 1 = k + 2 /\ k + 1 \in Nat
      OBVIOUS
    <3> HIDE DEF Upto
    <3> QED
      BY <2>1, <3>1
  <2>2. PICK g \in [1 .. k + 1 -> Seq(E)] : Upto(k + 1, g)
    <3>1. k + 1 \in 1 .. n
      BY <1>1, <2>1
    <3> HIDE DEF Upto
    <3> QED
      BY <1>3, <3>1, Zenon
  <2> DEFINE h == [i \in 1 .. k + 2 |-> IF i = k + 2 THEN g[k + 1] \o ss[k + 2] ELSE g[i]]
  <2>3. g[k + 1] \in Seq(E) /\ ss[k + 2] \in Seq(E)
    BY <1>1, <2>1
  <2>4. g[k + 1] \o ss[k + 2] \in Seq(E)
    BY <2>3, ConcatProperties, Zenon
  <2>5. h \in [1 .. k + 2 -> Seq(E)]
    BY <2>4
  <2>6. h[1] = ss[1]
    BY <2>2
  <2>7. ASSUME NEW i \in 2 .. k + 2 PROVE h[i] = h[i - 1] \o ss[i]
    <3>1. i - 1 \in 1 .. k + 2 /\ i - 1 # k + 2 /\ i \in 1 .. k + 2
      OBVIOUS
    <3>2. h[i - 1] = g[i - 1] /\ h[i] = IF i = k + 2 THEN g[k + 1] \o ss[k + 2] ELSE g[i]
      BY <3>1, Zenon
    <3> HIDE DEF h
    <3>3. CASE i = k + 2
      <4>1. i - 1 = k + 1
        BY <3>3
      <4> QED
        BY <3>2, <3>3, <4>1, Zenon
    <3>4. CASE i # k + 2
      <4>1. i \in 2 .. k + 1
        BY <3>4
      <4> QED
        BY <2>2, <3>2, <3>4, <4>1, Zenon
    <3> QED
      BY <3>3, <3>4
  <2> HIDE DEF h
  <2> QED
    BY <2>5, <2>6, <2>7
<1> HIDE DEF T
<1>4. Nat \subseteq T
  BY <1>2, <1>3, NatSetInduction, Zenon
<1>5. n - 1 \in Nat /\ n - 1 + 1 = n /\ n \in 1 .. n
  BY <1>1
<1>6. n - 1 \in T
  BY <1>4, <1>5, Zenon
<1>7. \E h \in [1 .. n -> Seq(E)] : Upto(n, h)
  BY <1>5, <1>6, Zenon DEF T
<1> QED
  BY <1>7 DEF n

\* Nothing flattens to nothing.
LEMMA FlattenEmpty == FlattenSeq(<<>>) = <<>>
  BY DEF FlattenSeq

\* Sequences of elements of E flatten to one.
LEMMA FlattenType ==
  ASSUME NEW E, NEW ss \in Seq(Seq(E))
  PROVE  FlattenSeq(ss) \in Seq(E)
<1>1. CASE ss = <<>>
  <2>1. <<>> \in Seq(E)
    OBVIOUS
  <2> QED
    BY <1>1, <2>1, FlattenEmpty, Zenon
<1>2. CASE ss # <<>>
  <2>1. PICK h \in [1 .. Len(ss) -> Seq(E)] :
          h[1] = ss[1] /\ \A i \in 2 .. Len(ss) : h[i] = h[i - 1] \o ss[i]
    BY <1>2, FlattenSteps, Zenon
  <2>2. FlattenSeq(ss) = h[Len(ss)]
    BY <1>2, <2>1, FlattenIs, Zenon
  <2>3. Len(ss) \in 1 .. Len(ss)
    BY <1>2, EmptySeq
  <2> QED
    BY <2>2, <2>3
<1> QED
  BY <1>1, <1>2

\* One more sequence is flattened to the end.
LEMMA FlattenAppend ==
  ASSUME NEW E, NEW ss \in Seq(Seq(E)), NEW x \in Seq(E)
  PROVE  FlattenSeq(Append(ss, x)) = FlattenSeq(ss) \o x
<1> DEFINE n == Len(ss)
           tt == Append(ss, x)
<1>1. tt \in Seq(Seq(E)) /\ Len(tt) = n + 1 /\ n \in Nat /\ tt[n + 1] = x
      /\ tt # <<>> /\ \A i \in 1 .. n : tt[i] = ss[i]
  OBVIOUS
<1> HIDE DEF tt
<1>2. CASE ss = <<>>
  <2> DEFINE h == [i \in 1 .. 1 |-> x]
  <2>1. n = 0 /\ Len(tt) = 1 /\ tt[1] = x
    BY <1>1, <1>2
  <2>2. h \in [1 .. 1 -> Seq(E)] /\ h[1] = x /\ (2 .. 1) = {}
    OBVIOUS
  <2> HIDE DEF h
  <2>5. \A i \in 2 .. 1 : h[i] = h[i - 1] \o tt[i]
    BY <2>2, Zenon
  <2>6. h \in [1 .. Len(tt) -> Seq(E)] /\ h[1] = tt[1] /\ \A i \in 2 .. Len(tt) : h[i] = h[i - 1] \o tt[i]
    BY <2>1, <2>2, <2>5, Zenon
  <2>3. FlattenSeq(tt) = h[1]
    <3>1. tt \in Seq(Seq(E)) /\ tt # <<>>
      BY <1>1
    <3>2. FlattenSeq(tt) = h[Len(tt)]
      BY <2>6, <3>1, FlattenIs, Zenon
    <3> QED
      BY <2>1, <3>2
  <2>4. <<>> \o x = x
    BY ConcatEmptySeq
  <2> QED
    BY <1>2, <2>2, <2>3, <2>4, FlattenEmpty DEF tt
<1>3. CASE ss # <<>>
  <2>1. PICK g \in [1 .. n -> Seq(E)] : g[1] = ss[1] /\ \A i \in 2 .. n : g[i] = g[i - 1] \o ss[i]
    BY <1>3, FlattenSteps, Zenon
  <2>2. FlattenSeq(ss) = g[n]
    BY <1>3, <2>1, FlattenIs, Zenon
  <2>8. n \in 1 .. n /\ n > 0
    BY <1>3, EmptySeq
  <2> HIDE DEF n
  <2> DEFINE h == [i \in 1 .. n + 1 |-> IF i = n + 1 THEN g[n] \o x ELSE g[i]]
  <2>3. g[n] \in Seq(E)
    BY <2>8
  <2>4. g[n] \o x \in Seq(E)
    BY <2>3, ConcatProperties, Zenon
  <2>9. n \in Nat
    BY <1>1 DEF n
  <2>10. 1 \in 1 .. n + 1 /\ 1 # n + 1 /\ 1 \in 1 .. n /\ n + 1 \in 1 .. n + 1
        /\ \A i \in 1 .. n + 1 : i = n + 1 \/ i \in 1 .. n
    BY <2>9, <2>8
  <2>11. h[1] = g[1] /\ h[n + 1] = g[n] \o x
    BY <2>10, Zenon
  <2>12. tt[1] = ss[1]
    BY <1>1, <2>10, Zenon DEF n
  <2>13. h \in [1 .. n + 1 -> Seq(E)]
    BY <2>10, <2>4, Zenon
  <2>5. h \in [1 .. n + 1 -> Seq(E)] /\ h[1] = tt[1] /\ h[n + 1] = g[n] \o x
    BY <2>1, <2>11, <2>12, <2>13, Zenon
  <2>6. ASSUME NEW i \in 2 .. n + 1 PROVE h[i] = h[i - 1] \o tt[i]
    <3>0. i \in 1 .. n + 1 /\ i - 1 \in 1 .. n + 1 /\ i - 1 # n + 1
      BY <2>9
    <3>1. h[i - 1] = g[i - 1] /\ h[i] = IF i = n + 1 THEN g[n] \o x ELSE g[i]
      BY <3>0, Zenon
    <3> HIDE DEF h
    <3>2. CASE i = n + 1
      <4>1. i - 1 = n
        BY <2>9, <3>2
      <4>2. tt[n + 1] = x
        BY <1>1 DEF n
      <4> QED
        BY <3>1, <3>2, <4>1, <4>2, Zenon
    <3>3. CASE i # n + 1
      <4>1. i \in 2 .. n /\ i \in 1 .. n
        BY <2>9, <3>3
      <4>2. tt[i] = ss[i]
        BY <1>1, <4>1, Zenon DEF n
      <4> QED
        BY <2>1, <3>1, <3>3, <4>1, <4>2, Zenon
    <3> QED
      BY <3>2, <3>3
  <2> HIDE DEF h
  <2>7. FlattenSeq(tt) = h[n + 1]
    <3>1. Len(tt) = n + 1 /\ tt # <<>> /\ tt \in Seq(Seq(E))
      BY <1>1 DEF n
    <3> QED
      BY <2>5, <2>6, <3>1, FlattenIs, Zenon
  <2> QED
    BY <2>2, <2>5, <2>7 DEF tt
<1> QED
  BY <1>2, <1>3

\* The same for a family of sequences, indexed by 1 .. k + 1.
LEMMA FamilyStep ==
  ASSUME NEW E, NEW k \in Nat, NEW f \in [1 .. k + 1 -> Seq(E)]
  PROVE  /\ [i \in 1 .. k |-> f[i]] \in Seq(Seq(E))
         /\ FlattenSeq([i \in 1 .. k |-> f[i]]) \in Seq(E)
         /\ FlattenSeq(f) = FlattenSeq([i \in 1 .. k |-> f[i]]) \o f[k + 1]
<1> DEFINE g == [i \in 1 .. k |-> f[i]]
           x == f[k + 1]
<1>1. x \in Seq(E) /\ \A i \in 1 .. k : f[i] \in Seq(E)
  OBVIOUS
<1>2. g \in [1 .. k -> Seq(E)]
  BY <1>1
<1>3. g \in Seq(Seq(E)) /\ Len(g) = k
  <2> HIDE DEF g
  <2> QED
    BY <1>2
<1>4. f = Append(g, x)
  <2> DEFINE a == Append(g, x)
  <2>1. a \in Seq(Seq(E)) /\ Len(a) = k + 1 /\ a[k + 1] = x /\ \A i \in 1 .. k : a[i] = g[i]
    <3> HIDE DEF g, x
    <3> QED
      BY <1>1, <1>3
  <2>2. f \in Seq(Seq(E)) /\ Len(f) = k + 1
    <3>1. k + 1 \in Nat
      OBVIOUS
    <3> QED
      BY <3>1
  <2> HIDE DEF a
  <2>3. \A i \in 1 .. k : g[i] = f[i]
    OBVIOUS
  <2>4. \A i \in 1 .. k + 1 : i \in 1 .. k \/ i = k + 1
    OBVIOUS
  <2> HIDE DEF g
  <2>5. \A i \in 1 .. Len(f) : f[i] = a[i]
    BY <2>1, <2>2, <2>3, <2>4, Zenon
  <2> QED
    BY <2>1, <2>2, <2>5, SeqEqual, Zenon DEF a
<1>5. FlattenSeq(Append(g, x)) = FlattenSeq(g) \o x
  <2> HIDE DEF g, x
  <2> QED
    BY <1>1, <1>3, FlattenAppend, Zenon
<1>6. FlattenSeq(g) \in Seq(E)
  <2> HIDE DEF g
  <2> QED
    BY <1>3, FlattenType, Zenon
<1> QED
  BY <1>3, <1>4, <1>5, <1>6, Zenon

\* What a sequence was before something was appended is its prefix.
LEMMA PrefixOfConcat ==
  ASSUME NEW E, NEW s \in Seq(E), NEW w \in Seq(E)
  PROVE  IsPrefix(s, s \o w)
<1> DEFINE t == s \o w
<1>1. t \in Seq(E) /\ Len(t) = Len(s) + Len(w) /\ Len(s) \in Nat /\ Len(w) \in Nat
      /\ \A i \in 1 .. Len(s) : t[i] = s[i]
  BY ConcatProperties
<1> HIDE DEF t
<1>2. SubSeq(s, 1, Len(s)) = s
  BY SubSeqFull
<1>3. SubSeq(t, 1, Len(s)) = s
  <2> DEFINE u == SubSeq(t, 1, Len(s))
  <2>0. \A i \in 1 .. Len(s) : t[i] \in E
    BY <1>1
  <2>1. u \in Seq(E) /\ Len(u) = (IF 1 <= Len(s) THEN Len(s) - 1 + 1 ELSE 0) /\ \A i \in 1 .. Len(s) - 1 + 1 : u[i] = t[1 + i - 1]
    BY <1>1, <2>0, SubSeqProperties
  <2> HIDE DEF u
  <2>2. Len(u) = Len(s)
    BY <1>1, <2>1
  <2>3. \A i \in 1 .. Len(u) : u[i] = s[i]
    BY <1>1, <2>1, <2>2
  <2> QED
    BY <2>1, <2>2, <2>3, SeqEqual DEF u
<1>4. IsPrefix(s, t)
  BY <1>1, <1>2, <1>3 DEF IsPrefix
<1> QED
  BY <1>4 DEF t

\* A prefix and what follows it make the whole.
LEMMA PrefixCompleted ==
  ASSUME NEW E, NEW s \in Seq(E), NEW t \in Seq(E), IsPrefix(s, t)
  PROVE  s \o SubSeq(t, Len(s) + 1, Len(t)) = t
<1> DEFINE m == Len(s)
           n == Len(t)
<1>1. m \in Nat /\ n \in Nat /\ m <= n /\ SubSeq(s, 1, m) = SubSeq(t, 1, m)
  BY DEF IsPrefix
<1>2. SubSeq(s, 1, m) = s /\ SubSeq(t, 1, n) = t
  BY SubSeqFull, Zenon
<1>3. SubSeq(t, 1, m) \o SubSeq(t, m + 1, n) = SubSeq(t, 1, n)
  <2> HIDE DEF m
  <2>1. 1 \in 1 .. Len(t) + 1 /\ m \in 1 - 1 .. Len(t) /\ Len(t) \in m .. Len(t)
    BY <1>1
  <2> QED
    BY <2>1, ConcatAdjacentSubSeq, Zenon
<1> QED
  BY <1>1, <1>2, <1>3, Zenon

\* Fewer sequences flatten to a prefix.
LEMMA FamilyPrefix ==
  ASSUME NEW E, NEW n \in Nat, NEW f \in [1 .. n -> Seq(E)], NEW k \in 0 .. n
  PROVE  /\ FlattenSeq(f) \in Seq(E) /\ FlattenSeq([i \in 1 .. k |-> f[i]]) \in Seq(E)
         /\ IsPrefix(FlattenSeq([i \in 1 .. k |-> f[i]]), FlattenSeq(f))
<1> DEFINE Upto(j) == [i \in 1 .. j |-> f[i]]
           T == {d \in Nat : k + d \in 0 .. n =>
                   \E w \in Seq(E) : FlattenSeq(Upto(k + d)) = FlattenSeq(Upto(k)) \o w}
<1>1. \A j \in 0 .. n : Upto(j) \in Seq(Seq(E)) /\ FlattenSeq(Upto(j)) \in Seq(E)
  <2> TAKE j \in 0 .. n
  <2>1. Upto(j) \in [1 .. j -> Seq(E)] /\ j \in Nat
    OBVIOUS
  <2> HIDE DEF Upto
  <2>2. Upto(j) \in Seq(Seq(E))
    BY <2>1
  <2> QED
    BY <2>2, FlattenType, Zenon
<1>2. \A j \in Nat : j + 1 \in 0 .. n => FlattenSeq(Upto(j + 1)) = FlattenSeq(Upto(j)) \o f[j + 1]
                                          /\ f[j + 1] \in Seq(E)
  <2> SUFFICES ASSUME NEW j \in Nat, j + 1 \in 0 .. n
               PROVE  FlattenSeq(Upto(j + 1)) = FlattenSeq(Upto(j)) \o f[j + 1] /\ f[j + 1] \in Seq(E)
    OBVIOUS
  <2> DEFINE h == Upto(j + 1)
  <2>1. h \in [1 .. j + 1 -> Seq(E)] /\ h[j + 1] = f[j + 1] /\ [i \in 1 .. j |-> h[i]] = Upto(j)
    OBVIOUS
  <2>2. f[j + 1] \in Seq(E)
    OBVIOUS
  <2> HIDE DEF h
  <2>3. FlattenSeq(h) = FlattenSeq([i \in 1 .. j |-> h[i]]) \o h[j + 1]
    BY <2>1, FamilyStep, Zenon
  <2> QED
    BY <2>1, <2>2, <2>3, Zenon DEF h
<1>3. 0 \in T
  <2>1. k + 0 = k /\ k \in 0 .. n /\ <<>> \in Seq(E)
    OBVIOUS
  <2> HIDE DEF Upto
  <2>2. FlattenSeq(Upto(k)) \o <<>> = FlattenSeq(Upto(k))
    BY <1>1, <2>1, ConcatEmptySeq, Zenon
  <2>3. \E w \in Seq(E) : FlattenSeq(Upto(k + 0)) = FlattenSeq(Upto(k)) \o w
    BY <2>1, <2>2, Zenon
  <2> QED
    BY <2>3
<1>4. ASSUME NEW d \in Nat, d \in T PROVE d + 1 \in T
  <2> HIDE DEF Upto
  <2>1. SUFFICES ASSUME k + (d + 1) \in 0 .. n
                 PROVE  \E w \in Seq(E) : FlattenSeq(Upto(k + (d + 1))) = FlattenSeq(Upto(k)) \o w
    <3>1. d + 1 \in Nat
      OBVIOUS
    <3> QED
      BY <3>1, Zenon
  <2>2. k + d \in 0 .. n /\ k + d \in Nat /\ k + (d + 1) = (k + d) + 1 /\ k \in 0 .. n
    BY <2>1
  <2>3. PICK w \in Seq(E) : FlattenSeq(Upto(k + d)) = FlattenSeq(Upto(k)) \o w
    BY <1>4, <2>2, Zenon
  <2> DEFINE x == f[(k + d) + 1]
  <2>4. FlattenSeq(Upto((k + d) + 1)) = FlattenSeq(Upto(k + d)) \o x /\ x \in Seq(E)
    BY <1>2, <2>1, <2>2, Zenon
  <2> HIDE DEF x
  <2>5. w \o x \in Seq(E)
    BY <2>3, <2>4, ConcatProperties, Zenon
  <2>6. FlattenSeq(Upto(k)) \in Seq(E)
    BY <1>1, <2>2, Zenon
  <2>7. (FlattenSeq(Upto(k)) \o w) \o x = FlattenSeq(Upto(k)) \o (w \o x)
    <3>1. \A s, t, u \in Seq(E) : (s \o t) \o u = s \o (t \o u)
      OBVIOUS
    <3> QED
      BY <2>3, <2>4, <2>6, <3>1, Zenon
  <2> QED
    BY <2>2, <2>3, <2>4, <2>5, <2>7, Zenon
<1>5. Nat \subseteq T
  <2> HIDE DEF T
  <2> QED
    BY <1>3, <1>4, NatSetInduction, Zenon
<1>6. n - k \in Nat /\ k + (n - k) = n /\ n \in 0 .. n
  OBVIOUS
<1>7. Upto(n) = f
  OBVIOUS
<1>8. PICK w \in Seq(E) : FlattenSeq(f) = FlattenSeq(Upto(k)) \o w
  BY <1>5, <1>6, <1>7, Zenon
<1>9. FlattenSeq(f) \in Seq(E) /\ FlattenSeq(Upto(k)) \in Seq(E)
  BY <1>1, <1>6, <1>7, Zenon
<1> HIDE DEF Upto
<1>10. IsPrefix(FlattenSeq(Upto(k)), FlattenSeq(Upto(k)) \o w)
  BY <1>8, <1>9, PrefixOfConcat, Zenon
<1> QED
  BY <1>8, <1>9, <1>10, Zenon DEF Upto

------------------------------------------------------------------------------
(* ChatGptStream: a terminal array that begins with the answer.                *)

\* The items that came whole in an event, or in the first k places of an array that begins
\* with the answer.
Listed(k) == finished \cup 1 .. k

\* The output after those k places.
MergedTo(k) == [slots |-> [i \in Listed(k) |-> i], ids |-> Listed(k) \cap named,
                next |-> Max({i + 1 : i \in Listed(k)} \cup {1})]

\* The output after each place of the terminal array, as collectResponseOutput fills it.
Filling(items, f) ==
  [k \in 0 .. Len(Ascending(items)) |->
     IF k = 0 THEN Snapshots ELSE AddTerminal(f[k - 1], k, Ascending(items)[k])]
Filled(items) == CHOOSE f : f = Filling(items, f)

\* The slots of an output, in order.
InOrder(out) == [n \in DOMAIN Ascending(DOMAIN out.slots) |->
                   out.slots[Ascending(DOMAIN out.slots)[n]]]

\* One place after the other is filled from what the places before it left.
LEMMA FilledSteps ==
  ASSUME NEW items, NEW n \in Nat, Len(Ascending(items)) = n
  PROVE  /\ Filled(items)[0] = Snapshots
         /\ \A k \in 1 .. n : Filled(items)[k] = AddTerminal(Filled(items)[k - 1], k, Ascending(items)[k])
<1> DEFINE s == Ascending(items)
           Upto(k, g) == /\ g[0] = Snapshots
                         /\ \A j \in 1 .. k : g[j] = AddTerminal(g[j - 1], j, s[j])
           T == {k \in Nat : \E g : Upto(k, g)}
<1> HIDE DEF s
<1>1. 0 \in T
  <2> DEFINE g == [j \in 0 .. 0 |-> Snapshots]
  <2>1. g[0] = Snapshots /\ 1 .. 0 = {} /\ 0 \in Nat
    OBVIOUS
  <2> HIDE DEF g
  <2>2. Upto(0, g)
    BY <2>1, Zenon
  <2> HIDE DEF Upto
  <2> QED
    BY <2>2
<1>2. ASSUME NEW k \in Nat, k \in T PROVE k + 1 \in T
  <2>1. PICK g : Upto(k, g)
    BY <1>2
  <2> DEFINE last == AddTerminal(g[k], k + 1, s[k + 1])
             h == [j \in 0 .. k + 1 |-> IF j = k + 1 THEN last ELSE g[j]]
  <2> HIDE DEF last
  <2>2. h[0] = g[0] /\ h[k + 1] = last
    OBVIOUS
  <2>3. \A j \in 0 .. k : h[j] = g[j]
    OBVIOUS
  <2> HIDE DEF h
  <2>4. ASSUME NEW j \in 1 .. k + 1 PROVE h[j] = AddTerminal(h[j - 1], j, s[j])
    <3>1. h[j - 1] = g[j - 1]
      <4>1. j - 1 \in 0 .. k
        OBVIOUS
      <4> QED
        BY <2>3, <4>1, Zenon
    <3>2. CASE j = k + 1
      <4>1. j - 1 = k
        BY <3>2
      <4> QED
        BY <2>2, <3>1, <3>2, <4>1, Zenon DEF last
    <3>3. CASE j # k + 1
      <4>1. j \in 1 .. k /\ j \in 0 .. k
        BY <3>3
      <4> QED
        BY <2>1, <2>3, <3>1, <4>1, Zenon
    <3> QED
      BY <3>2, <3>3
  <2>5. Upto(k + 1, h)
    BY <2>1, <2>2, <2>4, Zenon
  <2>6. k + 1 \in Nat
    OBVIOUS
  <2> HIDE DEF Upto
  <2> QED
    BY <2>5, <2>6
<1>3. n \in T
  <2> HIDE DEF T
  <2> QED
    BY <1>1, <1>2, NatSetInduction
<1>4. PICK g : Upto(n, g)
  BY <1>3
<1> DEFINE f == [k \in 0 .. n |-> g[k]]
<1>5. f = Filling(items, f)
  <2>1. \A k \in 0 .. n : k # 0 => k \in 1 .. n /\ k - 1 \in 0 .. n
    OBVIOUS
  <2>2. ASSUME NEW k \in 0 .. n PROVE f[k] = IF k = 0 THEN Snapshots ELSE AddTerminal(f[k - 1], k, s[k])
    <3>1. f[k] = g[k] /\ (k # 0 => f[k - 1] = g[k - 1])
      BY <2>1
    <3> HIDE DEF f
    <3> QED
      BY <1>4, <2>1, <3>1, Zenon
  <2>3. f = [k \in 0 .. n |-> f[k]]
    OBVIOUS
  <2> HIDE DEF f
  <2>4. f = [k \in 0 .. n |-> IF k = 0 THEN Snapshots ELSE AddTerminal(f[k - 1], k, s[k])]
    BY <2>2, <2>3, Zenon
  <2> QED
    BY <2>4, Zenon DEF Filling, s
<1>6. Filled(items) = Filling(items, Filled(items))
  <2> HIDE DEF f
  <2> QED
    BY <1>5, Zenon DEF Filled
<1> DEFINE out == Filled(items)
<1> HIDE DEF out
<1>7. \A k \in 0 .. n : out[k] = IF k = 0 THEN Snapshots ELSE AddTerminal(out[k - 1], k, s[k])
  BY <1>6, Zenon DEF Filling, out, s
<1>8. 0 \in 0 .. n /\ \A k \in 1 .. n : k \in 0 .. n /\ k # 0
  OBVIOUS
<1>9. out[0] = Snapshots
  BY <1>7, <1>8, Zenon
<1>10. \A k \in 1 .. n : out[k] = AddTerminal(out[k - 1], k, s[k])
  BY <1>7, <1>8, Zenon
<1> QED
  BY <1>9, <1>10, Zenon DEF out, s

\* What collectResponseOutput returns.
LEMMA OutputOfFilled ==
  ASSUME NEW items
  PROVE  CollectResponseOutput(items) =
           IF finished = {} THEN Ascending(items)
           ELSE InOrder(Filled(items)[Len(Ascending(items))])
  BY Zenon DEF CollectResponseOutput, Filled, Filling, InOrder

\* The greatest index seen is kept from one item to the next.
LEMMA MaxAdd ==
  ASSUME NEW S, S \subseteq Nat, S # {}, NEW b \in Nat, \A x \in S : x <= b, NEW y \in Nat
  PROVE  Max({Max(S), y}) = Max(S \cup {y})
<1> DEFINE m == Max(S)
           c == IF b < y THEN y ELSE b
<1>1. m \in S /\ m \in Nat /\ \A x \in S : x <= m
  BY MaxFacts
<1> HIDE DEF m
<1> DEFINE p == Max({m, y})
           q == Max(S \cup {y})
<1>2. c \in Nat /\ \A x \in {m, y} : x <= c
  BY <1>1
<1>3. \A x \in S \cup {y} : x <= c
  OBVIOUS
<1> HIDE DEF c
<1>4. p \in {m, y} /\ \A x \in {m, y} : x <= p
  <2>1. {m, y} \subseteq Nat /\ {m, y} # {}
    BY <1>1
  <2> QED
    BY <1>2, <2>1, MaxFacts
<1>5. q \in S \cup {y} /\ \A x \in S \cup {y} : x <= q
  <2>1. S \cup {y} \subseteq Nat /\ S \cup {y} # {}
    BY <1>1
  <2> QED
    BY <1>2, <1>3, <2>1, MaxFacts
<1> HIDE DEF p, q
<1>6. p \in Nat /\ q \in Nat
  BY <1>1, <1>4, <1>5
<1>7. p <= q
  BY <1>1, <1>4, <1>5
<1>8. q <= p
  BY <1>1, <1>4, <1>5, <1>6
<1> QED
  BY <1>6, <1>7, <1>8 DEF p, q, m

\* One item of the terminal array: put in its place if no event brought it before.
LEMMA AddTerminalMerges ==
  ASSUME NEW k \in Nat, NEW b \in Nat, finished \subseteq 1 .. b
  PROVE  AddTerminal(MergedTo(k), k + 1, k + 1) = MergedTo(k + 1)
<1> DEFINE D == Listed(k)
           A == {i + 1 : i \in D} \cup {1}
           out == MergedTo(k)
<1>1. D \subseteq Nat /\ Listed(k + 1) = D \cup {k + 1}
  BY DEF Listed
<1>2. /\ DOMAIN out.slots = D /\ out.ids = D \cap named /\ out.next = Max(A)
      /\ \A i \in D : out.slots[i] = i
  BY DEF MergedTo
<1>3. CASE k + 1 \in D
  <2>1. Listed(k + 1) = Listed(k)
    BY <1>1, <1>3
  <2>2. MergedTo(k + 1) = MergedTo(k)
    BY <2>1 DEF MergedTo
  <2>3. AddTerminal(out, k + 1, k + 1) = out
    <3> HIDE DEF out, D, A
    <3> QED
      BY <1>2, <1>3 DEF AddTerminal
  <2> QED
    BY <2>2, <2>3
<1>4. CASE k + 1 \notin D
  <2>1. AddTerminal(out, k + 1, k + 1) = Put(out, k + 1, k + 1)
    <3> HIDE DEF out, D, A
    <3> QED
      BY <1>2, <1>4 DEF AddTerminal
  <2>2. A \subseteq Nat /\ A # {} /\ \A x \in A : x <= b + k + 2
    <3>1. \A i \in D : i \in Nat /\ i <= b + k
      BY DEF Listed
    <3> HIDE DEF D
    <3> QED
      BY <3>1
  <2>3. Max({Max(A), k + 2}) = Max(A \cup {k + 2})
    <3>1. b + k + 2 \in Nat /\ k + 2 \in Nat
      OBVIOUS
    <3> HIDE DEF A
    <3> QED
      BY <2>2, <3>1, MaxAdd
  <2>4. A \cup {k + 2} = {i + 1 : i \in D \cup {k + 1}} \cup {1}
    <3>1. k + 2 = (k + 1) + 1
      OBVIOUS
    <3> HIDE DEF D
    <3> QED
      BY <3>1
  <2>5. (k + 1) + 1 = k + 2
    OBVIOUS
  <2>6. Put(out, k + 1, k + 1).slots = [i \in D \cup {k + 1} |-> i]
    <3> HIDE DEF out, D, A
    <3> QED
      BY <1>2 DEF Put
  <2>7. Put(out, k + 1, k + 1).ids = (D \cup {k + 1}) \cap named
    <3> HIDE DEF out, D, A
    <3> QED
      BY <1>2 DEF Put
  <2>8. Put(out, k + 1, k + 1).next = Max({i + 1 : i \in D \cup {k + 1}} \cup {1})
    <3>1. Put(out, k + 1, k + 1).next = Max({Max(A), k + 2})
      <4> HIDE DEF out, D, A
      <4> QED
        BY <1>2, <2>5 DEF Put
    <3> HIDE DEF out, D, A
    <3> QED
      BY <2>3, <2>4, <3>1
  <2>9. Put(out, k + 1, k + 1) = MergedTo(k + 1)
    <3>1. Put(out, k + 1, k + 1) = [slots |-> Put(out, k + 1, k + 1).slots,
             ids |-> Put(out, k + 1, k + 1).ids, next |-> Put(out, k + 1, k + 1).next]
      BY DEF Put
    <3> HIDE DEF out, D, A
    <3> QED
      BY <1>1, <2>6, <2>7, <2>8, <3>1 DEF MergedTo
  <2> QED
    BY <2>1, <2>9
<1> QED
  BY <1>3, <1>4

\* The collected output lists, in order, what came in an event or in an array that begins
\* with the answer.
LEMMA OutputIsListed ==
  ASSUME NEW count \in Nat, NEW b \in Nat, finished \subseteq 1 .. b
  PROVE  CollectResponseOutput(1 .. count) = Ascending(Listed(count))
<1> DEFINE s == Ascending(1 .. count)
           out == Filled(1 .. count)
<1>1. s = [i \in 1 .. count |-> i] /\ Len(s) = count
  <2>1. s = [i \in 1 .. count |-> i]
    BY AscendingInterval, Zenon
  <2> HIDE DEF s
  <2> QED
    BY <2>1
<1>2. out[0] = Snapshots /\ \A k \in 1 .. count : out[k] = AddTerminal(out[k - 1], k, s[k])
  BY <1>1, FilledSteps, Zenon
<1>3. CollectResponseOutput(1 .. count) = IF finished = {} THEN s ELSE InOrder(out[count])
  BY <1>1, OutputOfFilled, Zenon
<1> HIDE DEF s, out
<1>4. MergedTo(0) = Snapshots
  <2>1. Listed(0) = finished
    BY DEF Listed
  <2> QED
    BY <2>1 DEF MergedTo, Snapshots
<1>5. out[count] = MergedTo(count)
  <2> DEFINE T == {k \in Nat : k \in 0 .. count => out[k] = MergedTo(k)}
  <2>1. 0 \in T
    BY <1>2, <1>4
  <2>2. ASSUME NEW k \in Nat, k \in T PROVE k + 1 \in T
    <3>1. SUFFICES ASSUME k + 1 \in 0 .. count PROVE out[k + 1] = MergedTo(k + 1)
      OBVIOUS
    <3>2. k \in 0 .. count /\ k + 1 \in 1 .. count /\ (k + 1) - 1 = k
      BY <3>1
    <3>3. out[k] = MergedTo(k)
      BY <2>2, <3>2
    <3>4. s[k + 1] = k + 1
      BY <1>1, <3>2
    <3>5. out[k + 1] = AddTerminal(out[k], k + 1, k + 1)
      BY <1>2, <3>2, <3>4, Zenon
    <3> QED
      BY <3>3, <3>5, AddTerminalMerges, Zenon
  <2> HIDE DEF T
  <2>3. count \in T /\ count \in 0 .. count
    BY <2>1, <2>2, NatSetInduction
  <2> QED
    BY <2>3 DEF T
<1>6. CASE finished = {}
  <2>1. Listed(count) = 1 .. count
    BY <1>6 DEF Listed
  <2> QED
    BY <1>3, <1>6, <2>1, Zenon DEF s
<1>7. CASE finished # {}
  <2> DEFINE L == Listed(count)
             t == Ascending(L)
  <2>1. L \subseteq Nat /\ IsFiniteSet(L)
    <3>1. L \subseteq 1 .. (b + count) /\ b + count \in Nat
      BY DEF Listed
    <3>2. IsFiniteSet(1 .. (b + count))
      BY <3>1, FS_Interval
    <3>3. L \subseteq Nat
      BY <3>1
    <3> QED
      BY <3>1, <3>2, <3>3, FS_Subset, Zenon
  <2>2. t \in [1 .. Cardinality(L) -> L]
    BY <2>1, AscendingFacts, Zenon
  <2>3. out[count].slots = [i \in L |-> i]
    BY <1>5 DEF MergedTo
  <2>4. DOMAIN out[count].slots = L
    BY <2>3
  <2>5. InOrder(out[count]) = [n \in DOMAIN t |-> out[count].slots[t[n]]]
    BY <2>4, Zenon DEF InOrder
  <2> HIDE DEF L, t
  <2>6. [n \in DOMAIN t |-> out[count].slots[t[n]]] = t
    BY <2>2, <2>3
  <2> QED
    BY <1>3, <1>7, <2>5, <2>6, Zenon DEF t, L
<1> QED
  BY <1>6, <1>7

------------------------------------------------------------------------------
(* ChatGptStream: a terminal array that lists any items of the answer.         *)

\* An output: places that hold items, the snapshots at their own, all before the next free.
OutputOK(out, items) ==
  /\ out.slots \in [DOMAIN out.slots -> items]
  /\ DOMAIN out.slots \subseteq Nat /\ IsFiniteSet(DOMAIN out.slots)
  /\ out.next \in Nat /\ \A i \in DOMAIN out.slots : i < out.next
  /\ \A i \in finished : i \in DOMAIN out.slots /\ out.slots[i] = i

\* The items of a set, each in one place, when all have ids.
HoldsOnce(out, items) ==
  /\ out.ids = items
  /\ \A x \in items : \E i \in DOMAIN out.slots : out.slots[i] = x
  /\ \A i \in DOMAIN out.slots : out.slots[i] \in items
  /\ \A i, j \in DOMAIN out.slots : out.slots[i] = out.slots[j] => i = j

\* The greater of two indexes.
LEMMA MaxOfTwo ==
  ASSUME NEW x \in Nat, NEW y \in Nat
  PROVE  Max({x, y}) \in Nat /\ x <= Max({x, y}) /\ y <= Max({x, y})
<1> DEFINE S == {x, y}
           b == x + y
<1>1. S \subseteq Nat /\ S # {} /\ b \in Nat /\ \A z \in S : z <= b
  OBVIOUS
<1> HIDE DEF b
<1>2. Max(S) \in S /\ \A z \in S : z <= Max(S)
  <2> HIDE DEF S
  <2> QED
    BY <1>1, MaxFacts, Zenon
<1>3. Max(S) \in Nat /\ x <= Max(S) /\ y <= Max(S)
  <2> DEFINE m == Max(S)
  <2> HIDE DEF m
  <2>1. m \in S /\ \A z \in S : z <= m
    BY <1>2 DEF m
  <2>2. m \in Nat /\ x <= m /\ y <= m
    BY <2>1
  <2> QED
    BY <2>2 DEF m
<1> QED
  BY <1>3

\* An item put in a free place.
LEMMA PutFacts ==
  ASSUME NEW items, NEW out, OutputOK(out, items), NEW index \in Nat, index \notin DOMAIN out.slots,
         NEW item \in items
  PROVE  /\ DOMAIN Put(out, index, item).slots = DOMAIN out.slots \cup {index}
         /\ Put(out, index, item).slots[index] = item
         /\ \A i \in DOMAIN out.slots : Put(out, index, item).slots[i] = out.slots[i]
         /\ Put(out, index, item).ids = out.ids \cup ({item} \cap named)
         /\ OutputOK(Put(out, index, item), items)
<1> DEFINE new == Put(out, index, item)
           D == DOMAIN out.slots
<1>1. /\ new.slots = [j \in D \cup {index} |-> IF j = index THEN item ELSE out.slots[j]]
      /\ new.ids = out.ids \cup ({item} \cap named)
      /\ new.next = Max({out.next, index + 1})
  BY DEF Put
<1>2. /\ out.slots \in [D -> items] /\ D \subseteq Nat /\ IsFiniteSet(D)
      /\ out.next \in Nat /\ \A i \in D : i < out.next
      /\ \A i \in finished : i \in D /\ out.slots[i] = i
      /\ index \notin D
  BY DEF OutputOK
<1> HIDE DEF new, D
<1>3. /\ DOMAIN new.slots = D \cup {index} /\ new.slots[index] = item
      /\ \A i \in D : new.slots[i] = out.slots[i]
  BY <1>1, <1>2
<1>4. new.slots \in [DOMAIN new.slots -> items]
  BY <1>1, <1>2, <1>3
<1>5. D \cup {index} \subseteq Nat /\ IsFiniteSet(D \cup {index})
  <2>1. IsFiniteSet(D \cup {index})
    BY <1>2, FS_AddElement
  <2> QED
    BY <1>2, <2>1
<1>6. new.next \in Nat /\ \A i \in D \cup {index} : i < new.next
  <2>1. new.next \in Nat /\ out.next <= new.next /\ index + 1 <= new.next
    <3>1. index + 1 \in Nat
      OBVIOUS
    <3>2. /\ Max({out.next, index + 1}) \in Nat /\ out.next <= Max({out.next, index + 1})
          /\ index + 1 <= Max({out.next, index + 1})
      BY <1>2, <3>1, MaxOfTwo, Zenon
    <3> QED
      BY <1>1, <3>2, Zenon
  <2> QED
    BY <1>2, <2>1
<1>7. \A i \in finished : i \in D \cup {index} /\ new.slots[i] = i
  BY <1>2, <1>3
<1>8. OutputOK(new, items)
  BY <1>3, <1>4, <1>5, <1>6, <1>7, Zenon DEF OutputOK
<1> QED
  BY <1>1, <1>3, <1>8, Zenon DEF new, D

\* A place of the terminal array adds an item in a free place, or nothing: an item whose id
\* is known, or without an id where another has its place.
LEMMA AddTerminalPuts ==
  ASSUME NEW items, NEW out, OutputOK(out, items), NEW k \in Nat, NEW item \in items
  PROVE  \/ AddTerminal(out, k, item) = out /\ (item \in out.ids \/ item \notin named)
         \/ /\ item \notin out.ids
            /\ \E index \in Nat : index \notin DOMAIN out.slots
                                  /\ AddTerminal(out, k, item) = Put(out, index, item)
<1>1. out.next \in Nat /\ out.next \notin DOMAIN out.slots
  BY DEF OutputOK
<1>2. CASE item \in out.ids
  BY <1>2 DEF AddTerminal
<1>3. CASE item \notin out.ids /\ k \in DOMAIN out.slots /\ item \in named
  BY <1>1, <1>3 DEF AddTerminal
<1>4. CASE item \notin out.ids /\ k \in DOMAIN out.slots /\ item \notin named
  BY <1>4 DEF AddTerminal
<1>5. CASE item \notin out.ids /\ k \notin DOMAIN out.slots
  BY <1>5 DEF AddTerminal
<1> QED
  BY <1>2, <1>3, <1>4, <1>5

\* So it keeps an output in shape.
LEMMA AddTerminalKeeps ==
  ASSUME NEW items, NEW out, OutputOK(out, items), NEW k \in Nat, NEW item \in items
  PROVE  OutputOK(AddTerminal(out, k, item), items)
<1>1. CASE AddTerminal(out, k, item) = out
  BY <1>1, Zenon
<1>2. ASSUME NEW index \in Nat, index \notin DOMAIN out.slots,
             AddTerminal(out, k, item) = Put(out, index, item)
      PROVE  OutputOK(AddTerminal(out, k, item), items)
  <2>1. OutputOK(Put(out, index, item), items)
    BY <1>2, PutFacts
  <2> QED
    BY <1>2, <2>1, Zenon
<1> QED
  BY <1>1, <1>2, AddTerminalPuts, Zenon

\* With ids on all items it adds the item that is new, and only that.
LEMMA AddTerminalHolds ==
  ASSUME NEW items, NEW out, OutputOK(out, items), NEW k \in Nat, NEW item \in items,
         items \subseteq named, NEW L, HoldsOnce(out, L)
  PROVE  HoldsOnce(AddTerminal(out, k, item), L \cup {item})
<1> DEFINE new == AddTerminal(out, k, item)
<1>1. CASE new = out /\ (item \in out.ids \/ item \notin named)
  <2>1. L \cup {item} = L
    BY <1>1 DEF HoldsOnce
  <2> HIDE DEF new
  <2> QED
    BY <1>1, <2>1, Zenon DEF new
<1>2. ASSUME item \notin out.ids, NEW index \in Nat, index \notin DOMAIN out.slots,
             new = Put(out, index, item)
      PROVE  HoldsOnce(new, L \cup {item})
  <2> DEFINE D == DOMAIN out.slots
  <2>1. /\ DOMAIN new.slots = D \cup {index} /\ new.slots[index] = item
        /\ \A i \in D : new.slots[i] = out.slots[i]
        /\ new.ids = out.ids \cup ({item} \cap named)
    <3> DEFINE put == Put(out, index, item)
    <3>1. /\ DOMAIN put.slots = D \cup {index} /\ put.slots[index] = item
          /\ \A i \in D : put.slots[i] = out.slots[i]
          /\ put.ids = out.ids \cup ({item} \cap named)
      BY <1>2, PutFacts
    <3>2. new = put
      BY <1>2
    <3> HIDE DEF put, new, D
    <3> QED
      BY <3>1, <3>2
  <2>2. /\ out.ids = L /\ item \notin L
        /\ \A x \in L : \E i \in D : out.slots[i] = x
        /\ \A i \in D : out.slots[i] \in L
        /\ \A i, j \in D : out.slots[i] = out.slots[j] => i = j
    BY <1>2 DEF HoldsOnce
  <2> HIDE DEF D, new
  <2>3. new.ids = L \cup {item}
    BY <2>1, <2>2
  <2>4. \A x \in L \cup {item} : \E i \in D \cup {index} : new.slots[i] = x
    BY <2>1, <2>2
  <2>5. \A i \in D \cup {index} : new.slots[i] \in L \cup {item}
    BY <2>1, <2>2
  <2>6. \A i, j \in D \cup {index} : new.slots[i] = new.slots[j] => i = j
    BY <2>1, <2>2
  <2> QED
    BY <2>1, <2>3, <2>4, <2>5, <2>6, Zenon DEF HoldsOnce
<1>3. \/ new = out /\ (item \in out.ids \/ item \notin named)
      \/ item \notin out.ids /\ \E index \in Nat : index \notin DOMAIN out.slots /\ new = Put(out, index, item)
  BY AddTerminalPuts
<1>4. ASSUME item \notin out.ids,
             \E index \in Nat : index \notin DOMAIN out.slots /\ new = Put(out, index, item)
      PROVE  HoldsOnce(new, L \cup {item})
  <2>1. PICK index \in Nat : index \notin DOMAIN out.slots /\ new = Put(out, index, item)
    BY <1>4, Zenon
  <2> QED
    BY <1>2, <1>4, <2>1, Zenon
<1>5. HoldsOnce(new, L \cup {item})
  BY <1>1, <1>3, <1>4, Zenon
<1> QED
  BY <1>5 DEF new

\* The output the snapshots make.
LEMMA SnapshotsFacts ==
  ASSUME NEW b \in Nat, finished \subseteq 1 .. b, NEW items, finished \subseteq items
  PROVE  /\ OutputOK(Snapshots, items)
         /\ finished \subseteq named => HoldsOnce(Snapshots, finished)
<1> DEFINE A == {i + 1 : i \in finished} \cup {1}
<1>1. /\ Snapshots.slots = [i \in finished |-> i] /\ Snapshots.ids = finished \cap named
      /\ Snapshots.next = Max(A)
  BY DEF Snapshots
<1>2. A \subseteq Nat /\ A # {} /\ b + 1 \in Nat /\ \A x \in A : x <= b + 1
  OBVIOUS
<1>3. \A i \in finished : i \in Nat /\ i + 1 \in A
  OBVIOUS
<1> HIDE DEF A
<1>4. Max(A) \in A /\ \A x \in A : x <= Max(A)
  BY <1>2, MaxFacts, Zenon
<1>5. Max(A) \in Nat /\ \A i \in finished : i < Max(A)
  <2> DEFINE m == Max(A)
  <2> HIDE DEF m
  <2>1. m \in A /\ \A x \in A : x <= m
    BY <1>4 DEF m
  <2>2. m \in Nat /\ \A i \in finished : i < m
    BY <1>2, <1>3, <2>1
  <2> QED
    BY <2>2 DEF m
<1>6. finished \subseteq Nat /\ IsFiniteSet(finished)
  <2>1. IsFiniteSet(1 .. b)
    BY FS_Interval
  <2>2. IsFiniteSet(finished)
    BY <2>1, FS_Subset, Zenon
  <2> QED
    BY <2>2
<1>7. DOMAIN Snapshots.slots = finished /\ \A i \in finished : Snapshots.slots[i] = i
  BY <1>1
<1>8. Snapshots.slots \in [DOMAIN Snapshots.slots -> items]
  BY <1>1
<1>9. OutputOK(Snapshots, items)
  <2>1. DOMAIN Snapshots.slots \subseteq Nat /\ IsFiniteSet(DOMAIN Snapshots.slots)
    BY <1>6, <1>7
  <2>2. Snapshots.next \in Nat /\ \A i \in DOMAIN Snapshots.slots : i < Snapshots.next
    <3> DEFINE m == Max(A)
    <3>1. m \in Nat /\ \A i \in finished : i < m
      BY <1>5
    <3>2. Snapshots.next = m
      BY <1>1
    <3> HIDE DEF m
    <3> QED
      BY <1>7, <3>1, <3>2
  <2>3. \A i \in finished : i \in DOMAIN Snapshots.slots /\ Snapshots.slots[i] = i
    BY <1>7, Zenon
  <2> QED
    BY <1>8, <2>1, <2>2, <2>3, Zenon DEF OutputOK
<1>10. ASSUME finished \subseteq named PROVE HoldsOnce(Snapshots, finished)
  <2>1. Snapshots.ids = finished
    BY <1>1, <1>10
  <2>2. \A i, j \in finished : Snapshots.slots[i] = Snapshots.slots[j] => i = j
    BY <1>7
  <2> QED
    BY <1>7, <2>1, <2>2, Zenon DEF HoldsOnce
<1> QED
  BY <1>9, <1>10

\* The items of the answer, some of which came in an event; and those of the terminal array.
SomeItems(items, b) == finished \subseteq 1 .. b /\ items \subseteq 1 .. b

\* The first k of the terminal array.
FirstOf(items, k) == {Ascending(items)[j] : j \in 1 .. k}

\* After every place of the terminal array the output is in shape, and holds what came.
LEMMA FilledFacts ==
  ASSUME NEW b \in Nat, NEW items, SomeItems(items, b)
  PROVE  /\ Len(Ascending(items)) = Cardinality(items) /\ Cardinality(items) \in Nat
         /\ \A k \in 0 .. Cardinality(items) :
              /\ OutputOK(Filled(items)[k], 1 .. b)
              /\ 1 .. b \subseteq named => HoldsOnce(Filled(items)[k], finished \cup FirstOf(items, k))
<1> DEFINE s == Ascending(items)
           n == Cardinality(items)
           out == Filled(items)
           named1 == 1 .. b \subseteq named
           T == {k \in Nat : k \in 0 .. n =>
                   /\ OutputOK(out[k], 1 .. b)
                   /\ named1 => HoldsOnce(out[k], finished \cup FirstOf(items, k))}
<1>1. n \in Nat /\ s \in [1 .. n -> items]
  <2>1. items \subseteq Nat /\ IsFiniteSet(items)
    <3>1. IsFiniteSet(1 .. b)
      BY FS_Interval
    <3>2. items \subseteq 1 .. b
      BY DEF SomeItems
    <3>3. IsFiniteSet(items)
      BY <3>1, <3>2, FS_Subset, Zenon
    <3> QED
      BY <3>2, <3>3
  <2> QED
    BY <2>1, AscendingFacts, Zenon
<1> HIDE DEF n, s
<1>2. Len(s) = n
  BY <1>1
<1>3. out[0] = Snapshots /\ \A k \in 1 .. n : out[k] = AddTerminal(out[k - 1], k, s[k])
  BY <1>1, <1>2, FilledSteps, Zenon DEF s
<1> HIDE DEF out, named1
<1>4. 0 \in T
  <2>1. OutputOK(out[0], 1 .. b)
    BY <1>3, SnapshotsFacts, Zenon DEF SomeItems
  <2>2. ASSUME named1 PROVE HoldsOnce(out[0], finished \cup FirstOf(items, 0))
    <3>1. finished \cup FirstOf(items, 0) = finished
      BY DEF FirstOf
    <3>2. finished \subseteq named
      BY <2>2 DEF SomeItems, named1
    <3>3. HoldsOnce(Snapshots, finished)
      BY <3>2, SnapshotsFacts, Zenon DEF SomeItems
    <3> QED
      BY <1>3, <3>1, <3>3, Zenon
  <2> QED
    BY <2>1, <2>2
<1>5. ASSUME NEW k \in Nat, k \in T PROVE k + 1 \in T
  <2>1. SUFFICES ASSUME k + 1 \in 0 .. n
                 PROVE  /\ OutputOK(out[k + 1], 1 .. b)
                        /\ named1 => HoldsOnce(out[k + 1], finished \cup FirstOf(items, k + 1))
    OBVIOUS
  <2>2. k \in 0 .. n /\ k + 1 \in 1 .. n /\ (k + 1) - 1 = k /\ k + 1 \in Nat
    BY <1>1, <2>1
  <2>3. OutputOK(out[k], 1 .. b) /\ (named1 => HoldsOnce(out[k], finished \cup FirstOf(items, k)))
    BY <1>5, <2>2
  <2>4. out[k + 1] = AddTerminal(out[k], k + 1, s[k + 1])
    BY <1>3, <2>2, Zenon
  <2>5. s[k + 1] \in 1 .. b
    BY <1>1, <2>2 DEF SomeItems
  <2>6. OutputOK(out[k + 1], 1 .. b)
    BY <2>2, <2>3, <2>4, <2>5, AddTerminalKeeps, Zenon
  <2>7. ASSUME named1 PROVE HoldsOnce(out[k + 1], finished \cup FirstOf(items, k + 1))
    <3>1. HoldsOnce(AddTerminal(out[k], k + 1, s[k + 1]), (finished \cup FirstOf(items, k)) \cup {s[k + 1]})
      BY <2>2, <2>3, <2>5, <2>7, AddTerminalHolds, Zenon DEF named1
    <3>2. 1 .. k + 1 = (1 .. k) \cup {k + 1}
      OBVIOUS
    <3>3. FirstOf(items, k + 1) = FirstOf(items, k) \cup {s[k + 1]}
      BY <3>2 DEF FirstOf, s
    <3>4. (finished \cup FirstOf(items, k)) \cup {s[k + 1]} = finished \cup FirstOf(items, k + 1)
      BY <3>3
    <3> QED
      BY <2>4, <3>1, <3>4, Zenon
  <2> QED
    BY <2>6, <2>7
<1> HIDE DEF T
<1>6. Nat \subseteq T
  BY <1>4, <1>5, NatSetInduction, Zenon
<1>7. ASSUME NEW k \in 0 .. n
      PROVE  /\ OutputOK(out[k], 1 .. b)
             /\ named1 => HoldsOnce(out[k], finished \cup FirstOf(items, k))
  <2>1. k \in T
    BY <1>1, <1>6
  <2> QED
    BY <2>1 DEF T
<1> QED
  BY <1>1, <1>2, <1>7, Zenon DEF n, s, out, named1

\* The slots of an output in shape, in order.
LEMMA InOrderFacts ==
  ASSUME NEW items, NEW out, OutputOK(out, items)
  PROVE  /\ \E n \in Nat : InOrder(out) \in [1 .. n -> items]
         /\ \A L : HoldsOnce(out, L) => EachOnce(InOrder(out), L)
<1> DEFINE D == DOMAIN out.slots
           ix == Ascending(D)
           n == Cardinality(D)
           list == InOrder(out)
<1>1. /\ out.slots \in [D -> items] /\ D \subseteq Nat /\ IsFiniteSet(D)
      /\ \A i \in finished : i \in D /\ out.slots[i] = i
  BY DEF OutputOK
<1>2. /\ n \in Nat /\ ix \in [1 .. n -> D]
      /\ \A j, k \in 1 .. n : j < k => ix[j] < ix[k]
      /\ \A i \in D : \E k \in 1 .. n : ix[k] = i
  BY <1>1, AscendingFacts, Zenon
<1>3. list = [k \in DOMAIN ix |-> out.slots[ix[k]]]
  BY Zenon DEF InOrder
<1> HIDE DEF ix, D, n, list
<1>4. list \in [1 .. n -> items] /\ DOMAIN list = 1 .. n /\ \A k \in 1 .. n : list[k] = out.slots[ix[k]]
  BY <1>1, <1>2, <1>3
<1>5. ASSUME NEW L, HoldsOnce(out, L) PROVE EachOnce(list, L)
  <2>1. /\ \A x \in L : \E i \in D : out.slots[i] = x
        /\ \A i \in D : out.slots[i] \in L
        /\ \A i, j \in D : out.slots[i] = out.slots[j] => i = j
    BY <1>5, Zenon DEF HoldsOnce, D
  <2>2. ToSet(list) = L
    <3>1. ASSUME NEW x \in L PROVE \E k \in 1 .. n : list[k] = x
      <4>1. PICK i \in D : out.slots[i] = x
        BY <2>1
      <4>2. PICK k \in 1 .. n : ix[k] = i
        BY <1>2
      <4> QED
        BY <1>4, <4>1, <4>2, Zenon
    <3>2. \A k \in 1 .. n : list[k] \in L
      BY <1>2, <1>4, <2>1
    <3>3. ToSet(list) = {list[k] : k \in 1 .. n}
      BY <1>4 DEF ToSet
    <3> QED
      BY <3>1, <3>2, <3>3
  <2>3. ASSUME NEW j \in 1 .. n, NEW k \in 1 .. n
        PROVE  /\ list[j] = list[k] => j = k
               /\ j < k /\ {list[j], list[k]} \subseteq finished => list[j] < list[k]
    <3>1. ix[j] \in D /\ ix[k] \in D
      BY <1>2
    <3>2. ASSUME list[j] = list[k] PROVE j = k
      <4>1. ix[j] = ix[k]
        <5>1. out.slots[ix[j]] = out.slots[ix[k]]
          BY <1>4, <3>2, Zenon
        <5> QED
          BY <2>1, <3>1, <5>1, Zenon
      <4>2. ix[j] \in Nat /\ ix[k] \in Nat /\ j \in Nat /\ k \in Nat
        <5>1. ix[j] \in Nat /\ ix[k] \in Nat
          BY <1>1, <3>1, Zenon
        <5>2. n \in Nat
          BY <1>2
        <5>3. j \in Nat /\ k \in Nat
          BY <5>2
        <5> QED
          BY <5>1, <5>3
      <4>3. ~ (j < k) /\ ~ (k < j)
        BY <1>2, <4>1, <4>2
      <4> QED
        BY <4>2, <4>3
    <3>3. ASSUME j < k, list[j] \in finished, list[k] \in finished PROVE list[j] < list[k]
      <4>1. list[j] = ix[j]
        <5>1. list[j] \in D /\ out.slots[list[j]] = list[j]
          BY <1>1, <3>3, Zenon
        <5>2. list[j] = out.slots[ix[j]]
          BY <1>4, Zenon
        <5>3. out.slots[list[j]] = out.slots[ix[j]]
          BY <5>1, <5>2, Zenon
        <5> QED
          BY <2>1, <3>1, <5>1, <5>3, Zenon
      <4>2. list[k] = ix[k]
        <5>1. list[k] \in D /\ out.slots[list[k]] = list[k]
          BY <1>1, <3>3, Zenon
        <5>2. list[k] = out.slots[ix[k]]
          BY <1>4, Zenon
        <5>3. out.slots[list[k]] = out.slots[ix[k]]
          BY <5>1, <5>2, Zenon
        <5> QED
          BY <2>1, <3>1, <5>1, <5>3, Zenon
      <4> QED
        BY <1>2, <3>3, <4>1, <4>2, Zenon
    <3> QED
      BY <3>2, <3>3
  <2> QED
    BY <1>4, <2>2, <2>3, Zenon DEF EachOnce
<1> QED
  BY <1>2, <1>4, <1>5, Zenon DEF list

\* Whatever part of the answer the terminal array lists, what is collected are items of it;
\* with ids on all items, those that came, each once.
LEMMA OutputEach ==
  ASSUME NEW b \in Nat, NEW items, SomeItems(items, b)
  PROVE  /\ \E n \in Nat : CollectResponseOutput(items) \in [1 .. n -> 1 .. b]
         /\ 1 .. b \subseteq named => EachOnce(CollectResponseOutput(items), finished \cup items)
<1> DEFINE n == Cardinality(items)
           s == Ascending(items)
           last == Filled(items)[n]
<1>1. n \in Nat /\ Len(s) = n
  BY FilledFacts, Zenon
<1>2. CollectResponseOutput(items) = IF finished = {} THEN s ELSE InOrder(last)
  BY <1>1, OutputOfFilled, Zenon
<1>3. /\ s \in [1 .. n -> items]
      /\ \A j, k \in 1 .. n : j < k => s[j] < s[k]
      /\ \A i \in items : \E k \in 1 .. n : s[k] = i
      /\ items \subseteq Nat /\ items \subseteq 1 .. b
  <2>1. items \subseteq Nat /\ IsFiniteSet(items) /\ items \subseteq 1 .. b
    <3>1. IsFiniteSet(1 .. b)
      BY FS_Interval
    <3>2. items \subseteq 1 .. b
      BY DEF SomeItems
    <3>3. IsFiniteSet(items)
      BY <3>1, <3>2, FS_Subset, Zenon
    <3> QED
      BY <3>2, <3>3
  <2> QED
    BY <2>1, AscendingFacts, Zenon
<1>4. n \in 0 .. n
  BY <1>1
<1>5. OutputOK(last, 1 .. b)
  BY <1>4, FilledFacts, Zenon
<1>6. 1 .. b \subseteq named => HoldsOnce(last, finished \cup FirstOf(items, n))
  BY <1>4, FilledFacts, Zenon
<1>7. FirstOf(items, n) = items
  <2>1. FirstOf(items, n) = {s[j] : j \in 1 .. n}
    BY Zenon DEF FirstOf
  <2> HIDE DEF s, n
  <2> QED
    BY <1>3, <2>1
<1> HIDE DEF s, n, last
<1>8. CASE finished = {}
  <2>1. s \in [1 .. n -> 1 .. b] /\ DOMAIN s = 1 .. n
    BY <1>3
  <2>2. ToSet(s) = items
    BY <1>3, <2>1 DEF ToSet
  <2>3. ASSUME NEW j \in 1 .. n, NEW k \in 1 .. n, s[j] = s[k] PROVE j = k
    <3>1. s[j] \in Nat /\ s[k] \in Nat /\ j \in Nat /\ k \in Nat
      <4>1. s[j] \in items /\ s[k] \in items /\ items \subseteq Nat
        BY <1>3, Zenon
      <4>2. j \in Nat /\ k \in Nat
        BY <1>1
      <4> QED
        BY <4>1, <4>2, Zenon
    <3>2. ~ (j < k) /\ ~ (k < j)
      BY <1>3, <2>3, <3>1
    <3> QED
      BY <3>1, <3>2
  <2>4. EachOnce(s, items)
    BY <1>8, <2>1, <2>2, <2>3 DEF EachOnce
  <2>5. finished \cup items = items
    BY <1>8
  <2> QED
    BY <1>1, <1>2, <1>8, <2>1, <2>4, <2>5, Zenon
<1>9. CASE finished # {}
  <2>1. \E m \in Nat : InOrder(last) \in [1 .. m -> 1 .. b]
    BY <1>5, InOrderFacts, Zenon
  <2>2. HoldsOnce(last, finished \cup items) => EachOnce(InOrder(last), finished \cup items)
    BY <1>5, InOrderFacts, Zenon
  <2> QED
    BY <1>2, <1>6, <1>7, <1>9, <2>1, <2>2, Zenon
<1> QED
  BY <1>8, <1>9

------------------------------------------------------------------------------
(* ChatGptStream: the answer the callers get.                                  *)

\* What was heard of an item that is not commentary.
Said(i) == IF answer[i].kind = "text" THEN [p \in 1 .. streamed[i] |-> <<i, p>>] ELSE <<>>

\* The types of a stream under way: an item not opened has said nothing.
StreamTypeOK ==
  /\ answer \in Seq(ItemKinds)
  /\ opened \in 0 .. Len(answer)
  /\ announced \subseteq 1 .. opened
  /\ streamed \in [1 .. Len(answer) -> Nat]
  /\ \A i \in 1 .. Len(answer) : i > opened => streamed[i] = 0
  /\ finished \subseteq 1 .. opened
  /\ terminal \subseteq 1 .. Len(answer)
  /\ malformed \subseteq {"added", "done"}
  /\ backendEnd \in {"streaming", "completed", "fault"}
  /\ chatEnd \in {"open", "completed", "error"}

\* If all commentary so far was announced as such, the Chat caller heard the rest, in order.
HeardSoFar ==
  (\A i \in 1 .. opened : answer[i].kind = "note" => i \in announced)
    => heard = FlattenSeq([i \in 1 .. opened |-> Said(i)])

\* A text is a sequence of fragments: an item and a part of it.
Fragments == Seq(Nat \X Nat)

\* A text that grows by a fragment.
LEMMA NumberedParts ==
  ASSUME NEW i \in Nat, NEW k \in Nat
  PROVE  /\ [p \in 1 .. k |-> <<i, p>>] \in Fragments
         /\ [p \in 1 .. k + 1 |-> <<i, p>>] = Append([p \in 1 .. k |-> <<i, p>>], <<i, k + 1>>)
<1> DEFINE f == [p \in 1 .. k |-> <<i, p>>]
           g == [p \in 1 .. k + 1 |-> <<i, p>>]
           a == Append(f, <<i, k + 1>>)
<1>1. f \in Fragments /\ Len(f) = k /\ g \in Fragments /\ Len(g) = k + 1 /\ <<i, k + 1>> \in Nat \X Nat
  BY DEF Fragments
<1>2. \A p \in 1 .. k : f[p] = <<i, p>>
  OBVIOUS
<1>3. \A p \in 1 .. k + 1 : g[p] = <<i, p>>
  OBVIOUS
<1> HIDE DEF f, g
<1>4. a \in Fragments /\ Len(a) = k + 1 /\ a[k + 1] = <<i, k + 1>> /\ \A p \in 1 .. k : a[p] = f[p]
  BY <1>1, AppendProperties DEF Fragments
<1> HIDE DEF a
<1>5. \A p \in 1 .. k + 1 : p \in 1 .. k \/ p = k + 1
  OBVIOUS
<1>6. \A p \in 1 .. Len(g) : g[p] = a[p]
  BY <1>1, <1>2, <1>3, <1>4, <1>5, Zenon
<1>7. g = a
  <2>1. Len(g) = Len(a)
    BY <1>1, <1>4, Zenon
  <2> QED
    BY <1>1, <1>4, <1>6, <2>1, SeqEqual, Zenon DEF Fragments
<1> QED
  BY <1>1, <1>7 DEF f, g, a

\* The answer and how much of each item was streamed.
ItemsTyped == /\ answer \in Seq(ItemKinds)
              /\ streamed \in [1 .. Len(answer) -> Nat]

\* The texts of the items are fragments.
LEMMA SaidTyped ==
  ASSUME ItemsTyped, NEW i \in 1 .. Len(answer)
  PROVE  /\ i \in Nat /\ streamed[i] \in Nat /\ answer[i].parts \in Nat
         /\ Said(i) \in Fragments /\ Text(i) \in Fragments
<1>1. i \in Nat /\ streamed[i] \in Nat /\ answer[i] \in ItemKinds
  BY DEF ItemsTyped
<1>2. answer[i].parts \in Nat
  BY <1>1, ItemKindsAssumption
<1>3. <<>> \in Fragments
  BY DEF Fragments
<1>4. /\ [p \in 1 .. streamed[i] |-> <<i, p>>] \in Fragments
      /\ [p \in 1 .. answer[i].parts |-> <<i, p>>] \in Fragments
  BY <1>1, <1>2, NumberedParts, Zenon
<1> QED
  BY <1>1, <1>2, <1>3, <1>4, Zenon DEF Said, Text

\* The texts of fewer items are a prefix of the texts of all.
LEMMA SpokenPrefix ==
  ASSUME ItemsTyped, NEW n \in 0 .. Len(answer), NEW k \in 0 .. n
  PROVE  /\ Spoken([i \in 1 .. n |-> i]) \in Fragments
         /\ FlattenSeq([i \in 1 .. k |-> Text(i)]) \in Fragments
         /\ IsPrefix(FlattenSeq([i \in 1 .. k |-> Text(i)]), Spoken([i \in 1 .. n |-> i]))
<1> DEFINE f == [i \in 1 .. n |-> Text(i)]
           g == [i \in 1 .. k |-> Text(i)]
<1>0. n \in Nat /\ k \in Nat /\ 1 .. n \subseteq 1 .. Len(answer) /\ 1 .. k \subseteq 1 .. n
  BY DEF ItemsTyped
<1>1. \A i \in 1 .. n : Text(i) \in Fragments
  BY <1>0, SaidTyped, Zenon
<1>2. f \in [1 .. n -> Fragments]
  BY <1>1
<1>3. g \in [1 .. k -> Fragments]
  BY <1>0, <1>1
<1>4. g = [i \in 1 .. k |-> f[i]]
  BY <1>0
<1>5. Spoken([i \in 1 .. n |-> i]) = FlattenSeq(f)
  BY DEF Spoken
<1> HIDE DEF f, g
<1>6. /\ FlattenSeq(f) \in Fragments /\ FlattenSeq(g) \in Fragments
      /\ IsPrefix(FlattenSeq(g), FlattenSeq(f))
  BY <1>0, <1>2, <1>4, FamilyPrefix, Zenon DEF Fragments
<1> QED
  BY <1>5, <1>6, Zenon DEF g

\* The text of a list of items is fragments.
LEMMA SpokenTyped ==
  ASSUME ItemsTyped, NEW s, NEW n \in Nat, s \in [1 .. n -> 1 .. Len(answer)]
  PROVE  Spoken(s) \in Fragments
<1> DEFINE f == [k \in DOMAIN s |-> Text(s[k])]
<1>1. DOMAIN s = 1 .. n /\ \A k \in 1 .. n : s[k] \in 1 .. Len(answer)
  OBVIOUS
<1>2. \A k \in 1 .. n : Text(s[k]) \in Fragments
  BY <1>1, SaidTyped, Zenon
<1>3. f \in [1 .. n -> Fragments]
  BY <1>1, <1>2
<1>4. Spoken(s) = FlattenSeq(f)
  BY DEF Spoken
<1> HIDE DEF f
<1>5. f \in Seq(Fragments)
  BY <1>3
<1> QED
  BY <1>4, <1>5, FlattenType, Zenon DEF Fragments

\* What was heard up to an item, and then of it.
LEMMA HeardStep ==
  ASSUME ItemsTyped, NEW k \in Nat, k + 1 <= Len(answer)
  PROVE  /\ FlattenSeq([i \in 1 .. k |-> Said(i)]) \in Fragments
         /\ FlattenSeq([i \in 1 .. k + 1 |-> Said(i)]) = FlattenSeq([i \in 1 .. k |-> Said(i)]) \o Said(k + 1)
<1> DEFINE f == [i \in 1 .. k + 1 |-> Said(i)]
<1>1. Len(answer) \in Nat /\ 1 .. k + 1 \subseteq 1 .. Len(answer) /\ k + 1 \in 1 .. k + 1 /\ 1 .. k \subseteq 1 .. k + 1
  BY DEF ItemsTyped
<1>2. \A i \in 1 .. k + 1 : Said(i) \in Fragments
  BY <1>1, SaidTyped, Zenon
<1>3. f \in [1 .. k + 1 -> Fragments]
  BY <1>2
<1>4. [i \in 1 .. k |-> f[i]] = [i \in 1 .. k |-> Said(i)] /\ f[k + 1] = Said(k + 1)
  BY <1>1
<1> HIDE DEF f
<1>5. /\ FlattenSeq([i \in 1 .. k |-> f[i]]) \in Fragments
      /\ FlattenSeq(f) = FlattenSeq([i \in 1 .. k |-> f[i]]) \o f[k + 1]
  BY <1>3, FamilyStep, Zenon DEF Fragments
<1> QED
  BY <1>4, <1>5, Zenon DEF f

\* Type correctness is kept by every event of the stream.
LEMMA StreamTypeStep == StreamTypeOK /\ [ChatGptNext]_chatgptVars => StreamTypeOK'
<1> SUFFICES ASSUME StreamTypeOK, [ChatGptNext]_chatgptVars PROVE StreamTypeOK'
  OBVIOUS
<1>0. Len(answer) \in Nat /\ DOMAIN answer = 1 .. Len(answer)
  BY DEF StreamTypeOK
<1>1. CASE OpenItem
  <2>1. /\ opened' = opened + 1 /\ opened < Len(answer)
        /\ announced' \subseteq announced \cup {opened'}
        /\ UNCHANGED <<answer, streamed, finished, terminal, malformed, backendEnd, chatEnd>>
    BY <1>1 DEF OpenItem
  <2> QED
    BY <1>0, <2>1 DEF StreamTypeOK
<1>2. CASE TextDelta
  <2>1. /\ opened > 0 /\ streamed' = [streamed EXCEPT ![opened] = @ + 1]
        /\ UNCHANGED <<answer, opened, announced, finished, terminal, malformed, backendEnd, chatEnd>>
    BY <1>2 DEF TextDelta
  <2> QED
    BY <1>0, <2>1 DEF StreamTypeOK
<1>3. CASE ItemDone
  <2>1. /\ \E i \in 1 .. opened : finished' = finished \cup {i}
        /\ UNCHANGED <<answer, opened, announced, streamed, terminal, malformed, backendEnd, chatEnd>>
    BY <1>3 DEF ItemDone
  <2> QED
    BY <1>0, <2>1 DEF StreamTypeOK
<1>4. ASSUME NEW event \in {"added", "done"}, Malformed(event) PROVE StreamTypeOK'
  <2>1. /\ malformed' = malformed \cup {event} /\ chatEnd' = "error"
        /\ UNCHANGED <<answer, opened, announced, streamed, finished, terminal, backendEnd>>
    BY <1>4 DEF Malformed
  <2> QED
    BY <2>1 DEF StreamTypeOK
<1>5. CASE Completed
  <2>1. /\ backendEnd' = "completed" /\ terminal' \subseteq 1 .. Len(answer)
        /\ chatEnd' \in {"completed", "error"}
        /\ UNCHANGED <<answer, opened, announced, streamed, finished, malformed>>
    BY <1>0, <1>5 DEF Completed, Stop, Items
  <2> QED
    BY <2>1 DEF StreamTypeOK
<1>6. ASSUME NEW event \in {"eof", "failed", "unfinished", "broken"}, Fault(event) PROVE StreamTypeOK'
  <2>1. /\ backendEnd' = "fault" /\ chatEnd' \in {"completed", "error"}
        /\ UNCHANGED <<answer, opened, announced, streamed, finished, terminal, malformed>>
    BY <1>6 DEF Fault, Ended, Stop
  <2> QED
    BY <2>1 DEF StreamTypeOK
<1>7. CASE UNCHANGED chatgptVars
  BY <1>7 DEF chatgptVars, StreamTypeOK
<1> QED
  BY <1>1, <1>2, <1>3, <1>4, <1>5, <1>6, <1>7 DEF ChatGptNext

\* A new item adds nothing to what was heard.
LEMMA HeardOpenItem ==
  ASSUME StreamTypeOK, HeardSoFar, OpenItem
  PROVE  HeardSoFar'
<1>1. /\ opened' = opened + 1 /\ opened < Len(answer)
      /\ announced' \subseteq announced \cup {opened + 1}
      /\ UNCHANGED <<answer, streamed, heard>>
  BY DEF OpenItem
<1>2. /\ ItemsTyped /\ opened \in Nat /\ Len(answer) \in Nat /\ opened + 1 \in 1 .. Len(answer)
      /\ opened + 1 <= Len(answer) /\ streamed[opened + 1] = 0
  BY <1>1 DEF StreamTypeOK, ItemsTyped
<1>3. SUFFICES ASSUME \A i \in 1 .. opened + 1 : answer[i].kind = "note" => i \in announced'
               PROVE  heard = FlattenSeq([i \in 1 .. opened + 1 |-> Said(i)])
  BY <1>1, Zenon DEF HeardSoFar, Said
<1>4. \A i \in 1 .. opened : answer[i].kind = "note" => i \in announced
  BY <1>1, <1>2, <1>3
<1>5. heard = FlattenSeq([i \in 1 .. opened |-> Said(i)])
  BY <1>4, Zenon DEF HeardSoFar
<1>6. Said(opened + 1) = <<>>
  <2>1. [p \in 1 .. 0 |-> <<opened + 1, p>>] = <<>>
    OBVIOUS
  <2> QED
    BY <1>2, <2>1, Zenon DEF Said
<1>7. /\ FlattenSeq([i \in 1 .. opened |-> Said(i)]) \in Fragments
      /\ FlattenSeq([i \in 1 .. opened + 1 |-> Said(i)]) =
           FlattenSeq([i \in 1 .. opened |-> Said(i)]) \o Said(opened + 1)
  BY <1>2, HeardStep, Zenon
<1>8. heard \in Fragments /\ heard \o <<>> = heard
  BY <1>5, <1>7, ConcatEmptySeq, Zenon DEF Fragments
<1> QED
  BY <1>5, <1>6, <1>7, <1>8, Zenon

\* A delta adds to what was heard unless its item is commentary.
LEMMA HeardTextDelta ==
  ASSUME StreamTypeOK, HeardSoFar, TextDelta
  PROVE  HeardSoFar'
<1> SUFFICES ASSUME NEW o, opened = o PROVE HeardSoFar'
  OBVIOUS
<1>1. /\ o > 0 /\ answer[o].kind \in {"text", "note"}
      /\ streamed' = [streamed EXCEPT ![o] = @ + 1]
      /\ heard' = IF Phase(o) = "commentary" THEN heard
                  ELSE Append(heard, <<o, streamed'[o]>>)
      /\ UNCHANGED <<answer, announced>> /\ opened = o /\ opened' = o
  BY DEF TextDelta, Message
<1> DEFINE k == o - 1
<1>2. /\ ItemsTyped /\ o \in 1 .. Len(answer) /\ o \in Nat /\ k \in Nat /\ k + 1 <= Len(answer)
      /\ k + 1 = o /\ o \in 1 .. o /\ streamed[o] \in Nat
  BY <1>1 DEF StreamTypeOK, ItemsTyped
<1>3. ItemsTyped'
  BY <1>1, <1>2 DEF ItemsTyped
<1>4. SUFFICES ASSUME \A i \in 1 .. o : answer[i].kind = "note" => i \in announced
               PROVE  heard' = FlattenSeq([i \in 1 .. o |-> Said(i)'])
  BY <1>1, Zenon DEF HeardSoFar
<1>5. heard = FlattenSeq([i \in 1 .. o |-> Said(i)])
  BY <1>4, Zenon DEF HeardSoFar
<1> DEFINE before == FlattenSeq([i \in 1 .. k |-> Said(i)])
<1>6. before \in Fragments /\ heard = before \o Said(o)
  BY <1>2, <1>5, HeardStep, Zenon
<1>7. FlattenSeq([i \in 1 .. o |-> Said(i)']) = FlattenSeq([i \in 1 .. k |-> Said(i)']) \o Said(o)'
  <2> DEFINE f == [i \in 1 .. o |-> Said(i)']
  <2>1. \A i \in 1 .. o : i \in Nat /\ streamed'[i] \in Nat
    BY <1>2, <1>3, <1>1 DEF ItemsTyped
  <2>2. <<>> \in Fragments
    BY DEF Fragments
  <2>3. \A i \in 1 .. o : Said(i)' \in Fragments
    <3> TAKE i \in 1 .. o
    <3>1. [p \in 1 .. streamed'[i] |-> <<i, p>>] \in Fragments
      BY <2>1, NumberedParts, Zenon
    <3> QED
      BY <2>2, <3>1, Zenon DEF Said
  <2>4. f \in [1 .. k + 1 -> Fragments]
    BY <1>2, <2>3
  <2>5. [i \in 1 .. k |-> f[i]] = [i \in 1 .. k |-> Said(i)'] /\ f[k + 1] = Said(o)'
    <3>1. 1 .. k \subseteq 1 .. o
      BY <1>2
    <3>2. \A i \in 1 .. k : f[i] = Said(i)'
      BY <3>1
    <3>3. f[o] = Said(o)'
      BY <1>2, Zenon
    <3> HIDE DEF f, k
    <3> QED
      BY <1>2, <3>2, <3>3
  <2> HIDE DEF f, k
  <2>6. FlattenSeq(f) = FlattenSeq([i \in 1 .. k |-> f[i]]) \o f[k + 1]
    BY <1>2, <2>4, FamilyStep, Zenon DEF Fragments
  <2> QED
    BY <2>5, <2>6, Zenon DEF f
<1>8. \A i \in 1 .. k : Said(i)' = Said(i)
  <2> TAKE i \in 1 .. k
  <2>1. streamed'[i] = streamed[i]
    BY <1>1, <1>2 DEF ItemsTyped
  <2> QED
    BY <1>1, <2>1, Zenon DEF Said
<1>9. FlattenSeq([i \in 1 .. k |-> Said(i)']) = before
  <2> HIDE DEF k
  <2>1. [i \in 1 .. k |-> Said(i)'] = [i \in 1 .. k |-> Said(i)]
    BY <1>8
  <2> QED
    BY <2>1, Zenon
<1>10. CASE answer[o].kind = "note"
  <2>1. heard' = heard
    BY <1>1, <1>2, <1>4, <1>10 DEF Phase
  <2>2. Said(o)' = Said(o)
    BY <1>1, <1>10 DEF Said
  <2> QED
    BY <1>6, <1>7, <1>9, <2>1, <2>2, Zenon
<1>11. CASE answer[o].kind = "text"
  <2>1. streamed'[o] = streamed[o] + 1
    BY <1>1, <1>2 DEF ItemsTyped
  <2>2. heard' = Append(heard, <<o, streamed[o] + 1>>)
    BY <1>1, <1>11, <2>1 DEF Phase
  <2>3. Said(o)' = Append(Said(o), <<o, streamed[o] + 1>>) /\ Said(o) \in Fragments
    <3>1. Said(o) = [p \in 1 .. streamed[o] |-> <<o, p>>]
      BY <1>11, Zenon DEF Said
    <3>2. Said(o)' = [p \in 1 .. streamed[o] + 1 |-> <<o, p>>]
      BY <1>1, <1>11, <2>1, Zenon DEF Said
    <3> QED
      BY <1>2, <3>1, <3>2, NumberedParts, Zenon
  <2>4. Append(before \o Said(o), <<o, streamed[o] + 1>>)
          = before \o Append(Said(o), <<o, streamed[o] + 1>>)
    <3>1. <<o, streamed[o] + 1>> \in Nat \X Nat
      BY <1>2
    <3>2. ASSUME NEW s \in Fragments, NEW t \in Fragments, NEW e \in Nat \X Nat
          PROVE  Append(s \o t, e) = s \o Append(t, e)
      <4> DEFINE E == Nat \X Nat
      <4>1. s \in Seq(E) /\ t \in Seq(E) /\ e \in E
        BY <3>2 DEF Fragments
      <4> HIDE DEF E
      <4>2. s \o t \in Seq(E) /\ <<e>> \in Seq(E)
        BY <4>1
      <4>3. Append(s \o t, e) = (s \o t) \o <<e>>
        BY <4>1, <4>2, AppendIsConcat
      <4>4. Append(t, e) = t \o <<e>>
        BY <4>1, AppendIsConcat
      <4>5. (s \o t) \o <<e>> = s \o (t \o <<e>>)
        BY <4>1, <4>2
      <4> QED
        BY <4>3, <4>4, <4>5
    <3> QED
      BY <1>6, <2>3, <3>1, <3>2, Zenon
  <2> QED
    BY <1>6, <1>7, <1>9, <2>2, <2>3, <2>4, Zenon
<1> QED
  BY <1>1, <1>10, <1>11

\* What response.completed collects, and its text.
LEMMA CompletedCollects ==
  ASSUME StreamTypeOK, NEW items, items \subseteq 1 .. Len(answer)
  PROVE  /\ items = 1 .. Cardinality(items) =>
              CollectResponseOutput(items) = Ascending(finished \cup items)
         /\ named = Items => EachOnce(CollectResponseOutput(items), finished \cup items)
         /\ Spoken(CollectResponseOutput(items)) \in Fragments
<1> DEFINE b == Len(answer)
<1>1. /\ b \in Nat /\ SomeItems(items, b) /\ finished \subseteq 1 .. b
      /\ ItemsTyped /\ Items = 1 .. b
  BY DEF StreamTypeOK, ItemsTyped, SomeItems, Items
<1> HIDE DEF b
<1>2. ASSUME items = 1 .. Cardinality(items)
      PROVE  CollectResponseOutput(items) = Ascending(finished \cup items)
  <2>1. Cardinality(items) \in Nat
    <3>1. IsFiniteSet(1 .. b)
      BY <1>1, FS_Interval
    <3>2. IsFiniteSet(items)
      BY <1>1, <3>1, FS_Subset DEF SomeItems
    <3> QED
      BY <3>2, FS_CardinalityType
  <2>2. CollectResponseOutput(1 .. Cardinality(items)) = Ascending(Listed(Cardinality(items)))
    BY <1>1, <2>1, OutputIsListed, Zenon
  <2>3. Listed(Cardinality(items)) = finished \cup items
    BY <1>2, Zenon DEF Listed
  <2> QED
    BY <1>2, <2>2, <2>3, Zenon
<1>3. named = Items => EachOnce(CollectResponseOutput(items), finished \cup items)
  <2>1. named = Items => 1 .. b \subseteq named
    BY <1>1
  <2> QED
    BY <1>1, <2>1, OutputEach, Zenon
<1>4. Spoken(CollectResponseOutput(items)) \in Fragments
  <2>1. PICK n \in Nat : CollectResponseOutput(items) \in [1 .. n -> 1 .. b]
    BY <1>1, OutputEach, Zenon
  <2> QED
    BY <1>1, <2>1, SpokenTyped, Zenon DEF b
<1> QED
  BY <1>2, <1>3, <1>4

\* An orderly stream was heard in the order of the items it collects.
LEMMA OrderlyIsContinued ==
  ASSUME StreamTypeOK, HeardSoFar, NEW items, items \subseteq 1 .. Len(answer),
         \A i \in 1 .. opened : Message(i) => i \in announced /\ streamed[i] = answer[i].parts,
         \A i \in 1 .. opened : i \in finished \cup items,
         items = 1 .. Cardinality(items)
  PROVE  IsPrefix(heard, Spoken(CollectResponseOutput(items)))
<1> DEFINE count == Cardinality(items)
           m == IF count < opened THEN opened ELSE count
<1>0. /\ Len(answer) \in Nat /\ opened \in Nat /\ opened <= Len(answer)
      /\ finished \subseteq 1 .. opened /\ ItemsTyped
  BY DEF StreamTypeOK, ItemsTyped
<1>1. count \in Nat
  <2>1. IsFiniteSet(1 .. Len(answer))
    BY <1>0, FS_Interval
  <2>2. IsFiniteSet(items)
    BY <2>1, FS_Subset
  <2> QED
    BY <2>2, FS_CardinalityType
<1>2. items = 1 .. count
  BY Zenon
<1> HIDE DEF count
<1>3. count <= Len(answer)
  <2>1. count # 0 => count \in 1 .. count
    BY <1>1
  <2> QED
    BY <1>0, <1>1, <1>2, <2>1
<1>4. m \in 0 .. Len(answer) /\ opened \in 0 .. m /\ m \in Nat
  BY <1>0, <1>1, <1>3
<1>5. finished \cup items = 1 .. m
  <2>1. finished \cup items \subseteq 1 .. m
    BY <1>0, <1>1, <1>2
  <2>2. ASSUME NEW i \in 1 .. m PROVE i \in finished \cup items
    <3>1. i \in 1 .. count \/ i \in 1 .. opened
      BY <1>0, <1>1
    <3> QED
      BY <1>2, <3>1
  <2> HIDE DEF m
  <2> QED
    BY <2>1, <2>2
<1> HIDE DEF m
<1>6. CollectResponseOutput(items) = [i \in 1 .. m |-> i]
  <2>1. CollectResponseOutput(items) = Ascending(finished \cup items)
    BY CompletedCollects, Zenon
  <2>2. Ascending(1 .. m) = [i \in 1 .. m |-> i]
    BY <1>4, AscendingInterval, Zenon
  <2> QED
    BY <1>5, <2>1, <2>2, Zenon
<1>7. heard = FlattenSeq([i \in 1 .. opened |-> Said(i)])
  BY Zenon DEF HeardSoFar, Message
<1>8. \A i \in 1 .. opened : Said(i) = Text(i)
  <2> TAKE i \in 1 .. opened
  <2>1. answer[i].kind = "text" => streamed[i] = answer[i].parts
    BY DEF Message
  <2> QED
    BY <2>1, Zenon DEF Said, Text
<1>9. [i \in 1 .. opened |-> Said(i)] = [i \in 1 .. opened |-> Text(i)]
  BY <1>8
<1>10. IsPrefix(FlattenSeq([i \in 1 .. opened |-> Text(i)]), Spoken([i \in 1 .. m |-> i]))
  BY <1>0, <1>4, SpokenPrefix, Zenon
<1> QED
  BY <1>6, <1>7, <1>9, <1>10, Zenon

\* While the backend streams, a caller has failed just if it met an event it refuses.
EndsAsRead ==
  /\ chatEnd = "open" <=> malformed = {}
  /\ wholeEnd = "open" <=> "done" \notin malformed
  /\ chatEnd # "completed" /\ wholeEnd # "completed"

StreamUnderWay ==
  /\ heard \in Fragments
  /\ HeardSoFar
  /\ EndsAsRead

\* response.completed gives the three callers the same answer.
LEMMA CompletedIsWhole ==
  ASSUME StreamTypeOK, StreamUnderWay, Completed
  PROVE  AnswerIsWhole'
<1> DEFINE output == CollectResponseOutput(terminal')
           text == Spoken(output)
           whole == chatEnd = "open" /\ Continues(text)
<1>1. /\ terminal' \subseteq 1 .. Len(answer) /\ collected' = output
      /\ heard' = IF whole THEN heard \o SubSeq(text, Len(heard) + 1, Len(text)) ELSE heard
      /\ chatEnd' = IF whole THEN "completed" ELSE "error"
      /\ wholeEnd' = IF wholeEnd = "open" THEN "completed" ELSE "error"
      /\ UNCHANGED <<answer, named, opened, announced, streamed, finished, malformed>>
  BY DEF Completed, Stop, Items, StreamTypeOK
<1>2. /\ terminal' = 1 .. Cardinality(terminal') => output = Ascending(finished \cup terminal')
      /\ named = Items => EachOnce(output, finished \cup terminal')
      /\ text \in Fragments
  BY <1>1, CompletedCollects, Zenon
<1>3. (Prefix => collected = Ascending(finished \cup terminal))'
  <2> HIDE DEF output
  <2> QED
    BY <1>1, <1>2, Zenon DEF Prefix
<1>4. (named = Items => EachOnce(collected, finished \cup terminal))'
  <2> HIDE DEF output
  <2> QED
    BY <1>1, <1>2, Zenon DEF EachOnce, Items
<1>5. (Orderly => chatEnd = "completed" /\ wholeEnd = "completed")'
  <2> SUFFICES ASSUME Orderly' PROVE whole /\ wholeEnd = "open"
    BY <1>1
  <2>1. malformed = {}
    BY <1>1 DEF Orderly
  <2>2. chatEnd = "open" /\ wholeEnd = "open"
    BY <2>1 DEF StreamUnderWay, EndsAsRead
  <2>3. \A i \in 1 .. opened : Message(i) => i \in announced /\ streamed[i] = answer[i].parts
    BY <1>1 DEF Orderly, Message
  <2>4. \A i \in 1 .. opened : i \in finished \cup terminal'
    BY <1>1 DEF Orderly
  <2>5. terminal' = 1 .. Cardinality(terminal')
    BY DEF Orderly, Prefix
  <2>6. IsPrefix(heard, text)
    BY <1>1, <2>3, <2>4, <2>5, OrderlyIsContinued, Zenon DEF StreamUnderWay
  <2> QED
    BY <2>2, <2>6, Zenon DEF Continues
<1>6. (chatEnd = "completed" => heard = Spoken(collected))'
  <2> SUFFICES ASSUME chatEnd' = "completed" PROVE heard' = Spoken(collected)'
    OBVIOUS
  <2>1. whole
    BY <1>1
  <2>2. heard \in Fragments
    BY DEF StreamUnderWay
  <2>3. heard \o SubSeq(text, Len(heard) + 1, Len(text)) = text
    BY <1>2, <2>1, <2>2, PrefixCompleted, Zenon DEF Continues, Fragments
  <2>4. Spoken(collected)' = Spoken(output)
    BY <1>1 DEF Spoken, Text
  <2> QED
    BY <1>1, <2>1, <2>3, <2>4
<1> QED
  BY <1>3, <1>4, <1>5, <1>6 DEF AnswerIsWhole

\* The inductive invariant.
WholeInv == StreamTypeOK /\ AnswerIsWhole /\ (Live => StreamUnderWay)

\* The invariant holds before the first event.
LEMMA WholeInvInit == ChatGptInit => WholeInv
<1> SUFFICES ASSUME ChatGptInit PROVE WholeInv
  OBVIOUS
<1>1. PICK n \in 1 .. MaxItems : answer \in [1 .. n -> ItemKinds]
  BY DEF ChatGptInit
<1>2. answer \in Seq(ItemKinds) /\ Len(answer) = n /\ n \in Nat /\ DOMAIN answer = 1 .. Len(answer)
  BY <1>1, MaxItemsAssumption
<1>3. StreamTypeOK
  BY <1>2 DEF ChatGptInit, StreamTypeOK, Items
<1>4. HeardSoFar
  <2>1. [i \in 1 .. 0 |-> Said(i)] = <<>>
    OBVIOUS
  <2>2. opened = 0 /\ heard = <<>>
    BY DEF ChatGptInit
  <2> QED
    BY <2>1, <2>2, FlattenEmpty, Zenon DEF HeardSoFar
<1>5. StreamUnderWay
  <2>1. heard \in Fragments
    BY DEF ChatGptInit, Fragments
  <2> QED
    BY <1>4, <2>1 DEF StreamUnderWay, EndsAsRead, ChatGptInit
<1>6. AnswerIsWhole
  BY DEF AnswerIsWhole, ChatGptInit
<1> QED
  BY <1>3, <1>5, <1>6 DEF WholeInv

\* Every event, and every way the stream breaks, keeps the invariant.
LEMMA WholeInvStep == WholeInv /\ [ChatGptNext]_chatgptVars => WholeInv'
<1> SUFFICES ASSUME WholeInv, [ChatGptNext]_chatgptVars PROVE WholeInv'
  OBVIOUS
<1>1. StreamTypeOK /\ StreamTypeOK' /\ (Live => StreamUnderWay)
  BY StreamTypeStep DEF WholeInv
<1>2. CASE OpenItem
  <2>1. Live /\ UNCHANGED <<backendEnd, heard, malformed, chatEnd, wholeEnd>>
    BY <1>2 DEF OpenItem
  <2>2. HeardSoFar'
    BY <1>1, <1>2, <2>1, HeardOpenItem DEF StreamUnderWay
  <2>3. AnswerIsWhole'
    BY <2>1 DEF AnswerIsWhole, Live
  <2> QED
    BY <1>1, <2>1, <2>2, <2>3 DEF WholeInv, StreamUnderWay, EndsAsRead
<1>3. CASE TextDelta
  <2>1. Live /\ UNCHANGED <<backendEnd, malformed, chatEnd, wholeEnd>>
    BY <1>3 DEF TextDelta
  <2>2. HeardSoFar'
    BY <1>1, <1>3, <2>1, HeardTextDelta DEF StreamUnderWay
  <2>3. heard' \in Fragments
    <3>1. /\ heard' = heard \/ heard' = Append(heard, <<opened, streamed'[opened]>>)
          /\ streamed'[opened] \in Nat /\ opened \in Nat /\ heard \in Fragments
      <4>1. /\ opened > 0 /\ opened' = opened /\ answer' = answer
            /\ heard' = IF Phase(opened) = "commentary" THEN heard
                        ELSE Append(heard, <<opened, streamed'[opened]>>)
        BY <1>3 DEF TextDelta
      <4>2. opened \in 1 .. Len(answer') /\ streamed' \in [1 .. Len(answer') -> Nat]
        BY <1>1, <4>1 DEF StreamTypeOK
      <4> QED
        BY <1>1, <2>1, <4>1, <4>2 DEF StreamUnderWay
    <3>2. Append(heard, <<opened, streamed'[opened]>>) \in Fragments
      <4>1. <<opened, streamed'[opened]>> \in Nat \X Nat
        BY <3>1
      <4> QED
        BY <3>1, <4>1, AppendProperties DEF Fragments
    <3> QED
      BY <3>1, <3>2
  <2>4. AnswerIsWhole'
    BY <2>1 DEF AnswerIsWhole, Live
  <2> QED
    BY <1>1, <2>1, <2>2, <2>3, <2>4 DEF WholeInv, StreamUnderWay, EndsAsRead
<1>4. CASE ItemDone \/ \E event \in {"added", "done"} : Malformed(event)
  <2>1. /\ Live /\ UNCHANGED <<backendEnd, answer, opened, announced, streamed, heard>>
        /\ \/ UNCHANGED <<malformed, chatEnd, wholeEnd>>
           \/ \E event \in {"added", "done"} :
                /\ malformed' = malformed \cup {event} /\ chatEnd' = "error"
                /\ wholeEnd' = IF event = "done" THEN "error" ELSE wholeEnd
    BY <1>4 DEF ItemDone, Malformed
  <2>2. HeardSoFar' = HeardSoFar
    BY <2>1 DEF HeardSoFar, Said
  <2>3. AnswerIsWhole'
    BY <2>1 DEF AnswerIsWhole, Live
  <2>4. StreamUnderWay'
    <3>1. EndsAsRead'
      BY <1>1, <2>1 DEF StreamUnderWay, EndsAsRead
    <3> QED
      BY <1>1, <2>1, <2>2, <3>1 DEF StreamUnderWay
  <2> QED
    BY <1>1, <2>1, <2>3, <2>4 DEF WholeInv
<1>5. CASE Completed
  <2>1. Live /\ ~Live'
    BY <1>5 DEF Completed, Live
  <2>2. AnswerIsWhole'
    BY <1>1, <1>5, <2>1, CompletedIsWhole DEF StreamUnderWay
  <2> QED
    BY <1>1, <2>1, <2>2 DEF WholeInv
<1>6. ASSUME NEW event \in {"eof", "failed", "unfinished", "broken"}, Fault(event) PROVE WholeInv'
  <2>1. backendEnd' = "fault"
    BY <1>6 DEF Fault
  <2> QED
    BY <1>1, <2>1 DEF WholeInv, Live, AnswerIsWhole
<1>7. CASE UNCHANGED chatgptVars
  <2>1. StreamUnderWay' = StreamUnderWay /\ AnswerIsWhole' = AnswerIsWhole /\ Live' = Live
    BY <1>7 DEF chatgptVars, StreamUnderWay, EndsAsRead, HeardSoFar, Said, AnswerIsWhole, Prefix,
         EachOnce, Items, Orderly, Message, Spoken, Text, Live
  <2> QED
    BY <1>1, <2>1 DEF WholeInv
<1> QED
  BY <1>2, <1>3, <1>4, <1>5, <1>6, <1>7 DEF ChatGptNext

\* Whatever the backend streams, announces late or leaves to the terminal array: the collected
\* output has every item that came, in order if that array begins with the answer, and once
\* each if they have ids; an orderly stream finishes for both callers, and the Chat caller has
\* heard the text that the waiting caller is given.
THEOREM CollectedWhole == ChatGptSpec => []AnswerIsWhole
<1>1. WholeInv => AnswerIsWhole
  BY DEF WholeInv
<1> QED
  BY <1>1, WholeInvInit, WholeInvStep, PTL DEF ChatGptSpec

------------------------------------------------------------------------------
(* AdaptedTurn: the events of an adapted response.                             *)

\* An item id is the backend's, or made from the output index, or missing.
Ids  == {Unset} \cup ({"id", "call"} \X Nat)

\* A call as its reader keeps it, its name in the pieces that came.
Names == Seq({"name"})
CallRecords == [id : Ids, name : Names, args : Fragments]

\* The pieces of a name: all of it, and nothing.
LEMMA NamePieces ==
  /\ <<"name">> \in Names /\ <<>> \in Names
  /\ <<>> \o <<"name">> = <<"name">> /\ <<"name">> \o <<>> = <<"name">>
<1>1. <<"name">> \in Names /\ <<>> \in Names
  BY DEF Names
<1> QED
  BY <1>1, ConcatEmptySeq DEF Names

\* An item of the output: the message, or a call.
ItemRecords == [type : {"message"}, text : Fragments]
               \cup [type : {"function_call"}, id : Ids, name : Names, args : Fragments]

\* The events by what they carry.
DeltaTypes == {"text.delta", "args.delta"}
DoneTypes  == {"text.done", "args.done"}
OutTypes   == {"item.added", "part.added", "part.done", "item.done"} \cup DeltaTypes \cup DoneTypes

\* The events of an adapted response.
Events ==
  [type : {"created", "in_progress", "error"}]
  \cup [type : {"item.added", "part.added", "part.done"}, out : Nat]
  \cup [type : DeltaTypes \cup DoneTypes, out : Nat, data : Fragments]
  \cup [type : {"item.done"}, out : Nat, data : ItemRecords]
  \cup [type : {"completed"}, output : Seq(ItemRecords \cup {NoItem})]

\* Which events concern an item, and what they carry.
LEMMA EventFacts ==
  ASSUME NEW e \in Events
  PROVE  /\ "out" \in DOMAIN e <=> e.type \in OutTypes
         /\ e.type \in OutTypes => e.out \in Nat
         /\ e.type \in DeltaTypes \cup DoneTypes => e.data \in Fragments
<1>1. CASE e \in [type : {"created", "in_progress", "error"}]
  BY <1>1 DEF OutTypes, DeltaTypes, DoneTypes
<1>2. CASE e \in [type : {"item.added", "part.added", "part.done"}, out : Nat]
  BY <1>2 DEF OutTypes, DeltaTypes, DoneTypes
<1>3. CASE e \in [type : DeltaTypes \cup DoneTypes, out : Nat, data : Fragments]
  <2> HIDE DEF Fragments
  <2> QED
    BY <1>3 DEF OutTypes, DeltaTypes, DoneTypes
<1>4. CASE e \in [type : {"item.done"}, out : Nat, data : ItemRecords]
  BY <1>4 DEF OutTypes, DeltaTypes, DoneTypes
<1>5. CASE e \in [type : {"completed"}, output : Seq(ItemRecords \cup {NoItem})]
  BY <1>5 DEF OutTypes, DeltaTypes, DoneTypes
<1> QED
  BY <1>1, <1>2, <1>3, <1>4, <1>5 DEF Events

\* The places of a sequence that grew by one.
LEMMA AppendFacts ==
  ASSUME NEW E, NEW s \in Seq(E), NEW e \in E
  PROVE  /\ Append(s, e) \in Seq(E) /\ Len(s) \in Nat
         /\ DOMAIN s = 1 .. Len(s) /\ DOMAIN Append(s, e) = 1 .. Len(s) + 1
         /\ Append(s, e)[Len(s) + 1] = e
         /\ \A n \in 1 .. Len(s) : Append(s, e)[n] = s[n]
<1>1. Append(s, e) \in Seq(E) /\ Len(s) \in Nat /\ Len(Append(s, e)) = Len(s) + 1
  BY AppendProperties
<1>2. Append(s, e)[Len(s) + 1] = e /\ \A n \in 1 .. Len(s) : Append(s, e)[n] = s[n]
  BY AppendProperties
<1>3. DOMAIN s = 1 .. Len(s) /\ DOMAIN Append(s, e) = 1 .. Len(s) + 1
  BY <1>1
<1> QED
  BY <1>1, <1>2, <1>3, Zenon

\* The numbers up to the next.
LEMMA UptoNext ==
  ASSUME NEW k \in Nat
  PROVE  /\ \A n \in 1 .. k + 1 : n \in 1 .. k \/ n = k + 1
         /\ \A n \in 1 .. k : n \in 1 .. k + 1 /\ n # k + 1 /\ n < k + 1 /\ n <= k + 1 /\ ~ (k + 1 <= n) /\ ~ (k + 1 < n)
         /\ k + 1 \in 1 .. k + 1 /\ k + 1 <= k + 1 /\ ~ (k + 1 < k + 1)
  OBVIOUS

\* A stream that grew by one event.
LEMMA AppendEvent ==
  ASSUME NEW ev \in Seq(Events), NEW e \in Events
  PROVE  \A ev2, k : ev2 = Append(ev, e) /\ k = Len(ev) =>
         /\ ev2 \in Seq(Events) /\ k \in Nat /\ DOMAIN ev = 1 .. k /\ DOMAIN ev2 = 1 .. k + 1 /\ ev2[k + 1] = e
         /\ \A n \in 1 .. k : ev2[n] = ev[n]
<1>1. SUFFICES ASSUME NEW ev2, NEW k, ev2 = Append(ev, e), k = Len(ev)
      PROVE  /\ ev2 \in Seq(Events) /\ k \in Nat /\ DOMAIN ev = 1 .. k /\ DOMAIN ev2 = 1 .. k + 1 /\ ev2[k + 1] = e
             /\ \A n \in 1 .. k : ev2[n] = ev[n]
  OBVIOUS
<1> DEFINE E == Events
<1>2. ev \in Seq(E) /\ e \in E
  OBVIOUS
<1> HIDE DEF E
<1>3. /\ Append(ev, e) \in Seq(E) /\ Len(ev) \in Nat /\ DOMAIN ev = 1 .. Len(ev)
      /\ DOMAIN Append(ev, e) = 1 .. Len(ev) + 1 /\ Append(ev, e)[Len(ev) + 1] = e
      /\ \A n \in 1 .. Len(ev) : Append(ev, e)[n] = ev[n]
  BY <1>2, AppendFacts
<1> QED
  BY <1>1, <1>3 DEF E

\* An event adds its place to those of its type, and its item to theirs.
LEMMA AppendPlaces ==
  ASSUME NEW ev \in Seq(Events), NEW e \in Events, NEW t
  PROVE  /\ e.type # t => /\ Places(Append(ev, e), t) = Places(ev, t)
                          /\ Outs(Append(ev, e), t) = Outs(ev, t)
         /\ e.type = t => /\ Places(Append(ev, e), t) = Places(ev, t) \cup {Len(ev) + 1}
                          /\ Outs(Append(ev, e), t) = Outs(ev, t) \cup {e.out}
<1> DEFINE ev2 == Append(ev, e)
           k == Len(ev)
<1>1. /\ k \in Nat /\ DOMAIN ev = 1 .. k /\ DOMAIN ev2 = 1 .. k + 1 /\ ev2[k + 1] = e
      /\ \A n \in 1 .. k : ev2[n] = ev[n]
  BY AppendEvent
<1> HIDE DEF ev2, k
<1>2. e.type # t => Places(ev2, t) = Places(ev, t)
  BY <1>1, UptoNext DEF Places
<1>3. e.type = t => Places(ev2, t) = Places(ev, t) \cup {k + 1}
  BY <1>1, UptoNext DEF Places
<1>4. \A n \in Places(ev, t) : ev2[n].out = ev[n].out
  BY <1>1, UptoNext DEF Places
<1>5. e.type # t => Outs(ev2, t) = Outs(ev, t)
  BY <1>2, <1>4 DEF Outs
<1>6. e.type = t => Outs(ev2, t) = Outs(ev, t) \cup {e.out}
  BY <1>1, <1>3, <1>4 DEF Outs
<1> QED
  BY <1>2, <1>3, <1>5, <1>6 DEF ev2, k

\* What an event adds to the deltas of an item.
Spelt(e, out) == IF e.type \in DeltaTypes /\ e.out = out THEN e.data ELSE <<>>

\* An event adds what it spells to the deltas of an item.
LEMMA DeltasAppend ==
  ASSUME NEW ev \in Seq(Events), NEW e \in Events, NEW out
  PROVE  /\ Deltas(ev, out) \in Fragments
         /\ Spelt(e, out) \in Fragments
         /\ Deltas(Append(ev, e), out) = Deltas(ev, out) \o Spelt(e, out)
<1> DEFINE ev2 == Append(ev, e)
           k == Len(ev)
           f == [n \in DOMAIN ev2 |-> Spelt(ev2[n], out)]
           g == [n \in DOMAIN ev |-> Spelt(ev[n], out)]
<1>1. /\ k \in Nat /\ DOMAIN ev = 1 .. k /\ DOMAIN ev2 = 1 .. k + 1 /\ ev2[k + 1] = e
      /\ \A n \in 1 .. k : ev2[n] = ev[n]
      /\ ev2 \in Seq(Events)
  BY AppendEvent
<1>2. \A x \in Events : Spelt(x, out) \in Fragments
  <2>1. <<>> \in Fragments
    BY DEF Fragments
  <2> QED
    BY <2>1, EventFacts, Zenon DEF Spelt
<1>3. \A n \in 1 .. k + 1 : ev2[n] \in Events
  BY <1>1
<1>4. f \in [1 .. k + 1 -> Fragments]
  BY <1>1, <1>2, <1>3
<1>5. [n \in 1 .. k |-> f[n]] = g /\ f[k + 1] = Spelt(e, out)
  BY <1>1
<1>6. Deltas(ev2, out) = FlattenSeq(f) /\ Deltas(ev, out) = FlattenSeq(g)
  BY Zenon DEF Deltas, Spelt, DeltaTypes
<1> HIDE DEF f, g, ev2, k
<1>7. FlattenSeq([n \in 1 .. k |-> f[n]]) \in Fragments /\ FlattenSeq(f) = FlattenSeq([n \in 1 .. k |-> f[n]]) \o f[k + 1]
  BY <1>1, <1>4, FamilyStep, Zenon DEF Fragments
<1> QED
  BY <1>2, <1>5, <1>6, <1>7, Zenon DEF ev2

\* Items 0 .. n - 1 are announced once each and in order, every event about an item comes after
\* its announcement, and the stream goes on.
Announced(ev, n) ==
  /\ ev \in Seq(Events)
  /\ Outs(ev, "item.added") = 0 .. n - 1
  /\ \A m, k \in Places(ev, "item.added") : m < k => ev[m].out < ev[k].out
  /\ \A k \in DOMAIN ev : ev[k].type \in OutTypes =>
       \E m \in Places(ev, "item.added") : m <= k /\ ev[m].out = ev[k].out
  /\ Places(ev, "completed") = {} /\ Places(ev, "error") = {}

\* The items in done are closed, and nothing comes after the end of an item.
Closed(ev, done) ==
  /\ Outs(ev, "item.done") = done
  /\ \A k \in DOMAIN ev : \A m \in Places(ev, "item.done") :
       ev[k].type \in OutTypes /\ ev[m].out = ev[k].out => k <= m

\* What ends a text or the arguments of a call repeats the deltas.
Repeated(ev) ==
  \A k \in Places(ev, "text.done") \cup Places(ev, "args.done") : ev[k].data = Deltas(ev, ev[k].out)

\* The next item is announced.
LEMMA AnnounceNext ==
  ASSUME NEW n \in Nat, NEW ev, Announced(ev, n), NEW e \in Events, e.type = "item.added", e.out = n
  PROVE  Announced(Append(ev, e), n + 1)
<1> DEFINE ev2 == Append(ev, e)
           k == Len(ev)
<1>0. ev \in Seq(Events)
  BY DEF Announced
<1>1. /\ ev2 \in Seq(Events) /\ k \in Nat /\ DOMAIN ev = 1 .. k /\ DOMAIN ev2 = 1 .. k + 1
      /\ ev2[k + 1] = e /\ \A m \in 1 .. k : ev2[m] = ev[m]
  BY <1>0, AppendEvent
<1>2. /\ Places(ev2, "item.added") = Places(ev, "item.added") \cup {k + 1}
      /\ Outs(ev2, "item.added") = Outs(ev, "item.added") \cup {n}
      /\ Places(ev2, "completed") = {} /\ Places(ev2, "error") = {}
  <2>1. Places(ev, "completed") = {} /\ Places(ev, "error") = {}
    BY DEF Announced
  <2>2. Places(ev2, "completed") = Places(ev, "completed") /\ Places(ev2, "error") = Places(ev, "error")
    <3>1. e.type # "completed" /\ e.type # "error"
      OBVIOUS
    <3> QED
      BY <1>0, <3>1, AppendPlaces
  <2>3. /\ Places(ev2, "item.added") = Places(ev, "item.added") \cup {k + 1}
        /\ Outs(ev2, "item.added") = Outs(ev, "item.added") \cup {n}
    BY <1>0, AppendPlaces
  <2> QED
    BY <2>1, <2>2, <2>3
<1> HIDE DEF ev2, k
<1>3. (0 .. n - 1) \cup {n} = 0 .. (n + 1) - 1
  OBVIOUS
<1>4. \A m \in Places(ev, "item.added") : m \in 1 .. k /\ ev2[m] = ev[m] /\ ev2[m].out < n
  <2> TAKE m \in Places(ev, "item.added")
  <2>1. m \in 1 .. k /\ ev2[m] = ev[m] /\ ev[m].out \in Outs(ev, "item.added")
    BY <1>1 DEF Places, Outs
  <2>2. ev[m].out \in 0 .. n - 1
    BY <2>1 DEF Announced
  <2>3. \A x \in 0 .. n - 1 : x < n
    OBVIOUS
  <2> QED
    BY <2>1, <2>2, <2>3, Zenon
<1>5. \A m, j \in Places(ev2, "item.added") : m < j => ev2[m].out < ev2[j].out
  <2> SUFFICES ASSUME NEW m \in Places(ev2, "item.added"), NEW j \in Places(ev2, "item.added"), m < j
               PROVE  ev2[m].out < ev2[j].out
    OBVIOUS
  <2>1. CASE m = k + 1
    <3>1. j \in 1 .. k \/ j = k + 1
      BY <1>2, <1>4
    <3> QED
      BY <1>1, <2>1, <3>1, UptoNext
  <2>2. CASE m \in Places(ev, "item.added") /\ j = k + 1
    BY <1>1, <1>4, <2>2, Zenon
  <2>3. CASE m \in Places(ev, "item.added") /\ j \in Places(ev, "item.added")
    <3>1. ev[m].out < ev[j].out
      BY <2>3, Zenon DEF Announced
    <3> QED
      BY <1>4, <2>3, <3>1, Zenon
  <2> QED
    BY <1>2, <2>1, <2>2, <2>3, Zenon
<1>6. \A j \in DOMAIN ev2 : ev2[j].type \in OutTypes =>
        \E m \in Places(ev2, "item.added") : m <= j /\ ev2[m].out = ev2[j].out
  <2> SUFFICES ASSUME NEW j \in DOMAIN ev2, ev2[j].type \in OutTypes
               PROVE  \E m \in Places(ev2, "item.added") : m <= j /\ ev2[m].out = ev2[j].out
    OBVIOUS
  <2>1. CASE j = k + 1
    BY <1>1, <1>2, <2>1, UptoNext, Zenon
  <2>2. CASE j \in 1 .. k
    <3>1. PICK m \in Places(ev, "item.added") : m <= j /\ ev[m].out = ev[j].out
      BY <1>1, <2>2, Zenon DEF Announced
    <3> QED
      BY <1>1, <1>2, <1>4, <2>2, <3>1, Zenon
  <2> QED
    BY <1>1, <2>1, <2>2, UptoNext, Zenon
<1>7. Outs(ev2, "item.added") = 0 .. (n + 1) - 1
  BY <1>2, <1>3, Zenon DEF Announced
<1>8. Announced(ev2, n + 1)
  BY <1>1, <1>2, <1>5, <1>6, <1>7, Zenon DEF Announced
<1> QED
  BY <1>8 DEF ev2

\* An event about an announced item.
LEMMA AnnouncedStays ==
  ASSUME NEW n \in Nat, NEW ev, Announced(ev, n), NEW e \in Events,
         e.type \in OutTypes \ {"item.added"}, e.out \in 0 .. n - 1
  PROVE  Announced(Append(ev, e), n)
<1> DEFINE ev2 == Append(ev, e)
           k == Len(ev)
<1>0. ev \in Seq(Events)
  BY DEF Announced
<1>1. /\ ev2 \in Seq(Events) /\ k \in Nat /\ DOMAIN ev = 1 .. k /\ DOMAIN ev2 = 1 .. k + 1
      /\ ev2[k + 1] = e /\ \A m \in 1 .. k : ev2[m] = ev[m]
  BY <1>0, AppendEvent
<1>2. /\ e.type # "item.added" /\ e.type # "completed" /\ e.type # "error"
  BY DEF OutTypes, DeltaTypes, DoneTypes
<1>3. /\ Places(ev2, "item.added") = Places(ev, "item.added")
      /\ Outs(ev2, "item.added") = Outs(ev, "item.added")
      /\ Places(ev2, "completed") = {} /\ Places(ev2, "error") = {}
  BY <1>0, <1>2, AppendPlaces DEF Announced
<1> HIDE DEF ev2, k
<1>4. \A m \in Places(ev, "item.added") : m \in 1 .. k /\ ev2[m] = ev[m]
  BY <1>1 DEF Places
<1>5. \A m, j \in Places(ev2, "item.added") : m < j => ev2[m].out < ev2[j].out
  BY <1>3, <1>4, Zenon DEF Announced
<1>6. \A j \in DOMAIN ev2 : ev2[j].type \in OutTypes =>
        \E m \in Places(ev2, "item.added") : m <= j /\ ev2[m].out = ev2[j].out
  <2> SUFFICES ASSUME NEW j \in DOMAIN ev2, ev2[j].type \in OutTypes
               PROVE  \E m \in Places(ev2, "item.added") : m <= j /\ ev2[m].out = ev2[j].out
    OBVIOUS
  <2>1. CASE j = k + 1
    <3>1. e.out \in Outs(ev, "item.added")
      BY DEF Announced
    <3>2. PICK m \in Places(ev, "item.added") : ev[m].out = e.out
      BY <3>1, Zenon DEF Outs
    <3>3. m <= j
      BY <1>1, <1>4, <2>1, <3>2, UptoNext, Zenon
    <3> QED
      BY <1>1, <1>3, <1>4, <2>1, <3>2, <3>3, Zenon
  <2>2. CASE j \in 1 .. k
    <3>1. PICK m \in Places(ev, "item.added") : m <= j /\ ev[m].out = ev[j].out
      BY <1>1, <2>2, Zenon DEF Announced
    <3> QED
      BY <1>1, <1>3, <1>4, <2>2, <3>1, Zenon
  <2> QED
    BY <1>1, <2>1, <2>2, UptoNext, Zenon
<1>7. Announced(ev2, n)
  BY <1>1, <1>3, <1>5, <1>6, Zenon DEF Announced
<1> QED
  BY <1>7 DEF ev2

\* An event about an item that is not closed, which it may close.
LEMMA ClosedStays ==
  ASSUME NEW ev \in Seq(Events), NEW done, Closed(ev, done), NEW e \in Events,
         e.type \in OutTypes, e.out \notin done
  PROVE  Closed(Append(ev, e), IF e.type = "item.done" THEN done \cup {e.out} ELSE done)
<1> DEFINE ev2 == Append(ev, e)
           k == Len(ev)
           done2 == IF e.type = "item.done" THEN done \cup {e.out} ELSE done
<1>1. /\ k \in Nat /\ DOMAIN ev = 1 .. k /\ DOMAIN ev2 = 1 .. k + 1
      /\ ev2[k + 1] = e /\ \A m \in 1 .. k : ev2[m] = ev[m]
  BY AppendEvent
<1>2. /\ Places(ev2, "item.done") \subseteq Places(ev, "item.done") \cup {k + 1}
      /\ e.type # "item.done" => Places(ev2, "item.done") = Places(ev, "item.done")
      /\ Outs(ev2, "item.done") = done2
  BY AppendPlaces DEF Closed
<1> HIDE DEF ev2, k, done2
<1>4. \A m \in Places(ev, "item.done") : m \in 1 .. k /\ ev2[m] = ev[m] /\ ev[m].out \in done
  BY <1>1 DEF Places, Outs, Closed
<1>5. ASSUME NEW j \in DOMAIN ev2, NEW m \in Places(ev2, "item.done"),
             ev2[j].type \in OutTypes, ev2[m].out = ev2[j].out
      PROVE  j <= m
  <2>1. CASE m = k + 1
    <3>1. \A i \in 1 .. k + 1 : i <= k + 1
      BY <1>1
    <3> QED
      BY <1>1, <2>1, <3>1, Zenon
  <2>2. CASE m \in Places(ev, "item.done") /\ j = k + 1
    BY <1>1, <1>4, <1>5, <2>2, Zenon
  <2>3. CASE m \in Places(ev, "item.done") /\ j \in 1 .. k
    <3>1. ev2[j] = ev[j] /\ j \in DOMAIN ev /\ ev2[m] = ev[m]
      BY <1>1, <1>4, <2>3, Zenon
    <3> QED
      BY <1>5, <2>3, <3>1, Zenon DEF Closed
  <2> QED
    BY <1>1, <1>2, <2>1, <2>2, <2>3, UptoNext
<1>6. Closed(ev2, done2)
  BY <1>2, <1>5, Zenon DEF Closed
<1> QED
  BY <1>6 DEF ev2, done2

\* An event that is no delta leaves the deltas of every item as they are.
LEMMA RepeatedStays ==
  ASSUME NEW ev \in Seq(Events), Repeated(ev), NEW e \in Events, e.type \notin DeltaTypes,
         e.type \in DoneTypes => e.data = Deltas(ev, e.out)
  PROVE  Repeated(Append(ev, e)) /\ \A out : Deltas(Append(ev, e), out) = Deltas(ev, out)
<1> DEFINE ev2 == Append(ev, e)
           k == Len(ev)
           Done(s) == Places(s, "text.done") \cup Places(s, "args.done")
<1>1. /\ k \in Nat /\ DOMAIN ev = 1 .. k /\ DOMAIN ev2 = 1 .. k + 1
      /\ ev2[k + 1] = e /\ \A m \in 1 .. k : ev2[m] = ev[m]
  BY AppendEvent
<1>2. /\ Done(ev2) \subseteq Done(ev) \cup {k + 1}
      /\ e.type \notin DoneTypes => Done(ev2) = Done(ev)
  BY AppendPlaces DEF DoneTypes
<1>3. \A out : Deltas(ev2, out) = Deltas(ev, out)
  <2> TAKE out
  <2>1. Spelt(e, out) = <<>>
    BY DEF Spelt
  <2>2. Deltas(ev2, out) = Deltas(ev, out) \o Spelt(e, out) /\ Deltas(ev, out) \in Fragments
    BY DeltasAppend, Zenon
  <2>3. \A s \in Fragments : s \o <<>> = s
    BY ConcatEmptySeq DEF Fragments
  <2> QED
    BY <2>1, <2>2, <2>3, Zenon
<1> HIDE DEF ev2, k
<1>4. \A m \in Done(ev) : m \in 1 .. k /\ ev2[m] = ev[m] /\ ev[m].data = Deltas(ev, ev[m].out)
  BY <1>1, Zenon DEF Places, Repeated
<1>5. Repeated(ev2)
  <2> SUFFICES ASSUME NEW m \in Done(ev2) PROVE ev2[m].data = Deltas(ev2, ev2[m].out)
    BY Zenon DEF Repeated
  <2>1. CASE m \in Done(ev)
    BY <1>3, <1>4, <2>1, Zenon
  <2>2. CASE m = k + 1 /\ e.type \in DoneTypes
    BY <1>1, <1>3, <2>2, Zenon
  <2> QED
    BY <1>2, <2>1, <2>2, Zenon
<1> QED
  BY <1>3, <1>5 DEF ev2

\* A delta is added to those of its item, and to no others.
LEMMA DeltaAppended ==
  ASSUME NEW ev \in Seq(Events), NEW e \in Events, e.type \in DeltaTypes
  PROVE  /\ Deltas(ev, e.out) \in Fragments /\ e.data \in Fragments
         /\ Deltas(Append(ev, e), e.out) = Deltas(ev, e.out) \o e.data
         /\ \A out : out # e.out => Deltas(Append(ev, e), out) = Deltas(ev, out)
<1>1. Spelt(e, e.out) = e.data /\ \A out : out # e.out => Spelt(e, out) = <<>>
  BY DEF Spelt
<1>2. \A out : /\ Deltas(Append(ev, e), out) = Deltas(ev, out) \o Spelt(e, out)
               /\ Deltas(ev, out) \in Fragments /\ Spelt(e, out) \in Fragments
  BY DeltasAppend, Zenon
<1>3. \A s \in Fragments : s \o <<>> = s
  BY ConcatEmptySeq DEF Fragments
<1> QED
  BY <1>1, <1>2, <1>3, Zenon

\* The fields of an adapter.
IsAdapter(a) ==
  a = [events |-> a.events, text |-> a.text, textIndex |-> a.textIndex, next |-> a.next,
       calls |-> a.calls, outs |-> a.outs, end |-> a.end]

\* The adapter's books: each output index belongs to the text or to one call.
Books(a) ==
  /\ a.next \in Nat /\ a.text \in Fragments
  /\ (a.textIndex = -1 /\ a.text = <<>>) \/ a.textIndex \in 0 .. a.next - 1
  /\ DOMAIN a.calls = DOMAIN a.outs /\ DOMAIN a.outs \subseteq Nat /\ IsFiniteSet(DOMAIN a.outs)
  /\ \A i \in DOMAIN a.outs :
       a.calls[i] \in CallRecords /\ a.outs[i] \in 0 .. a.next - 1 /\ a.outs[i] # a.textIndex
  /\ \A i, j \in DOMAIN a.outs : a.outs[i] = a.outs[j] => i = j
  /\ \A out \in 0 .. a.next - 1 : out = a.textIndex \/ \E i \in DOMAIN a.outs : a.outs[i] = out

\* The events of a stream under way: n items announced, none closed, no delta of a later one.
OpenEvents(ev, n) ==
  /\ Announced(ev, n)
  /\ Places(ev, "text.done") = {} /\ Places(ev, "args.done") = {} /\ Places(ev, "item.done") = {}
  /\ \A out \in Nat : out >= n => Deltas(ev, out) = <<>>

\* What the adapter keeps of the text and of each call is what their deltas said.
Echoed(a) ==
  /\ a.textIndex # -1 => Deltas(a.events, a.textIndex) = a.text
  /\ \A i \in DOMAIN a.outs : Deltas(a.events, a.outs[i]) = a.calls[i].args

\* The inductive invariant of an adapter that has not seen the end.
AdapterOpen(a) == IsAdapter(a) /\ Books(a) /\ OpenEvents(a.events, a.next) /\ Echoed(a)

\* The deltas of an item are fragments.
LEMMA DeltasTyped ==
  ASSUME NEW ev \in Seq(Events), NEW out
  PROVE  Deltas(ev, out) \in Fragments
<1>1. [type |-> "error"] \in Events
  BY DEF Events
<1> QED
  BY <1>1, DeltasAppend, Zenon

\* The next item of an open stream.
LEMMA OpenEventsNew ==
  ASSUME NEW n \in Nat, NEW ev, OpenEvents(ev, n), NEW e \in Events, e.type = "item.added", e.out = n
  PROVE  /\ OpenEvents(Append(ev, e), n + 1)
         /\ \A out : Deltas(Append(ev, e), out) = Deltas(ev, out)
<1> DEFINE ev2 == Append(ev, e)
<1>1. ev \in Seq(Events) /\ Announced(ev, n)
  BY DEF OpenEvents, Announced
<1>2. Announced(ev2, n + 1)
  BY <1>1, AnnounceNext
<1>3. /\ Places(ev2, "text.done") = Places(ev, "text.done")
      /\ Places(ev2, "args.done") = Places(ev, "args.done")
      /\ Places(ev2, "item.done") = Places(ev, "item.done")
  <2>1. e.type # "text.done" /\ e.type # "args.done" /\ e.type # "item.done"
    OBVIOUS
  <2> QED
    BY <1>1, <2>1, AppendPlaces
<1>4. \A out : Deltas(ev2, out) = Deltas(ev, out)
  <2>1. Repeated(ev)
    BY DEF Repeated, OpenEvents
  <2>2. e.type \notin DeltaTypes /\ e.type \notin DoneTypes
    BY DEF DeltaTypes, DoneTypes
  <2> QED
    BY <1>1, <2>1, <2>2, RepeatedStays
<1>5. \A out \in Nat : out >= n + 1 => out >= n
  OBVIOUS
<1> HIDE DEF ev2
<1>6. OpenEvents(ev2, n + 1)
  BY <1>2, <1>3, <1>4, <1>5, Zenon DEF OpenEvents
<1> QED
  BY <1>4, <1>6 DEF ev2

\* A delta, or a part, of an item of an open stream.
LEMMA OpenEventsStay ==
  ASSUME NEW n \in Nat, NEW ev, OpenEvents(ev, n), NEW e \in Events,
         e.type \in DeltaTypes \cup {"part.added"}, e.out \in 0 .. n - 1
  PROVE  OpenEvents(Append(ev, e), n)
<1> DEFINE ev2 == Append(ev, e)
<1>1. ev \in Seq(Events) /\ Announced(ev, n)
  BY DEF OpenEvents, Announced
<1>2. Announced(ev2, n)
  <2>1. e.type \in OutTypes \ {"item.added"}
    BY DEF OutTypes, DeltaTypes
  <2> QED
    BY <1>1, <2>1, AnnouncedStays
<1>3. /\ Places(ev2, "text.done") = Places(ev, "text.done")
      /\ Places(ev2, "args.done") = Places(ev, "args.done")
      /\ Places(ev2, "item.done") = Places(ev, "item.done")
  <2>1. e.type # "text.done" /\ e.type # "args.done" /\ e.type # "item.done"
    BY DEF DeltaTypes
  <2> QED
    BY <1>1, <2>1, AppendPlaces
<1>4. \A out \in Nat : out >= n => Deltas(ev2, out) = Deltas(ev, out)
  <2>1. \A out \in Nat : out >= n => out # e.out
    OBVIOUS
  <2>2. CASE e.type \in DeltaTypes
    BY <1>1, <2>1, <2>2, DeltaAppended
  <2>3. CASE e.type = "part.added"
    <3>1. Repeated(ev)
      BY DEF Repeated, OpenEvents
    <3>2. e.type \notin DeltaTypes /\ e.type \notin DoneTypes
      BY <2>3 DEF DeltaTypes, DoneTypes
    <3> QED
      BY <1>1, <3>1, <3>2, RepeatedStays
  <2> QED
    BY <2>2, <2>3
<1> HIDE DEF ev2
<1>6. OpenEvents(ev2, n)
  BY <1>2, <1>3, <1>4, Zenon DEF OpenEvents
<1> QED
  BY <1>6 DEF ev2

\* The events that the adapter writes.
LEMMA EventsMade ==
  ASSUME NEW o \in Nat, NEW d \in Fragments
  PROVE  /\ \A t \in {"item.added", "part.added", "part.done"} :
              On(t, o) \in Events /\ On(t, o).type = t /\ On(t, o).out = o
         /\ \A t \in DeltaTypes \cup DoneTypes :
              With(t, o, d) \in Events /\ With(t, o, d).type = t /\ With(t, o, d).out = o /\ With(t, o, d).data = d
         /\ [type |-> "created"] \in Events /\ [type |-> "in_progress"] \in Events /\ [type |-> "error"] \in Events
<1> HIDE DEF Fragments
<1>1. \A t \in {"item.added", "part.added", "part.done"} :
              On(t, o) \in Events /\ On(t, o).type = t /\ On(t, o).out = o
  BY DEF On, Events
<1>2. \A t \in DeltaTypes \cup DoneTypes :
              With(t, o, d) \in Events /\ With(t, o, d).type = t /\ With(t, o, d).out = o /\ With(t, o, d).data = d
  BY DEF With, Events
<1>3. [type |-> "created"] \in Events /\ [type |-> "in_progress"] \in Events /\ [type |-> "error"] \in Events
  BY DEF Events
<1> QED
  BY <1>1, <1>2, <1>3

\* Emit adds an event and changes nothing else.
LEMMA EmitFields ==
  ASSUME NEW a, IsAdapter(a), NEW e
  PROVE  /\ IsAdapter(Emit(a, e)) /\ Emit(a, e).events = Append(a.events, e)
         /\ Emit(a, e).text = a.text /\ Emit(a, e).textIndex = a.textIndex /\ Emit(a, e).next = a.next
         /\ Emit(a, e).calls = a.calls /\ Emit(a, e).outs = a.outs
<1> DEFINE x == Append(a.events, e)
           b == [a EXCEPT !.events = x]
<1> HIDE DEF x
<1>1. /\ IsAdapter(b) /\ b.events = x /\ b.text = a.text /\ b.textIndex = a.textIndex /\ b.next = a.next
      /\ b.calls = a.calls /\ b.outs = a.outs
  BY DEF IsAdapter
<1>2. Emit(a, e) = b
  BY DEF Emit, x
<1> QED
  BY <1>1, <1>2, Zenon DEF x

\* Text opens its item once.
LEMMA TextStarted ==
  ASSUME NEW a, AdapterOpen(a)
  PROVE  AdapterOpen(StartText(a)) /\ StartText(a).textIndex # -1
<1>1. CASE a.textIndex # -1
  BY <1>1 DEF StartText
<1>2. CASE a.textIndex = -1
  <2> DEFINE n == a.next
             ev1 == Append(a.events, On("item.added", n))
             ev2 == Append(ev1, On("part.added", n))
             b == StartText(a)
  <2>1. /\ IsAdapter(b) /\ b.events = ev2 /\ b.text = a.text /\ b.textIndex = n /\ b.next = n + 1
        /\ b.calls = a.calls /\ b.outs = a.outs
    BY <1>2 DEF StartText, Emit, AdapterOpen, IsAdapter
  <2>2. /\ n \in Nat /\ n # -1 /\ n \in 0 .. (n + 1) - 1 /\ <<>> \in Fragments /\ a.text = <<>>
        /\ \A o \in 0 .. n - 1 : o \in 0 .. (n + 1) - 1 /\ o # n
        /\ \A o \in 0 .. (n + 1) - 1 : o \in 0 .. n - 1 \/ o = n
    BY <1>2 DEF AdapterOpen, Books, Fragments
  <2> HIDE DEF b, n
  <2>3. OpenEvents(ev1, n + 1) /\ \A out : Deltas(ev1, out) = Deltas(a.events, out)
    <3>1. OpenEvents(a.events, n)
      BY DEF AdapterOpen, n
    <3>2. On("item.added", n) \in Events /\ On("item.added", n).type = "item.added" /\ On("item.added", n).out = n
      BY <2>2, EventsMade
    <3> QED
      BY <2>2, <3>1, <3>2, OpenEventsNew
  <2> HIDE DEF ev1
  <2>4. OpenEvents(ev2, n + 1) /\ \A out : Deltas(ev2, out) = Deltas(ev1, out)
    <3>1. On("part.added", n) \in Events /\ On("part.added", n).type = "part.added" /\ On("part.added", n).out = n
      BY <2>2, EventsMade
    <3>2. ev1 \in Seq(Events) /\ Repeated(ev1) /\ "part.added" \notin DeltaTypes /\ "part.added" \notin DoneTypes
      BY <2>3 DEF Repeated, OpenEvents, Announced, DeltaTypes, DoneTypes
    <3> QED
      BY <2>2, <2>3, <3>1, <3>2, OpenEventsStay, RepeatedStays
  <2> HIDE DEF ev2
  <2>5. Books(b)
    <3>1. Books(a) /\ a.next = n
      BY DEF AdapterOpen, n
    <3>2. \A i \in DOMAIN a.outs : a.outs[i] \in 0 .. (n + 1) - 1 /\ a.outs[i] # n
      BY <2>2, <3>1, Zenon DEF Books
    <3>3. \A out \in 0 .. (n + 1) - 1 : out = n \/ \E i \in DOMAIN a.outs : a.outs[i] = out
      <4> TAKE out \in 0 .. (n + 1) - 1
      <4>1. CASE out \in 0 .. n - 1
        <5>1. out # -1
          BY <4>1
        <5> QED
          <6>1. out \in 0 .. a.next - 1
            BY <3>1, <4>1
          <6>2. out = a.textIndex \/ \E i \in DOMAIN a.outs : a.outs[i] = out
            BY <3>1, <6>1, Zenon DEF Books
          <6> QED
            BY <1>2, <5>1, <6>2, Zenon
      <4> QED
        BY <2>2, <4>1
    <3>4. n + 1 \in Nat
      BY <2>2
    <3> QED
      BY <2>1, <2>2, <3>1, <3>2, <3>3, <3>4, Zenon DEF Books
  <2>6. Echoed(b)
    <3>1. Deltas(a.events, n) = <<>>
      BY <2>2 DEF AdapterOpen, OpenEvents, n
    <3> QED
      BY <2>1, <2>2, <2>3, <2>4, <3>1, Zenon DEF AdapterOpen, Echoed
  <2> QED
    BY <2>1, <2>2, <2>4, <2>5, <2>6, Zenon DEF AdapterOpen, b
<1> QED
  BY <1>1, <1>2

\* Text of a chunk keeps the adapter open.
LEMMA TextAdded ==
  ASSUME NEW a, AdapterOpen(a), NEW t \in Fragments
  PROVE  AdapterOpen(AddText(a, t))
<1> DEFINE b == StartText(a)
           e == With("text.delta", b.textIndex, t)
           c == Emit([b EXCEPT !.text = @ \o t], e)
<1>1. AdapterOpen(b) /\ b.textIndex # -1
  BY TextStarted
<1>2. AddText(a, t) = IF t = <<>> THEN a ELSE c
  BY Zenon DEF AddText
<1> HIDE DEF b, e
<1>3. /\ IsAdapter(c) /\ c.events = Append(b.events, e) /\ c.text = b.text \o t /\ c.textIndex = b.textIndex
      /\ c.next = b.next /\ c.calls = b.calls /\ c.outs = b.outs
  <2> DEFINE s == b.text \o t
             d == [b EXCEPT !.text = s]
  <2> HIDE DEF s
  <2>1. /\ IsAdapter(d) /\ d.events = b.events /\ d.text = s /\ d.textIndex = b.textIndex
        /\ d.next = b.next /\ d.calls = b.calls /\ d.outs = b.outs
    BY <1>1 DEF AdapterOpen, IsAdapter
  <2>2. c = Emit(d, e)
    BY <1>1 DEF AdapterOpen, IsAdapter, s
  <2> HIDE DEF d
  <2>3. /\ IsAdapter(Emit(d, e)) /\ Emit(d, e).events = Append(d.events, e) /\ Emit(d, e).text = d.text
        /\ Emit(d, e).textIndex = d.textIndex /\ Emit(d, e).next = d.next
        /\ Emit(d, e).calls = d.calls /\ Emit(d, e).outs = d.outs
    BY <2>1, EmitFields
  <2> QED
    BY <2>1, <2>2, <2>3, Zenon DEF s
<1>4. b.textIndex \in 0 .. b.next - 1 /\ b.textIndex \in Nat /\ b.next \in Nat /\ b.text \in Fragments
  BY <1>1 DEF AdapterOpen, Books
<1>5. e \in Events /\ e.type \in DeltaTypes /\ e.out = b.textIndex /\ e.data = t
  <2>1. "text.delta" \in DeltaTypes
    BY DEF DeltaTypes
  <2> QED
    BY <1>4, <2>1, EventsMade DEF e
<1> HIDE DEF c
<1>6. b.events \in Seq(Events)
  BY <1>1 DEF AdapterOpen, OpenEvents, Announced
<1>7. OpenEvents(c.events, c.next)
  <2>1. e.type \in DeltaTypes \cup {"part.added"} /\ e.out \in 0 .. b.next - 1 /\ OpenEvents(b.events, b.next)
    BY <1>1, <1>4, <1>5 DEF AdapterOpen
  <2> QED
    BY <1>3, <1>4, <1>5, <2>1, OpenEventsStay
<1>8. /\ Deltas(c.events, e.out) = Deltas(b.events, e.out) \o t
      /\ \A out : out # e.out => Deltas(c.events, out) = Deltas(b.events, out)
  BY <1>3, <1>5, <1>6, DeltaAppended
<1>9. c.text \in Fragments
  BY <1>3, <1>4, ConcatProperties DEF Fragments
<1>10. Books(c)
  <2>1. Books(b)
    BY <1>1 DEF AdapterOpen
  <2>2. c.textIndex \in 0 .. c.next - 1 /\ c.next \in Nat
    BY <1>3, <1>4
  <2>3. /\ DOMAIN c.calls = DOMAIN c.outs /\ DOMAIN c.outs \subseteq Nat /\ IsFiniteSet(DOMAIN c.outs)
        /\ \A i \in DOMAIN c.outs :
             c.calls[i] \in CallRecords /\ c.outs[i] \in 0 .. c.next - 1 /\ c.outs[i] # c.textIndex
    <3>1. /\ DOMAIN b.calls = DOMAIN b.outs /\ DOMAIN b.outs \subseteq Nat /\ IsFiniteSet(DOMAIN b.outs)
          /\ \A i \in DOMAIN b.outs :
               b.calls[i] \in CallRecords /\ b.outs[i] \in 0 .. b.next - 1 /\ b.outs[i] # b.textIndex
      BY <2>1, Zenon DEF Books
    <3> QED
      BY <1>3, <3>1, Zenon
  <2>4. \A i, j \in DOMAIN c.outs : c.outs[i] = c.outs[j] => i = j
    <3>1. \A i, j \in DOMAIN b.outs : b.outs[i] = b.outs[j] => i = j
      BY <2>1, Zenon DEF Books
    <3> QED
      BY <1>3, <3>1, Zenon
  <2>5. \A out \in 0 .. c.next - 1 : out = c.textIndex \/ \E i \in DOMAIN c.outs : c.outs[i] = out
    <3>1. \A out \in 0 .. b.next - 1 : out = b.textIndex \/ \E i \in DOMAIN b.outs : b.outs[i] = out
      BY <2>1, Zenon DEF Books
    <3> QED
      BY <1>3, <3>1, Zenon
  <2> QED
    BY <1>9, <2>2, <2>3, <2>4, <2>5, Zenon DEF Books
<1>11. Echoed(c)
  <2>1. \A i \in DOMAIN b.outs : b.outs[i] # b.textIndex /\ Deltas(b.events, b.outs[i]) = b.calls[i].args
    BY <1>1, Zenon DEF AdapterOpen, Books, Echoed
  <2>2. Deltas(b.events, b.textIndex) = b.text
    BY <1>1, Zenon DEF AdapterOpen, Echoed
  <2> QED
    BY <1>3, <1>5, <1>8, <2>1, <2>2, Zenon DEF Echoed
<1> QED
  BY <1>2, <1>3, <1>7, <1>10, <1>11, Zenon DEF AdapterOpen

\* A fragment of a call.
CallFragments == [index : Nat, id : Ids, name : Names, args : Fragments]

\* Between the merge of a fragment into its call and the delta that tells it.
HalfCall(a, index, args) ==
  /\ IsAdapter(a) /\ Books(a) /\ OpenEvents(a.events, a.next)
  /\ a.textIndex # -1 => Deltas(a.events, a.textIndex) = a.text
  /\ index \in DOMAIN a.outs
  /\ \A i \in DOMAIN a.outs :
       a.calls[i].args = IF i = index THEN Deltas(a.events, a.outs[i]) \o args
                                      ELSE Deltas(a.events, a.outs[i])

\* A fragment is added to the arguments of its call.
LEMMA MergeFacts ==
  ASSUME NEW kept, NEW f \in CallFragments, \A i \in DOMAIN kept : kept[i] \in CallRecords
  PROVE  LET old == IF f.index \in DOMAIN kept THEN kept[f.index].args ELSE <<>>
         IN /\ DOMAIN Merge(kept, f) = DOMAIN kept \cup {f.index}
            /\ \A i \in DOMAIN kept \cup {f.index} : Merge(kept, f)[i] \in CallRecords
            /\ \A i \in DOMAIN kept : i # f.index => Merge(kept, f)[i] = kept[i]
            /\ Merge(kept, f)[f.index].args = old \o f.args
<1> DEFINE old == IF Known(kept, f.index) THEN kept[f.index]
                  ELSE [id |-> Unset, name |-> <<>>, args |-> <<>>]
           new == [id   |-> IF f.id # Unset THEN f.id ELSE old.id,
                   name |-> old.name \o f.name,
                   args |-> old.args \o f.args]
<1>1. Merge(kept, f) = [i \in DOMAIN kept \cup {f.index} |-> IF i = f.index THEN new ELSE kept[i]]
  BY Zenon DEF Merge
<1>2. /\ f.index \in Nat /\ f.id \in Ids /\ f.name \in Names /\ f.args \in Fragments
  <2> HIDE DEF Fragments, Ids, Names
  <2> QED
    BY DEF CallFragments
<1>3. /\ old \in CallRecords /\ old.id \in Ids /\ old.name \in Names /\ old.args \in Fragments
      /\ old.args = IF f.index \in DOMAIN kept THEN kept[f.index].args ELSE <<>>
  <2>1. Unset \in Ids /\ <<>> \in Fragments /\ <<>> \in Names
    BY DEF Ids, Fragments, Names
  <2> HIDE DEF Fragments, Ids, Names
  <2>2. CASE f.index \in DOMAIN kept
    <3>1. old = kept[f.index] /\ old \in CallRecords
      BY <2>2 DEF Known
    <3> HIDE DEF old
    <3> QED
      BY <2>2, <3>1 DEF CallRecords
  <2>3. CASE f.index \notin DOMAIN kept
    BY <2>1, <2>3 DEF Known, CallRecords
  <2> QED
    BY <2>2, <2>3
<1> HIDE DEF old
<1>4. new \in CallRecords /\ new.args = old.args \o f.args
  <2>1. old.args \o f.args \in Fragments
    BY <1>2, <1>3, ConcatProperties DEF Fragments
  <2> DEFINE s == old.args \o f.args
             m == old.name \o f.name
  <2>2. m \in Names
    BY <1>2, <1>3, ConcatProperties DEF Names
  <2> HIDE DEF s, m
  <2>3. s \in Fragments
    BY <2>1 DEF s
  <2> HIDE DEF Fragments, Names
  <2>4. [id |-> IF f.id # Unset THEN f.id ELSE old.id, name |-> m, args |-> s] \in CallRecords
    BY <1>2, <1>3, <2>2, <2>3 DEF CallRecords
  <2> QED
    BY <2>4 DEF s, m
<1> HIDE DEF new
<1> QED
  BY <1>1, <1>3, <1>4

\* The delta of a call's arguments restores the echo.
LEMMA CallFinishedChunk ==
  ASSUME NEW b, NEW index, NEW d \in Fragments, HalfCall(b, index, d)
  PROVE  AdapterOpen(IF d = <<>> THEN b ELSE Emit(b, With("args.delta", b.outs[index], d)))
<1>0. /\ Books(b) /\ IsAdapter(b) /\ OpenEvents(b.events, b.next) /\ index \in DOMAIN b.outs
      /\ b.events \in Seq(Events)
  BY DEF HalfCall, OpenEvents, Announced
<1>1. CASE d = <<>>
  <2>1. \A i \in DOMAIN b.outs : Deltas(b.events, b.outs[i]) \in Fragments
    BY <1>0, DeltasTyped, Zenon
  <2>2. \A s \in Fragments : s \o <<>> = s
    BY ConcatEmptySeq DEF Fragments
  <2>3. \A i \in DOMAIN b.outs : b.calls[i].args = Deltas(b.events, b.outs[i])
    BY <1>1, <2>1, <2>2, Zenon DEF HalfCall
  <2>4. Echoed(b)
    BY <2>3, Zenon DEF HalfCall, Echoed
  <2> QED
    BY <1>0, <1>1, <2>4, Zenon DEF AdapterOpen
<1>2. CASE d # <<>>
  <2> DEFINE e == With("args.delta", b.outs[index], d)
             c == Emit(b, e)
  <2>1. b.outs[index] \in 0 .. b.next - 1 /\ b.outs[index] \in Nat /\ b.next \in Nat
    BY <1>0 DEF Books
  <2>2. e \in Events /\ e.type \in DeltaTypes /\ e.out = b.outs[index] /\ e.data = d
    <3>1. "args.delta" \in DeltaTypes
      BY DEF DeltaTypes
    <3> QED
      BY <2>1, <3>1, EventsMade
  <2> HIDE DEF e
  <2>3. /\ IsAdapter(c) /\ c.events = Append(b.events, e) /\ c.text = b.text
        /\ c.textIndex = b.textIndex /\ c.next = b.next /\ c.calls = b.calls /\ c.outs = b.outs
    BY <1>0, EmitFields
  <2> HIDE DEF c
  <2>4. OpenEvents(c.events, c.next)
    BY <1>0, <2>1, <2>2, <2>3, OpenEventsStay
  <2>5. /\ Deltas(c.events, e.out) = Deltas(b.events, e.out) \o d
        /\ \A out : out # e.out => Deltas(c.events, out) = Deltas(b.events, out)
    BY <1>0, <2>2, <2>3, DeltaAppended
  <2>6. Books(c)
    BY <1>0, <2>3, Zenon DEF Books
  <2>7. Echoed(c)
    <3>1. ASSUME NEW i \in DOMAIN b.outs PROVE Deltas(c.events, b.outs[i]) = b.calls[i].args
      <4>1. CASE i = index
        BY <2>2, <2>5, <4>1, Zenon DEF HalfCall
      <4>2. CASE i # index
        <5>1. b.outs[i] # e.out
          BY <1>0, <2>2, <4>2, Zenon DEF Books
        <5> QED
          BY <2>5, <4>2, <5>1, Zenon DEF HalfCall
      <4> QED
        BY <4>1, <4>2
    <3>2. b.textIndex # e.out
      BY <1>0, <2>2, Zenon DEF Books
    <3> QED
      BY <2>3, <2>5, <3>1, <3>2, Zenon DEF HalfCall, Echoed
  <2> QED
    BY <1>2, <2>3, <2>4, <2>6, <2>7, Zenon DEF AdapterOpen, c, e
<1> QED
  BY <1>1, <1>2, Zenon

\* What AddCall makes of the adapter before it announces the call.
Merged(a, f) == [a EXCEPT !.calls = Merge(@, f)]

\* A further fragment of a call, before its delta is written.
LEMMA KnownCallMerged ==
  ASSUME NEW a, AdapterOpen(a), NEW f \in CallFragments, f.index \in DOMAIN a.calls
  PROVE  HalfCall(Merged(a, f), f.index, f.args)
<1> DEFINE m == Merge(a.calls, f)
           b == [a EXCEPT !.calls = m]
<1>1. Books(a) /\ DOMAIN a.calls = DOMAIN a.outs /\ IsAdapter(a)
  BY DEF AdapterOpen, Books
<1>2. /\ DOMAIN m = DOMAIN a.calls /\ \A i \in DOMAIN a.calls : m[i] \in CallRecords
      /\ \A i \in DOMAIN a.calls : i # f.index => m[i] = a.calls[i]
      /\ m[f.index].args = a.calls[f.index].args \o f.args
  <2>1. \A i \in DOMAIN a.calls : a.calls[i] \in CallRecords
    BY <1>1, Zenon DEF Books
  <2>2. /\ DOMAIN m = DOMAIN a.calls \cup {f.index} /\ \A i \in DOMAIN a.calls \cup {f.index} : m[i] \in CallRecords
        /\ \A i \in DOMAIN a.calls : i # f.index => m[i] = a.calls[i]
        /\ m[f.index].args = (IF f.index \in DOMAIN a.calls THEN a.calls[f.index].args ELSE <<>>) \o f.args
    BY <2>1, MergeFacts
  <2> HIDE DEF m
  <2> QED
    BY <2>2
<1>0. Merged(a, f) = b
  BY <1>1 DEF IsAdapter, Merged
<1> HIDE DEF m
<1>3. /\ IsAdapter(b) /\ b.events = a.events /\ b.text = a.text /\ b.textIndex = a.textIndex /\ b.next = a.next
      /\ b.calls = m /\ b.outs = a.outs
  BY <1>1 DEF IsAdapter
<1> HIDE DEF b
<1>4. Books(b)
  <2>1. DOMAIN b.calls = DOMAIN b.outs
    BY <1>1, <1>2, <1>3
  <2>2. \A i \in DOMAIN b.outs : b.calls[i] \in CallRecords
    BY <1>1, <1>2, <1>3
  <2>3. \A i \in DOMAIN b.outs :
          b.calls[i] \in CallRecords /\ b.outs[i] \in 0 .. b.next - 1 /\ b.outs[i] # b.textIndex
    BY <1>1, <1>3, <2>2, Zenon DEF Books
  <2>4. /\ b.next \in Nat /\ b.text \in Fragments
        /\ (b.textIndex = -1 /\ b.text = <<>>) \/ b.textIndex \in 0 .. b.next - 1
    BY <1>1, <1>3, Zenon DEF Books
  <2>5. DOMAIN b.outs \subseteq Nat /\ IsFiniteSet(DOMAIN b.outs)
    <3>1. DOMAIN a.outs \subseteq Nat /\ IsFiniteSet(DOMAIN a.outs)
      BY <1>1 DEF Books
    <3> QED
      BY <1>3, <3>1, Zenon
  <2>6. \A i, j \in DOMAIN b.outs : b.outs[i] = b.outs[j] => i = j
    BY <1>1, <1>3, Zenon DEF Books
  <2>7. \A out \in 0 .. b.next - 1 : out = b.textIndex \/ \E i \in DOMAIN b.outs : b.outs[i] = out
    <3>1. \A out \in 0 .. a.next - 1 : out = a.textIndex \/ \E i \in DOMAIN a.outs : a.outs[i] = out
      BY <1>1, Zenon DEF Books
    <3> QED
      BY <1>3, <3>1, Zenon
  <2> QED
    BY <2>1, <2>3, <2>4, <2>5, <2>6, <2>7, Zenon DEF Books
<1>5. \A i \in DOMAIN b.outs :
        b.calls[i].args = IF i = f.index THEN Deltas(b.events, b.outs[i]) \o f.args
                                         ELSE Deltas(b.events, b.outs[i])
  BY <1>1, <1>2, <1>3, Zenon DEF AdapterOpen, Echoed
<1>6. HalfCall(b, f.index, f.args)
  BY <1>1, <1>3, <1>4, <1>5, Zenon DEF HalfCall, AdapterOpen, Echoed
<1> QED
  BY <1>0, <1>6, Zenon

\* What the first fragment of a call changes.
LEMMA StartedFields ==
  ASSUME NEW d, IsAdapter(d), NEW f
  PROVE  StartCall(d, f) =
           [d EXCEPT !.outs = [i \in DOMAIN d.outs \cup {f.index} |-> IF i = f.index THEN d.next ELSE d.outs[i]],
                     !.calls = [d.calls EXCEPT ![f.index].id = IF @ = Unset THEN <<"call", d.next>> ELSE @],
                     !.next = d.next + 1]
  BY DEF StartCall, IsAdapter

\* ... and when it has announced it.
CallStarted(a, f) ==
  Emit(StartCall(Merged(a, f), f), On("item.added", StartCall(Merged(a, f), f).outs[f.index]))

\* The first fragment of a call, before its delta is written.
LEMMA NewCallStarted ==
  ASSUME NEW a, AdapterOpen(a), NEW f \in CallFragments, f.index \notin DOMAIN a.calls
  PROVE  HalfCall(CallStarted(a, f), f.index, f.args)
<1> DEFINE m == Merge(a.calls, f)
           n == a.next
           x == f.index
           D == DOMAIN a.outs
           outs2 == [i \in D \cup {x} |-> IF i = x THEN n ELSE a.outs[i]]
           calls2 == [m EXCEPT ![x].id = IF @ = Unset THEN <<"call", n>> ELSE @]
           c == StartCall(Merged(a, f), f)
           e == On("item.added", n)
           b == Emit(c, e)
<1>1. Books(a) /\ DOMAIN a.calls = D /\ IsAdapter(a) /\ OpenEvents(a.events, n) /\ x \in Nat /\ x \notin D /\ n \in Nat
  <2>1. Books(a) /\ IsAdapter(a) /\ OpenEvents(a.events, n)
    BY DEF AdapterOpen
  <2>2. x \in Nat
    <3> HIDE DEF Fragments, Ids
    <3> QED
      BY DEF CallFragments
  <2> QED
    BY <2>1, <2>2 DEF Books
<1>2. /\ DOMAIN m = D \cup {x} /\ \A i \in D \cup {x} : m[i] \in CallRecords
      /\ \A i \in D : m[i] = a.calls[i]
      /\ m[x].args = <<>> \o f.args
  <2>1. \A i \in DOMAIN a.calls : a.calls[i] \in CallRecords
    BY <1>1, Zenon DEF Books
  <2>2. /\ DOMAIN m = DOMAIN a.calls \cup {x} /\ \A i \in DOMAIN a.calls \cup {x} : m[i] \in CallRecords
        /\ \A i \in DOMAIN a.calls : i # x => m[i] = a.calls[i]
        /\ m[x].args = (IF x \in DOMAIN a.calls THEN a.calls[x].args ELSE <<>>) \o f.args
    BY <2>1, MergeFacts
  <2> HIDE DEF m, D, x
  <2> QED
    BY <1>1, <2>2
<1>3. /\ DOMAIN calls2 = D \cup {x} /\ \A i \in D \cup {x} : calls2[i] \in CallRecords
      /\ \A i \in D : calls2[i] = a.calls[i]
      /\ calls2[x].args = <<>> \o f.args
  <2>1. <<"call", n>> \in Ids
    BY <1>1 DEF Ids
  <2> HIDE DEF m, D, x, n
  <2>2. m[x] \in CallRecords /\ calls2 = [m EXCEPT ![x] = [m[x] EXCEPT !.id = IF @ = Unset THEN <<"call", n>> ELSE @]]
    BY <1>2
  <2> DEFINE w == <<"call", n>>
             y == [m[x] EXCEPT !.id = IF @ = Unset THEN w ELSE @]
  <2> HIDE DEF w
  <2>3. y \in CallRecords /\ y.args = m[x].args
    <3>1. w \in Ids
      BY <2>1 DEF w
    <3> HIDE DEF Ids, Fragments
    <3> QED
      BY <2>2, <3>1 DEF CallRecords
  <2>4. calls2 = [m EXCEPT ![x] = y]
    BY <2>2 DEF w
  <2> HIDE DEF y, calls2
  <2> QED
    BY <1>1, <1>2, <2>3, <2>4
<1>4. /\ IsAdapter(c) /\ c.events = a.events /\ c.text = a.text /\ c.textIndex = a.textIndex
      /\ c.next = n + 1 /\ c.calls = calls2 /\ c.outs = outs2
  <2> DEFINE d == [a EXCEPT !.calls = m]
  <2>0. Merged(a, f) = d
    BY <1>1 DEF IsAdapter, Merged
  <2> HIDE DEF m
  <2>1. /\ IsAdapter(d) /\ d.events = a.events /\ d.text = a.text /\ d.textIndex = a.textIndex /\ d.next = n
        /\ d.calls = m /\ d.outs = a.outs
    BY <1>1 DEF IsAdapter
  <2> HIDE DEF d
  <2>2. c = [d EXCEPT !.outs = [i \in DOMAIN d.outs \cup {x} |-> IF i = x THEN d.next ELSE d.outs[i]],
                       !.calls = [d.calls EXCEPT ![x].id = IF @ = Unset THEN <<"call", d.next>> ELSE @],
                       !.next = d.next + 1]
    <3>1. c = StartCall(d, f)
      BY <2>0
    <3> HIDE DEF c
    <3>2. StartCall(d, f) =
            [d EXCEPT !.outs = [i \in DOMAIN d.outs \cup {f.index} |-> IF i = f.index THEN d.next ELSE d.outs[i]],
                      !.calls = [d.calls EXCEPT ![f.index].id = IF @ = Unset THEN <<"call", d.next>> ELSE @],
                      !.next = d.next + 1]
      BY <2>1, StartedFields
    <3> QED
      BY <3>1, <3>2, Zenon
  <2>3. c = [d EXCEPT !.outs = outs2, !.calls = calls2, !.next = n + 1]
    BY <2>1, <2>2, Zenon
  <2> HIDE DEF outs2, calls2, c
  <2> QED
    BY <2>1, <2>3 DEF IsAdapter
<1>5. x \in D \cup {x} /\ outs2[x] = n /\ DOMAIN outs2 = D \cup {x} /\ \A i \in D : outs2[i] = a.outs[i]
  <2> HIDE DEF D, x, n
  <2> QED
    BY <1>1
<1>6. c.outs[x] = n
  BY <1>4, <1>5, Zenon
<1> HIDE DEF c, outs2, calls2, m
<1>7. /\ IsAdapter(b) /\ b.events = Append(a.events, e) /\ b.text = a.text /\ b.textIndex = a.textIndex
      /\ b.next = n + 1 /\ b.calls = calls2 /\ b.outs = outs2
  BY <1>4, EmitFields
<1>8. OpenEvents(b.events, n + 1) /\ \A out : Deltas(b.events, out) = Deltas(a.events, out)
  <2>1. e \in Events /\ e.type = "item.added" /\ e.out = n
    <3>1. <<>> \in Fragments
      BY DEF Fragments
    <3> QED
      BY <1>1, <3>1, EventsMade
  <2> HIDE DEF e, b
  <2> QED
    BY <1>1, <1>7, <2>1, OpenEventsNew
<1> HIDE DEF b, D, x, n
<1>9. Books(b)
  <2>1. /\ n + 1 \in Nat /\ n \in 0 .. (n + 1) - 1 /\ n # -1 /\ n \notin 0 .. n - 1
        /\ \A o \in 0 .. n - 1 : o \in 0 .. (n + 1) - 1 /\ o # n
        /\ \A o \in 0 .. (n + 1) - 1 : o \in 0 .. n - 1 \/ o = n
    BY <1>1
  <2>2. (b.textIndex = -1 /\ b.text = <<>>) \/ b.textIndex \in 0 .. (n + 1) - 1
    BY <1>1, <1>7, <2>1, Zenon DEF Books, n
  <2>3. b.textIndex # n
    BY <1>1, <1>7, <2>1, Zenon DEF Books, n
  <2>4. IsFiniteSet(D \cup {x}) /\ D \cup {x} \subseteq Nat
    <3>1. IsFiniteSet(D) /\ D \subseteq Nat
      BY <1>1 DEF Books, D
    <3> QED
      BY <1>1, <3>1, FS_AddElement
  <2>5. \A i \in D : a.outs[i] \in 0 .. n - 1 /\ a.outs[i] # a.textIndex
    BY <1>1, Zenon DEF Books, n, D
  <2>6. \A i \in D \cup {x} : outs2[i] \in 0 .. (n + 1) - 1 /\ outs2[i] # b.textIndex
    BY <1>5, <1>7, <2>1, <2>3, <2>5, Zenon
  <2>7. \A i, j \in D \cup {x} : outs2[i] = outs2[j] => i = j
    <3>1. \A i, j \in D : a.outs[i] = a.outs[j] => i = j
      BY <1>1, Zenon DEF Books, D
    <3>2. \A i \in D : a.outs[i] # n
      BY <2>1, <2>5, Zenon
    <3> QED
      BY <1>5, <3>1, <3>2, Zenon
  <2>8. \A out \in 0 .. (n + 1) - 1 : out = b.textIndex \/ \E i \in D \cup {x} : outs2[i] = out
    <3>1. \A out \in 0 .. n - 1 : out = a.textIndex \/ \E i \in D : a.outs[i] = out
      BY <1>1, Zenon DEF Books, n, D
    <3>2. ASSUME NEW out \in 0 .. n - 1 PROVE out = a.textIndex \/ \E i \in D \cup {x} : outs2[i] = out
      BY <1>5, <3>1, Zenon
    <3>3. \E i \in D \cup {x} : outs2[i] = n
      BY <1>5, Zenon
    <3> QED
      BY <1>7, <2>1, <3>2, <3>3
  <2>9. a.text \in Fragments
    BY <1>1 DEF Books
  <2> QED
    BY <1>3, <1>5, <1>7, <2>1, <2>2, <2>4, <2>6, <2>7, <2>8, <2>9, Zenon DEF Books
<1>10. \A i \in DOMAIN b.outs :
         b.calls[i].args = IF i = x THEN Deltas(b.events, b.outs[i]) \o f.args
                                    ELSE Deltas(b.events, b.outs[i])
  <2>1. Deltas(a.events, n) = <<>>
    BY <1>1 DEF OpenEvents
  <2>2. \A i \in D : i # x /\ a.calls[i].args = Deltas(a.events, a.outs[i])
    BY <1>1, Zenon DEF AdapterOpen, Echoed, D
  <2> QED
    BY <1>3, <1>5, <1>7, <1>8, <2>1, <2>2, Zenon
<1>11. b.textIndex # -1 => Deltas(b.events, b.textIndex) = b.text
  BY <1>7, <1>8, Zenon DEF AdapterOpen, Echoed
<1>12. HalfCall(b, x, f.args)
  BY <1>5, <1>7, <1>8, <1>9, <1>10, <1>11, Zenon DEF HalfCall
<1> QED
  BY <1>6, <1>12, Zenon DEF CallStarted, b, c, e, x

\* A fragment of a call keeps the adapter open.
LEMMA CallAdded ==
  ASSUME NEW a, AdapterOpen(a), NEW f \in CallFragments
  PROVE  AdapterOpen(AddCall(a, f))
<1> DEFINE b == IF Known(a.calls, f.index) THEN Merged(a, f) ELSE CallStarted(a, f)
<1>1. HalfCall(b, f.index, f.args)
  <2>1. CASE f.index \in DOMAIN a.calls
    BY <2>1, KnownCallMerged, Zenon DEF Known
  <2>2. CASE f.index \notin DOMAIN a.calls
    BY <2>2, NewCallStarted, Zenon DEF Known
  <2> QED
    BY <2>1, <2>2
<1>2. AddCall(a, f) = IF f.args = <<>> THEN b ELSE Emit(b, With("args.delta", b.outs[f.index], f.args))
  BY Zenon DEF AddCall, Merged, CallStarted
<1>3. f.args \in Fragments
  <2> HIDE DEF Fragments, Ids
  <2> QED
    BY DEF CallFragments
<1> HIDE DEF b
<1> QED
  BY <1>1, <1>2, <1>3, CallFinishedChunk, Zenon

\* The adapter starts open: response.created and response.in_progress.
LEMMA OpenedIsOpen == AdapterOpen(Opened)
<1> DEFINE c == [type |-> "created"]
           p == [type |-> "in_progress"]
           ev1 == Append(<<>>, c)
           ev == Append(ev1, p)
<1>1. c \in Events /\ p \in Events /\ <<>> \in Seq(Events)
  BY DEF Events
<1>2. <<c, p>> = ev
  OBVIOUS
<1>3. /\ IsAdapter(Opened) /\ Opened.events = ev /\ Opened.text = <<>> /\ Opened.textIndex = -1 /\ Opened.next = 0
      /\ Opened.calls = NoCalls /\ Opened.outs = NoCalls
  <2> HIDE DEF ev
  <2> QED
    BY <1>2 DEF IsAdapter, Opened
<1>4. DOMAIN NoCalls = {}
  BY DEF NoCalls
<1>5. c.type = "created" /\ p.type = "in_progress"
  OBVIOUS
<1>6. ev1 \in Seq(Events) /\ ev \in Seq(Events)
  BY <1>1
<1> HIDE DEF c, p
<1>7. \A t : t # "created" /\ t # "in_progress" => Places(ev, t) = {} /\ Outs(ev, t) = {}
  <2> TAKE t
  <2> SUFFICES ASSUME t # "created" /\ t # "in_progress" PROVE Places(ev, t) = {} /\ Outs(ev, t) = {}
    OBVIOUS
  <2>1. Places(<<>>, t) = {}
    BY DEF Places
  <2>2. Places(ev1, t) = Places(<<>>, t)
    BY <1>1, <1>5, AppendPlaces
  <2> HIDE DEF ev1
  <2>3. Places(ev, t) = Places(ev1, t)
    BY <1>1, <1>5, <1>6, AppendPlaces
  <2> HIDE DEF ev
  <2> QED
    BY <2>1, <2>2, <2>3 DEF Outs
<1>8. \A out : Deltas(ev, out) = <<>>
  <2> TAKE out
  <2>1. Deltas(<<>>, out) = <<>>
    BY FlattenEmpty DEF Deltas
  <2>2. Spelt(c, out) = <<>> /\ Spelt(p, out) = <<>>
    BY <1>5 DEF Spelt, DeltaTypes
  <2>3. Deltas(ev1, out) = Deltas(<<>>, out) \o Spelt(c, out)
    BY <1>1, DeltasAppend, Zenon
  <2> HIDE DEF ev1
  <2>4. Deltas(ev, out) = Deltas(ev1, out) \o Spelt(p, out)
    BY <1>1, <1>6, DeltasAppend, Zenon
  <2>5. <<>> \o <<>> = <<>>
    OBVIOUS
  <2> QED
    BY <2>1, <2>2, <2>3, <2>4, <2>5, Zenon
<1>9. \A k \in DOMAIN ev : ev[k].type \notin OutTypes
  <2> TAKE k \in DOMAIN ev
  <2>1. k \in Places(ev, ev[k].type)
    BY DEF Places
  <2>2. "created" \notin OutTypes /\ "in_progress" \notin OutTypes
    BY DEF OutTypes, DeltaTypes, DoneTypes
  <2> QED
    BY <1>7, <2>1, <2>2, Zenon
<1> HIDE DEF ev, ev1
<1>10. Announced(ev, 0)
  <2>1. /\ Outs(ev, "item.added") = 0 .. 0 - 1 /\ Places(ev, "item.added") = {}
        /\ Places(ev, "completed") = {} /\ Places(ev, "error") = {}
    BY <1>7
  <2> QED
    BY <1>6, <1>9, <2>1, Zenon DEF Announced
<1>11. OpenEvents(ev, 0)
  BY <1>7, <1>8, <1>10 DEF OpenEvents
<1>12. Books(Opened)
  <2>1. (0 .. 0 - 1) = {} /\ 0 \in Nat /\ <<>> \in Fragments /\ IsFiniteSet({})
    BY FS_EmptySet DEF Fragments
  <2> QED
    BY <1>3, <1>4, <2>1, Zenon DEF Books
<1>13. Echoed(Opened)
  BY <1>3, <1>4, Zenon DEF Echoed
<1> QED
  BY <1>3, <1>11, <1>12, <1>13, Zenon DEF AdapterOpen

\* The only number is the greatest.
LEMMA MaxOfOne == Max({1}) = 1
<1>1. {1} \subseteq Nat /\ {1} # {} /\ \A x \in {1} : x <= 1
  OBVIOUS
<1>2. Max({1}) \in {1}
  BY <1>1, MaxFacts
<1> QED
  BY <1>2

\* A chunk without calls.
LEMMA FoldNone == ASSUME NEW a PROVE FoldLeft(AddCall, a, <<>>) = a
<1> DEFINE S == DOMAIN <<>>
           Step(g) == [s \in SUBSET S |-> IF s = {} THEN a ELSE AddCall(g[s \ {Max(s)}], (<<>>)[Max(s)])]
           iter == CHOOSE g : g = Step(g)
           G == [s \in SUBSET S |-> a]
<1>1. S = {} /\ S \in SUBSET S /\ \A s \in SUBSET S : s = {}
  OBVIOUS
<1> HIDE DEF S
<1>2. G = Step(G)
  BY <1>1
<1>3. iter = Step(iter)
  <2> HIDE DEF Step
  <2> QED
    BY <1>2, Zenon
<1>4. FoldLeft(AddCall, a, <<>>) = iter[S]
  BY Zenon DEF FoldLeft, MapThenFoldSet, S
<1> HIDE DEF iter
<1>5. iter[S] = a
  BY <1>1, <1>3, Zenon
<1> QED
  BY <1>4, <1>5

\* A chunk with one call.
LEMMA FoldOne == ASSUME NEW a, NEW f PROVE FoldLeft(AddCall, a, <<f>>) = AddCall(a, f)
<1> DEFINE S == DOMAIN <<f>>
           Step(g) == [s \in SUBSET S |-> IF s = {} THEN a ELSE AddCall(g[s \ {Max(s)}], (<<f>>)[Max(s)])]
           iter == CHOOSE g : g = Step(g)
           G == [s \in SUBSET S |-> IF s = {} THEN a ELSE AddCall(a, f)]
<1>1. S = {1} /\ S \in SUBSET S /\ {} \in SUBSET S /\ S # {} /\ \A s \in SUBSET S : s = {} \/ s = {1}
  <2>1. S = {1}
    OBVIOUS
  <2> HIDE DEF S
  <2> QED
    BY <2>1
<1>2. <<f>>[1] = f /\ {1} \ {1} = {}
  OBVIOUS
<1> HIDE DEF S
<1>3. G = Step(G)
  <2>1. \A s \in SUBSET S : s # {} => s \ {Max(s)} = {} /\ (<<f>>)[Max(s)] = f
    BY <1>1, <1>2, MaxOfOne, Zenon
  <2>2. G[{}] = a
    BY <1>1, Zenon
  <2>3. \A s \in SUBSET S : G[s] = IF s = {} THEN a ELSE AddCall(G[s \ {Max(s)}], (<<f>>)[Max(s)])
    BY <2>1, <2>2, Zenon
  <2>4. G = [s \in SUBSET S |-> G[s]]
    OBVIOUS
  <2> HIDE DEF G
  <2> QED
    BY <2>3, <2>4, Zenon
<1>4. iter = Step(iter)
  <2> HIDE DEF Step
  <2> QED
    BY <1>3, Zenon
<1>5. FoldLeft(AddCall, a, <<f>>) = iter[S]
  BY Zenon DEF FoldLeft, MapThenFoldSet, S
<1> HIDE DEF iter
<1>6. \A s \in SUBSET S : iter[s] = IF s = {} THEN a ELSE AddCall(iter[s \ {Max(s)}], (<<f>>)[Max(s)])
  <2>1. iter = [s \in SUBSET S |-> IF s = {} THEN a ELSE AddCall(iter[s \ {Max(s)}], (<<f>>)[Max(s)])]
    BY <1>4
  <2> QED
    BY <2>1, Zenon
<1>7. iter[{}] = a /\ iter[S] = AddCall(iter[S \ {Max(S)}], (<<f>>)[Max(S)])
  BY <1>1, <1>6, Zenon
<1>8. S \ {Max(S)} = {} /\ (<<f>>)[Max(S)] = f
  BY <1>1, <1>2, MaxOfOne, Zenon
<1> QED
  BY <1>5, <1>7, <1>8, Zenon

\* A chunk, of text or of a call, keeps the adapter open.
LEMMA ChunkReceived ==
  ASSUME NEW a, AdapterOpen(a), NEW t \in Fragments,
         NEW fragments, fragments = <<>> \/ \E f \in CallFragments : fragments = <<f>>
  PROVE  AdapterOpen(Receive(a, Chunk(t, fragments)))
<1> DEFINE b == AddText(a, t)
<1>1. AdapterOpen(b)
  BY TextAdded
<1>2. Receive(a, Chunk(t, fragments)) = FoldLeft(AddCall, b, fragments)
  <2>1. Chunk(t, fragments).text = t /\ Chunk(t, fragments).calls = fragments
    BY DEF Chunk
  <2> QED
    BY <2>1, Zenon DEF Receive
<1> HIDE DEF b
<1>3. CASE fragments = <<>>
  BY <1>1, <1>2, <1>3, FoldNone, Zenon
<1>4. CASE \E f \in CallFragments : fragments = <<f>>
  <2>1. PICK f \in CallFragments : fragments = <<f>>
    BY <1>4
  <2> QED
    BY <1>1, <1>2, <2>1, FoldOne, CallAdded, Zenon
<1> QED
  BY <1>3, <1>4

\* A stream announced, closed and repeated as it should be is well ordered.
LEMMA OpenIsWellOrdered ==
  ASSUME NEW n \in Nat, NEW ev, Announced(ev, n), NEW done, Closed(ev, done), Repeated(ev)
  PROVE  WellOrdered(ev) /\ NoHoles(ev)
<1>1. \A m, k \in Places(ev, "item.added") : m < k => ev[m].out < ev[k].out
  BY DEF Announced
<1>2. \A out \in Outs(ev, "item.added") : out = 0 \/ out - 1 \in Outs(ev, "item.added")
  <2>1. \A out \in 0 .. n - 1 : out = 0 \/ out - 1 \in 0 .. n - 1
    OBVIOUS
  <2> QED
    BY <2>1 DEF Announced
<1>3. \A k \in DOMAIN ev : "out" \in DOMAIN ev[k] <=> ev[k].type \in OutTypes
  <2>1. \A k \in DOMAIN ev : ev[k] \in Events
    BY DEF Announced
  <2> QED
    BY <2>1, EventFacts, Zenon
<1>4. \A k \in DOMAIN ev : "out" \in DOMAIN ev[k] =>
        /\ \E m \in Places(ev, "item.added") : m <= k /\ ev[m].out = ev[k].out
        /\ \A m \in Places(ev, "item.done") : ev[m].out = ev[k].out => k <= m
  BY <1>3, Zenon DEF Announced, Closed
<1>5. Places(ev, "completed") = {} /\ Places(ev, "error") = {}
  BY DEF Announced
<1>6. WellOrdered(ev)
  BY <1>1, <1>2, <1>4, <1>5, Zenon DEF WellOrdered, Repeated
<1> QED
  BY <1>5, <1>6, Zenon DEF NoHoles

\* The last event of a stream.
LEMMA LastIsWellOrdered ==
  ASSUME NEW n \in Nat, NEW ev, Announced(ev, n), NEW done, Closed(ev, done), Repeated(ev),
         NEW e \in Events, e.type \in {"completed", "error"}
  PROVE  WellOrdered(Append(ev, e))
<1> DEFINE ev2 == Append(ev, e)
           k == Len(ev)
<1>0. ev \in Seq(Events) /\ WellOrdered(ev)
  BY OpenIsWellOrdered DEF Announced
<1>1. /\ ev2 \in Seq(Events) /\ k \in Nat /\ DOMAIN ev = 1 .. k /\ DOMAIN ev2 = 1 .. k + 1
      /\ ev2[k + 1] = e /\ \A m \in 1 .. k : ev2[m] = ev[m]
  BY <1>0, AppendEvent
<1>2. Len(ev2) = k + 1
  BY <1>1
<1>3. e.type \notin OutTypes /\ "out" \notin DOMAIN e
  <2>1. e.type \notin OutTypes
    BY DEF OutTypes, DeltaTypes, DoneTypes
  <2> QED
    BY <2>1, EventFacts, Zenon
<1>4. \A t \in {"item.added", "item.done", "text.done", "args.done"} :
        Places(ev2, t) = Places(ev, t) /\ Outs(ev2, t) = Outs(ev, t)
  <2> TAKE t \in {"item.added", "item.done", "text.done", "args.done"}
  <2>1. e.type # t
    OBVIOUS
  <2> QED
    BY <1>0, <2>1, AppendPlaces
<1>5. \A t \in {"completed", "error"} : Places(ev2, t) \subseteq {k + 1}
  <2> TAKE t \in {"completed", "error"}
  <2>1. Places(ev, t) = {}
    BY DEF Announced
  <2>2. Places(ev2, t) = Places(ev, t) \/ Places(ev2, t) = Places(ev, t) \cup {k + 1}
    BY <1>0, AppendPlaces
  <2> HIDE DEF ev2, k
  <2> QED
    BY <2>1, <2>2
<1>6. \A out : Deltas(ev2, out) = Deltas(ev, out)
  <2>1. e.type \notin DeltaTypes /\ e.type \notin DoneTypes
    BY <1>3 DEF OutTypes
  <2> QED
    BY <1>0, <2>1, RepeatedStays
<1> HIDE DEF ev2, k
<1>7. \A t : \A m \in Places(ev, t) : m \in 1 .. k /\ ev2[m] = ev[m]
  BY <1>1 DEF Places
<1>8. \A m, j \in Places(ev2, "item.added") : m < j => ev2[m].out < ev2[j].out
  <2>1. Places(ev2, "item.added") = Places(ev, "item.added")
    BY <1>4, Zenon
  <2>2. \A m, j \in Places(ev, "item.added") : m < j => ev[m].out < ev[j].out
    BY <1>0, Zenon DEF WellOrdered
  <2> QED
    BY <1>7, <2>1, <2>2
<1>9. \A out \in Outs(ev2, "item.added") : out = 0 \/ out - 1 \in Outs(ev2, "item.added")
  BY <1>0, <1>4, Zenon DEF WellOrdered
<1>10. \A j \in DOMAIN ev2 : "out" \in DOMAIN ev2[j] =>
        /\ \E m \in Places(ev2, "item.added") : m <= j /\ ev2[m].out = ev2[j].out
        /\ \A m \in Places(ev2, "item.done") : ev2[m].out = ev2[j].out => j <= m
  <2> SUFFICES ASSUME NEW j \in DOMAIN ev2, "out" \in DOMAIN ev2[j]
               PROVE  /\ \E m \in Places(ev2, "item.added") : m <= j /\ ev2[m].out = ev2[j].out
                      /\ \A m \in Places(ev2, "item.done") : ev2[m].out = ev2[j].out => j <= m
    OBVIOUS
  <2>1. j \in DOMAIN ev /\ ev2[j] = ev[j]
    BY <1>1, <1>3, UptoNext
  <2>2. \E m \in Places(ev, "item.added") : m <= j /\ ev[m].out = ev[j].out
    BY <1>0, <2>1, Zenon DEF WellOrdered
  <2>3. \A m \in Places(ev, "item.done") : ev[m].out = ev[j].out => j <= m
    BY <1>0, <2>1, Zenon DEF WellOrdered
  <2> QED
    BY <1>4, <1>7, <2>1, <2>2, <2>3, Zenon
<1>11. \A j \in Places(ev2, "text.done") \cup Places(ev2, "args.done") : ev2[j].data = Deltas(ev2, ev2[j].out)
  BY <1>4, <1>6, <1>7, Zenon DEF Repeated
<1>12. \A j \in Places(ev2, "completed") \cup Places(ev2, "error") : j = Len(ev2)
  BY <1>2, <1>5, Zenon
<1>13. WellOrdered(ev2)
  BY <1>8, <1>9, <1>10, <1>11, <1>12, Zenon DEF WellOrdered
<1> QED
  BY <1>13 DEF ev2

\* While the stream is being ended: the items in done are closed, each as the output will list it.
Closing(ev, a, done) ==
  /\ Announced(ev, a.next) /\ Closed(ev, done) /\ Repeated(ev)
  /\ \A out : Deltas(ev, out) = Deltas(a.events, out)
  /\ \A m \in Places(ev, "item.done") : ev[m].data = ItemAt(a, ev[m].out)

\* An open adapter has closed nothing.
LEMMA ClosingStarts ==
  ASSUME NEW a, AdapterOpen(a)
  PROVE  Closing(a.events, a, {}) /\ a.events \in Seq(Events) /\ a.next \in Nat
<1>1. Announced(a.events, a.next) /\ a.events \in Seq(Events) /\ a.next \in Nat
  BY DEF AdapterOpen, OpenEvents, Announced, Books
<1>2. Closed(a.events, {}) /\ Places(a.events, "item.done") = {}
  BY DEF AdapterOpen, OpenEvents, Closed, Outs
<1>3. Repeated(a.events)
  BY DEF AdapterOpen, OpenEvents, Repeated
<1> QED
  BY <1>1, <1>2, <1>3, Zenon DEF Closing

\* One of the events that end an item.
LEMMA ClosingStep ==
  ASSUME NEW a, AdapterOpen(a), NEW ev, NEW done, Closing(ev, a, done), NEW e \in Events,
         e.type \in {"part.done", "item.done"} \cup DoneTypes, e.out \in 0 .. a.next - 1, e.out \notin done,
         e.type \in DoneTypes => e.data = Deltas(a.events, e.out),
         e.type = "item.done" => e.data = ItemAt(a, e.out)
  PROVE  Closing(Append(ev, e), a, IF e.type = "item.done" THEN done \cup {e.out} ELSE done)
<1> DEFINE ev2 == Append(ev, e)
           k == Len(ev)
           done2 == IF e.type = "item.done" THEN done \cup {e.out} ELSE done
<1>0. /\ ev \in Seq(Events) /\ a.next \in Nat /\ Announced(ev, a.next) /\ Closed(ev, done) /\ Repeated(ev)
      /\ \A out : Deltas(ev, out) = Deltas(a.events, out)
  BY ClosingStarts DEF Closing, Announced
<1>1. /\ ev2 \in Seq(Events) /\ k \in Nat /\ DOMAIN ev = 1 .. k /\ DOMAIN ev2 = 1 .. k + 1
      /\ ev2[k + 1] = e /\ \A m \in 1 .. k : ev2[m] = ev[m]
  BY <1>0, AppendEvent
<1>2. e.type \in OutTypes \ {"item.added"} /\ e.type \notin DeltaTypes
  BY DEF OutTypes, DeltaTypes, DoneTypes
<1>3. Announced(ev2, a.next)
  BY <1>0, <1>2, AnnouncedStays
<1>4. Closed(ev2, done2)
  BY <1>0, <1>2, ClosedStays
<1>5. Repeated(ev2) /\ \A out : Deltas(ev2, out) = Deltas(ev, out)
  BY <1>0, <1>2, RepeatedStays
<1>6. /\ e.type # "item.done" => Places(ev2, "item.done") = Places(ev, "item.done")
      /\ e.type = "item.done" => Places(ev2, "item.done") = Places(ev, "item.done") \cup {k + 1}
  BY <1>0, AppendPlaces
<1> HIDE DEF ev2, k, done2
<1>7. \A m \in Places(ev, "item.done") : m \in 1 .. k /\ ev[m].data = ItemAt(a, ev[m].out)
  BY <1>1 DEF Places, Closing
<1>8. \A m \in Places(ev2, "item.done") : ev2[m].data = ItemAt(a, ev2[m].out)
  <2> TAKE m \in Places(ev2, "item.done")
  <2>1. CASE m \in Places(ev, "item.done")
    BY <1>1, <1>7, <2>1, Zenon
  <2>2. CASE e.type = "item.done" /\ m = k + 1
    BY <1>1, <2>2, Zenon
  <2> QED
    BY <1>6, <2>1, <2>2
<1>9. Closing(ev2, a, done2)
  BY <1>0, <1>3, <1>4, <1>5, <1>8, Zenon DEF Closing
<1> QED
  BY <1>9 DEF ev2, done2

\* What the final output lists: the text, and the calls.
LEMMA BooksItems ==
  ASSUME NEW a, Books(a)
  PROVE  /\ a.textIndex # -1 => ItemAt(a, a.textIndex) = TextItem(a.text)
         /\ \A i \in DOMAIN a.outs : ItemAt(a, a.outs[i]) = CallItem(a.calls[i])
<1>1. a.textIndex # -1 => ItemAt(a, a.textIndex) = TextItem(a.text)
  BY Zenon DEF ItemAt
<1>2. \A i \in DOMAIN a.outs : ItemAt(a, a.outs[i]) = CallItem(a.calls[i])
  <2> TAKE i \in DOMAIN a.outs
  <2> DEFINE j == CHOOSE j \in DOMAIN a.outs : a.outs[j] = a.outs[i]
  <2>1. j \in DOMAIN a.outs /\ a.outs[j] = a.outs[i]
    OBVIOUS
  <2>2. ItemAt(a, a.outs[i]) = CallItem(a.calls[j])
    <3>1. a.outs[i] # a.textIndex
      BY Zenon DEF Books
    <3> QED
      BY <3>1, Zenon DEF ItemAt
  <2> HIDE DEF j
  <2>3. j = i
    BY <2>1, Zenon DEF Books
  <2> QED
    BY <2>2, <2>3, Zenon
<1> QED
  BY <1>1, <1>2

\* Every output index has its item: the text, or one call.
LEMMA OutputItems ==
  ASSUME NEW a, AdapterOpen(a)
  PROVE  /\ \A out \in 0 .. a.next - 1 : ItemAt(a, out) \in ItemRecords
         /\ a.textIndex # -1 => ItemAt(a, a.textIndex) = TextItem(a.text)
         /\ \A i \in DOMAIN a.outs : ItemAt(a, a.outs[i]) = CallItem(a.calls[i])
<1>1. a.text \in Fragments /\ \A i \in DOMAIN a.outs : a.calls[i] \in CallRecords
  BY Zenon DEF AdapterOpen, Books
<1>2. TextItem(a.text) \in ItemRecords
  <2> HIDE DEF Fragments
  <2> QED
    BY <1>1 DEF TextItem, ItemRecords
<1>3. \A i \in DOMAIN a.outs : CallItem(a.calls[i]) \in ItemRecords
  <2>1. \A c \in CallRecords : CallItem(c) \in ItemRecords
    <3> HIDE DEF Fragments, Ids
    <3> QED
      BY DEF CallItem, ItemRecords, CallRecords
  <2> QED
    BY <1>1, <2>1, Zenon
<1>4. \A i \in DOMAIN a.outs : ItemAt(a, a.outs[i]) = CallItem(a.calls[i])
  BY BooksItems DEF AdapterOpen
<1>5. a.textIndex # -1 => ItemAt(a, a.textIndex) = TextItem(a.text)
  BY BooksItems DEF AdapterOpen
<1>6. ASSUME NEW out \in 0 .. a.next - 1 PROVE ItemAt(a, out) \in ItemRecords
  <2>1. CASE out = a.textIndex
    BY <1>2, <2>1, Zenon DEF ItemAt
  <2>2. CASE \E i \in DOMAIN a.outs : a.outs[i] = out
    BY <1>3, <1>4, <2>2, Zenon
  <2> QED
    BY <2>1, <2>2, Zenon DEF AdapterOpen, Books
<1> QED
  BY <1>4, <1>5, <1>6

\* Two or three more events.
LEMMA ConcatTwo ==
  ASSUME NEW E, NEW s \in Seq(E), NEW x \in E, NEW y \in E, NEW z \in E
  PROVE  /\ s \o <<x, y>> = Append(Append(s, x), y)
         /\ s \o <<x, y, z>> = Append(Append(Append(s, x), y), z)
         /\ <<x, y>> \in Seq(E) /\ <<x, y, z>> \in Seq(E)
  OBVIOUS

\* The event that an item is done.
LEMMA ItemDoneMade ==
  ASSUME NEW o \in Nat, NEW d \in ItemRecords
  PROVE  LET e == With("item.done", o, d)
         IN e \in Events /\ e.type = "item.done" /\ e.out = o /\ e.data = d
<1> HIDE DEF ItemRecords
<1> QED
  BY DEF With, Events

\* FinishCall closes the item of its call.
LEMMA CallClosed ==
  ASSUME NEW a, AdapterOpen(a), NEW ev, NEW done, Closing(ev, a, done),
         NEW i \in DOMAIN a.outs, a.outs[i] \notin done
  PROVE  /\ FinishCall(a, i) \in Seq(Events) /\ ev \in Seq(Events)
         /\ Closing(ev \o FinishCall(a, i), a, done \cup {a.outs[i]})
<1> DEFINE o == a.outs[i]
           e == With("args.done", o, a.calls[i].args)
           f == With("item.done", o, CallItem(a.calls[i]))
           ev1 == Append(ev, e)
           ev2 == Append(ev1, f)
<1>1. o \in 0 .. a.next - 1 /\ o \in Nat /\ a.calls[i].args \in Fragments
  <2>1. o \in 0 .. a.next - 1 /\ a.calls[i] \in CallRecords /\ a.next \in Nat
    BY Zenon DEF AdapterOpen, Books
  <2>2. a.calls[i].args \in Fragments
    <3> HIDE DEF Fragments, Ids
    <3> QED
      BY <2>1 DEF CallRecords
  <2> QED
    BY <2>1, <2>2
<1>2. e \in Events /\ e.type = "args.done" /\ e.out = o /\ e.data = a.calls[i].args
  <2>1. "args.done" \in DoneTypes
    BY DEF DoneTypes
  <2> QED
    BY <1>1, <2>1, EventsMade
<1>3. CallItem(a.calls[i]) \in ItemRecords /\ ItemAt(a, o) = CallItem(a.calls[i])
  BY <1>1, OutputItems
<1>4. f \in Events /\ f.type = "item.done" /\ f.out = o /\ f.data = CallItem(a.calls[i])
  BY <1>1, <1>3, ItemDoneMade
<1>5. a.calls[i].args = Deltas(a.events, o)
  BY Zenon DEF AdapterOpen, Echoed
<1>6. FinishCall(a, i) = <<e, f>> /\ ev \in Seq(Events)
  BY DEF FinishCall, Closing, Announced
<1> HIDE DEF e, f, o
<1>7. Closing(ev1, a, done)
  <2>1. /\ e.type \in {"part.done", "item.done"} \cup DoneTypes /\ e.out \in 0 .. a.next - 1 /\ e.out \notin done
        /\ (e.type \in DoneTypes => e.data = Deltas(a.events, e.out))
        /\ (e.type = "item.done" => e.data = ItemAt(a, e.out)) /\ e.type # "item.done"
    BY <1>1, <1>2, <1>5 DEF DoneTypes, o
  <2>2. Closing(Append(ev, e), a, IF e.type = "item.done" THEN done \cup {e.out} ELSE done)
    BY <1>2, <2>1, ClosingStep, Zenon
  <2> QED
    BY <2>1, <2>2
<1> HIDE DEF ev1
<1>8. Closing(ev2, a, done \cup {o})
  <2>1. /\ f.type \in {"part.done", "item.done"} \cup DoneTypes /\ f.out \in 0 .. a.next - 1 /\ f.out \notin done
        /\ (f.type \in DoneTypes => f.data = Deltas(a.events, f.out))
        /\ (f.type = "item.done" => f.data = ItemAt(a, f.out)) /\ f.type = "item.done"
    BY <1>1, <1>3, <1>4 DEF DoneTypes, o
  <2>2. Closing(Append(ev1, f), a, IF f.type = "item.done" THEN done \cup {f.out} ELSE done)
    BY <1>4, <1>7, <2>1, ClosingStep, Zenon
  <2> QED
    BY <1>4, <2>1, <2>2
<1>9. <<e, f>> \in Seq(Events) /\ ev \o <<e, f>> = ev2
  <2> DEFINE E == Events
  <2> HIDE DEF E
  <2>1. ev \in Seq(E) /\ e \in E /\ f \in E
    BY <1>2, <1>4, <1>6 DEF E
  <2>2. <<e, f>> \in Seq(E) /\ ev \o <<e, f>> = Append(Append(ev, e), f)
    BY <2>1, ConcatTwo
  <2> QED
    BY <2>2 DEF E, ev1
<1> QED
  BY <1>6, <1>8, <1>9 DEF o

\* The output indexes that FinishText closes.
TextOut(a) == IF a.textIndex = -1 THEN {} ELSE {a.textIndex}

\* FinishText closes the item of the text, if there is one.
LEMMA TextClosed ==
  ASSUME NEW a, AdapterOpen(a)
  PROVE  Closing(a.events \o FinishText(a), a, TextOut(a))
<1>0. a.events \in Seq(Events) /\ Closing(a.events, a, {})
  BY ClosingStarts
<1>1. CASE a.textIndex = -1
  <2>1. a.events \o <<>> = a.events
    BY <1>0, ConcatEmptySeq
  <2> QED
    BY <1>0, <1>1, <2>1, Zenon DEF FinishText, TextOut
<1>2. CASE a.textIndex # -1
  <2> DEFINE ev == a.events
             o == a.textIndex
             e == With("text.done", o, a.text)
             p == On("part.done", o)
             f == With("item.done", o, TextItem(a.text))
             ev1 == Append(ev, e)
             ev2 == Append(ev1, p)
             ev3 == Append(ev2, f)
  <2>1. o \in 0 .. a.next - 1 /\ o \in Nat /\ a.text \in Fragments
    <3>1. o \in 0 .. a.next - 1 /\ a.text \in Fragments /\ a.next \in Nat
      BY <1>2 DEF AdapterOpen, Books
    <3> QED
      BY <3>1
  <2>2. /\ e \in Events /\ e.type = "text.done" /\ e.out = o /\ e.data = a.text
        /\ p \in Events /\ p.type = "part.done" /\ p.out = o
    <3>1. "text.done" \in DoneTypes
      BY DEF DoneTypes
    <3> QED
      BY <2>1, <3>1, EventsMade
  <2>3. TextItem(a.text) \in ItemRecords /\ ItemAt(a, o) = TextItem(a.text)
    BY <1>2, <2>1, OutputItems
  <2>4. f \in Events /\ f.type = "item.done" /\ f.out = o /\ f.data = TextItem(a.text)
    BY <2>1, <2>3, ItemDoneMade
  <2>5. a.text = Deltas(a.events, o)
    BY <1>2, Zenon DEF AdapterOpen, Echoed
  <2>6. FinishText(a) = <<e, p, f>> /\ TextOut(a) = {o}
    BY <1>2 DEF FinishText, TextOut
  <2> HIDE DEF e, f, p, o
  <2>7. Closing(ev1, a, {})
    <3>1. /\ e.type \in {"part.done", "item.done"} \cup DoneTypes /\ e.out \in 0 .. a.next - 1 /\ e.out \notin {}
          /\ (e.type \in DoneTypes => e.data = Deltas(a.events, e.out))
          /\ (e.type = "item.done" => e.data = ItemAt(a, e.out)) /\ e.type # "item.done"
      BY <2>1, <2>2, <2>5 DEF DoneTypes
    <3>2. Closing(Append(ev, e), a, IF e.type = "item.done" THEN {} \cup {e.out} ELSE {})
      BY <1>0, <2>2, <3>1, ClosingStep, Zenon
    <3> QED
      BY <3>1, <3>2
  <2> HIDE DEF ev1
  <2>8. Closing(ev2, a, {})
    <3>1. /\ p.type \in {"part.done", "item.done"} \cup DoneTypes /\ p.out \in 0 .. a.next - 1 /\ p.out \notin {}
          /\ (p.type \in DoneTypes => p.data = Deltas(a.events, p.out))
          /\ (p.type = "item.done" => p.data = ItemAt(a, p.out)) /\ p.type # "item.done"
      BY <2>1, <2>2 DEF DoneTypes
    <3>2. Closing(Append(ev1, p), a, IF p.type = "item.done" THEN {} \cup {p.out} ELSE {})
      BY <2>2, <2>7, <3>1, ClosingStep, Zenon
    <3> QED
      BY <3>1, <3>2
  <2> HIDE DEF ev2
  <2>9. Closing(ev3, a, {o})
    <3>1. /\ f.type \in {"part.done", "item.done"} \cup DoneTypes /\ f.out \in 0 .. a.next - 1 /\ f.out \notin {}
          /\ (f.type \in DoneTypes => f.data = Deltas(a.events, f.out))
          /\ (f.type = "item.done" => f.data = ItemAt(a, f.out)) /\ f.type = "item.done"
      BY <2>1, <2>3, <2>4 DEF DoneTypes
    <3>2. Closing(Append(ev2, f), a, IF f.type = "item.done" THEN {} \cup {f.out} ELSE {})
      BY <2>4, <2>8, <3>1, ClosingStep, Zenon
    <3> QED
      BY <2>4, <3>1, <3>2
  <2>10. ev \o <<e, p, f>> = ev3
    <3> DEFINE E == Events
    <3> HIDE DEF E
    <3>1. ev \in Seq(E) /\ e \in E /\ f \in E /\ p \in E
      BY <1>0, <2>2, <2>4 DEF E
    <3>2. ev \o <<e, p, f>> = Append(Append(Append(ev, e), p), f)
      BY <3>1, ConcatTwo
    <3> QED
      BY <3>2 DEF ev1, ev2
  <2> QED
    BY <2>6, <2>9, <2>10
<1> QED
  BY <1>1, <1>2

\* What ends the calls, in order.
CallEnds(a) == [n \in DOMAIN CallIndexes(a) |-> FinishCall(a, CallIndexes(a)[n])]

\* The calls are closed one after the other, in the order of their indexes, and with the
\* text that is every item.
LEMMA CallsClosed ==
  ASSUME NEW a, AdapterOpen(a)
  PROVE  Closing((a.events \o FinishText(a)) \o FlattenSeq(CallEnds(a)), a, 0 .. a.next - 1)
<1> DEFINE D == DOMAIN a.outs
           c == Cardinality(D)
           idx == CallIndexes(a)
           fin == CallEnds(a)
           ev == a.events \o FinishText(a)
           Upto(k) == [n \in 1 .. k |-> fin[n]]
           EndedBy(k) == TextOut(a) \cup {a.outs[idx[n]] : n \in 1 .. k}
           T == {k \in Nat : k \in 0 .. c =>
                   FlattenSeq(Upto(k)) \in Seq(Events) /\ Closing(ev \o FlattenSeq(Upto(k)), a, EndedBy(k))}
<1>1. /\ D \subseteq Nat /\ IsFiniteSet(D) /\ DOMAIN a.calls = D
      /\ \A i \in D : a.outs[i] \in 0 .. a.next - 1 /\ a.outs[i] # a.textIndex
      /\ \A i, j \in D : a.outs[i] = a.outs[j] => i = j
      /\ \A out \in 0 .. a.next - 1 : out = a.textIndex \/ \E i \in D : a.outs[i] = out
  <2>1. Books(a)
    BY DEF AdapterOpen
  <2>2. D \subseteq Nat /\ IsFiniteSet(D) /\ DOMAIN a.calls = D
    BY <2>1 DEF Books
  <2> QED
    BY <2>1, <2>2, Zenon DEF Books
<1>2. /\ c \in Nat /\ idx \in [1 .. c -> D]
      /\ \A m, n \in 1 .. c : m < n => idx[m] < idx[n]
      /\ \A x \in D : \E n \in 1 .. c : idx[n] = x
  <2>1. idx = Ascending(D)
    BY <1>1, Zenon DEF CallIndexes
  <2> HIDE DEF idx, D
  <2> QED
    <3>1. /\ Cardinality(D) \in Nat /\ Ascending(D) \in [1 .. Cardinality(D) -> D]
          /\ \A m, n \in 1 .. Cardinality(D) : m < n => Ascending(D)[m] < Ascending(D)[n]
          /\ \A x \in D : \E n \in 1 .. Cardinality(D) : Ascending(D)[n] = x
      <4>1. D \subseteq Nat /\ IsFiniteSet(D)
        BY <1>1
      <4> QED
        BY ONLY <4>1, AscendingFacts, Zenon
    <3> QED
      BY <2>1, <3>1, Zenon
<1>3. Closing(ev, a, TextOut(a)) /\ ev \in Seq(Events)
  <2>1. Closing(ev, a, TextOut(a))
    BY TextClosed
  <2> QED
    BY <2>1 DEF Closing, Announced
<1> HIDE DEF ev, c, D
<1>4. fin = [n \in 1 .. c |-> FinishCall(a, idx[n])]
  <2> HIDE DEF idx
  <2>1. DOMAIN idx = 1 .. c
    BY <1>2
  <2> QED
    BY <2>1, Zenon DEF CallEnds, idx
<1> HIDE DEF idx, fin
<1>5. \A n \in 1 .. c : FinishCall(a, idx[n]) \in Seq(Events)
  <2> TAKE n \in 1 .. c
  <2> DEFINE i == idx[n]
  <2>1. i \in DOMAIN a.outs
    BY <1>2 DEF D
  <2> HIDE DEF i
  <2> DEFINE none == {}
  <2>2. Closing(a.events, a, none) /\ a.outs[i] \notin none
    BY ClosingStarts
  <2> HIDE DEF none
  <2>3. FinishCall(a, i) \in Seq(Events)
    BY <2>1, <2>2, CallClosed, Zenon
  <2> QED
    BY <2>3 DEF i
<1>6. 0 \in T
  <2>1. Upto(0) = <<>> /\ EndedBy(0) = TextOut(a)
    OBVIOUS
  <2>2. FlattenSeq(Upto(0)) = <<>> /\ <<>> \in Seq(Events)
    BY <2>1, FlattenEmpty
  <2>3. ev \o <<>> = ev
    BY <1>3, ConcatEmptySeq
  <2>4. Closing(ev \o FlattenSeq(Upto(0)), a, EndedBy(0))
    <3> HIDE DEF Upto, EndedBy
    <3> QED
      BY <1>3, <2>1, <2>2, <2>3
  <2> HIDE DEF Upto, EndedBy
  <2> QED
    BY <2>2, <2>4
<1>7. ASSUME NEW k \in Nat, k \in T PROVE k + 1 \in T
  <2>1. SUFFICES ASSUME k + 1 \in 0 .. c
                 PROVE  /\ FlattenSeq(Upto(k + 1)) \in Seq(Events)
                        /\ Closing(ev \o FlattenSeq(Upto(k + 1)), a, EndedBy(k + 1))
    <3> HIDE DEF Upto, EndedBy
    <3> QED
      OBVIOUS
  <2>2. /\ k \in 0 .. c /\ k + 1 \in 1 .. c /\ 1 .. k \subseteq 1 .. c /\ k + 1 \in 1 .. k + 1
        /\ 1 .. k + 1 \subseteq 1 .. c /\ 1 .. k + 1 = (1 .. k) \cup {k + 1} /\ \A n \in 1 .. k : n < k + 1
    BY <1>2, <2>1
  <2> DEFINE i == idx[k + 1]
             x == FinishCall(a, i)
             s == FlattenSeq(Upto(k))
  <2>3. s \in Seq(Events) /\ Closing(ev \o s, a, EndedBy(k))
    <3> HIDE DEF Upto, EndedBy
    <3> QED
      BY <1>7, <2>2
  <2>4. i \in D /\ a.outs[i] \notin EndedBy(k) /\ EndedBy(k + 1) = EndedBy(k) \cup {a.outs[i]}
    <3>1. i \in D
      BY <1>2, <2>2
    <3>2. \A n \in 1 .. k : idx[n] \in D /\ idx[n] # i
      <4> TAKE n \in 1 .. k
      <4>1. n \in 1 .. c /\ idx[n] < idx[k + 1] /\ idx[n] \in D /\ idx[k + 1] \in D
        BY <1>2, <2>2
      <4>2. idx[n] \in Nat /\ idx[k + 1] \in Nat
        BY <1>1, <4>1
      <4> QED
        BY <4>1, <4>2
    <3>3. \A n \in 1 .. k : a.outs[idx[n]] # a.outs[i]
      BY <1>1, <3>1, <3>2, Zenon
    <3>4. a.outs[i] \notin TextOut(a)
      BY <1>1, <3>1, Zenon DEF TextOut
    <3>5. EndedBy(k + 1) = EndedBy(k) \cup {a.outs[i]}
      BY <2>2
    <3> HIDE DEF i
    <3> QED
      BY <3>1, <3>3, <3>4, <3>5
  <2>5. /\ x \in Seq(Events) /\ ev \o s \in Seq(Events)
        /\ Closing((ev \o s) \o x, a, EndedBy(k) \cup {a.outs[i]})
    <3> HIDE DEF Upto, EndedBy, i, x, s
    <3> QED
      BY <2>3, <2>4, CallClosed, Zenon DEF x, D
  <2>6. FlattenSeq(Upto(k + 1)) = s \o x
    <3> DEFINE f == Upto(k + 1)
    <3>1. f \in [1 .. k + 1 -> Seq(Events)] /\ f[k + 1] = x /\ [n \in 1 .. k |-> f[n]] = Upto(k)
      <4>1. \A n \in 1 .. k + 1 : fin[n] = FinishCall(a, idx[n]) /\ fin[n] \in Seq(Events)
        BY <1>4, <1>5, <2>2
      <4>2. f \in [1 .. k + 1 -> Seq(Events)]
        BY <4>1
      <4>3. f[k + 1] = x
        BY <2>2, <4>1
      <4>4. [n \in 1 .. k |-> f[n]] = Upto(k)
        BY <2>2
      <4> QED
        BY <4>2, <4>3, <4>4
    <3> HIDE DEF f, Upto
    <3>2. FlattenSeq(f) = FlattenSeq([n \in 1 .. k |-> f[n]]) \o f[k + 1]
      BY <3>1, FamilyStep, Zenon
    <3> QED
      BY <3>1, <3>2 DEF f
  <2>7. (ev \o s) \o x = ev \o (s \o x) /\ s \o x \in Seq(Events)
    <3> HIDE DEF s, x
    <3> QED
      BY <1>3, <2>3, <2>5
  <2> HIDE DEF Upto, EndedBy, i, x, s
  <2> QED
    BY <2>4, <2>5, <2>6, <2>7
<1> HIDE DEF T
<1>8. c \in T /\ c \in 0 .. c
  <2>1. Nat \subseteq T
    BY <1>6, <1>7, NatSetInduction, Zenon
  <2> QED
    BY <1>2, <2>1
<1>9. Closing(ev \o FlattenSeq(Upto(c)), a, EndedBy(c))
  BY <1>8 DEF T
<1>10. Upto(c) = fin
  BY <1>4
<1>11. EndedBy(c) = 0 .. a.next - 1
  <2>1. \A n \in 1 .. c : idx[n] \in D
    BY <1>2
  <2>2. TextOut(a) \subseteq 0 .. a.next - 1
    BY DEF TextOut, AdapterOpen, Books
  <2>3. EndedBy(c) \subseteq 0 .. a.next - 1
    <3>1. \A m \in 1 .. c : a.outs[idx[m]] \in 0 .. a.next - 1
      BY <1>1, <2>1, Zenon
    <3> QED
      BY <2>2, <3>1, Zenon
  <2>4. ASSUME NEW out \in 0 .. a.next - 1 PROVE out \in EndedBy(c)
    <3>1. CASE out = a.textIndex
      <4>1. a.textIndex # -1
        BY <3>1, ClosingStarts
      <4> QED
        BY <3>1, <4>1 DEF TextOut
    <3>2. CASE \E i \in D : a.outs[i] = out
      <4>1. PICK i \in D : a.outs[i] = out
        BY <3>2
      <4>2. PICK n \in 1 .. c : idx[n] = i
        BY <1>2, <4>1
      <4> QED
        BY <4>1, <4>2
    <3> QED
      BY <1>1, <3>1, <3>2
  <2> QED
    BY <2>3, <2>4
<1> QED
  BY <1>9, <1>10, <1>11 DEF fin, ev

\* Complete lists every item that it announced, and each as it ended.
LEMMA CompletedIsWellFormed ==
  ASSUME NEW a, AdapterOpen(a)
  PROVE  WellOrdered(Complete(a).events) /\ NoHoles(Complete(a).events)
<1> DEFINE ev == (a.events \o FinishText(a)) \o FlattenSeq(CallEnds(a))
           e == [type |-> "completed", output |-> Output(a)]
           n == a.next
<1>1. Complete(a).events = Append(ev, e)
  <2> DEFINE b == [a EXCEPT !.events = ev]
  <2>1. Complete(a) = [Emit(b, e) EXCEPT !.end = "completed"]
    <3>1. [a EXCEPT !.events = (@ \o FinishText(a)) \o FlattenSeq(CallEnds(a))] = b
      BY DEF AdapterOpen, IsAdapter
    <3> QED
      BY <3>1, Zenon DEF Complete, CallEnds
  <2> HIDE DEF ev, e
  <2>2. IsAdapter(b) /\ b.events = ev
    BY DEF AdapterOpen, IsAdapter
  <2> HIDE DEF b
  <2>3. IsAdapter(Emit(b, e)) /\ Emit(b, e).events = Append(ev, e)
    BY <2>2, EmitFields
  <2> DEFINE g == Emit(b, e)
  <2> HIDE DEF g
  <2>4. [g EXCEPT !.end = "completed"].events = g.events
    BY <2>3 DEF IsAdapter, g
  <2> QED
    BY <2>1, <2>3, <2>4 DEF g
<1>2. Closing(ev, a, 0 .. n - 1) /\ n \in Nat
  BY CallsClosed, ClosingStarts
<1>3. \A out \in 0 .. n - 1 : ItemAt(a, out) \in ItemRecords
  BY OutputItems
<1>4. /\ Output(a) \in [1 .. n -> ItemRecords]
      /\ \A out \in 0 .. n - 1 : Output(a)[out + 1] = ItemAt(a, out)
  <2>1. \A k \in 1 .. n : k - 1 \in 0 .. n - 1
    BY <1>2
  <2>2. Output(a) \in [1 .. n -> ItemRecords]
    BY <1>3, <2>1 DEF Output
  <2>3. ASSUME NEW out \in 0 .. n - 1 PROVE Output(a)[out + 1] = ItemAt(a, out)
    <3>1. out + 1 \in 1 .. n /\ (out + 1) - 1 = out
      BY <1>2
    <3>2. Output(a)[out + 1] = ItemAt(a, (out + 1) - 1)
      BY <3>1, Zenon DEF Output
    <3> QED
      BY <3>1, <3>2
  <2> QED
    BY <2>2, <2>3
<1>5. e \in Events /\ e.type = "completed" /\ e.output = Output(a)
  <2> DEFINE R == ItemRecords \cup {NoItem}
             o == Output(a)
  <2>1. o \in Seq(R)
    BY <1>2, <1>4
  <2> HIDE DEF R, o
  <2>2. [type |-> "completed", output |-> o] \in [type : {"completed"}, output : Seq(R)]
    BY <2>1
  <2>3. e \in Events
    BY <2>2 DEF Events, R, o
  <2> QED
    BY <2>3
<1> HIDE DEF e, ev
<1>6. WellOrdered(Append(ev, e))
  BY <1>2, <1>5, LastIsWellOrdered DEF Closing
<1>7. NoHoles(Append(ev, e))
  <2> DEFINE ev2 == Append(ev, e)
             k == Len(ev)
  <2>1. ev \in Seq(Events)
    BY <1>2 DEF Closing, Announced
  <2>2. /\ k \in Nat /\ DOMAIN ev = 1 .. k /\ ev2[k + 1] = e /\ \A m \in 1 .. k : ev2[m] = ev[m]
    BY <1>5, <2>1, AppendEvent
  <2>3. /\ Places(ev2, "completed") = Places(ev, "completed") \cup {k + 1}
        /\ Places(ev2, "item.done") = Places(ev, "item.done")
        /\ Outs(ev2, "item.done") = Outs(ev, "item.done")
        /\ Outs(ev2, "item.added") = Outs(ev, "item.added")
    BY <1>5, <2>1, AppendPlaces
  <2> HIDE DEF ev2, k
  <2>4. Places(ev, "completed") = {} /\ Outs(ev, "item.added") = 0 .. n - 1 /\ Outs(ev, "item.done") = 0 .. n - 1
    BY <1>2 DEF Closing, Announced, Closed
  <2>5. {j - 1 : j \in DOMAIN e.output} = 0 .. n - 1
    <3>1. DOMAIN e.output = 1 .. n
      BY <1>4, <1>5
    <3>2. {j - 1 : j \in 1 .. n} = 0 .. n - 1
      <4>1. \A x \in 0 .. n - 1 : x + 1 \in 1 .. n /\ x = (x + 1) - 1
        BY <1>2
      <4>2. \A j \in 1 .. n : j - 1 \in 0 .. n - 1
        BY <1>2
      <4> QED
        BY <4>1, <4>2
    <3> QED
      BY <3>1, <3>2
  <2>6. \A m \in Places(ev, "item.done") :
          e.output[ev2[m].out + 1] = ev2[m].data
    <3> TAKE m \in Places(ev, "item.done")
    <3>1. m \in 1 .. k /\ ev[m].out \in Outs(ev, "item.done")
      BY <2>2 DEF Places, Outs
    <3>2. ev[m].out \in 0 .. n - 1 /\ ev[m].data = ItemAt(a, ev[m].out) /\ ev2[m] = ev[m]
      BY <1>2, <2>2, <2>4, <3>1 DEF Closing
    <3> QED
      BY <1>4, <1>5, <3>2, Zenon
  <2>7. \A j \in Places(ev2, "completed") : ev2[j] = e
    BY <2>2, <2>3, <2>4
  <2>8. NoHoles(ev2)
    BY <2>3, <2>4, <2>5, <2>6, <2>7, Zenon DEF NoHoles
  <2> QED
    BY <2>8 DEF ev2
<1> QED
  BY <1>1, <1>6, <1>7, Zenon

\* Fail ends a stream that has no output.
LEMMA FailedIsWellFormed ==
  ASSUME NEW a, AdapterOpen(a)
  PROVE  WellOrdered(Fail(a).events) /\ NoHoles(Fail(a).events)
<1> DEFINE e == [type |-> "error"]
           ev == a.events
           g == Emit(a, e)
<1>1. Closing(ev, a, {}) /\ ev \in Seq(Events) /\ a.next \in Nat
  BY ClosingStarts
<1>2. Announced(ev, a.next) /\ Closed(ev, {}) /\ Repeated(ev) /\ Places(ev, "completed") = {}
  BY <1>1 DEF Closing, Announced
<1>3. e \in Events /\ e.type = "error" /\ e.type # "completed"
  BY DEF Events
<1> HIDE DEF e
<1>4. IsAdapter(g) /\ g.events = Append(ev, e)
  BY EmitFields DEF AdapterOpen
<1> HIDE DEF ev, g
<1>5. Fail(a).events = Append(ev, e)
  <2>1. Fail(a) = [g EXCEPT !.end = "error"]
    BY DEF Fail, g, e
  <2>2. [g EXCEPT !.end = "error"].events = g.events
    BY <1>4 DEF IsAdapter
  <2> QED
    BY <1>4, <2>1, <2>2
<1>6. WellOrdered(Append(ev, e))
  <2> DEFINE none == {}
  <2>1. Closed(ev, none) /\ e.type \in {"completed", "error"}
    BY <1>2, <1>3
  <2> HIDE DEF none
  <2> QED
    BY <1>1, <1>2, <1>3, <2>1, LastIsWellOrdered, Zenon
<1>7. Places(Append(ev, e), "completed") = {}
  BY <1>1, <1>2, <1>3, AppendPlaces DEF ev
<1> QED
  BY <1>5, <1>6, <1>7, Zenon DEF NoHoles

\* A stream under way is well formed.
LEMMA OpenIsWellFormed ==
  ASSUME NEW a, AdapterOpen(a)
  PROVE  WellOrdered(a.events) /\ NoHoles(a.events)
<1> DEFINE none == {}
           ev == a.events
<1>1. Announced(ev, a.next) /\ Closed(ev, none) /\ Repeated(ev) /\ a.next \in Nat
  BY ClosingStarts DEF Closing
<1> HIDE DEF none, ev
<1>2. WellOrdered(ev) /\ NoHoles(ev)
  BY <1>1, OpenIsWellOrdered, Zenon
<1> QED
  BY <1>2 DEF ev

\* The answer and how much of it was streamed.
TurnTyped ==
  /\ said \in Seq(Forms) /\ block \in 0 .. Len(said) /\ part \in Nat

\* The inductive invariant of a turn.
AdapterInv ==
  /\ TurnTyped
  /\ upstream \in {"streaming", "reason"} => AdapterOpen(adapted)
  /\ EventsWellFormed

\* The parts of a block are fragments, and so is one of them.
LEMMA PartsAreFragments ==
  ASSUME NEW b \in Nat, NEW n \in Nat
  PROVE  Parts(b, n) \in Fragments /\ << <<b, n>> >> \in Fragments /\ <<>> \in Fragments
<1>1. Parts(b, n) \in Fragments
  BY DEF Parts, Fragments
<1>2. << <<b, n>> >> \in Fragments /\ <<>> \in Fragments
  BY DEF Fragments
<1> QED
  BY <1>1, <1>2

\* What one chunk makes of an open adapter.
LEMMA ReceivedKeepsInv ==
  ASSUME AdapterInv, upstream \in {"streaming", "reason"}, TurnTyped',
         NEW t \in Fragments,
         NEW fragments, fragments = <<>> \/ \E f \in CallFragments : fragments = <<f>>,
         adapted' = Receive(adapted, Chunk(t, fragments))
  PROVE  AdapterInv'
<1>1. AdapterOpen(adapted)
  BY DEF AdapterInv
<1> DEFINE b == Receive(adapted, Chunk(t, fragments))
<1>2. AdapterOpen(b)
  BY <1>1, ChunkReceived
<1> HIDE DEF b
<1>3. WellOrdered(b.events) /\ NoHoles(b.events)
  BY <1>2, OpenIsWellFormed, Zenon
<1>4. adapted' = b
  BY DEF b
<1>5. AdapterOpen(adapted') /\ WellOrdered(adapted'.events) /\ NoHoles(adapted'.events)
  BY <1>2, <1>3, <1>4, Zenon
<1>6. AdapterOpen(adapted)'
  BY <1>5
<1> QED
  BY <1>5, <1>6, Zenon DEF AdapterInv, EventsWellFormed

\* The invariant holds before the first event.
LEMMA TurnStarts == ASSUME TurnInit PROVE AdapterInv
<1>1. adapted = Opened /\ block = 0 /\ part = 0 /\ said \in Answers(backend)
  BY DEF TurnInit
<1>2. said \in Seq(Forms)
  <2>1. PICK n \in 1 .. MaxBlocks : said \in [1 .. n -> {f \in Forms : Speaks(backend, f)}]
    BY <1>1 DEF Answers
  <2>2. said \in [1 .. n -> Forms] /\ n \in Nat
    <3>1. n \in Nat
      BY MaxBlocksAssumption
    <3> HIDE DEF Speaks
    <3> QED
      BY <2>1, <3>1
  <2> QED
    BY <2>2
<1>3. TurnTyped
  BY <1>1, <1>2 DEF TurnTyped
<1>4. AdapterOpen(Opened)
  BY OpenedIsOpen
<1>5. WellOrdered(Opened.events) /\ NoHoles(Opened.events)
  BY <1>4, OpenIsWellFormed, Zenon
<1> QED
  BY <1>1, <1>3, <1>4, <1>5, Zenon DEF AdapterInv, EventsWellFormed

\* A call is among the calls up to it.
LEMMA ToolCounted ==
  ASSUME NEW b \in Nat \ {0}, said[b].kind = "tool"
  PROVE  Cardinality({c \in 1 .. b : said[c].kind = "tool"}) - 1 \in Nat
<1> DEFINE S == {c \in 1 .. b : said[c].kind = "tool"}
<1>1. b \in S
  OBVIOUS
<1>2. IsFiniteSet(S)
  <2>1. IsFiniteSet(1 .. b)
    BY FS_Interval
  <2> QED
    BY <2>1, FS_Subset
<1> HIDE DEF S
<1>3. Cardinality(S) \in Nat /\ Cardinality(S) # 0
  BY <1>1, <1>2, FS_CardinalityType, FS_EmptySet
<1>4. Cardinality(S) - 1 \in Nat
  BY <1>3
<1> QED
  BY <1>4 DEF S

\* The fragments that the two backends send.
LEMMA FragmentsMade ==
  ASSUME TurnTyped, NEW b, b \in 1 .. Len(said)
  PROVE  /\ Fragment(CallIndex(b), CallId(b), <<"name">>, <<>>) \in CallFragments
         /\ \A p \in Nat : Fragment(CallIndex(b), Unset, <<>>, << <<b, p>> >>) \in CallFragments
         /\ said[b].kind = "tool" => CodexCall(b) \in CallFragments
<1>1. b \in Nat /\ b # 0 /\ CallIndex(b) \in Nat
  BY DEF TurnTyped, CallIndex
<1>2. CallId(b) \in Ids /\ Unset \in Ids
  BY <1>1 DEF CallId, Ids
<1>3. <<>> \in Fragments /\ \A p \in Nat : << <<b, p>> >> \in Fragments
  BY <1>1, PartsAreFragments
<1>4. said[b].parts \in Nat
  <2>1. said[b] \in Forms
    BY DEF TurnTyped
  <2> QED
    BY <2>1, FormsAssumption
<1>5. Parts(b, said[b].parts) \in Fragments
  BY <1>1, <1>4, PartsAreFragments
<1>6. said[b].kind = "tool" => Cardinality({c \in 1 .. b : said[c].kind = "tool"}) - 1 \in Nat
  BY <1>1, ToolCounted
<1>7. ASSUME NEW i \in Nat, NEW id \in Ids, NEW name \in Names, NEW d \in Fragments
      PROVE  Fragment(i, id, name, d) \in CallFragments
  <2> HIDE DEF Ids, Fragments, Names
  <2> QED
    BY DEF Fragment, CallFragments
<1> QED
  BY <1>1, <1>2, <1>3, <1>5, <1>6, <1>7, NamePieces, Zenon DEF CodexCall

\* The end of a stream, whichever it is.
LEMMA EndKeepsInv ==
  ASSUME AdapterInv, upstream \in {"streaming", "reason"}, TurnTyped', upstream' \notin {"streaming", "reason"},
         adapted' = Complete(adapted) \/ adapted' = Fail(adapted)
  PROVE  AdapterInv'
<1>1. AdapterOpen(adapted)
  BY DEF AdapterInv
<1>2. WellOrdered(adapted'.events) /\ NoHoles(adapted'.events)
  BY <1>1, CompletedIsWellFormed, FailedIsWellFormed, Zenon
<1> QED
  BY <1>2, Zenon DEF AdapterInv, EventsWellFormed

\* A step that tells the adapter nothing.
LEMMA StaysInv ==
  ASSUME AdapterInv, TurnTyped', UNCHANGED <<upstream, adapted>>
  PROVE  AdapterInv'
<1>1. AdapterOpen(adapted') <=> AdapterOpen(adapted)
  BY Zenon
<1> QED
  BY <1>1, Zenon DEF AdapterInv, EventsWellFormed

\* Every event, every way a stream ends, and the next request keep the invariant.
LEMMA TurnStepKeepsInv == ASSUME AdapterInv, [TurnNext]_turnVars PROVE AdapterInv'
<1>1. TurnTyped
  BY DEF AdapterInv
<1>2. CASE ContentBlockStart
  <2>1. /\ upstream = "streaming" /\ upstream' = upstream /\ said' = said /\ block' = block + 1 /\ part' = 0
        /\ block < Len(said)
    BY <1>2, Zenon DEF ContentBlockStart, Streaming
  <2>5. block + 1 \in 1 .. Len(said) /\ TurnTyped'
    BY <1>1, <2>1 DEF TurnTyped
  <2>2. CASE said[block + 1].kind = "tool"
    <3> DEFINE f == Fragment(CallIndex(block + 1), CallId(block + 1), <<"name">>, <<>>)
    <3>1. f \in CallFragments /\ <<>> \in Fragments
      BY <1>1, <2>5, FragmentsMade DEF Fragments
    <3>2. adapted' = Receive(adapted, Chunk(<<>>, <<f>>))
      BY <1>2, <2>2, Zenon DEF ContentBlockStart, ToCallers
    <3> HIDE DEF f
    <3> QED
      BY <2>1, <2>5, <3>1, <3>2, ReceivedKeepsInv, Zenon
  <2>3. CASE said[block + 1].kind # "tool"
    <3>1. adapted' = adapted
      BY <1>2, <2>3, Zenon DEF ContentBlockStart, NothingToCallers
    <3> QED
      BY <2>1, <2>5, <3>1, StaysInv
  <2> QED
    BY <2>2, <2>3
<1>3. CASE ContentBlockDelta
  <2>1. /\ upstream = "streaming" /\ upstream' = upstream /\ said' = said /\ block' = block /\ part' = part + 1
        /\ block # 0
    BY <1>3, Zenon DEF ContentBlockDelta, Streaming, BlockOver
  <2>6. block \in 1 .. Len(said) /\ block \in Nat /\ part' \in Nat /\ TurnTyped'
    BY <1>1, <2>1 DEF TurnTyped
  <2>2. << <<block, part'>> >> \in Fragments /\ <<>> \in Fragments
    BY <2>6, PartsAreFragments
  <2>3. CASE said[block].kind = "text"
    <3> DEFINE t == << <<block, part'>> >>
    <3>1. adapted' = Receive(adapted, Chunk(t, <<>>))
      BY <1>3, <2>3, Zenon DEF ContentBlockDelta, ToCallers
    <3> HIDE DEF t
    <3> QED
      BY <2>1, <2>6, <2>2, <3>1, ReceivedKeepsInv, Zenon DEF t
  <2>4. CASE said[block].kind = "tool"
    <3> DEFINE f == Fragment(CallIndex(block), Unset, <<>>, << <<block, part'>> >>)
    <3>1. f \in CallFragments
      BY <1>1, <2>6, FragmentsMade
    <3>2. adapted' = Receive(adapted, Chunk(<<>>, <<f>>))
      <4>1. said[block].kind # "text"
        BY <2>4
      <4> QED
        BY <1>3, <2>4, <4>1, Zenon DEF ContentBlockDelta, ToCallers
    <3> HIDE DEF f
    <3> QED
      BY <2>1, <2>6, <2>2, <3>1, <3>2, ReceivedKeepsInv, Zenon
  <2>5. CASE said[block].kind \notin {"text", "tool"}
    <3>1. adapted' = adapted
      BY <1>3, <2>5, Zenon DEF ContentBlockDelta, NothingToCallers
    <3> QED
      BY <2>1, <2>6, <3>1, StaysInv
  <2> QED
    BY <2>3, <2>4, <2>5
<1>4. CASE MessageDelta
  <2>3. upstream = "streaming" /\ UNCHANGED <<said, block, part>>
    BY <1>4, Zenon DEF MessageDelta, Streaming
  <2>1. upstream \in {"streaming", "reason"} /\ TurnTyped' /\ <<>> \in Fragments
    BY <1>1, <2>3 DEF TurnTyped, Fragments
  <2>2. adapted' = Receive(adapted, Chunk(<<>>, <<>>))
    BY <1>4 DEF MessageDelta, ToCallers
  <2> QED
    BY <2>1, <2>2, ReceivedKeepsInv
<1>5. CASE MessageStop \/ Cut \/ CodexEnd \/ StreamFails
  <2>1. upstream \in {"streaming", "reason"} /\ upstream' \notin {"streaming", "reason"} /\ TurnTyped'
    BY <1>1, <1>5 DEF MessageStop, Cut, CodexEnd, StreamFails, Streaming, TurnTyped
  <2>2. adapted' = Complete(adapted) \/ adapted' = Fail(adapted)
    BY <1>5, Zenon DEF MessageStop, Cut, CodexEnd, StreamFails, EndOfStream, ErrorToCallers
  <2> QED
    BY <2>1, <2>2, EndKeepsInv
<1>6. CASE CodexTool
  <2>1. /\ upstream = "streaming" /\ upstream' = upstream /\ said' = said /\ block' = block + 1
        /\ block < Len(said)
    BY <1>6, Zenon DEF CodexTool, Streaming
  <2>6. block + 1 \in 1 .. Len(said)
    BY <1>1, <2>1 DEF TurnTyped
  <2>2. part' \in Nat
    <3>1. said[block + 1] \in Forms
      BY <1>1, <2>6 DEF TurnTyped
    <3>2. said[block + 1].parts \in Nat
      BY <3>1, FormsAssumption
    <3>3. 0 \in Nat
      OBVIOUS
    <3> QED
      BY <1>6, <3>2, <3>3, Zenon DEF CodexTool
  <2>3. TurnTyped'
    BY <1>1, <2>1, <2>2, <2>6 DEF TurnTyped
  <2>4. CASE said[block + 1].kind = "tool"
    <3> DEFINE f == CodexCall(block + 1)
    <3>1. f \in CallFragments /\ <<>> \in Fragments
      BY <1>1, <2>4, <2>6, FragmentsMade DEF Fragments
    <3>2. adapted' = Receive(adapted, Chunk(<<>>, <<f>>))
      BY <1>6, <2>4, Zenon DEF CodexTool, ToCallers
    <3> HIDE DEF f
    <3> QED
      BY <2>1, <2>3, <3>1, <3>2, ReceivedKeepsInv, Zenon
  <2>5. CASE said[block + 1].kind # "tool"
    <3>1. adapted' = adapted
      BY <1>6, <2>5, Zenon DEF CodexTool, NothingToCallers
    <3> QED
      BY <2>1, <2>3, <3>1, StaysInv
  <2> QED
    BY <2>4, <2>5
<1>7. CASE CodexDelta
  <2>1. /\ upstream = "streaming" /\ upstream' = upstream
        /\ block \in Nat /\ part' \in Nat /\ TurnTyped'
    BY <1>1, <1>7 DEF CodexDelta, Streaming, TurnTyped
  <2> DEFINE t == << <<block, part'>> >>
  <2>2. t \in Fragments
    BY <2>1, PartsAreFragments
  <2>3. adapted' = Receive(adapted, Chunk(t, <<>>))
    BY <1>7, Zenon DEF CodexDelta, ToCallers
  <2> HIDE DEF t
  <2> QED
    BY <2>1, <2>2, <2>3, ReceivedKeepsInv, Zenon
<1>8. CASE AskAgain
  <2>1. UNCHANGED <<upstream, adapted, said, block, part>>
    BY <1>8 DEF AskAgain
  <2> QED
    BY <1>1, <2>1, StaysInv DEF TurnTyped
<1>9. CASE UNCHANGED turnVars
  <2>1. UNCHANGED <<upstream, adapted, said, block, part>>
    BY <1>9 DEF turnVars
  <2> QED
    BY <1>1, <2>1, StaysInv DEF TurnTyped
<1> QED
  BY <1>2, <1>3, <1>4, <1>5, <1>6, <1>7, <1>8, <1>9 DEF TurnNext

\* Whatever an answer says, in however many blocks and parts, on either backend, and wherever
\* it breaks off: the events of the adapted response come in pairs with their indexes in order,
\* what ends an item repeats its deltas, and the final output has no hole.
THEOREM AdapterStreamsWellFormed == TurnSpec => []EventsWellFormed
<1>1. TurnInit => AdapterInv
  BY TurnStarts
<1>2. AdapterInv /\ [TurnNext]_turnVars => AdapterInv'
  BY TurnStepKeepsInv
<1>3. AdapterInv => EventsWellFormed
  BY DEF AdapterInv
<1> QED
  BY <1>1, <1>2, <1>3, PTL DEF TurnSpec

------------------------------------------------------------------------------
(* AdaptedTurn: the same answer, streamed or collected.                         *)

\* A chunk without calls leaves the calls of a reader as they are.
LEMMA MergeNone == ASSUME NEW a PROVE FoldLeft(Merge, a, <<>>) = a
<1> DEFINE S == DOMAIN <<>>
           Step(g) == [s \in SUBSET S |-> IF s = {} THEN a ELSE Merge(g[s \ {Max(s)}], (<<>>)[Max(s)])]
           iter == CHOOSE g : g = Step(g)
           G == [s \in SUBSET S |-> a]
<1>1. S = {} /\ S \in SUBSET S /\ \A s \in SUBSET S : s = {}
  OBVIOUS
<1> HIDE DEF S
<1>2. G = Step(G)
  BY <1>1
<1>3. iter = Step(iter)
  <2> HIDE DEF Step
  <2> QED
    BY <1>2, Zenon
<1>4. FoldLeft(Merge, a, <<>>) = iter[S]
  BY Zenon DEF FoldLeft, MapThenFoldSet, S
<1> HIDE DEF iter
<1>5. iter[S] = a
  BY <1>1, <1>3, Zenon
<1> QED
  BY <1>4, <1>5

\* A chunk with one fragment of a call is merged once.
LEMMA MergeOne == ASSUME NEW a, NEW f PROVE FoldLeft(Merge, a, <<f>>) = Merge(a, f)
<1> DEFINE S == DOMAIN <<f>>
           Step(g) == [s \in SUBSET S |-> IF s = {} THEN a ELSE Merge(g[s \ {Max(s)}], (<<f>>)[Max(s)])]
           iter == CHOOSE g : g = Step(g)
           G == [s \in SUBSET S |-> IF s = {} THEN a ELSE Merge(a, f)]
<1>1. S = {1} /\ S \in SUBSET S /\ {} \in SUBSET S /\ S # {} /\ \A s \in SUBSET S : s = {} \/ s = {1}
  <2>1. S = {1}
    OBVIOUS
  <2> HIDE DEF S
  <2> QED
    BY <2>1
<1>2. <<f>>[1] = f /\ {1} \ {1} = {}
  OBVIOUS
<1> HIDE DEF S
<1>3. G = Step(G)
  <2>1. \A s \in SUBSET S : s # {} => s \ {Max(s)} = {} /\ (<<f>>)[Max(s)] = f
    BY <1>1, <1>2, MaxOfOne, Zenon
  <2>2. G[{}] = a
    BY <1>1, Zenon
  <2>3. \A s \in SUBSET S : G[s] = IF s = {} THEN a ELSE Merge(G[s \ {Max(s)}], (<<f>>)[Max(s)])
    BY <2>1, <2>2, Zenon
  <2>4. G = [s \in SUBSET S |-> G[s]]
    OBVIOUS
  <2> HIDE DEF G
  <2> QED
    BY <2>3, <2>4, Zenon
<1>4. iter = Step(iter)
  <2> HIDE DEF Step
  <2> QED
    BY <1>3, Zenon
<1>5. FoldLeft(Merge, a, <<f>>) = iter[S]
  BY Zenon DEF FoldLeft, MapThenFoldSet, S
<1> HIDE DEF iter
<1>6. \A s \in SUBSET S : iter[s] = IF s = {} THEN a ELSE Merge(iter[s \ {Max(s)}], (<<f>>)[Max(s)])
  <2>1. iter = [s \in SUBSET S |-> IF s = {} THEN a ELSE Merge(iter[s \ {Max(s)}], (<<f>>)[Max(s)])]
    BY <1>4
  <2> QED
    BY <2>1, Zenon
<1>7. iter[{}] = a /\ iter[S] = Merge(iter[S \ {Max(S)}], (<<f>>)[Max(S)])
  BY <1>1, <1>6, Zenon
<1>8. S \ {Max(S)} = {} /\ (<<f>>)[Max(S)] = f
  BY <1>1, <1>2, MaxOfOne, Zenon
<1> QED
  BY <1>5, <1>7, <1>8, Zenon

\* The adapter keeps the text of a chunk, and opens a text only for some.
LEMMA TextKept ==
  ASSUME NEW a, AdapterOpen(a), NEW t \in Fragments, a.text = <<>> => a.textIndex = -1
  PROVE  LET b == AddText(a, t)
         IN b.text = a.text \o t /\ b.calls = a.calls /\ (b.text = <<>> => b.textIndex = -1)
<1>1. a.text \in Fragments /\ <<>> \in Fragments
  BY DEF AdapterOpen, Books, Fragments
<1>2. CASE t = <<>>
  <2>1. AddText(a, t) = a
    BY <1>2, Zenon DEF AddText
  <2>2. a.text \o t = a.text
    BY <1>1, <1>2, ConcatEmptySeq DEF Fragments
  <2> QED
    BY <2>1, <2>2, Zenon
<1>3. CASE t # <<>>
  <2> DEFINE b == StartText(a)
             s == b.text \o t
             d == [b EXCEPT !.text = s]
             e == With("text.delta", b.textIndex, t)
  <2>1. AdapterOpen(b) /\ b.text = a.text /\ b.calls = a.calls
    <3>1. AdapterOpen(b)
      BY TextStarted
    <3>2. b.text = a.text /\ b.calls = a.calls
      BY DEF StartText, Emit, AdapterOpen, IsAdapter
    <3> QED
      BY <3>1, <3>2
  <2>2. AddText(a, t) = Emit([b EXCEPT !.text = @ \o t], e)
    BY <1>3, Zenon DEF AddText
  <2> HIDE DEF b, e
  <2>3. [b EXCEPT !.text = @ \o t] = d
    OBVIOUS
  <2>4. IsAdapter(d) /\ d.text = s /\ d.calls = b.calls
    <3> HIDE DEF s
    <3> QED
      BY <2>1 DEF AdapterOpen, IsAdapter
  <2> HIDE DEF d
  <2>5. Emit(d, e).text = d.text /\ Emit(d, e).calls = d.calls
    BY <2>4, EmitFields
  <2>6. a.text \o t # <<>>
    <3>1. Len(t) # 0 /\ Len(t) \in Nat /\ Len(a.text) \in Nat /\ Len(a.text \o t) = Len(a.text) + Len(t)
      BY <1>1, <1>3 DEF Fragments
    <3> QED
      BY <3>1
  <2> QED
    BY <2>1, <2>2, <2>3, <2>4, <2>5, <2>6, Zenon
<1> QED
  BY <1>2, <1>3

\* The adapter keeps a call as a Chat caller does: the id it makes up for a call that
\* the backend has not named is only needed when there is none.
LEMMA CallKept ==
  ASSUME NEW a, AdapterOpen(a), NEW f \in CallFragments, f.index \in DOMAIN a.calls \/ f.id # Unset
  PROVE  LET b == AddCall(a, f)
         IN b.text = a.text /\ b.textIndex = a.textIndex /\ b.calls = Merge(a.calls, f)
<1> DEFINE m == Merge(a.calls, f)
           b == IF Known(a.calls, f.index) THEN Merged(a, f) ELSE CallStarted(a, f)
           d == [a EXCEPT !.calls = m]
<1>0. IsAdapter(a)
  BY DEF AdapterOpen
<1>1. Merged(a, f) = d
  BY <1>0 DEF Merged, IsAdapter
<1> HIDE DEF m
<1>2. IsAdapter(d) /\ d.text = a.text /\ d.textIndex = a.textIndex /\ d.calls = m
  BY <1>0 DEF IsAdapter
<1> HIDE DEF d
<1>3. IsAdapter(b) /\ b.text = a.text /\ b.textIndex = a.textIndex /\ b.calls = m
  <2>1. CASE Known(a.calls, f.index)
    BY <1>1, <1>2, <2>1, Zenon
  <2>2. CASE ~ Known(a.calls, f.index)
    <3> DEFINE c == StartCall(d, f)
               outs2 == [i \in DOMAIN d.outs \cup {f.index} |-> IF i = f.index THEN d.next ELSE d.outs[i]]
               calls2 == [d.calls EXCEPT ![f.index].id = IF @ = Unset THEN <<"call", d.next>> ELSE @]
    <3>1. c = [d EXCEPT !.outs = outs2, !.calls = calls2, !.next = d.next + 1]
      BY <1>2, StartedFields
    <3>2. calls2 = m
      <4>1. f.index \in DOMAIN m /\ m[f.index].id = f.id /\ f.id # Unset
        BY <2>2 DEF Known, m, Merge
      <4>2. m[f.index] = [m[f.index] EXCEPT !.id = IF @ = Unset THEN <<"call", d.next>> ELSE @]
        <5>1. m[f.index] = [id |-> m[f.index].id, name |-> m[f.index].name, args |-> m[f.index].args]
          BY <2>2 DEF Known, m, Merge
        <5> HIDE DEF m
        <5> QED
          BY <4>1, <5>1
      <4>3. m = [i \in DOMAIN m |-> m[i]]
        BY DEF m, Merge
      <4> QED
        BY <1>2, <4>1, <4>2, <4>3
    <3> HIDE DEF outs2, calls2, c
    <3>3. IsAdapter(c) /\ c.text = a.text /\ c.textIndex = a.textIndex /\ c.calls = m
      BY <1>2, <3>1, <3>2 DEF IsAdapter
    <3> DEFINE e == On("item.added", c.outs[f.index])
    <3> HIDE DEF e
    <3>4. b = Emit(c, e)
      BY <1>1, <2>2, Zenon DEF CallStarted, c, e
    <3> HIDE DEF b
    <3>5. /\ IsAdapter(Emit(c, e)) /\ Emit(c, e).text = c.text /\ Emit(c, e).textIndex = c.textIndex
          /\ Emit(c, e).calls = c.calls
      BY <3>3, EmitFields
    <3> QED
      BY <3>3, <3>4, <3>5, Zenon
  <2> QED
    BY <2>1, <2>2
<1>4. AddCall(a, f) = IF f.args = <<>> THEN b ELSE Emit(b, With("args.delta", b.outs[f.index], f.args))
  BY Zenon DEF AddCall, Merged, CallStarted
<1> HIDE DEF b
<1> DEFINE e == With("args.delta", b.outs[f.index], f.args)
<1> HIDE DEF e
<1>5. /\ Emit(b, e).text = b.text /\ Emit(b, e).textIndex = b.textIndex /\ Emit(b, e).calls = b.calls
  BY <1>3, EmitFields
<1> QED
  BY <1>3, <1>4, <1>5, Zenon DEF e, m

\* How an answer s stands when p parts of its block n were streamed: the parts of a block,
\* the tool blocks, the index under which the backend by names a call, and the call.
PartsIn(s, n, p, b) == IF b < n THEN s[b].parts ELSE p
ToolsIn(s, n)       == {b \in 1 .. n : s[b].kind = "tool"}
IndexIn(s, by, b)   == IF by = "anthropic" THEN CallIndex(b) ELSE Cardinality(ToolsIn(s, b)) - 1
CallIn(s, n, p, b)  == [id |-> CallId(b), name |-> <<"name">>, args |-> Parts(b, PartsIn(s, n, p, b))]

\* A reader of the stream has the calls said so far, each under its index.
CallsSaid(kept, s, by, n, p) ==
  /\ DOMAIN kept = {IndexIn(s, by, b) : b \in ToolsIn(s, n)}
  /\ \A b \in ToolsIn(s, n) : kept[IndexIn(s, by, b)] = CallIn(s, n, p, b)

\* A further part of a block.
LEMMA PartsGrow ==
  ASSUME NEW b \in Nat, NEW n \in Nat
  PROVE  Parts(b, n + 1) = Parts(b, n) \o << <<b, n + 1>> >> /\ Parts(b, 0) = <<>> /\ <<>> \o Parts(b, n) = Parts(b, n)
<1>1. Parts(b, n + 1) = Parts(b, n) \o << <<b, n + 1>> >>
  BY DEF Parts
<1>2. Parts(b, 0) = <<>> /\ <<>> \o Parts(b, n) = Parts(b, n)
  BY DEF Parts
<1> QED
  BY <1>1, <1>2

\* The tool blocks are finite in number.
LEMMA ToolsCounted ==
  ASSUME NEW s, NEW n \in Nat
  PROVE  IsFiniteSet(ToolsIn(s, n)) /\ Cardinality(ToolsIn(s, n)) \in Nat
<1>1. IsFiniteSet(1 .. n)
  BY FS_Interval
<1>2. IsFiniteSet(ToolsIn(s, n))
  BY <1>1, FS_Subset DEF ToolsIn
<1> QED
  BY <1>2, FS_CardinalityType

\* A later call has a greater index, on both backends.
LEMMA IndexGrows ==
  ASSUME NEW s, NEW by, NEW m \in Nat, NEW b \in ToolsIn(s, m), NEW c \in ToolsIn(s, m), b < c
  PROVE  IndexIn(s, by, b) < IndexIn(s, by, c)
<1>1. b \in Nat /\ c \in Nat /\ b \in 1 .. b /\ c \in 1 .. c /\ c \notin 1 .. b /\ 1 .. b \subseteq 1 .. c
  BY DEF ToolsIn
<1> DEFINE B == ToolsIn(s, b)
           C == ToolsIn(s, c)
<1>2. B \subseteq C /\ c \in C /\ c \notin B
  BY <1>1 DEF ToolsIn
<1>3. IsFiniteSet(C) /\ Cardinality(C) \in Nat /\ IsFiniteSet(B) /\ Cardinality(B) \in Nat
  BY <1>1, ToolsCounted
<1> HIDE DEF B, C
<1>4. IsFiniteSet(C \ {c}) /\ Cardinality(C \ {c}) = Cardinality(C) - 1
  BY <1>2, <1>3, FS_RemoveElement
<1>5. B \subseteq C \ {c}
  BY <1>2
<1>6. Cardinality(B) <= Cardinality(C \ {c})
  BY <1>4, <1>5, FS_Subset
<1>7. Cardinality(B) - 1 < Cardinality(C) - 1
  BY <1>3, <1>4, <1>6
<1>8. CallIndex(b) < CallIndex(c)
  BY <1>1 DEF CallIndex
<1> QED
  BY <1>7, <1>8 DEF IndexIn, B, C

\* The index of a call is a number.
LEMMA IndexTyped ==
  ASSUME NEW s, NEW by, NEW m \in Nat, NEW b \in ToolsIn(s, m)
  PROVE  IndexIn(s, by, b) \in Nat /\ b \in 1 .. m /\ b \in Nat
<1>1. b \in Nat /\ b # 0 /\ b \in 1 .. m /\ b \in ToolsIn(s, b)
  BY DEF ToolsIn
<1> DEFINE B == ToolsIn(s, b)
<1>2. IsFiniteSet(B) /\ Cardinality(B) \in Nat
  BY <1>1, ToolsCounted
<1>3. b \in B
  BY <1>1
<1> HIDE DEF B
<1>4. Cardinality(B) # 0
  BY <1>2, <1>3, FS_EmptySet
<1>5. Cardinality(B) - 1 \in Nat /\ CallIndex(b) \in Nat
  BY <1>1, <1>2, <1>4 DEF CallIndex
<1> QED
  BY <1>1, <1>5 DEF IndexIn, B

\* Two calls have two indexes.
LEMMA IndexInjective ==
  ASSUME NEW s, NEW by, NEW m \in Nat, NEW b \in ToolsIn(s, m), NEW c \in ToolsIn(s, m),
         IndexIn(s, by, b) = IndexIn(s, by, c)
  PROVE  b = c
<1>1. b \in Nat /\ c \in Nat /\ IndexIn(s, by, b) \in Nat /\ IndexIn(s, by, c) \in Nat
  BY IndexTyped
<1>2. ~ (b < c)
  <2> SUFFICES ASSUME b < c PROVE FALSE
    OBVIOUS
  <2>1. IndexIn(s, by, b) < IndexIn(s, by, c)
    BY IndexGrows
  <2> QED
    BY <1>1, <2>1
<1>3. ~ (c < b)
  <2> SUFFICES ASSUME c < b PROVE FALSE
    OBVIOUS
  <2>1. IndexIn(s, by, c) < IndexIn(s, by, b)
    BY IndexGrows
  <2> QED
    BY <1>1, <2>1
<1> QED
  BY <1>1, <1>2, <1>3

\* What a further block adds to the tool blocks.
LEMMA ToolsNext ==
  ASSUME NEW s, NEW n \in Nat
  PROVE  /\ s[n + 1].kind = "tool" => ToolsIn(s, n + 1) = ToolsIn(s, n) \cup {n + 1}
         /\ s[n + 1].kind # "tool" => ToolsIn(s, n + 1) = ToolsIn(s, n)
         /\ \A b \in ToolsIn(s, n) : b # n + 1
<1>1. 1 .. n + 1 = (1 .. n) \cup {n + 1} /\ n + 1 \notin 1 .. n
  OBVIOUS
<1> QED
  BY <1>1 DEF ToolsIn

\* A new block leaves the calls of the earlier ones as they were said.
LEMMA CallsStand ==
  ASSUME NEW s, NEW n \in Nat, NEW p, NEW q, n = 0 \/ p = s[n].parts
  PROVE  \A b \in 1 .. n : CallIn(s, n + 1, q, b) = CallIn(s, n, p, b)
<1>1. \A b \in 1 .. n : PartsIn(s, n + 1, q, b) = PartsIn(s, n, p, b)
  BY DEF PartsIn
<1> QED
  BY <1>1 DEF CallIn

\* The first fragment of a call puts it among the calls.
LEMMA CallOpened ==
  ASSUME NEW s, NEW by, NEW n \in Nat, NEW p, NEW q \in Nat, n = 0 \/ p = s[n].parts,
         s[n + 1].kind = "tool", NEW kept, CallsSaid(kept, s, by, n, p),
         NEW f, f = Fragment(IndexIn(s, by, n + 1), CallId(n + 1), <<"name">>, Parts(n + 1, q))
  PROVE  CallsSaid(Merge(kept, f), s, by, n + 1, q)
<1> DEFINE I(b) == IndexIn(s, by, b)
           T == ToolsIn(s, n)
           U == ToolsIn(s, n + 1)
           i == I(n + 1)
           w == [id |-> CallId(n + 1), name |-> <<"name">>, args |-> Parts(n + 1, q)]
<1>1. U = T \cup {n + 1} /\ \A b \in T : b # n + 1
  BY ToolsNext
<1>2. i \notin DOMAIN kept /\ \A b \in T : I(b) # i
  <2>1. ASSUME NEW b \in T, I(b) = i PROVE FALSE
    <3>1. b \in U /\ n + 1 \in U /\ n + 1 \in Nat /\ b # n + 1
      BY <1>1
    <3> QED
      BY <2>1, <3>1, IndexInjective
  <2> QED
    BY <2>1 DEF CallsSaid
<1>3. f.index = i /\ f.id = CallId(n + 1) /\ f.name = <<"name">> /\ f.args = Parts(n + 1, q)
  BY DEF Fragment
<1>4. Merge(kept, f) = [j \in DOMAIN kept \cup {i} |-> IF j = i THEN w ELSE kept[j]]
  <2>1. <<>> \o Parts(n + 1, q) = Parts(n + 1, q)
    BY PartsGrow
  <2>2. <<>> \o <<"name">> = <<"name">>
    BY NamePieces
  <2> HIDE DEF i
  <2> QED
    BY <1>2, <1>3, <2>1, <2>2 DEF Merge, Known
<1>5. w = CallIn(s, n + 1, q, n + 1)
  BY DEF CallIn, PartsIn
<1>6. \A b \in T : CallIn(s, n + 1, q, b) = CallIn(s, n, p, b)
  <2>1. T \subseteq 1 .. n
    BY DEF ToolsIn
  <2> QED
    BY <2>1, CallsStand
<1> HIDE DEF i, w, T, U, I
<1>7. DOMAIN kept = {I(b) : b \in T} /\ \A b \in T : kept[I(b)] = CallIn(s, n, p, b)
  BY DEF CallsSaid, I, T
<1>8. DOMAIN Merge(kept, f) = {I(b) : b \in U}
  BY <1>1, <1>4, <1>7 DEF i
<1>9. \A b \in U : Merge(kept, f)[I(b)] = CallIn(s, n + 1, q, b)
  <2> TAKE b \in U
  <2>1. CASE b \in T
    <3>1. I(b) \in DOMAIN kept /\ I(b) # i
      BY <1>2, <1>7, <2>1
    <3> QED
      BY <1>4, <1>6, <1>7, <2>1, <3>1
  <2>2. CASE b = n + 1
    <3>1. I(b) = i
      BY <2>2 DEF i
    <3> QED
      BY <1>4, <1>5, <2>2, <3>1
  <2> QED
    BY <1>1, <2>1, <2>2
<1> QED
  BY <1>8, <1>9 DEF CallsSaid, I, U

\* A further fragment of a call finds it by its index, and no other.
LEMMA CallGrown ==
  ASSUME NEW s, NEW by, NEW n \in Nat, n # 0, NEW p \in Nat, s[n].kind = "tool",
         NEW kept, CallsSaid(kept, s, by, n, p),
         NEW f, f = Fragment(IndexIn(s, by, n), Unset, <<>>, << <<n, p + 1>> >>)
  PROVE  f.index \in DOMAIN kept /\ CallsSaid(Merge(kept, f), s, by, n, p + 1)
<1> DEFINE I(b) == IndexIn(s, by, b)
           T == ToolsIn(s, n)
           i == I(n)
           w == [id |-> CallId(n), name |-> <<"name">>, args |-> Parts(n, p + 1)]
<1>1. n \in T /\ T \subseteq 1 .. n
  BY DEF ToolsIn
<1>2. f.index = i /\ f.id = Unset /\ f.name = <<>> /\ f.args = << <<n, p + 1>> >>
  BY DEF Fragment
<1>3. i \in DOMAIN kept /\ kept[i] = CallIn(s, n, p, n)
  BY <1>1 DEF CallsSaid
<1>4. kept[i] = [id |-> CallId(n), name |-> <<"name">>, args |-> Parts(n, p)]
  BY <1>3 DEF CallIn, PartsIn
<1> HIDE DEF i
<1>5. Merge(kept, f) = [j \in DOMAIN kept |-> IF j = i THEN w ELSE kept[j]]
  <2>1. Parts(n, p) \o << <<n, p + 1>> >> = Parts(n, p + 1)
    BY PartsGrow
  <2>2. DOMAIN kept \cup {i} = DOMAIN kept
    BY <1>3
  <2> DEFINE old == kept[i]
             new == [id   |-> IF f.id # Unset THEN f.id ELSE old.id,
                     name |-> old.name \o f.name,
                     args |-> old.args \o f.args]
  <2>3. Merge(kept, f) = [j \in DOMAIN kept \cup {i} |-> IF j = i THEN new ELSE kept[j]]
    BY <1>2, <1>3, Zenon DEF Merge, Known
  <2>4. old.id = CallId(n) /\ old.name = <<"name">> /\ old.args = Parts(n, p)
    BY <1>4
  <2> HIDE DEF old
  <2>5. new = w
    BY <1>2, <2>1, <2>4, NamePieces
  <2> HIDE DEF new, w
  <2> QED
    BY <2>2, <2>3, <2>5, Zenon
<1>6. w = CallIn(s, n, p + 1, n)
  BY DEF CallIn, PartsIn
<1>7. \A b \in T : b # n => CallIn(s, n, p + 1, b) = CallIn(s, n, p, b) /\ I(b) # i
  <2> SUFFICES ASSUME NEW b \in T, b # n PROVE CallIn(s, n, p + 1, b) = CallIn(s, n, p, b) /\ I(b) # i
    OBVIOUS
  <2>1. b < n
    BY <1>1
  <2>2. CallIn(s, n, p + 1, b) = CallIn(s, n, p, b)
    BY <2>1 DEF CallIn, PartsIn
  <2>3. I(b) # I(n)
    BY <1>1, IndexInjective
  <2> QED
    BY <2>2, <2>3 DEF i
<1> HIDE DEF w, T, I
<1>8. DOMAIN kept = {I(b) : b \in T} /\ \A b \in T : kept[I(b)] = CallIn(s, n, p, b)
  BY DEF CallsSaid, I, T
<1>9. \A b \in T : Merge(kept, f)[I(b)] = CallIn(s, n, p + 1, b)
  <2> TAKE b \in T
  <2>1. CASE b = n
    BY <1>3, <1>5, <1>6, <2>1 DEF i
  <2>2. CASE b # n
    <3>1. I(b) \in DOMAIN kept
      BY <1>8
    <3> QED
      BY <1>5, <1>7, <1>8, <2>2, <3>1
  <2> QED
    BY <2>1, <2>2
<1>10. DOMAIN Merge(kept, f) = {I(b) : b \in T}
  BY <1>5, <1>8
<1> QED
  BY <1>2, <1>3, <1>9, <1>10 DEF CallsSaid, I, T

\* A block that is no call leaves the calls as they are.
LEMMA CallsUntouched ==
  ASSUME NEW s, NEW by, NEW n \in Nat, NEW p, NEW q, NEW kept, CallsSaid(kept, s, by, n, p)
  PROVE  /\ (n = 0 \/ p = s[n].parts) /\ s[n + 1].kind # "tool" => CallsSaid(kept, s, by, n + 1, q)
         /\ n # 0 /\ s[n].kind # "tool" => CallsSaid(kept, s, by, n, q)
<1>1. ASSUME n = 0 \/ p = s[n].parts, s[n + 1].kind # "tool" PROVE CallsSaid(kept, s, by, n + 1, q)
  <2>1. ToolsIn(s, n + 1) = ToolsIn(s, n) /\ ToolsIn(s, n) \subseteq 1 .. n
    BY <1>1, ToolsNext DEF ToolsIn
  <2>2. \A b \in 1 .. n : CallIn(s, n + 1, q, b) = CallIn(s, n, p, b)
    BY <1>1, CallsStand
  <2> QED
    BY <2>1, <2>2 DEF CallsSaid
<1>2. ASSUME n # 0, s[n].kind # "tool" PROVE CallsSaid(kept, s, by, n, q)
  <2>1. \A b \in ToolsIn(s, n) : b < n
    <3> TAKE b \in ToolsIn(s, n)
    <3>1. b \in 1 .. n /\ b # n
      BY <1>2 DEF ToolsIn
    <3> QED
      BY <3>1
  <2>2. \A b \in ToolsIn(s, n) : CallIn(s, n, q, b) = CallIn(s, n, p, b)
    BY <2>1 DEF CallIn, PartsIn
  <2> QED
    BY <2>2 DEF CallsSaid
<1> QED
  BY <1>1, <1>2

\* What was said so far of a block, if it is of these kinds, and of all of them.
PieceIn(s, kinds, n, p, b) == IF s[b].kind \in kinds THEN Parts(b, PartsIn(s, n, p, b)) ELSE <<>>
SaidIn(s, kinds, n, p)     == FlattenSeq([b \in 1 .. n |-> PieceIn(s, kinds, n, p, b)])

\* The blocks of an answer.
LEMMA PartsOfBlocks ==
  ASSUME NEW s \in Seq(Forms), NEW b, b \in 1 .. Len(s)
  PROVE  s[b].parts \in Nat /\ b \in Nat /\ s[b].kind \in {"text", "note", "plain", "hidden", "tool"}
<1>1. s[b] \in Forms /\ b \in Nat
  OBVIOUS
<1> QED
  BY <1>1, FormsAssumption

\* What is said of a block is fragments.
LEMMA PieceTyped ==
  ASSUME NEW s \in Seq(Forms), NEW kinds, NEW n \in Nat, n <= Len(s), NEW p \in Nat, NEW b \in 1 .. n
  PROVE  PieceIn(s, kinds, n, p, b) \in Fragments
<1>1. b \in 1 .. Len(s)
  OBVIOUS
<1>2. PartsIn(s, n, p, b) \in Nat /\ b \in Nat
  BY <1>1, PartsOfBlocks DEF PartsIn
<1>3. Parts(b, PartsIn(s, n, p, b)) \in Fragments /\ <<>> \in Fragments
  BY <1>2, PartsAreFragments
<1> QED
  BY <1>3 DEF PieceIn

\* The text of the first blocks, and what is said of the last.
LEMMA SaidUpTo ==
  ASSUME NEW s \in Seq(Forms), NEW kinds, NEW n \in Nat, n + 1 <= Len(s), NEW p \in Nat
  PROVE  LET before == FlattenSeq([b \in 1 .. n |-> PieceIn(s, kinds, n + 1, p, b)])
         IN /\ before \in Fragments
            /\ SaidIn(s, kinds, n + 1, p) = before \o PieceIn(s, kinds, n + 1, p, n + 1)
<1> DEFINE f == [b \in 1 .. n + 1 |-> PieceIn(s, kinds, n + 1, p, b)]
           g == [b \in 1 .. n |-> PieceIn(s, kinds, n + 1, p, b)]
<1>1. \A b \in 1 .. n + 1 : PieceIn(s, kinds, n + 1, p, b) \in Fragments
  <2>1. n + 1 \in Nat
    OBVIOUS
  <2> QED
    BY <2>1, PieceTyped
<1>2. f \in [1 .. n + 1 -> Fragments] /\ [b \in 1 .. n |-> f[b]] = g /\ f[n + 1] = PieceIn(s, kinds, n + 1, p, n + 1)
  <2>1. 1 .. n \subseteq 1 .. n + 1 /\ n + 1 \in 1 .. n + 1
    OBVIOUS
  <2> QED
    BY <1>1, <2>1
<1>3. SaidIn(s, kinds, n + 1, p) = FlattenSeq(f)
  BY Zenon DEF SaidIn
<1> HIDE DEF f
<1>4. /\ FlattenSeq([b \in 1 .. n |-> f[b]]) \in Fragments
      /\ FlattenSeq(f) = FlattenSeq([b \in 1 .. n |-> f[b]]) \o f[n + 1]
  BY <1>2, FamilyStep, Zenon DEF Fragments
<1> QED
  BY <1>2, <1>3, <1>4, Zenon

\* No block, no text.
LEMMA NothingSaid == \A s, kinds, p : SaidIn(s, kinds, 0, p) = <<>>
<1>1. \A s, kinds, p : [b \in 1 .. 0 |-> PieceIn(s, kinds, 0, p, b)] = <<>>
  OBVIOUS
<1> QED
  BY <1>1, FlattenEmpty, Zenon DEF SaidIn

\* The text of an answer is fragments.
LEMMA SaidTypedIn ==
  ASSUME NEW s \in Seq(Forms), NEW kinds, NEW n \in Nat, n <= Len(s), NEW p \in Nat
  PROVE  SaidIn(s, kinds, n, p) \in Fragments
<1>1. CASE n = 0
  <2>1. <<>> \in Fragments
    BY DEF Fragments
  <2> QED
    BY <1>1, <2>1, NothingSaid
<1>2. CASE n # 0
  <2> DEFINE m == n - 1
             before == FlattenSeq([b \in 1 .. m |-> PieceIn(s, kinds, m + 1, p, b)])
  <2>1. m \in Nat /\ m + 1 = n /\ n \in 1 .. n /\ m + 1 <= Len(s)
    BY <1>2
  <2> HIDE DEF m
  <2>2. before \in Fragments /\ SaidIn(s, kinds, m + 1, p) = before \o PieceIn(s, kinds, m + 1, p, m + 1)
    BY <2>1, SaidUpTo, Zenon
  <2>3. PieceIn(s, kinds, n, p, n) \in Fragments
    BY <2>1, PieceTyped
  <2> HIDE DEF before
  <2>4. before \o PieceIn(s, kinds, n, p, n) \in Fragments
    BY <2>2, <2>3, ConcatProperties DEF Fragments
  <2> QED
    BY <2>1, <2>2, <2>4
<1> QED
  BY <1>1, <1>2

\* A new block of which no text was said adds none.
LEMMA SaidNextBlock ==
  ASSUME NEW s \in Seq(Forms), NEW kinds, NEW n \in Nat, n + 1 <= Len(s), NEW p \in Nat, NEW q \in Nat,
         n = 0 \/ p = s[n].parts, q = 0 \/ s[n + 1].kind \notin kinds
  PROVE  SaidIn(s, kinds, n + 1, q) = SaidIn(s, kinds, n, p)
<1> DEFINE before == FlattenSeq([b \in 1 .. n |-> PieceIn(s, kinds, n + 1, q, b)])
<1>1. before \in Fragments /\ SaidIn(s, kinds, n + 1, q) = before \o PieceIn(s, kinds, n + 1, q, n + 1)
  BY SaidUpTo, Zenon
<1>2. PieceIn(s, kinds, n + 1, q, n + 1) = <<>>
  <2>1. PartsIn(s, n + 1, q, n + 1) = q
    BY DEF PartsIn
  <2>2. Parts(n + 1, 0) = <<>>
    BY DEF Parts
  <2> QED
    BY <2>1, <2>2 DEF PieceIn
<1>3. before = SaidIn(s, kinds, n, p)
  <2>1. \A b \in 1 .. n : PartsIn(s, n + 1, q, b) = PartsIn(s, n, p, b)
    BY DEF PartsIn
  <2>2. \A b \in 1 .. n : PieceIn(s, kinds, n + 1, q, b) = PieceIn(s, kinds, n, p, b)
    BY <2>1, Zenon DEF PieceIn
  <2>3. [b \in 1 .. n |-> PieceIn(s, kinds, n + 1, q, b)] = [b \in 1 .. n |-> PieceIn(s, kinds, n, p, b)]
    BY <2>2, Zenon
  <2> QED
    BY <2>3, Zenon DEF SaidIn
<1> HIDE DEF before
<1>4. before \o <<>> = before
  BY <1>1, ConcatEmptySeq DEF Fragments
<1> QED
  BY <1>1, <1>2, <1>3, <1>4, Zenon

\* A further part of a block is added to the text, if it is of the kinds that make it.
LEMMA SaidNextPart ==
  ASSUME NEW s \in Seq(Forms), NEW kinds, NEW n \in Nat, n # 0, n <= Len(s), NEW p \in Nat
  PROVE  SaidIn(s, kinds, n, p + 1)
           = IF s[n].kind \in kinds THEN SaidIn(s, kinds, n, p) \o << <<n, p + 1>> >> ELSE SaidIn(s, kinds, n, p)
<1> DEFINE m == n - 1
           Before(q) == FlattenSeq([b \in 1 .. m |-> PieceIn(s, kinds, m + 1, q, b)])
<1>1. m \in Nat /\ m + 1 = n /\ m + 1 <= Len(s) /\ p + 1 \in Nat
  OBVIOUS
<1> HIDE DEF m
<1>2. ASSUME NEW q \in Nat
      PROVE  Before(q) \in Fragments /\ SaidIn(s, kinds, n, q) = Before(q) \o PieceIn(s, kinds, n, q, n)
  <2>1. Before(q) \in Fragments /\ SaidIn(s, kinds, m + 1, q) = Before(q) \o PieceIn(s, kinds, m + 1, q, m + 1)
    BY <1>1, SaidUpTo, Zenon
  <2> HIDE DEF Before
  <2> QED
    BY <1>1, <2>1
<1>3. Before(p + 1) = Before(p)
  <2>1. \A b \in 1 .. m : PartsIn(s, m + 1, p + 1, b) = PartsIn(s, m + 1, p, b)
    BY <1>1 DEF PartsIn
  <2>2. \A b \in 1 .. m : PieceIn(s, kinds, m + 1, p + 1, b) = PieceIn(s, kinds, m + 1, p, b)
    BY <2>1, Zenon DEF PieceIn
  <2>3. [b \in 1 .. m |-> PieceIn(s, kinds, m + 1, p + 1, b)] = [b \in 1 .. m |-> PieceIn(s, kinds, m + 1, p, b)]
    BY <2>2, Zenon
  <2> QED
    BY <2>3, Zenon
<1> DEFINE w == << <<n, p + 1>> >>
<1>4. PieceIn(s, kinds, n, p + 1, n) = IF s[n].kind \in kinds THEN PieceIn(s, kinds, n, p, n) \o w
                                                              ELSE PieceIn(s, kinds, n, p, n)
  <2>1. PartsIn(s, n, p + 1, n) = p + 1 /\ PartsIn(s, n, p, n) = p
    BY DEF PartsIn
  <2>2. Parts(n, p + 1) = Parts(n, p) \o w
    BY PartsGrow
  <2> HIDE DEF w
  <2> QED
    BY <2>1, <2>2, Zenon DEF PieceIn
<1>5. PieceIn(s, kinds, n, p, n) \in Fragments /\ w \in Fragments
  <2>1. n \in 1 .. n
    OBVIOUS
  <2> QED
    BY <2>1, PieceTyped, PartsAreFragments
<1>6. Before(p) \in Fragments
  BY <1>2
<1> DEFINE x == Before(p)
           y == PieceIn(s, kinds, n, p, n)
<1>7. x \o (y \o w) = (x \o y) \o w
  <2>1. x \in Fragments /\ y \in Fragments /\ w \in Fragments
    BY <1>5, <1>6
  <2> HIDE DEF x, y, w
  <2> DEFINE E == Nat \X Nat
  <2>2. x \in Seq(E) /\ y \in Seq(E) /\ w \in Seq(E)
    BY <2>1, Zenon DEF Fragments
  <2> HIDE DEF E
  <2> QED
    BY ONLY <2>2
<1>8. SaidIn(s, kinds, n, p) = x \o y
  BY <1>2
<1>9. SaidIn(s, kinds, n, p + 1) = x \o PieceIn(s, kinds, n, p + 1, n)
  <2>1. SaidIn(s, kinds, n, p + 1) = Before(p + 1) \o PieceIn(s, kinds, n, p + 1, n)
    BY <1>1, <1>2
  <2> HIDE DEF Before
  <2> QED
    BY <1>3, <2>1
<1> HIDE DEF x, y, w
<1>10. PieceIn(s, kinds, n, p + 1, n) = IF s[n].kind \in kinds THEN y \o w ELSE y
  BY <1>4 DEF y
<1> QED
  BY <1>7, <1>8, <1>9, <1>10, Zenon DEF w

\* The caller of a Chat stream.
IsChat(c) == c = [text |-> c.text, calls |-> c.calls, end |-> c.end]

\* The books of the adapter, which opens a text only for some.
TextHeld(a) == Books(a) /\ (a.text = <<>> => a.textIndex = -1)

\* Both callers have what was said so far: the Chat caller the text, the Responses caller
\* the commentary too, and both the calls.
SaidSoFar(c, a, s, by, n, p) ==
  /\ c.text = SaidIn(s, {"text", "plain"}, n, p)
  /\ a.text = SaidIn(s, {"text", "note", "plain"}, n, p)
  /\ CallsSaid(c.calls, s, by, n, p) /\ CallsSaid(a.calls, s, by, n, p)
  /\ TextHeld(a)

\* What a Chat caller makes of a chunk.
Hears(c, phase, chunk) ==
  [c EXCEPT !.text = @ \o Heard(chunk, phase), !.calls = FoldLeft(Merge, @, chunk.calls)]

\* What a fragment of a call leaves the two callers with, and what a text does.
GotCall(c, a, f, c2, a2) ==
  /\ IsChat(c2) /\ c2.text = c.text /\ c2.calls = Merge(c.calls, f)
  /\ a2.text = a.text /\ a2.calls = Merge(a.calls, f) /\ TextHeld(a2)
GotText(c, a, u, t, c2, a2) ==
  /\ IsChat(c2) /\ c2.text = c.text \o u /\ c2.calls = c.calls
  /\ a2.text = a.text \o t /\ a2.calls = a.calls /\ TextHeld(a2)

\* Both callers of a stream hear a text.
LEMMA TextTold ==
  ASSUME NEW c, IsChat(c), NEW a, AdapterOpen(a), TextHeld(a), NEW t \in Fragments, NEW phase,
         NEW c2, c2 = Hears(c, phase, Chunk(t, <<>>)), NEW a2, a2 = Receive(a, Chunk(t, <<>>))
  PROVE  GotText(c, a, IF phase = "commentary" THEN <<>> ELSE t, t, c2, a2)
<1> DEFINE k == Chunk(t, <<>>)
           h == Heard(k, phase)
           x == c.text \o h
           y == FoldLeft(Merge, c.calls, <<>>)
           d == Hears(c, phase, k)
           b == AddText(a, t)
<1>1. k.text = t /\ k.calls = <<>>
  BY DEF Chunk
<1>2. h = IF phase = "commentary" THEN <<>> ELSE t
  BY <1>1 DEF Heard
<1>3. y = c.calls
  BY MergeNone
<1>4. d = [c EXCEPT !.text = x, !.calls = y]
  <2> HIDE DEF k
  <2> QED
    BY <1>1 DEF Hears
<1> HIDE DEF d, x, y
<1>5. IsChat(d) /\ d.text = x /\ d.calls = y
  BY <1>4 DEF IsChat
<1>6. Receive(a, k) = b
  <2>1. Receive(a, k) = FoldLeft(AddCall, b, <<>>)
    <3> HIDE DEF b, k
    <3> QED
      BY <1>1, Zenon DEF Receive, b
  <2> HIDE DEF b
  <2> QED
    BY <2>1, FoldNone
<1>7. b.text = a.text \o t /\ b.calls = a.calls /\ (b.text = <<>> => b.textIndex = -1)
  BY TextKept DEF TextHeld
<1>8. Books(b)
  <2>1. AdapterOpen(b)
    BY TextAdded
  <2> QED
    BY <2>1, Zenon DEF AdapterOpen
<1> HIDE DEF h, b
<1>9. c2 = d /\ a2 = b
  BY <1>6, Zenon DEF d, k
<1> QED
  BY <1>2, <1>3, <1>5, <1>7, <1>8, <1>9, Zenon DEF x, TextHeld, GotText

\* A fragment of a call that was announced, or that names it.
Recognised(a, f) == f.index \in DOMAIN a.calls \/ f.id # Unset

\* Both callers of a stream get a fragment of a call.
LEMMA CallTold ==
  ASSUME NEW c, IsChat(c), c.text \in Fragments, NEW a, AdapterOpen(a), TextHeld(a), NEW phase,
         NEW f \in CallFragments, Recognised(a, f),
         NEW c2, c2 = Hears(c, phase, Chunk(<<>>, <<f>>)), NEW a2, a2 = Receive(a, Chunk(<<>>, <<f>>))
  PROVE  GotCall(c, a, f, c2, a2)
<1> DEFINE k == Chunk(<<>>, <<f>>)
           x == c.text \o Heard(k, phase)
           y == FoldLeft(Merge, c.calls, <<f>>)
           d == Hears(c, phase, k)
           b == AddCall(a, f)
<1>1. k.text = <<>> /\ k.calls = <<f>>
  BY DEF Chunk
<1>2. x = c.text
  <2>1. Heard(k, phase) = <<>>
    <3> HIDE DEF k
    <3> QED
      BY <1>1 DEF Heard
  <2> HIDE DEF k
  <2> QED
    BY <2>1, ConcatEmptySeq DEF Fragments
<1>3. y = Merge(c.calls, f)
  BY MergeOne
<1>4. d = [c EXCEPT !.text = x, !.calls = y]
  <2> HIDE DEF k
  <2> QED
    BY <1>1 DEF Hears
<1> HIDE DEF d, x, y
<1>5. IsChat(d) /\ d.text = x /\ d.calls = y
  BY <1>4 DEF IsChat
<1>6. Receive(a, k) = b
  <2>1. AddText(a, <<>>) = a
    BY Zenon DEF AddText
  <2>2. Receive(a, k) = FoldLeft(AddCall, a, <<f>>)
    <3> HIDE DEF k
    <3> QED
      BY <1>1, <2>1, Zenon DEF Receive
  <2> HIDE DEF k, b
  <2>3. FoldLeft(AddCall, a, <<f>>) = b
    BY FoldOne DEF b
  <2> QED
    BY <2>2, <2>3
<1>7. b.text = a.text /\ b.textIndex = a.textIndex /\ b.calls = Merge(a.calls, f)
  BY CallKept, Zenon DEF Recognised
<1>8. Books(b)
  <2>1. AdapterOpen(b)
    BY CallAdded, Zenon
  <2> QED
    BY <2>1, Zenon DEF AdapterOpen
<1> HIDE DEF b
<1>9. c2 = d /\ a2 = b
  BY <1>6, Zenon DEF d, k
<1> QED
  BY <1>2, <1>3, <1>5, <1>7, <1>8, <1>9, Zenon DEF TextHeld, GotCall

\* What one event tells: a new block, a call or not.
LEMMA BlockBegins ==
  ASSUME NEW s \in Seq(Forms), NEW by, NEW n \in Nat, n + 1 <= Len(s), NEW p \in Nat, NEW q \in Nat,
         n = 0 \/ p = s[n].parts, NEW c, NEW a, SaidSoFar(c, a, s, by, n, p)
  PROVE  /\ s[n + 1].kind # "tool" /\ q = 0 => SaidSoFar(c, a, s, by, n + 1, q)
         /\ s[n + 1].kind = "tool" =>
              \A c2, a2, f :
                /\ f = Fragment(IndexIn(s, by, n + 1), CallId(n + 1), <<"name">>, Parts(n + 1, q))
                /\ c2.text = c.text /\ c2.calls = Merge(c.calls, f)
                /\ a2.text = a.text /\ a2.calls = Merge(a.calls, f) /\ TextHeld(a2)
                => SaidSoFar(c2, a2, s, by, n + 1, q)
<1>1. ASSUME s[n + 1].kind # "tool", q = 0 PROVE SaidSoFar(c, a, s, by, n + 1, q)
  <2>1. \A kinds : SaidIn(s, kinds, n + 1, q) = SaidIn(s, kinds, n, p)
    BY <1>1, SaidNextBlock
  <2>2. CallsSaid(c.calls, s, by, n + 1, q) /\ CallsSaid(a.calls, s, by, n + 1, q)
    BY <1>1, CallsUntouched DEF SaidSoFar
  <2> QED
    BY <2>1, <2>2, Zenon DEF SaidSoFar
<1>2. ASSUME s[n + 1].kind = "tool", NEW c2, NEW a2, NEW f,
             f = Fragment(IndexIn(s, by, n + 1), CallId(n + 1), <<"name">>, Parts(n + 1, q)),
             c2.text = c.text, c2.calls = Merge(c.calls, f),
             a2.text = a.text, a2.calls = Merge(a.calls, f), TextHeld(a2)
      PROVE  SaidSoFar(c2, a2, s, by, n + 1, q)
  <2>1. /\ SaidIn(s, {"text", "plain"}, n + 1, q) = SaidIn(s, {"text", "plain"}, n, p)
        /\ SaidIn(s, {"text", "note", "plain"}, n + 1, q) = SaidIn(s, {"text", "note", "plain"}, n, p)
    <3>1. s[n + 1].kind \notin {"text", "plain"} /\ s[n + 1].kind \notin {"text", "note", "plain"}
      BY <1>2
    <3>2. SaidIn(s, {"text", "plain"}, n + 1, q) = SaidIn(s, {"text", "plain"}, n, p)
      BY <3>1, SaidNextBlock, Zenon
    <3>3. SaidIn(s, {"text", "note", "plain"}, n + 1, q) = SaidIn(s, {"text", "note", "plain"}, n, p)
      BY <3>1, SaidNextBlock, Zenon
    <3> QED
      BY <3>2, <3>3
  <2>2. CallsSaid(c2.calls, s, by, n + 1, q)
    <3>1. CallsSaid(c.calls, s, by, n, p)
      BY DEF SaidSoFar
    <3>2. CallsSaid(Merge(c.calls, f), s, by, n + 1, q)
      BY <1>2, <3>1, CallOpened, Zenon
    <3> QED
      BY <1>2, <3>2, Zenon
  <2>3. CallsSaid(a2.calls, s, by, n + 1, q)
    <3>1. CallsSaid(a.calls, s, by, n, p)
      BY DEF SaidSoFar
    <3>2. CallsSaid(Merge(a.calls, f), s, by, n + 1, q)
      BY <1>2, <3>1, CallOpened, Zenon
    <3> QED
      BY <1>2, <3>2, Zenon
  <2> QED
    BY <1>2, <2>1, <2>2, <2>3, Zenon DEF SaidSoFar
<1> QED
  BY <1>1, <1>2, Zenon

\* What one event tells: a further part of the block.
LEMMA BlockGoesOn ==
  ASSUME NEW s \in Seq(Forms), NEW by, NEW n \in Nat, n # 0, n <= Len(s), NEW p \in Nat,
         NEW c, NEW a, SaidSoFar(c, a, s, by, n, p), NEW c2, NEW a2, TextHeld(a2)
  PROVE  LET w == << <<n, p + 1>> >>
             f == Fragment(IndexIn(s, by, n), Unset, <<>>, w)
         IN /\ s[n].kind = "text" /\ c2.text = c.text \o w /\ a2.text = a.text \o w
               /\ c2.calls = c.calls /\ a2.calls = a.calls => SaidSoFar(c2, a2, s, by, n, p + 1)
            /\ s[n].kind = "plain" /\ c2.text = c.text \o w /\ a2.text = a.text \o w
               /\ c2.calls = c.calls /\ a2.calls = a.calls => SaidSoFar(c2, a2, s, by, n, p + 1)
            /\ s[n].kind = "note" /\ c2.text = c.text /\ a2.text = a.text \o w
               /\ c2.calls = c.calls /\ a2.calls = a.calls => SaidSoFar(c2, a2, s, by, n, p + 1)
            /\ s[n].kind = "hidden" /\ c2.text = c.text /\ a2.text = a.text
               /\ c2.calls = c.calls /\ a2.calls = a.calls => SaidSoFar(c2, a2, s, by, n, p + 1)
            /\ s[n].kind = "tool" /\ c2.text = c.text /\ a2.text = a.text
               /\ c2.calls = Merge(c.calls, f) /\ a2.calls = Merge(a.calls, f)
               => SaidSoFar(c2, a2, s, by, n, p + 1)
            /\ s[n].kind = "tool" => f.index \in DOMAIN a.calls
<1> DEFINE w == << <<n, p + 1>> >>
           f == Fragment(IndexIn(s, by, n), Unset, <<>>, w)
<1>1. \A kinds : SaidIn(s, kinds, n, p + 1)
                   = IF s[n].kind \in kinds THEN SaidIn(s, kinds, n, p) \o w ELSE SaidIn(s, kinds, n, p)
  BY SaidNextPart
<1>2. /\ s[n].kind \in {"text", "plain"} => s[n].kind \in {"text", "note", "plain"}
      /\ s[n].kind = "text" => s[n].kind \in {"text", "plain"}
      /\ s[n].kind = "plain" => s[n].kind \in {"text", "plain"}
      /\ s[n].kind = "note" => s[n].kind \notin {"text", "plain"} /\ s[n].kind \in {"text", "note", "plain"}
      /\ s[n].kind \in {"hidden", "tool"} => s[n].kind \notin {"text", "plain"} /\ s[n].kind \notin {"text", "note", "plain"}
      /\ s[n].kind \in {"text", "plain", "note", "hidden"} => s[n].kind # "tool"
  OBVIOUS
<1>3. /\ c.text = SaidIn(s, {"text", "plain"}, n, p)
      /\ a.text = SaidIn(s, {"text", "note", "plain"}, n, p)
      /\ CallsSaid(c.calls, s, by, n, p) /\ CallsSaid(a.calls, s, by, n, p)
  BY DEF SaidSoFar
<1>4. s[n].kind # "tool" => CallsSaid(c.calls, s, by, n, p + 1) /\ CallsSaid(a.calls, s, by, n, p + 1)
  BY <1>3, CallsUntouched
<1>5. s[n].kind = "tool" =>
        /\ f.index \in DOMAIN a.calls
        /\ CallsSaid(Merge(c.calls, f), s, by, n, p + 1) /\ CallsSaid(Merge(a.calls, f), s, by, n, p + 1)
  <2> SUFFICES ASSUME s[n].kind = "tool"
               PROVE  /\ f.index \in DOMAIN a.calls
                      /\ CallsSaid(Merge(c.calls, f), s, by, n, p + 1)
                      /\ CallsSaid(Merge(a.calls, f), s, by, n, p + 1)
    OBVIOUS
  <2>1. f = Fragment(IndexIn(s, by, n), Unset, <<>>, << <<n, p + 1>> >>)
    OBVIOUS
  <2> HIDE DEF f, w
  <2>2. CallsSaid(Merge(c.calls, f), s, by, n, p + 1)
    BY <1>3, <2>1, CallGrown
  <2>3. f.index \in DOMAIN a.calls /\ CallsSaid(Merge(a.calls, f), s, by, n, p + 1)
    BY <1>3, <2>1, CallGrown
  <2> QED
    BY <2>2, <2>3
<1> HIDE DEF f, w
<1>6. /\ s[n].kind = "text" /\ c2.text = c.text \o w /\ a2.text = a.text \o w
         /\ c2.calls = c.calls /\ a2.calls = a.calls => SaidSoFar(c2, a2, s, by, n, p + 1)
      /\ s[n].kind = "plain" /\ c2.text = c.text \o w /\ a2.text = a.text \o w
         /\ c2.calls = c.calls /\ a2.calls = a.calls => SaidSoFar(c2, a2, s, by, n, p + 1)
  BY <1>1, <1>2, <1>3, <1>4, Zenon DEF SaidSoFar
<1>7. s[n].kind = "note" /\ c2.text = c.text /\ a2.text = a.text \o w
      /\ c2.calls = c.calls /\ a2.calls = a.calls => SaidSoFar(c2, a2, s, by, n, p + 1)
  BY <1>1, <1>2, <1>3, <1>4, Zenon DEF SaidSoFar
<1>8. s[n].kind = "hidden" /\ c2.text = c.text /\ a2.text = a.text
      /\ c2.calls = c.calls /\ a2.calls = a.calls => SaidSoFar(c2, a2, s, by, n, p + 1)
  BY <1>1, <1>2, <1>3, <1>4, Zenon DEF SaidSoFar
<1>9. s[n].kind = "tool" /\ c2.text = c.text /\ a2.text = a.text
      /\ c2.calls = Merge(c.calls, f) /\ a2.calls = Merge(a.calls, f) => SaidSoFar(c2, a2, s, by, n, p + 1)
  BY <1>1, <1>2, <1>3, <1>5, Zenon DEF SaidSoFar
<1> QED
  BY <1>5, <1>6, <1>7, <1>8, <1>9 DEF f, w

\* The strengthening that says what the callers have: at every moment until the answer
\* is over, or broke off, what was said so far; a call of Codex comes whole.
CallersInv ==
  /\ backend \in {"anthropic", "codex"} /\ Len(said) <= MaxBlocks
  /\ \A b \in DOMAIN said : Speaks(backend, said[b])
  /\ IsChat(chat)
  /\ upstream \in {"streaming", "reason", "stopped"} => SaidSoFar(chat, adapted, said, backend, block, part)
  /\ upstream \in {"reason", "stopped"} => block = Len(said) /\ BlockOver
  /\ upstream = "streaming" /\ backend = "codex" /\ block # 0 /\ said[block].kind = "tool" =>
       part = said[block].parts
TurnInv == AdapterInv /\ CallersInv

\* An answer begins with nothing said and nothing heard.
LEMMA TurnInvInit == ASSUME TurnInit PROVE TurnInv
<1>1. AdapterInv /\ TurnTyped
  BY TurnStarts DEF AdapterInv
<1>2. /\ adapted = Opened /\ block = 0 /\ part = 0 /\ said \in Answers(backend) /\ backend \in {"anthropic", "codex"}
      /\ chat = [text |-> <<>>, calls |-> NoCalls, end |-> "open"] /\ upstream = "streaming"
  BY DEF TurnInit
<1>3. Len(said) <= MaxBlocks /\ \A b \in DOMAIN said : Speaks(backend, said[b])
  <2>1. PICK n \in 1 .. MaxBlocks : said \in [1 .. n -> {f \in Forms : Speaks(backend, f)}]
    BY <1>2 DEF Answers
  <2>2. n \in Nat /\ n <= MaxBlocks
    BY MaxBlocksAssumption
  <2> HIDE DEF Speaks
  <2> QED
    BY <2>1, <2>2
<1>4. IsChat(chat) /\ chat.text = <<>> /\ chat.calls = NoCalls
  BY <1>2 DEF IsChat
<1>5. /\ Opened.text = <<>> /\ Opened.calls = NoCalls /\ Opened.textIndex = -1 /\ Books(Opened)
  BY OpenedIsOpen DEF AdapterOpen, Opened
<1>6. CallsSaid(NoCalls, said, backend, 0, 0)
  BY DEF CallsSaid, NoCalls, ToolsIn
<1>7. SaidSoFar(chat, adapted, said, backend, block, part)
  BY <1>2, <1>4, <1>5, <1>6, NothingSaid, Zenon DEF SaidSoFar, TextHeld
<1>8. CallersInv
  BY <1>2, <1>3, <1>4, <1>7 DEF CallersInv
<1> QED
  BY <1>1, <1>8 DEF TurnInv

\* What was said, in the next state.
LEMMA SaidSoFarPrimed ==
  ASSUME UNCHANGED <<said, backend>>, SaidSoFar(chat', adapted', said, backend, block', part')
  PROVE  SaidSoFar(chat, adapted, said, backend, block, part)'
  BY Zenon

\* An answer that is under way.
LEMMA UnderWay ==
  ASSUME TurnInv, upstream \in {"streaming", "reason"}
  PROVE  /\ AdapterOpen(adapted) /\ TextHeld(adapted) /\ IsChat(chat) /\ chat.text \in Fragments
         /\ SaidSoFar(chat, adapted, said, backend, block, part)
         /\ said \in Seq(Forms) /\ block \in Nat /\ block <= Len(said) /\ part \in Nat
<1>1. TurnTyped /\ AdapterOpen(adapted) /\ SaidSoFar(chat, adapted, said, backend, block, part) /\ IsChat(chat)
  BY Zenon DEF TurnInv, AdapterInv, CallersInv
<1>2. said \in Seq(Forms) /\ block \in Nat /\ block <= Len(said) /\ part \in Nat
  BY <1>1 DEF TurnTyped
<1>3. chat.text \in Fragments
  <2>1. SaidIn(said, {"text", "plain"}, block, part) \in Fragments
    BY <1>2, SaidTypedIn
  <2> QED
    BY <1>1, <2>1, Zenon DEF SaidSoFar
<1> QED
  BY <1>1, <1>2, <1>3, Zenon DEF SaidSoFar

\* content_block_start, or a whole call of Codex.
LEMMA NextBlockSaid ==
  ASSUME TurnInv, upstream = "streaming", BlockOver, block < Len(said), block' = block + 1, UNCHANGED <<backend, said>>,
         part' \in Nat,
         \/ said[block + 1].kind # "tool" /\ part' = 0 /\ UNCHANGED <<chat, adapted>>
         \/ /\ said[block + 1].kind = "tool"
            /\ LET f == Fragment(IndexIn(said, backend, block + 1), CallId(block + 1), <<"name">>, Parts(block + 1, part'))
               IN chat' = Hears(chat, "", Chunk(<<>>, <<f>>)) /\ adapted' = Receive(adapted, Chunk(<<>>, <<f>>))
  PROVE  IsChat(chat)' /\ SaidSoFar(chat, adapted, said, backend, block, part)'
<1> DEFINE n == block
           p == part
           q == part'
<1>1. /\ AdapterOpen(adapted) /\ TextHeld(adapted) /\ IsChat(chat) /\ chat.text \in Fragments
      /\ SaidSoFar(chat, adapted, said, backend, block, part)
      /\ said \in Seq(Forms) /\ block \in Nat /\ block + 1 <= Len(said) /\ part \in Nat
  <2>1. upstream \in {"streaming", "reason"}
    OBVIOUS
  <2>2. /\ AdapterOpen(adapted) /\ TextHeld(adapted) /\ IsChat(chat) /\ chat.text \in Fragments
        /\ SaidSoFar(chat, adapted, said, backend, block, part)
        /\ said \in Seq(Forms) /\ block \in Nat /\ part \in Nat
    BY <2>1, UnderWay, Zenon
  <2>3. Len(said) \in Nat /\ block < Len(said) /\ block \in Nat
    BY <2>2, LenProperties, Zenon
  <2>4. block + 1 <= Len(said)
    BY ONLY <2>3
  <2> QED
    BY <2>2, <2>4
<1>2. block = 0 \/ part = said[block].parts
  BY DEF BlockOver
<1>3. CASE said[block + 1].kind # "tool" /\ part' = 0 /\ UNCHANGED <<chat, adapted>>
  <2>1. SaidSoFar(chat, adapted, said, backend, block + 1, part')
    BY <1>1, <1>2, <1>3, BlockBegins
  <2>2. SaidSoFar(chat', adapted', said, backend, block', part') /\ IsChat(chat')
    BY <1>1, <1>3, <2>1
  <2> QED
    BY <2>2, SaidSoFarPrimed
<1>4. CASE said[block + 1].kind = "tool"
  <2>0. PICK f : f = Fragment(IndexIn(said, backend, block + 1), CallId(block + 1), <<"name">>, Parts(block + 1, part'))
    OBVIOUS
  <2>1. chat' = Hears(chat, "", Chunk(<<>>, <<f>>)) /\ adapted' = Receive(adapted, Chunk(<<>>, <<f>>))
    BY <1>4, <2>0, Zenon
  <2>2. f \in CallFragments /\ f.id # Unset
    <3>1. block + 1 \in 1 .. Len(said) /\ block + 1 \in 1 .. MaxBlocks /\ block + 1 \in Nat
      <4>1. Len(said) <= MaxBlocks /\ MaxBlocks \in Nat
        BY MaxBlocksAssumption, Zenon DEF TurnInv, CallersInv
      <4>2. block \in Nat /\ block + 1 <= Len(said) /\ Len(said) \in Nat
        BY <1>1, LenProperties, Zenon
      <4> QED
        BY ONLY <4>1, <4>2
    <3>2. block + 1 \in ToolsIn(said, block + 1)
      <4>1. block + 1 \in 1 .. block + 1
        <5>1. block \in Nat
          BY <1>1
        <5> QED
          BY ONLY <5>1
      <4> QED
        BY <1>4, <4>1, Zenon DEF ToolsIn
    <3>3. IndexIn(said, backend, block + 1) \in Nat
      BY <3>1, <3>2, IndexTyped
    <3>4. Parts(block + 1, part') \in Fragments /\ CallId(block + 1) \in Ids
      BY <3>1, PartsAreFragments DEF CallId, Ids
    <3>5. f.id = CallId(block + 1)
      BY <2>0 DEF Fragment
    <3> DEFINE i == IndexIn(said, backend, block + 1)
               d == CallId(block + 1)
               w == Parts(block + 1, part')
    <3> HIDE DEF i, d, w, Fragments, Ids, Names
    <3>6. Fragment(i, d, <<"name">>, w) \in CallFragments
      BY <3>3, <3>4, NamePieces DEF Fragment, CallFragments, i, d, w
    <3> QED
      BY <2>0, <3>1, <3>5, <3>6, UnsetAssumption, Zenon DEF i, d, w
  <2>3. /\ IsChat(chat') /\ chat'.text = chat.text /\ chat'.calls = Merge(chat.calls, f)
        /\ adapted'.text = adapted.text /\ adapted'.calls = Merge(adapted.calls, f) /\ TextHeld(adapted')
    <3>1. /\ IsChat(chat) /\ chat.text \in Fragments /\ AdapterOpen(adapted) /\ TextHeld(adapted)
          /\ Recognised(adapted, f)
      BY <1>1, <2>2, Zenon DEF Recognised
    <3> QED
      <4> DEFINE c2 == chat'
                 a2 == adapted'
                 c == chat
                 a == adapted
      <4>1. IsChat(c) /\ c.text \in Fragments /\ AdapterOpen(a) /\ TextHeld(a) /\ Recognised(a, f) /\ f \in CallFragments
        BY <2>2, <3>1, Zenon
      <4>2. c2 = Hears(c, "", Chunk(<<>>, <<f>>)) /\ a2 = Receive(a, Chunk(<<>>, <<f>>))
        BY <2>1, Zenon
      <4> HIDE DEF c2, a2, c, a
      <4>3. GotCall(c, a, f, c2, a2)
        BY ONLY <4>1, <4>2, CallTold, Zenon
      <4> QED
        BY <4>3, Zenon DEF c2, a2, c, a, GotCall
  <2>4. SaidSoFar(chat', adapted', said, backend, block + 1, part')
    BY <1>1, <1>2, <1>4, <2>0, <2>3, BlockBegins, Zenon
  <2> QED
    BY <2>3, <2>4, SaidSoFarPrimed
<1> QED
  BY <1>3, <1>4

\* A block that is under way.
LEMMA PartUnderWay ==
  ASSUME TurnInv, upstream = "streaming", ~BlockOver
  PROVE  /\ AdapterOpen(adapted) /\ TextHeld(adapted) /\ IsChat(chat) /\ chat.text \in Fragments
         /\ SaidSoFar(chat, adapted, said, backend, block, part)
         /\ said \in Seq(Forms) /\ block \in Nat /\ block # 0 /\ block <= Len(said) /\ part \in Nat
         /\ block \in 1 .. Len(said) /\ << <<block, part + 1>> >> \in Fragments /\ <<>> \in Fragments
<1>1. upstream \in {"streaming", "reason"}
  OBVIOUS
<1>2. /\ AdapterOpen(adapted) /\ TextHeld(adapted) /\ IsChat(chat) /\ chat.text \in Fragments
      /\ SaidSoFar(chat, adapted, said, backend, block, part)
      /\ said \in Seq(Forms) /\ block \in Nat /\ block <= Len(said) /\ part \in Nat
  BY <1>1, UnderWay, Zenon
<1>3. block # 0
  BY Zenon DEF BlockOver
<1>4. block \in 1 .. Len(said) /\ part + 1 \in Nat
  BY <1>2, <1>3, LenProperties
<1>5. << <<block, part + 1>> >> \in Fragments /\ <<>> \in Fragments
  BY <1>2, <1>4, PartsAreFragments
<1> QED
  BY <1>2, <1>3, <1>4, <1>5, Zenon

\* A part of a text, or of commentary, which the Chat caller does not hear.
LEMMA TextPartSaid ==
  ASSUME TurnInv, upstream = "streaming", ~BlockOver, UNCHANGED <<backend, said, block>>, part' = part + 1,
         NEW t, t = << <<block, part + 1>> >>,
         NEW phase, \/ said[block].kind \in {"text", "plain"} /\ phase # "commentary"
                    \/ said[block].kind = "note" /\ phase = "commentary",
         chat' = Hears(chat, phase, Chunk(t, <<>>)), adapted' = Receive(adapted, Chunk(t, <<>>))
  PROVE  IsChat(chat)' /\ SaidSoFar(chat, adapted, said, backend, block, part)'
<1>1. /\ AdapterOpen(adapted) /\ TextHeld(adapted) /\ IsChat(chat) /\ t \in Fragments
      /\ chat.text \in Fragments /\ SaidSoFar(chat, adapted, said, backend, block, part)
      /\ said \in Seq(Forms) /\ block \in Nat /\ block # 0 /\ block <= Len(said) /\ part \in Nat
  BY PartUnderWay, Zenon
<1>2. PICK u : u = IF phase = "commentary" THEN <<>> ELSE t
  OBVIOUS
<1>3. GotText(chat, adapted, u, t, chat', adapted')
  <2> DEFINE c2 == chat'
             a2 == adapted'
             c == chat
             a == adapted
  <2>1. IsChat(c) /\ AdapterOpen(a) /\ TextHeld(a) /\ t \in Fragments
    BY <1>1, Zenon
  <2>2. c2 = Hears(c, phase, Chunk(t, <<>>)) /\ a2 = Receive(a, Chunk(t, <<>>))
    BY Zenon
  <2> HIDE DEF c2, a2, c, a
  <2>3. GotText(c, a, IF phase = "commentary" THEN <<>> ELSE t, t, c2, a2)
    BY ONLY <2>1, <2>2, TextTold, Zenon
  <2>4. GotText(c, a, u, t, c2, a2)
    BY <1>2, <2>3, Zenon
  <2> QED
    BY <2>4, Zenon DEF c2, a2, c, a
<1>4. /\ IsChat(chat') /\ chat'.text = chat.text \o u /\ chat'.calls = chat.calls
      /\ adapted'.text = adapted.text \o t /\ adapted'.calls = adapted.calls /\ TextHeld(adapted')
  BY <1>3, Zenon DEF GotText
<1>5. phase = "commentary" => chat'.text = chat.text
  <2>1. chat.text \o <<>> = chat.text
    BY <1>1, ConcatEmptySeq DEF Fragments
  <2> QED
    BY <1>2, <1>4, <2>1
<1>6. SaidSoFar(chat', adapted', said, backend, block, part + 1)
  <2>1. CASE said[block].kind \in {"text", "plain"} /\ phase # "commentary"
    <3>1. chat'.text = chat.text \o << <<block, part + 1>> >> /\ adapted'.text = adapted.text \o << <<block, part + 1>> >>
      BY <1>2, <1>4, <2>1, Zenon
    <3>2. said[block].kind = "text" \/ said[block].kind = "plain"
      BY <2>1
    <3> QED
      BY <1>1, <1>4, <3>1, <3>2, BlockGoesOn, Zenon
  <2>2. CASE said[block].kind = "note" /\ phase = "commentary"
    <3>1. chat'.text = chat.text /\ adapted'.text = adapted.text \o << <<block, part + 1>> >>
      BY <1>4, <1>5, <2>2, Zenon
    <3> QED
      BY <1>1, <1>4, <2>2, <3>1, BlockGoesOn, Zenon
  <2> QED
    BY <2>1, <2>2
<1>7. SaidSoFar(chat', adapted', said, backend, block', part')
  BY <1>6, Zenon
<1> QED
  BY <1>4, <1>7, SaidSoFarPrimed

\* A part of a thought, which nobody hears.
LEMMA HiddenPartSaid ==
  ASSUME TurnInv, upstream = "streaming", ~BlockOver, UNCHANGED <<backend, said, block>>, part' = part + 1,
         said[block].kind = "hidden", UNCHANGED <<chat, adapted>>
  PROVE  IsChat(chat)' /\ SaidSoFar(chat, adapted, said, backend, block, part)'
<1>1. /\ AdapterOpen(adapted) /\ TextHeld(adapted) /\ IsChat(chat)
      /\ SaidSoFar(chat, adapted, said, backend, block, part)
      /\ said \in Seq(Forms) /\ block \in Nat /\ block # 0 /\ block <= Len(said) /\ part \in Nat
  BY PartUnderWay, Zenon
<1>2. SaidSoFar(chat, adapted, said, backend, block, part + 1)
  BY <1>1, BlockGoesOn, Zenon
<1>3. SaidSoFar(chat', adapted', said, backend, block', part') /\ IsChat(chat')
  BY <1>1, <1>2, Zenon
<1> QED
  BY <1>3, SaidSoFarPrimed

\* A part of the arguments of a call.
LEMMA CallPartSaid ==
  ASSUME TurnInv, upstream = "streaming", ~BlockOver, UNCHANGED <<backend, said, block>>, part' = part + 1,
         said[block].kind = "tool",
         NEW f, f = Fragment(IndexIn(said, backend, block), Unset, <<>>, << <<block, part + 1>> >>),
         chat' = Hears(chat, "", Chunk(<<>>, <<f>>)), adapted' = Receive(adapted, Chunk(<<>>, <<f>>))
  PROVE  IsChat(chat)' /\ SaidSoFar(chat, adapted, said, backend, block, part)'
<1>1. /\ AdapterOpen(adapted) /\ TextHeld(adapted) /\ IsChat(chat) /\ chat.text \in Fragments
      /\ SaidSoFar(chat, adapted, said, backend, block, part)
      /\ said \in Seq(Forms) /\ block \in Nat /\ block # 0 /\ block <= Len(said) /\ part \in Nat
      /\ block \in 1 .. Len(said) /\ << <<block, part + 1>> >> \in Fragments
  BY PartUnderWay, Zenon
<1>2. f.index \in DOMAIN adapted.calls
  BY <1>1, BlockGoesOn, Zenon
<1>3. f \in CallFragments
  <2>1. block \in 1 .. block
    <3>1. block \in Nat /\ block # 0
      BY <1>1, Zenon
    <3> QED
      BY ONLY <3>1
  <2>2. block \in ToolsIn(said, block)
    BY <2>1, Zenon DEF ToolsIn
  <2>3. IndexIn(said, backend, block) \in Nat
    BY <1>1, <2>2, IndexTyped, Zenon
  <2>4. Unset \in Ids
    BY DEF Ids
  <2> DEFINE i == IndexIn(said, backend, block)
             w == << <<block, part + 1>> >>
  <2>5. w \in Fragments
    BY <1>1, Zenon
  <2> HIDE DEF i, w, Fragments, Ids, Names
  <2>6. Fragment(i, Unset, <<>>, w) \in CallFragments
    BY <2>3, <2>4, <2>5, NamePieces DEF Fragment, CallFragments, i
  <2> QED
    BY <2>6, Zenon DEF i, w
<1>4. GotCall(chat, adapted, f, chat', adapted')
  <2> DEFINE c2 == chat'
             a2 == adapted'
             c == chat
             a == adapted
  <2>1. IsChat(c) /\ c.text \in Fragments /\ AdapterOpen(a) /\ TextHeld(a) /\ f \in CallFragments
    BY <1>1, <1>3, Zenon
  <2>2. Recognised(a, f)
    BY <1>2, Zenon DEF Recognised
  <2>3. c2 = Hears(c, "", Chunk(<<>>, <<f>>)) /\ a2 = Receive(a, Chunk(<<>>, <<f>>))
    BY Zenon
  <2> HIDE DEF c2, a2, c, a
  <2>4. GotCall(c, a, f, c2, a2)
    BY ONLY <2>1, <2>2, <2>3, CallTold, Zenon
  <2> QED
    BY <2>4, Zenon DEF c2, a2, c, a
<1>5. /\ IsChat(chat') /\ chat'.text = chat.text /\ chat'.calls = Merge(chat.calls, f)
      /\ adapted'.text = adapted.text /\ adapted'.calls = Merge(adapted.calls, f) /\ TextHeld(adapted')
  BY <1>4, Zenon DEF GotCall
<1>6. SaidSoFar(chat', adapted', said, backend, block, part + 1)
  BY <1>1, <1>5, BlockGoesOn, Zenon
<1>7. SaidSoFar(chat', adapted', said, backend, block', part')
  BY <1>6, Zenon
<1> QED
  BY <1>5, <1>7, SaidSoFarPrimed

\* A chunk without text and without calls, as the stop reason comes.
LEMMA NothingMoreSaid ==
  ASSUME TurnInv, upstream = "streaming", UNCHANGED <<backend, said, block, part>>,
         chat' = Hears(chat, "", Chunk(<<>>, <<>>)), adapted' = Receive(adapted, Chunk(<<>>, <<>>))
  PROVE  IsChat(chat)' /\ SaidSoFar(chat, adapted, said, backend, block, part)'
<1>1. upstream \in {"streaming", "reason"}
  OBVIOUS
<1>2. /\ AdapterOpen(adapted) /\ TextHeld(adapted) /\ IsChat(chat) /\ chat.text \in Fragments
      /\ SaidSoFar(chat, adapted, said, backend, block, part)
      /\ said \in Seq(Forms) /\ block \in Nat /\ block <= Len(said) /\ part \in Nat
  BY <1>1, UnderWay, Zenon
<1>3. PICK t : t = <<>>
  OBVIOUS
<1>4. t \in Fragments
  <2>1. <<>> \in Fragments
    BY EmptySeq, Zenon DEF Fragments
  <2> QED
    BY <1>3, <2>1, Zenon
<1>5. GotText(chat, adapted, t, t, chat', adapted')
  <2> DEFINE c2 == chat'
             a2 == adapted'
             c == chat
             a == adapted
  <2>1. IsChat(c) /\ AdapterOpen(a) /\ TextHeld(a) /\ t \in Fragments
    BY <1>2, <1>4, Zenon
  <2>2. c2 = Hears(c, "", Chunk(t, <<>>)) /\ a2 = Receive(a, Chunk(t, <<>>))
    BY <1>3, Zenon
  <2> HIDE DEF c2, a2, c, a
  <2>3. GotText(c, a, IF "" = "commentary" THEN <<>> ELSE t, t, c2, a2)
    BY ONLY <2>1, <2>2, TextTold, Zenon
  <2>4. GotText(c, a, t, t, c2, a2)
    BY <1>3, <2>3
  <2> QED
    BY <2>4, Zenon DEF c2, a2, c, a
<1>6. /\ IsChat(chat') /\ chat'.text = chat.text \o t /\ chat'.calls = chat.calls
      /\ adapted'.text = adapted.text \o t /\ adapted'.calls = adapted.calls /\ TextHeld(adapted')
  BY <1>5, Zenon DEF GotText
<1>7. chat'.text = chat.text /\ adapted'.text = adapted.text
  <2>1. chat.text \o <<>> = chat.text /\ adapted.text \o <<>> = adapted.text
    <3>1. adapted.text \in Fragments
      BY <1>2, SaidTypedIn, Zenon DEF SaidSoFar
    <3> QED
      BY <1>2, <3>1, ConcatEmptySeq DEF Fragments
  <2> QED
    BY <1>3, <1>6, <2>1
<1>8. SaidSoFar(chat', adapted', said, backend, block', part')
  BY <1>2, <1>6, <1>7, Zenon DEF SaidSoFar
<1> QED
  BY <1>6, <1>8, SaidSoFarPrimed

\* What is left of CallersInv when the callers agree on what was said.
LEMMA CallersKeep ==
  ASSUME CallersInv, UNCHANGED <<backend, said>>, IsChat(chat)',
         upstream' \in {"streaming", "reason", "stopped"} => SaidSoFar(chat, adapted, said, backend, block, part)',
         upstream' \in {"reason", "stopped"} => block' = Len(said) /\ BlockOver',
         upstream' = "streaming" /\ backend = "codex" /\ block' # 0 /\ said[block'].kind = "tool" =>
           part' = said[block'].parts
  PROVE  CallersInv'
<1>1. backend' \in {"anthropic", "codex"} /\ Len(said') <= MaxBlocks /\ \A b \in DOMAIN said' : Speaks(backend', said'[b])
  BY Zenon DEF CallersInv
<1>2. /\ upstream' \in {"reason", "stopped"} => block' = Len(said') /\ BlockOver'
      /\ upstream' = "streaming" /\ backend' = "codex" /\ block' # 0 /\ said'[block'].kind = "tool" =>
           part' = said'[block'].parts
  BY Zenon
<1> QED
  BY <1>1, <1>2, Zenon DEF CallersInv

\* The end of the stream takes nothing away from what its callers have.
LEMMA EndSaid ==
  ASSUME NEW c, IsChat(c), NEW a, NEW s, NEW by, NEW n, NEW p, SaidSoFar(c, a, s, by, n, p),
         NEW end, NEW c2, c2 = [c EXCEPT !.end = end], NEW a2, a2 = Complete(a)
  PROVE  IsChat(c2) /\ SaidSoFar(c2, a2, s, by, n, p)
<1>1. IsChat(c2) /\ c2.text = c.text /\ c2.calls = c.calls
  BY DEF IsChat
<1>2. /\ a2.text = a.text /\ a2.calls = a.calls /\ a2.textIndex = a.textIndex /\ a2.next = a.next /\ a2.outs = a.outs
  BY DEF Complete, Emit
<1>3. TextHeld(a2)
  <2>1. Books(a) /\ (a.text = <<>> => a.textIndex = -1)
    BY Zenon DEF SaidSoFar, TextHeld
  <2>2. Books(a2)
    <3> HIDE DEF Fragments, CallRecords
    <3> QED
      BY <1>2, <2>1 DEF Books
  <2> QED
    BY <1>2, <2>1, <2>2, Zenon DEF TextHeld
<1> QED
  BY <1>1, <1>2, <1>3, Zenon DEF SaidSoFar

\* Every event keeps the two callers of a stream agreed with what was said.
LEMMA CallersStep == ASSUME TurnInv, [TurnNext]_turnVars PROVE CallersInv'
<1>1. CallersInv /\ TurnTyped
  BY Zenon DEF TurnInv, AdapterInv
<1>2. CASE ContentBlockStart
  <2>1. /\ backend = "anthropic" /\ upstream = "streaming" /\ upstream' = upstream /\ UNCHANGED <<backend, said>>
        /\ BlockOver /\ block' = block + 1 /\ part' = 0 /\ block < Len(said)
    BY <1>2, Zenon DEF ContentBlockStart, Streaming
  <2>2. 0 \in Nat
    OBVIOUS
  <2>3. IsChat(chat)' /\ SaidSoFar(chat, adapted, said, backend, block, part)'
    <3>1. CASE said[block + 1].kind = "tool"
      <4>1. PICK f : f = Fragment(CallIndex(block + 1), CallId(block + 1), <<"name">>, <<>>)
        OBVIOUS
      <4>2. chat' = Hears(chat, "", Chunk(<<>>, <<f>>)) /\ adapted' = Receive(adapted, Chunk(<<>>, <<f>>))
        BY <1>2, <3>1, <4>1, Zenon DEF ContentBlockStart, ToCallers, Hears
      <4>3. f = Fragment(IndexIn(said, backend, block + 1), CallId(block + 1), <<"name">>, Parts(block + 1, part'))
        <5>1. Parts(block + 1, 0) = <<>>
          <6>1. block + 1 \in Nat
            BY <1>1 DEF TurnTyped
          <6> QED
            BY <6>1, <2>2, PartsGrow, Zenon
        <5>2. IndexIn(said, backend, block + 1) = CallIndex(block + 1)
          BY <2>1, Zenon DEF IndexIn
        <5> QED
          BY <2>1, <4>1, <5>1, <5>2, Zenon
      <4> QED
        BY <2>1, <2>2, <3>1, <4>2, <4>3, NextBlockSaid, Zenon
    <3>2. CASE said[block + 1].kind # "tool"
      <4>1. UNCHANGED <<chat, adapted>>
        BY <1>2, <3>2, Zenon DEF ContentBlockStart, NothingToCallers
      <4> QED
        BY <2>1, <2>2, <3>2, <4>1, NextBlockSaid, Zenon
    <3> QED
      BY <3>1, <3>2
  <2>4. upstream' = "streaming" /\ backend # "codex"
    BY <2>1
  <2>5. upstream' \notin {"reason", "stopped"}
    BY <2>4
  <2> QED
    BY <1>1, <2>1, <2>3, <2>4, <2>5, CallersKeep, Zenon
<1>3. CASE ContentBlockDelta
  <2>1. /\ backend = "anthropic" /\ upstream = "streaming" /\ upstream' = upstream /\ UNCHANGED <<backend, said, block>>
        /\ ~BlockOver /\ part' = part + 1
    BY <1>3, Zenon DEF ContentBlockDelta, Streaming
  <2>2. said[block].kind \in {"text", "hidden", "tool"}
    <3>1. block \in DOMAIN said
      <4>1. block \in 1 .. Len(said) /\ said \in Seq(Forms)
        BY <2>1, PartUnderWay, Zenon
      <4> QED
        BY <4>1
    <3>2. Speaks("anthropic", said[block])
      BY <1>1, <2>1, <3>1, Zenon DEF CallersInv
    <3> QED
      BY <3>2 DEF Speaks
  <2>3. IsChat(chat)' /\ SaidSoFar(chat, adapted, said, backend, block, part)'
    <3>1. CASE said[block].kind = "text"
      <4>1. PICK t : t = << <<block, part + 1>> >>
        OBVIOUS
      <4>2. chat' = Hears(chat, "", Chunk(t, <<>>)) /\ adapted' = Receive(adapted, Chunk(t, <<>>))
        BY <1>3, <2>1, <3>1, <4>1, Zenon DEF ContentBlockDelta, ToCallers, Hears
      <4>3. "" # "commentary"
        OBVIOUS
      <4> QED
        BY <2>1, <3>1, <4>1, <4>2, <4>3, TextPartSaid, Zenon
    <3>2. CASE said[block].kind = "tool"
      <4>1. PICK f : f = Fragment(CallIndex(block), Unset, <<>>, << <<block, part + 1>> >>)
        OBVIOUS
      <4>2. chat' = Hears(chat, "", Chunk(<<>>, <<f>>)) /\ adapted' = Receive(adapted, Chunk(<<>>, <<f>>))
        <5>1. said[block].kind # "text"
          BY <3>2
        <5> QED
          BY <1>3, <2>1, <3>2, <4>1, <5>1, Zenon DEF ContentBlockDelta, ToCallers, Hears
      <4>3. f = Fragment(IndexIn(said, backend, block), Unset, <<>>, << <<block, part + 1>> >>)
        <5>1. IndexIn(said, backend, block) = CallIndex(block)
          BY <2>1, Zenon DEF IndexIn
        <5> QED
          BY <4>1, <5>1, Zenon
      <4> QED
        BY <2>1, <3>2, <4>2, <4>3, CallPartSaid, Zenon
    <3>3. CASE said[block].kind = "hidden"
      <4>1. said[block].kind # "text" /\ said[block].kind # "tool"
        BY <3>3
      <4>2. UNCHANGED <<chat, adapted>>
        BY <1>3, <4>1, Zenon DEF ContentBlockDelta, NothingToCallers
      <4> QED
        BY <2>1, <3>3, <4>2, HiddenPartSaid, Zenon
    <3> QED
      BY <2>2, <3>1, <3>2, <3>3
  <2>4. upstream' = "streaming" /\ backend # "codex"
    BY <2>1
  <2>5. upstream' \notin {"reason", "stopped"}
    BY <2>4
  <2> QED
    BY <1>1, <2>1, <2>3, <2>4, <2>5, CallersKeep, Zenon
<1>4. CASE MessageDelta
  <2>1. /\ backend = "anthropic" /\ upstream = "streaming" /\ upstream' = "reason" /\ UNCHANGED <<backend, said, block, part>>
        /\ BlockOver /\ block = Len(said)
    BY <1>4, Zenon DEF MessageDelta, Streaming
  <2>2. chat' = Hears(chat, "", Chunk(<<>>, <<>>)) /\ adapted' = Receive(adapted, Chunk(<<>>, <<>>))
    BY <1>4, Zenon DEF MessageDelta, ToCallers, Hears
  <2>3. IsChat(chat)' /\ SaidSoFar(chat, adapted, said, backend, block, part)'
    BY <2>1, <2>2, NothingMoreSaid, Zenon
  <2>4. block' = Len(said) /\ BlockOver'
    BY <2>1, Zenon DEF BlockOver
  <2>5. upstream' # "streaming"
    BY <2>1
  <2> QED
    BY <1>1, <2>1, <2>3, <2>4, <2>5, CallersKeep, Zenon
<1>5. CASE MessageStop \/ CodexEnd
  <2>1. /\ upstream \in {"streaming", "reason"} /\ upstream' = "stopped" /\ UNCHANGED <<backend, said, block, part>>
        /\ chat' = [chat EXCEPT !.end = "done"] /\ adapted' = Complete(adapted)
    BY <1>5 DEF MessageStop, CodexEnd, Streaming, EndOfStream
  <2>2. block = Len(said) /\ BlockOver
    <3>1. CASE CodexEnd
      BY <3>1, Zenon DEF CodexEnd
    <3>2. CASE MessageStop
      <4>1. upstream \in {"reason", "stopped"}
        BY <3>2 DEF MessageStop
      <4> QED
        BY <1>1, <4>1, Zenon DEF CallersInv
    <3> QED
      BY <1>5, <3>1, <3>2
  <2>3. IsChat(chat) /\ SaidSoFar(chat, adapted, said, backend, block, part)
    BY <2>1, UnderWay, Zenon
  <2>4. IsChat(chat') /\ SaidSoFar(chat', adapted', said, backend, block, part)
    BY <2>1, <2>3, EndSaid, Zenon
  <2>5. IsChat(chat)' /\ SaidSoFar(chat, adapted, said, backend, block, part)'
    BY <2>1, <2>4, Zenon
  <2>6. block' = Len(said) /\ BlockOver'
    BY <2>1, <2>2, Zenon DEF BlockOver
  <2>7. upstream' # "streaming"
    BY <2>1
  <2> QED
    BY <1>1, <2>1, <2>5, <2>6, <2>7, CallersKeep, Zenon
<1>6. CASE Cut \/ StreamFails
  <2>1. /\ upstream' \in {"cut", "failed"} /\ UNCHANGED <<backend, said, block, part>>
        /\ \E end : chat' = [chat EXCEPT !.end = end]
    BY <1>6, Zenon DEF Cut, StreamFails, EndOfStream, ErrorToCallers
  <2>2. IsChat(chat')
    <3>1. IsChat(chat)
      BY <1>1, Zenon DEF CallersInv
    <3> QED
      BY <2>1, <3>1 DEF IsChat
  <2>3. upstream' \notin {"streaming", "reason", "stopped"} /\ upstream' \notin {"reason", "stopped"} /\ upstream' # "streaming"
    BY <2>1
  <2> QED
    BY <1>1, <2>1, <2>2, <2>3, CallersKeep, Zenon
<1>7. CASE CodexTool
  <2>1. /\ backend = "codex" /\ upstream = "streaming" /\ upstream' = upstream /\ UNCHANGED <<backend, said>>
        /\ BlockOver /\ block' = block + 1 /\ block < Len(said)
    BY <1>7, Zenon DEF CodexTool, Streaming
  <2>2. block + 1 \in 1 .. Len(said) /\ block + 1 \in Nat
    BY <1>1, <2>1 DEF TurnTyped
  <2>3. said[block + 1].parts \in Nat /\ 0 \in Nat
    <3>1. said \in Seq(Forms)
      BY <1>1 DEF TurnTyped
    <3> QED
      BY <2>2, <3>1, PartsOfBlocks
  <2>4. CASE said[block + 1].kind = "tool"
    <3>1. part' = said[block + 1].parts
      BY <1>7, <2>4, Zenon DEF CodexTool
    <3>2. PICK f : f = CodexCall(block + 1)
      OBVIOUS
    <3>3. chat' = Hears(chat, "", Chunk(<<>>, <<f>>)) /\ adapted' = Receive(adapted, Chunk(<<>>, <<f>>))
      BY <1>7, <2>4, <3>2, Zenon DEF CodexTool, ToCallers, Hears
    <3>4. f = Fragment(IndexIn(said, backend, block + 1), CallId(block + 1), <<"name">>, Parts(block + 1, part'))
      <4>1. IndexIn(said, backend, block + 1) = Cardinality(ToolsIn(said, block + 1)) - 1
        <5>1. backend # "anthropic"
          BY <2>1
        <5> QED
          BY <5>1, Zenon DEF IndexIn
      <4>2. ToolsIn(said, block + 1) = {c \in 1 .. (block + 1) : said[c].kind = "tool"}
        BY Zenon DEF ToolsIn
      <4> QED
        BY <3>1, <3>2, <4>1, <4>2, Zenon DEF CodexCall
    <3>5. IsChat(chat)' /\ SaidSoFar(chat, adapted, said, backend, block, part)'
      <4>1. part' \in Nat
        BY <2>3, <3>1, Zenon
      <4> QED
        BY <2>1, <2>4, <3>3, <3>4, <4>1, NextBlockSaid, Zenon
    <3>6. part' = said[block'].parts
      BY <2>1, <3>1, Zenon
    <3>7. upstream' \notin {"reason", "stopped"}
      BY <2>1
    <3> QED
      BY <1>1, <2>1, <3>5, <3>6, <3>7, CallersKeep, Zenon
  <2>5. CASE said[block + 1].kind # "tool"
    <3>1. UNCHANGED <<chat, adapted>> /\ part' = 0
      BY <1>7, <2>5, Zenon DEF CodexTool, NothingToCallers
    <3>2. IsChat(chat)' /\ SaidSoFar(chat, adapted, said, backend, block, part)'
      <4>1. part' \in Nat
        BY <2>3, <3>1, Zenon
      <4> QED
        BY <2>1, <2>5, <3>1, <4>1, NextBlockSaid, Zenon
    <3>3. said[block'].kind # "tool"
      BY <2>1, <2>5, Zenon
    <3>4. upstream' \notin {"reason", "stopped"}
      BY <2>1
    <3> QED
      BY <1>1, <2>1, <3>2, <3>3, <3>4, CallersKeep, Zenon
  <2> QED
    BY <2>4, <2>5
<1>8. CASE CodexDelta
  <2>1. /\ backend = "codex" /\ upstream = "streaming" /\ upstream' = upstream /\ UNCHANGED <<backend, said, block>>
        /\ ~BlockOver /\ part' = part + 1
    BY <1>8, Zenon DEF CodexDelta, Streaming
  <2>2. block # 0 /\ part # said[block].parts
    BY <2>1, Zenon DEF BlockOver
  <2>3. said[block].kind # "tool"
    BY <1>1, <2>1, <2>2, Zenon DEF CallersInv
  <2>4. said[block].kind \in {"text", "note", "plain"}
    <3>1. block \in DOMAIN said
      <4>1. block \in 1 .. Len(said) /\ said \in Seq(Forms)
        BY <2>1, PartUnderWay, Zenon
      <4> QED
        BY <4>1
    <3>2. Speaks("codex", said[block])
      BY <1>1, <2>1, <3>1, Zenon DEF CallersInv
    <3> QED
      BY <2>3, <3>2 DEF Speaks
  <2>5. IsChat(chat)' /\ SaidSoFar(chat, adapted, said, backend, block, part)'
    <3>1. PICK t : t = << <<block, part + 1>> >>
      OBVIOUS
    <3>2. PICK phase : phase = ItemPhase(block)
      OBVIOUS
    <3>3. chat' = Hears(chat, phase, Chunk(t, <<>>)) /\ adapted' = Receive(adapted, Chunk(t, <<>>))
      BY <1>8, <2>1, <3>1, <3>2, Zenon DEF CodexDelta, ToCallers, Hears
    <3>4. \/ said[block].kind \in {"text", "plain"} /\ phase # "commentary"
          \/ said[block].kind = "note" /\ phase = "commentary"
      BY <2>4, <3>2 DEF ItemPhase
    <3> QED
      BY <2>1, <3>1, <3>3, <3>4, TextPartSaid, Zenon
  <2>6. upstream' \notin {"reason", "stopped"} /\ said[block'].kind # "tool"
    BY <2>1, <2>3
  <2> QED
    BY <1>1, <2>1, <2>5, <2>6, CallersKeep, Zenon
<1>9. CASE AskAgain \/ UNCHANGED turnVars
  <2>1. UNCHANGED <<backend, said, block, part, upstream, chat, adapted>>
    BY <1>9 DEF AskAgain, turnVars
  <2>2. /\ IsChat(chat)
        /\ upstream \in {"streaming", "reason", "stopped"} => SaidSoFar(chat, adapted, said, backend, block, part)
        /\ upstream \in {"reason", "stopped"} => block = Len(said) /\ BlockOver
        /\ upstream = "streaming" /\ backend = "codex" /\ block # 0 /\ said[block].kind = "tool" =>
             part = said[block].parts
    BY <1>1, Zenon DEF CallersInv
  <2>3. IsChat(chat)' /\ (BlockOver' <=> BlockOver)
    BY <2>1, <2>2, Zenon DEF BlockOver
  <2>4. upstream' \in {"streaming", "reason", "stopped"} => SaidSoFar(chat, adapted, said, backend, block, part)'
    BY <2>1, <2>2, Zenon
  <2>5. upstream' \in {"reason", "stopped"} => block' = Len(said) /\ BlockOver'
    BY <2>1, <2>2, <2>3, Zenon
  <2>6. upstream' = "streaming" /\ backend = "codex" /\ block' # 0 /\ said[block'].kind = "tool" =>
             part' = said[block'].parts
    BY <2>1, <2>2, Zenon
  <2> QED
    BY <1>1, <2>1, <2>3, <2>4, <2>5, <2>6, CallersKeep, Zenon
<1> QED
  BY <1>2, <1>3, <1>4, <1>5, <1>6, <1>7, <1>8, <1>9 DEF TurnNext

\* The whole answer: a call as it was made, with its arguments as JSON, what a block says
\* to these kinds, all that they say, and the tool blocks.
WholeCall(s, b)    == [id |-> CallId(b), name |-> <<"name">>, args |-> Parts(b, s[b].parts)]
JsonCall(s, b)     == [id |-> CallId(b), name |-> <<"name">>, args |-> AsJSON(Parts(b, s[b].parts))]
Piece(s, kinds, b) == IF s[b].kind \in kinds THEN Parts(b, s[b].parts) ELSE <<>>
WholeText(s, kinds) == FlattenSeq([b \in 1 .. Len(s) |-> Piece(s, kinds, b)])
ToolsOf(s)         == ToolsIn(s, Len(s))

\* What was said in the end is the whole answer.
LEMMA SaidInTheEnd ==
  ASSUME NEW s \in Seq(Forms), NEW n, n = Len(s), NEW p, n = 0 \/ p = s[n].parts
  PROVE  /\ \A kinds : SaidIn(s, kinds, n, p) = WholeText(s, kinds)
         /\ \A b \in 1 .. n : CallIn(s, n, p, b) = WholeCall(s, b)
<1>1. \A b \in 1 .. n : PartsIn(s, n, p, b) = s[b].parts
  <2> TAKE b \in 1 .. n
  <2>1. n \in Nat
    OBVIOUS
  <2>2. b < n \/ (b = n /\ n # 0)
    BY ONLY <2>1, b \in 1 .. n
  <2> QED
    BY <2>2, Zenon DEF PartsIn
<1>2. \A kinds : \A b \in 1 .. n : PieceIn(s, kinds, n, p, b) = Piece(s, kinds, b)
  BY <1>1, Zenon DEF PieceIn, Piece
<1>3. \A kinds : [b \in 1 .. n |-> PieceIn(s, kinds, n, p, b)] = [b \in 1 .. n |-> Piece(s, kinds, b)]
  BY <1>2
<1>4. \A kinds : SaidIn(s, kinds, n, p) = WholeText(s, kinds)
  BY <1>3, Zenon DEF SaidIn, WholeText
<1>5. \A b \in 1 .. n : CallIn(s, n, p, b) = WholeCall(s, b)
  BY <1>1, Zenon DEF CallIn, WholeCall
<1> QED
  BY <1>4, <1>5, Zenon

\* Two sets of kinds that pick the same pieces make the same text.
LEMMA SameText ==
  ASSUME NEW s, NEW K, NEW L, \A b \in 1 .. Len(s) : Piece(s, K, b) = Piece(s, L, b)
  PROVE  WholeText(s, K) = WholeText(s, L)
<1>1. [b \in 1 .. Len(s) |-> Piece(s, K, b)] = [b \in 1 .. Len(s) |-> Piece(s, L, b)]
  OBVIOUS
<1> QED
  BY <1>1, Zenon DEF WholeText

\* The final answer is the text blocks, the collected text those and the commentary.
LEMMA TextsWhole ==
  ASSUME said \in Seq(Forms)
  PROVE  FinalText = WholeText(said, {"text"}) /\ TextOf(SaidBlocks) = WholeText(said, {"text", "note", "plain"})
<1>1. DOMAIN said = 1 .. Len(said) /\ DOMAIN SaidBlocks = 1 .. Len(said)
  BY DEF SaidBlocks
<1>2. \A b \in 1 .. Len(said) :
        /\ (IF said[b].kind = "text" THEN Parts(b, said[b].parts) ELSE <<>>) = Piece(said, {"text"}, b)
        /\ (IF SaidBlocks[b].type = "text" THEN SaidBlocks[b].text ELSE <<>>) = Piece(said, {"text", "note", "plain"}, b)
  <2> TAKE b \in 1 .. Len(said)
  <2>1. said[b].kind \in {"text", "note", "plain", "hidden", "tool"}
    BY PartsOfBlocks
  <2>2. SaidBlocks[b] = SaidBlock(b)
    BY <1>1 DEF SaidBlocks
  <2>3. (IF said[b].kind = "text" THEN Parts(b, said[b].parts) ELSE <<>>) = Piece(said, {"text"}, b)
    BY DEF Piece
  <2> DEFINE w == Parts(b, said[b].parts)
  <2>4. CASE said[b].kind = "tool"
    <3>1. SaidBlock(b).type = "tool_use"
      BY <2>4 DEF SaidBlock
    <3>2. SaidBlock(b).type # "text" /\ said[b].kind \notin {"text", "note", "plain"}
      BY <2>4, <3>1
    <3> QED
      BY <2>2, <2>3, <3>2, Zenon DEF Piece
  <2>5. CASE said[b].kind = "hidden"
    <3>1. SaidBlock(b) = [type |-> "thinking"]
      <4>1. said[b].kind # "tool"
        BY <2>5
      <4> QED
        BY <2>5, <4>1, Zenon DEF SaidBlock
    <3>2. SaidBlock(b).type # "text" /\ said[b].kind \notin {"text", "note", "plain"}
      BY <2>5, <3>1
    <3> QED
      BY <2>2, <2>3, <3>2, Zenon DEF Piece
  <2>6. CASE said[b].kind \in {"text", "note", "plain"}
    <3>1. SaidBlock(b) = [type |-> "text", text |-> w]
      <4>1. said[b].kind # "tool" /\ said[b].kind # "hidden"
        BY <2>6
      <4> QED
        BY <4>1, Zenon DEF SaidBlock
    <3>2. SaidBlock(b).type = "text" /\ SaidBlock(b).text = w
      <4> HIDE DEF w
      <4> QED
        BY <3>1
    <3> QED
      BY <2>2, <2>3, <2>6, <3>2, Zenon DEF Piece
  <2> QED
    BY <2>1, <2>4, <2>5, <2>6
<1>3. /\ [b \in DOMAIN said |-> IF said[b].kind = "text" THEN Parts(b, said[b].parts) ELSE <<>>]
           = [b \in 1 .. Len(said) |-> Piece(said, {"text"}, b)]
      /\ [n \in DOMAIN SaidBlocks |-> IF SaidBlocks[n].type = "text" THEN SaidBlocks[n].text ELSE <<>>]
           = [b \in 1 .. Len(said) |-> Piece(said, {"text", "note", "plain"}, b)]
  BY <1>1, <1>2
<1> QED
  BY <1>3, Zenon DEF FinalText, TextOf, WholeText

\* Both ways of collecting an answer take the text if there is any.
LEMMA CollectedText ==
  ASSUME said \in Seq(Forms), \A b \in DOMAIN said : Speaks(backend, said[b]), backend \in {"anthropic", "codex"}
  PROVE  /\ Collected.text = IF FinalText = <<>> THEN TextOf(SaidBlocks) ELSE FinalText
         /\ Collected.calls = ToChatResponse(SaidBlocks).calls
<1> DEFINE all == ToChatResponse(SaidBlocks)
<1>1. all.text = TextOf(SaidBlocks) /\ all = [role |-> all.role, text |-> all.text, calls |-> all.calls, answers |-> all.answers]
  BY DEF ToChatResponse, Assistant, Chat
<1>2. CASE backend = "codex"
  <2>1. Collected = [all EXCEPT !.text = IF FinalText = <<>> THEN @ ELSE FinalText]
    BY <1>2, Zenon DEF Collected, CollectCodex
  <2> HIDE DEF all
  <2>2. Collected.text = (IF FinalText = <<>> THEN all.text ELSE FinalText) /\ Collected.calls = all.calls
    BY <1>1, <2>1
  <2> QED
    BY <1>1, <2>2 DEF all
<1>3. CASE backend = "anthropic"
  <2>1. Collected = all
    BY <1>3 DEF Collected
  <2>2. \A b \in 1 .. Len(said) : Piece(said, {"text"}, b) = Piece(said, {"text", "note", "plain"}, b)
    <3> TAKE b \in 1 .. Len(said)
    <3>1. Speaks("anthropic", said[b])
      BY <1>3
    <3>2. said[b].kind \in {"text", "hidden", "tool"}
      BY <3>1 DEF Speaks
    <3> QED
      BY <3>2 DEF Piece
  <2>3. FinalText = TextOf(SaidBlocks)
    <3>1. WholeText(said, {"text"}) = WholeText(said, {"text", "note", "plain"})
      BY <2>2, SameText
    <3> QED
      BY <3>1, TextsWhole, Zenon
  <2> HIDE DEF all
  <2> QED
    BY <1>1, <2>1, <2>3 DEF all
<1> QED
  BY <1>2, <1>3

\* The tool calls of the collected answer: those of its blocks, in order.
LEMMA CollectedCalls ==
  ASSUME said \in Seq(Forms)
  PROVE  LET at == Ascending(ToolsOf(said))
             made == ToChatResponse(SaidBlocks).calls
         IN DOMAIN made = DOMAIN at /\ \A n \in DOMAIN at : made[n] = JsonCall(said, at[n])
<1> DEFINE at == Ascending(ToolsOf(said))
           k == Cardinality(ToolsOf(said))
           tools == ToolBlocks(SaidBlocks)
           made == ToChatResponse(SaidBlocks).calls
<1>1. Len(said) \in Nat
  OBVIOUS
<1>2. /\ k \in Nat /\ at \in [1 .. k -> ToolsOf(said)]
  <2> DEFINE T == ToolsOf(said)
  <2>1. IsFiniteSet(T) /\ T \subseteq Nat
    BY <1>1, ToolsCounted DEF ToolsOf, ToolsIn
  <2> HIDE DEF T
  <2>2. Cardinality(T) \in Nat /\ Ascending(T) \in [1 .. Cardinality(T) -> T]
    BY <2>1, AscendingFacts, Zenon
  <2> QED
    BY <2>2 DEF T
<1>3. {n \in DOMAIN SaidBlocks : SaidBlocks[n].type = "tool_use"} = ToolsOf(said)
  <2>1. DOMAIN SaidBlocks = 1 .. Len(said)
    BY DEF SaidBlocks
  <2>2. \A b \in 1 .. Len(said) : SaidBlocks[b].type = "tool_use" <=> said[b].kind = "tool"
    <3> TAKE b \in 1 .. Len(said)
    <3>1. SaidBlocks[b] = SaidBlock(b)
      BY DEF SaidBlocks
    <3>2. said[b].kind = "tool" => SaidBlock(b).type = "tool_use"
      BY DEF SaidBlock
    <3>3. said[b].kind # "tool" => SaidBlock(b).type # "tool_use"
      BY DEF SaidBlock
    <3> QED
      BY <3>1, <3>2, <3>3, Zenon
  <2> QED
    BY <2>1, <2>2 DEF ToolsOf, ToolsIn
<1>4. tools = [n \in DOMAIN at |-> SaidBlocks[at[n]]]
  BY <1>3, Zenon DEF ToolBlocks
<1>5. made = [n \in DOMAIN tools |-> [id |-> tools[n].id, name |-> tools[n].name, args |-> AsJSON(tools[n].args)]]
  BY DEF ToChatResponse, Assistant, Chat
<1>6. DOMAIN made = DOMAIN at
  <2> HIDE DEF tools, made, at
  <2> QED
    BY <1>4, <1>5
<1>7. ASSUME NEW n \in DOMAIN at PROVE made[n] = JsonCall(said, at[n])
  <2>1. at[n] \in ToolsOf(said)
    BY <1>2, <1>7
  <2>2. tools[n] = SaidBlocks[at[n]]
    BY <1>4, <1>7
  <2>3. at[n] \in DOMAIN said /\ said[at[n]].kind = "tool"
    BY <2>1 DEF ToolsOf, ToolsIn
  <2>4. SaidBlocks[at[n]] = SaidBlock(at[n])
    BY <2>3 DEF SaidBlocks
  <2>5. SaidBlock(at[n]) = [type |-> "tool_use", id |-> CallId(at[n]), name |-> <<"name">>, args |-> Parts(at[n], said[at[n]].parts)]
    BY <2>3, Zenon DEF SaidBlock
  <2> DEFINE i == CallId(at[n])
             w == Parts(at[n], said[at[n]].parts)
  <2>6. tools[n].id = i /\ tools[n].name = <<"name">> /\ tools[n].args = w
    <3>1. tools[n] = [type |-> "tool_use", id |-> i, name |-> <<"name">>, args |-> w]
      BY <2>2, <2>4, <2>5, Zenon
    <3> HIDE DEF i, w, tools
    <3> QED
      BY <3>1
  <2>7. made[n] = [id |-> tools[n].id, name |-> tools[n].name, args |-> AsJSON(tools[n].args)]
    <3>1. n \in DOMAIN tools
      BY <1>4, <1>7
    <3> HIDE DEF tools, made
    <3> QED
      BY <1>5, <3>1
  <2> QED
    BY <2>6, <2>7, Zenon DEF JsonCall
<1> QED
  BY <1>6, <1>7

\* All of an answer was said.
Finished(s, n, p) == n = Len(s) /\ (n = 0 \/ p = s[n].parts)

\* The calls of an answer, with their arguments as JSON.
JsonCalls(s) == {JsonCall(s, b) : b \in ToolsOf(s)}

\* Arguments that were made JSON are JSON.
LEMMA JsonTwice ==
  ASSUME NEW x
  PROVE  AsJSON(AsJSON(x)) = AsJSON(x)
<1>1. EmptyObject # <<>>
  BY DEF EmptyObject
<1> QED
  BY <1>1, Zenon DEF AsJSON

\* Calls, and the items of calls, with their arguments as JSON.
LEMMA JsonOfCall ==
  ASSUME NEW s, NEW b
  PROVE  /\ [WholeCall(s, b) EXCEPT !.args = AsJSON(@)] = JsonCall(s, b)
         /\ [JsonCall(s, b) EXCEPT !.args = AsJSON(@)] = JsonCall(s, b)
         /\ [CallItem(WholeCall(s, b)) EXCEPT !.args = AsJSON(@)] = CallItem(JsonCall(s, b))
         /\ [CallItem(JsonCall(s, b)) EXCEPT !.args = AsJSON(@)] = CallItem(JsonCall(s, b))
<1> DEFINE i == CallId(b)
           w == Parts(b, s[b].parts)
           j == AsJSON(w)
<1>1. AsJSON(j) = j
  BY JsonTwice
<1>2. WholeCall(s, b) = [id |-> i, name |-> <<"name">>, args |-> w]
  BY Zenon DEF WholeCall
<1>3. JsonCall(s, b) = [id |-> i, name |-> <<"name">>, args |-> j]
  BY Zenon DEF JsonCall
<1>4. AsJSON(w) = j
  OBVIOUS
<1> HIDE DEF i, w, j
<1>5. [WholeCall(s, b) EXCEPT !.args = AsJSON(@)] = JsonCall(s, b)
  BY <1>2, <1>3, <1>4
<1>6. [JsonCall(s, b) EXCEPT !.args = AsJSON(@)] = JsonCall(s, b)
  BY <1>1, <1>3
<1>7. /\ CallItem(WholeCall(s, b)) = [type |-> "function_call", id |-> i, name |-> <<"name">>, args |-> w]
      /\ CallItem(JsonCall(s, b)) = [type |-> "function_call", id |-> i, name |-> <<"name">>, args |-> j]
  BY <1>2, <1>3 DEF CallItem
<1>8. [CallItem(WholeCall(s, b)) EXCEPT !.args = AsJSON(@)] = CallItem(JsonCall(s, b))
  BY <1>4, <1>7
<1>9. [CallItem(JsonCall(s, b)) EXCEPT !.args = AsJSON(@)] = CallItem(JsonCall(s, b))
  BY <1>1, <1>7
<1> QED
  BY <1>5, <1>6, <1>8, <1>9

\* A reader that has the calls of a whole answer.
KeepsCalls(kept, s) ==
  /\ DOMAIN kept \subseteq Nat /\ IsFiniteSet(DOMAIN kept)
  /\ \A i \in DOMAIN kept : \E b \in ToolsOf(s) : kept[i] = WholeCall(s, b)
  /\ \A b \in ToolsOf(s) : \E i \in DOMAIN kept : kept[i] = WholeCall(s, b)

\* The calls of a whole answer, kept by their index.
LEMMA CallsKept ==
  ASSUME NEW s \in Seq(Forms), NEW by, NEW n, NEW p, Finished(s, n, p),
         NEW kept, CallsSaid(kept, s, by, n, p)
  PROVE  KeepsCalls(kept, s)
<1> DEFINE T == ToolsOf(s)
<1>1. n \in Nat /\ T = ToolsIn(s, n) /\ n = Len(s) /\ (n = 0 \/ p = s[n].parts)
  BY DEF ToolsOf, Finished
<1>2. IsFiniteSet(T) /\ \A b \in T : IndexIn(s, by, b) \in Nat /\ b \in 1 .. n
  BY <1>1, ToolsCounted, IndexTyped
<1>3. DOMAIN kept = {IndexIn(s, by, b) : b \in T} /\ \A b \in T : kept[IndexIn(s, by, b)] = CallIn(s, n, p, b)
  BY <1>1, Zenon DEF CallsSaid
<1>4. \A b \in T : CallIn(s, n, p, b) = WholeCall(s, b)
  BY <1>1, <1>2, SaidInTheEnd
<1> HIDE DEF T
<1>5. IsFiniteSet({IndexIn(s, by, b) : b \in T})
  <2> DEFINE f == [b \in T |-> IndexIn(s, by, b)]
  <2>1. {IndexIn(s, by, b) : b \in T} = {f[b] : b \in T}
    OBVIOUS
  <2> DEFINE I == {f[b] : b \in T}
  <2>2. f \in Surjection(T, I)
    BY DEF Surjection
  <2> HIDE DEF f, I
  <2>3. IsFiniteSet(I)
    BY <1>2, <2>2, FS_Surjection
  <2> QED
    BY <2>1, <2>3, Zenon DEF I
<1>6. DOMAIN kept \subseteq Nat /\ IsFiniteSet(DOMAIN kept)
  BY <1>2, <1>3, <1>5
<1>7. \A i \in DOMAIN kept : \E b \in T : kept[i] = WholeCall(s, b)
  BY <1>3, <1>4
<1>8. \A b \in T : \E i \in DOMAIN kept : kept[i] = WholeCall(s, b)
  BY <1>3, <1>4
<1> QED
  BY <1>6, <1>7, <1>8, Zenon DEF T, KeepsCalls

\* Both callers of Chat have the calls the model made.
LEMMA StreamedAsSaid ==
  ASSUME said \in Seq(Forms), NEW n, NEW p, Finished(said, n, p),
         CallsSaid(chat.calls, said, backend, n, p)
  PROVE  Calls(Streamed.calls) = JsonCalls(said)
<1> DEFINE D == DOMAIN chat.calls
           k == Cardinality(D)
           at == Ascending(D)
           T == ToolsOf(said)
           made == Streamed.calls
<1>1. /\ D \subseteq Nat /\ IsFiniteSet(D)
      /\ \A i \in D : \E b \in T : chat.calls[i] = WholeCall(said, b)
      /\ \A b \in T : \E i \in D : chat.calls[i] = WholeCall(said, b)
  <2>1. KeepsCalls(chat.calls, said)
    BY CallsKept, Zenon
  <2> QED
    BY <2>1, Zenon DEF KeepsCalls
<1>2. made = [m \in DOMAIN at |-> chat.calls[at[m]]]
  BY DEF Streamed, Assistant, Chat
<1> HIDE DEF D, made
<1>3. /\ k \in Nat /\ at \in [1 .. k -> D] /\ \A x \in D : \E m \in 1 .. k : at[m] = x
  BY <1>1, AscendingFacts, Zenon
<1> HIDE DEF k, at, T
<1>4. DOMAIN made = 1 .. k /\ \A m \in 1 .. k : made[m] = chat.calls[at[m]] /\ at[m] \in D
  BY <1>2, <1>3
<1>5. \A m \in DOMAIN made : \E b \in T : [made[m] EXCEPT !.args = AsJSON(@)] = JsonCall(said, b)
  <2> TAKE m \in DOMAIN made
  <2>1. m \in 1 .. k
    BY <1>4, Zenon
  <2>2. made[m] = chat.calls[at[m]] /\ at[m] \in D
    BY <1>4, <2>1, Zenon
  <2>3. PICK b \in T : made[m] = WholeCall(said, b)
    BY <1>1, <2>2, Zenon
  <2>4. [WholeCall(said, b) EXCEPT !.args = AsJSON(@)] = JsonCall(said, b)
    BY JsonOfCall
  <2> QED
    BY <2>3, <2>4, Zenon
<1>6. \A b \in T : \E m \in DOMAIN made : [made[m] EXCEPT !.args = AsJSON(@)] = JsonCall(said, b)
  <2> TAKE b \in T
  <2>1. PICK i \in D : chat.calls[i] = WholeCall(said, b)
    BY <1>1, Zenon
  <2>2. PICK m \in 1 .. k : at[m] = i
    BY <1>3, Zenon
  <2>3. made[m] = WholeCall(said, b) /\ m \in DOMAIN made
    BY <1>4, <2>1, <2>2, Zenon
  <2>4. [WholeCall(said, b) EXCEPT !.args = AsJSON(@)] = JsonCall(said, b)
    BY JsonOfCall
  <2> QED
    BY <2>3, <2>4, Zenon
<1>7. Calls(made) = {JsonCall(said, b) : b \in T}
  <2>1. \A x : x \in Calls(made) <=> \E m \in DOMAIN made : x = [made[m] EXCEPT !.args = AsJSON(@)]
    BY Zenon DEF Calls
  <2>2. \A x : x \in {JsonCall(said, b) : b \in T} <=> \E b \in T : x = JsonCall(said, b)
    BY Zenon
  <2>3. \A x : x \in Calls(made) <=> x \in {JsonCall(said, b) : b \in T}
    <3> TAKE x
    <3>1. ASSUME x \in Calls(made) PROVE x \in {JsonCall(said, b) : b \in T}
      <4>1. PICK m \in DOMAIN made : x = [made[m] EXCEPT !.args = AsJSON(@)]
        BY <2>1, <3>1, Zenon
      <4>2. PICK b \in T : [made[m] EXCEPT !.args = AsJSON(@)] = JsonCall(said, b)
        BY <1>5, Zenon
      <4> QED
        BY <2>2, <4>1, <4>2, Zenon
    <3>2. ASSUME x \in {JsonCall(said, b) : b \in T} PROVE x \in Calls(made)
      <4>1. PICK b \in T : x = JsonCall(said, b)
        BY <2>2, <3>2, Zenon
      <4>2. PICK m \in DOMAIN made : [made[m] EXCEPT !.args = AsJSON(@)] = JsonCall(said, b)
        BY <1>6, Zenon
      <4> QED
        BY <2>1, <4>1, <4>2, Zenon
    <3> QED
      BY <3>1, <3>2
  <2> QED
    BY <2>3, Zenon
<1> QED
  BY <1>7, Zenon DEF JsonCalls, T, made

\* The calls of the collected answer are those the model made.
LEMMA CollectedAsSaid ==
  ASSUME said \in Seq(Forms), NEW made, made = ToChatResponse(SaidBlocks).calls
  PROVE  /\ Calls(made) = JsonCalls(said)
         /\ \A m \in DOMAIN made : \E b \in ToolsOf(said) : made[m] = JsonCall(said, b)
         /\ \A b \in ToolsOf(said) : \E m \in DOMAIN made : made[m] = JsonCall(said, b)
         /\ \E k \in Nat : DOMAIN made = 1 .. k
<1> DEFINE T == ToolsOf(said)
           k == Cardinality(T)
           at == Ascending(T)
<1>1. T \subseteq Nat /\ IsFiniteSet(T)
  <2>1. Len(said) \in Nat
    OBVIOUS
  <2> QED
    BY <2>1, ToolsCounted DEF ToolsOf, ToolsIn
<1>2. DOMAIN made = DOMAIN at /\ \A m \in DOMAIN at : made[m] = JsonCall(said, at[m])
  BY CollectedCalls, Zenon
<1> HIDE DEF T
<1>3. /\ k \in Nat /\ at \in [1 .. k -> T] /\ \A x \in T : \E m \in 1 .. k : at[m] = x
  BY <1>1, AscendingFacts, Zenon
<1> HIDE DEF k, at
<1>4. DOMAIN made = 1 .. k /\ \A m \in 1 .. k : made[m] = JsonCall(said, at[m]) /\ at[m] \in T
  BY <1>2, <1>3
<1>5. /\ \A m \in DOMAIN made : \E b \in T : made[m] = JsonCall(said, b)
      /\ \A b \in T : \E m \in DOMAIN made : made[m] = JsonCall(said, b)
  <2>1. \A m \in DOMAIN made : \E b \in T : made[m] = JsonCall(said, b)
    BY <1>4, Zenon
  <2>2. \A b \in T : \E m \in DOMAIN made : made[m] = JsonCall(said, b)
    <3> TAKE b \in T
    <3>1. PICK m \in 1 .. k : at[m] = b
      BY <1>3, Zenon
    <3> QED
      BY <1>4, <3>1, Zenon
  <2> QED
    BY <2>1, <2>2
<1>6. Calls(made) = {JsonCall(said, b) : b \in T}
  <2>1. \A x : x \in Calls(made) <=> \E m \in DOMAIN made : x = [made[m] EXCEPT !.args = AsJSON(@)]
    BY Zenon DEF Calls
  <2>2. \A x : x \in {JsonCall(said, b) : b \in T} <=> \E b \in T : x = JsonCall(said, b)
    BY Zenon
  <2>3. \A m \in DOMAIN made : [made[m] EXCEPT !.args = AsJSON(@)] = made[m]
    <3> TAKE m \in DOMAIN made
    <3>1. PICK b \in T : made[m] = JsonCall(said, b)
      BY <1>5, Zenon
    <3>2. [JsonCall(said, b) EXCEPT !.args = AsJSON(@)] = JsonCall(said, b)
      BY JsonOfCall
    <3> QED
      BY <3>1, <3>2, Zenon
  <2>4. \A x : x \in Calls(made) <=> x \in {JsonCall(said, b) : b \in T}
    <3> TAKE x
    <3>1. ASSUME x \in Calls(made) PROVE x \in {JsonCall(said, b) : b \in T}
      <4>1. PICK m \in DOMAIN made : x = [made[m] EXCEPT !.args = AsJSON(@)]
        BY <2>1, <3>1, Zenon
      <4>2. PICK b \in T : made[m] = JsonCall(said, b)
        BY <1>5, Zenon
      <4>3. x = made[m]
        BY <2>3, <4>1, Zenon
      <4> QED
        BY <2>2, <4>2, <4>3, Zenon
    <3>2. ASSUME x \in {JsonCall(said, b) : b \in T} PROVE x \in Calls(made)
      <4>1. PICK b \in T : x = JsonCall(said, b)
        BY <2>2, <3>2, Zenon
      <4>2. PICK m \in DOMAIN made : made[m] = JsonCall(said, b)
        BY <1>5, Zenon
      <4>3. x = [made[m] EXCEPT !.args = AsJSON(@)]
        BY <2>3, <4>1, <4>2, Zenon
      <4> QED
        BY <2>1, <4>3, Zenon
    <3> QED
      BY <3>1, <3>2
  <2> QED
    BY <2>4, Zenon
<1> QED
  BY <1>3, <1>4, <1>5, <1>6, Zenon DEF JsonCalls, T

\* An item of an output, with the arguments of a call as JSON.
InJson(item) == IF item.type = "function_call" THEN [item EXCEPT !.args = AsJSON(@)] ELSE item

\* The items that say a text and the calls of an answer.
ItemsSaid(text, s) ==
  (IF text = <<>> THEN {} ELSE {TextItem(text)}) \cup {CallItem(JsonCall(s, b)) : b \in ToolsOf(s)}

\* The items of a text and of calls, with the arguments as JSON.
LEMMA InJsonFacts ==
  ASSUME NEW s, NEW b, NEW text
  PROVE  /\ InJson(TextItem(text)) = TextItem(text)
         /\ InJson(CallItem(WholeCall(s, b))) = CallItem(JsonCall(s, b))
         /\ InJson(CallItem(JsonCall(s, b))) = CallItem(JsonCall(s, b))
<1>1. InJson(TextItem(text)) = TextItem(text)
  BY DEF InJson, TextItem
<1>2. CallItem(WholeCall(s, b)).type = "function_call" /\ CallItem(JsonCall(s, b)).type = "function_call"
  BY DEF CallItem
<1> QED
  BY <1>1, <1>2, JsonOfCall, Zenon DEF InJson

\* An output whose items are the text, if there is any, and the calls.
ItemsTell(output, text, s) ==
  /\ \A n \in DOMAIN output : \/ text # <<>> /\ InJson(output[n]) = TextItem(text)
                              \/ \E b \in ToolsOf(s) : InJson(output[n]) = CallItem(JsonCall(s, b))
  /\ text # <<>> => \E n \in DOMAIN output : InJson(output[n]) = TextItem(text)
  /\ \A b \in ToolsOf(s) : \E n \in DOMAIN output : InJson(output[n]) = CallItem(JsonCall(s, b))

\* An output that tells a text and the calls is made of the items that say them.
LEMMA ItemsAreSaid ==
  ASSUME NEW output, NEW text, NEW s, ItemsTell(output, text, s)
  PROVE  ItemsOf(output) = ItemsSaid(text, s)
<1>0. /\ \A n \in DOMAIN output : \/ text # <<>> /\ InJson(output[n]) = TextItem(text)
                                  \/ \E b \in ToolsOf(s) : InJson(output[n]) = CallItem(JsonCall(s, b))
      /\ text # <<>> => \E n \in DOMAIN output : InJson(output[n]) = TextItem(text)
      /\ \A b \in ToolsOf(s) : \E n \in DOMAIN output : InJson(output[n]) = CallItem(JsonCall(s, b))
  BY Zenon DEF ItemsTell
<1>1. \A x : x \in ItemsOf(output) <=> \E n \in DOMAIN output : x = InJson(output[n])
  BY Zenon DEF ItemsOf, InJson
<1>2. \A x : x \in ItemsSaid(text, s) <=> \/ text # <<>> /\ x = TextItem(text)
                                          \/ \E b \in ToolsOf(s) : x = CallItem(JsonCall(s, b))
  <2> DEFINE C == {CallItem(JsonCall(s, b)) : b \in ToolsOf(s)}
             t == TextItem(text)
  <2>1. \A x : x \in C <=> \E b \in ToolsOf(s) : x = CallItem(JsonCall(s, b))
    BY Zenon
  <2>2. ItemsSaid(text, s) = (IF text = <<>> THEN {} ELSE {t}) \cup C
    BY Zenon DEF ItemsSaid
  <2> HIDE DEF C, t
  <2>3. \A x : x \in ItemsSaid(text, s) <=> (text # <<>> /\ x = t) \/ x \in C
    BY <2>2
  <2> QED
    BY <2>1, <2>3, Zenon DEF t
<1>3. \A x : x \in ItemsOf(output) <=> x \in ItemsSaid(text, s)
  <2> TAKE x
  <2>1. ASSUME x \in ItemsOf(output) PROVE x \in ItemsSaid(text, s)
    <3>1. PICK n \in DOMAIN output : x = InJson(output[n])
      BY <1>1, <2>1, Zenon
    <3>2. CASE text # <<>> /\ InJson(output[n]) = TextItem(text)
      BY <1>2, <3>1, <3>2, Zenon
    <3>3. CASE \E b \in ToolsOf(s) : InJson(output[n]) = CallItem(JsonCall(s, b))
      BY <1>2, <3>1, <3>3, Zenon
    <3> QED
      BY <1>0, <3>2, <3>3, Zenon
  <2>2. ASSUME x \in ItemsSaid(text, s) PROVE x \in ItemsOf(output)
    <3>1. CASE text # <<>> /\ x = TextItem(text)
      <4>1. PICK n \in DOMAIN output : InJson(output[n]) = TextItem(text)
        BY <1>0, <3>1, Zenon
      <4> QED
        BY <1>1, <3>1, <4>1, Zenon
    <3>2. CASE \E b \in ToolsOf(s) : x = CallItem(JsonCall(s, b))
      <4>1. PICK b \in ToolsOf(s) : x = CallItem(JsonCall(s, b))
        BY <3>2, Zenon
      <4>2. PICK n \in DOMAIN output : InJson(output[n]) = CallItem(JsonCall(s, b))
        BY <1>0, Zenon
      <4> QED
        BY <1>1, <4>1, <4>2, Zenon
    <3> QED
      BY <1>2, <2>2, <3>1, <3>2, Zenon
  <2> QED
    BY <2>1, <2>2
<1> QED
  BY <1>3, Zenon

\* The output of the adapter says its text and the calls of the model.
LEMMA OutputAsSaid ==
  ASSUME NEW s \in Seq(Forms), NEW by, NEW n, NEW p, Finished(s, n, p), NEW a, TextHeld(a), CallsSaid(a.calls, s, by, n, p)
  PROVE  ItemsOf(Output(a)) = ItemsSaid(a.text, s)
<1> DEFINE o == Output(a)
           T == ToolsOf(s)
<1>1. /\ a.next \in Nat
      /\ (a.textIndex = -1 /\ a.text = <<>>) \/ a.textIndex \in 0 .. a.next - 1
      /\ DOMAIN a.calls = DOMAIN a.outs
      /\ \A i \in DOMAIN a.outs : a.outs[i] \in 0 .. a.next - 1
      /\ \A out \in 0 .. a.next - 1 : out = a.textIndex \/ \E i \in DOMAIN a.outs : a.outs[i] = out
      /\ a.text = <<>> => a.textIndex = -1
      /\ Books(a)
  BY Zenon DEF TextHeld, Books
<1>2. /\ \A i \in DOMAIN a.calls : \E b \in T : a.calls[i] = WholeCall(s, b)
      /\ \A b \in T : \E i \in DOMAIN a.calls : a.calls[i] = WholeCall(s, b)
  <2>1. KeepsCalls(a.calls, s)
    BY CallsKept, Zenon
  <2> QED
    BY <2>1, Zenon DEF KeepsCalls
<1>3. /\ DOMAIN o = 1 .. a.next
      /\ \A m \in 1 .. a.next : o[m] = ItemAt(a, m - 1) /\ m - 1 \in 0 .. a.next - 1
      /\ \A out \in 0 .. a.next - 1 : \E m \in 1 .. a.next : o[m] = ItemAt(a, out)
  <2>1. o = [m \in 1 .. a.next |-> ItemAt(a, m - 1)]
    BY DEF Output
  <2> HIDE DEF o
  <2>2. DOMAIN o = 1 .. a.next /\ \A m \in 1 .. a.next : o[m] = ItemAt(a, m - 1)
    BY <2>1
  <2>3. \A m \in 1 .. a.next : m - 1 \in 0 .. a.next - 1
    BY <1>1
  <2>4. ASSUME NEW out \in 0 .. a.next - 1 PROVE \E m \in 1 .. a.next : o[m] = ItemAt(a, out)
    <3>1. out + 1 \in 1 .. a.next /\ (out + 1) - 1 = out
      BY <1>1
    <3> QED
      BY <2>2, <3>1
  <2> QED
    BY <2>2, <2>3, <2>4
<1>4. /\ a.textIndex # -1 => ItemAt(a, a.textIndex) = TextItem(a.text)
      /\ \A i \in DOMAIN a.outs : ItemAt(a, a.outs[i]) = CallItem(a.calls[i])
  BY <1>1, BooksItems, Zenon
<1> HIDE DEF o, T
<1>5. \A m \in DOMAIN o : \/ a.text # <<>> /\ InJson(o[m]) = TextItem(a.text)
                          \/ \E b \in T : InJson(o[m]) = CallItem(JsonCall(s, b))
  <2> TAKE m \in DOMAIN o
  <2>1. PICK out \in 0 .. a.next - 1 : o[m] = ItemAt(a, out)
    BY <1>3, Zenon
  <2>2. CASE out = a.textIndex
    <3>1. a.textIndex # -1
      BY <1>1, <2>2
    <3>2. a.text # <<>> /\ o[m] = TextItem(a.text)
      BY <1>1, <1>4, <2>1, <2>2, <3>1, Zenon
    <3> QED
      BY <3>2, InJsonFacts, Zenon
  <2>3. CASE \E i \in DOMAIN a.outs : a.outs[i] = out
    <3>1. PICK i \in DOMAIN a.outs : a.outs[i] = out
      BY <2>3
    <3>2. PICK b \in T : a.calls[i] = WholeCall(s, b)
      BY <1>1, <1>2, Zenon
    <3>3. o[m] = CallItem(WholeCall(s, b))
      BY <1>4, <2>1, <3>1, <3>2, Zenon
    <3>4. InJson(o[m]) = CallItem(JsonCall(s, b))
      BY <3>3, InJsonFacts, Zenon
    <3> QED
      BY <3>4
  <2> QED
    BY <1>1, <2>2, <2>3, Zenon
<1>6. a.text # <<>> => \E m \in DOMAIN o : InJson(o[m]) = TextItem(a.text)
  <2> SUFFICES ASSUME a.text # <<>> PROVE \E m \in DOMAIN o : InJson(o[m]) = TextItem(a.text)
    OBVIOUS
  <2>1. a.textIndex \in 0 .. a.next - 1 /\ a.textIndex # -1
    BY <1>1
  <2>2. PICK m \in DOMAIN o : o[m] = TextItem(a.text)
    BY <1>3, <1>4, <2>1, Zenon
  <2> QED
    BY <2>2, InJsonFacts, Zenon
<1>7. \A b \in T : \E m \in DOMAIN o : InJson(o[m]) = CallItem(JsonCall(s, b))
  <2> TAKE b \in T
  <2>1. PICK i \in DOMAIN a.outs : a.calls[i] = WholeCall(s, b)
    BY <1>1, <1>2, Zenon
  <2>2. PICK m \in DOMAIN o : o[m] = ItemAt(a, a.outs[i])
    BY <1>1, <1>3, Zenon
  <2>3. o[m] = CallItem(WholeCall(s, b))
    BY <1>4, <2>1, <2>2, Zenon
  <2>4. InJson(o[m]) = CallItem(JsonCall(s, b))
    BY <2>3, InJsonFacts, Zenon
  <2> QED
    BY <2>4
<1> QED
  <2>1. ItemsTell(o, a.text, s)
    BY <1>5, <1>6, <1>7, Zenon DEF ItemsTell, T
  <2> QED
    BY <2>1, ItemsAreSaid, Zenon DEF o

\* A sequence with one element put before it.
LEMMA OneBefore ==
  ASSUME NEW k \in Nat, NEW f, DOMAIN f = 1 .. k, f = [m \in 1 .. k |-> f[m]], NEW x
  PROVE  /\ <<>> \o f = f
         /\ LET g == <<x>> \o f
            IN DOMAIN g = 1 .. k + 1 /\ g[1] = x /\ \A m \in 1 .. k : m + 1 \in 1 .. k + 1 /\ g[m + 1] = f[m]
<1> DEFINE E == {f[m] : m \in 1 .. k} \cup {x}
           one == <<x>>
           g == one \o f
<1>1. f \in Seq(E)
  <2>1. f \in [1 .. k -> E]
    OBVIOUS
  <2> QED
    BY <2>1
<1>2. one \in Seq(E) /\ Len(one) = 1 /\ one[1] = x
  <2>1. x \in E
    OBVIOUS
  <2> HIDE DEF E
  <2> QED
    BY <2>1
<1> HIDE DEF E, one
<1>3. <<>> \o f = f
  BY <1>1, ConcatEmptySeq
<1>4. Len(f) = k
  BY <1>1
<1>5. DOMAIN g = 1 .. k + 1 /\ g[1] = x /\ \A m \in 1 .. k : m + 1 \in 1 .. k + 1 /\ g[m + 1] = f[m]
  <2>1. Len(g) = k + 1 /\ g \in Seq(E)
    <3>1. g \in Seq(E) /\ Len(g) = Len(one) + Len(f)
      BY <1>1, <1>2, ConcatProperties, Zenon
    <3>2. Len(one) + Len(f) = k + 1
      BY <1>2, <1>4
    <3> QED
      BY <3>1, <3>2, Zenon
  <2>2. DOMAIN g = 1 .. k + 1
    BY <2>1
  <2>3. \A i \in 1 .. k + 1 : g[i] = IF i <= 1 THEN one[i] ELSE f[i - 1]
    <3>1. \A i \in 1 .. Len(one) + Len(f) : g[i] = IF i <= Len(one) THEN one[i] ELSE f[i - Len(one)]
      BY <1>1, <1>2, ConcatProperties
    <3>2. 1 .. Len(one) + Len(f) = 1 .. k + 1
      BY <1>2, <1>4
    <3> QED
      BY <1>2, <3>1, <3>2, Zenon
  <2>4. g[1] = x
    <3>1. 1 \in 1 .. k + 1 /\ 1 <= 1
      OBVIOUS
    <3> QED
      BY <1>2, <2>3, <3>1, Zenon
  <2>5. ASSUME NEW m \in 1 .. k PROVE m + 1 \in 1 .. k + 1 /\ g[m + 1] = f[m]
    <3>1. m + 1 \in 1 .. k + 1 /\ ~ (m + 1 <= 1) /\ (m + 1) - 1 = m
      OBVIOUS
    <3>2. g[m + 1] = f[(m + 1) - 1]
      BY <2>3, <3>1, Zenon
    <3> QED
      BY <3>1, <3>2, Zenon
  <2> QED
    BY <2>2, <2>4, <2>5
<1> QED
  BY <1>3, <1>5 DEF one

\* The output made of a whole Chat answer says its text and the calls of the model.
LEMMA ResponseAsSaid ==
  ASSUME said \in Seq(Forms), NEW m, m.calls = ToChatResponse(SaidBlocks).calls
  PROVE  ItemsOf(ResponseOutput(m)) = ItemsSaid(m.text, said)
<1> DEFINE made == m.calls
           T == ToolsOf(said)
           t == TextItem(m.text)
           f == [n \in DOMAIN made |-> CallItem(made[n])]
           o == ResponseOutput(m)
<1>1. /\ \A n \in DOMAIN made : \E b \in T : made[n] = JsonCall(said, b)
      /\ \A b \in T : \E n \in DOMAIN made : made[n] = JsonCall(said, b)
      /\ \E k \in Nat : DOMAIN made = 1 .. k
  BY CollectedAsSaid, Zenon
<1>2. PICK k \in Nat : DOMAIN made = 1 .. k
  BY <1>1
<1>3. o = (IF m.text = <<>> THEN <<>> ELSE <<t>>) \o f
  BY Zenon DEF ResponseOutput
<1>4. DOMAIN f = 1 .. k /\ f = [n \in 1 .. k |-> f[n]] /\ \A n \in 1 .. k : f[n] = CallItem(made[n])
  BY <1>2
<1> HIDE DEF made, T, f, o
<1>5. /\ <<>> \o f = f
      /\ LET g == <<t>> \o f
         IN DOMAIN g = 1 .. k + 1 /\ g[1] = t /\ \A n \in 1 .. k : n + 1 \in 1 .. k + 1 /\ g[n + 1] = f[n]
  <2> HIDE DEF t
  <2> QED
    BY <1>4, OneBefore
<1>6. /\ \A n \in 1 .. k : \E b \in T : InJson(f[n]) = CallItem(JsonCall(said, b))
      /\ \A b \in T : \E n \in 1 .. k : InJson(f[n]) = CallItem(JsonCall(said, b))
  <2>1. ASSUME NEW n \in 1 .. k PROVE \E b \in T : InJson(f[n]) = CallItem(JsonCall(said, b))
    <3>1. PICK b \in T : made[n] = JsonCall(said, b)
      BY <1>1, <1>2, Zenon
    <3>2. f[n] = CallItem(JsonCall(said, b))
      BY <1>4, <3>1, Zenon
    <3>3. InJson(f[n]) = CallItem(JsonCall(said, b))
      BY <3>2, InJsonFacts, Zenon
    <3> QED
      BY <3>3
  <2>2. ASSUME NEW b \in T PROVE \E n \in 1 .. k : InJson(f[n]) = CallItem(JsonCall(said, b))
    <3>1. PICK n \in 1 .. k : made[n] = JsonCall(said, b)
      BY <1>1, <1>2, Zenon
    <3>2. f[n] = CallItem(JsonCall(said, b))
      BY <1>4, <3>1, Zenon
    <3>3. InJson(f[n]) = CallItem(JsonCall(said, b))
      BY <3>2, InJsonFacts, Zenon
    <3> QED
      BY <3>3
  <2> QED
    BY <2>1, <2>2
<1>7. CASE m.text = <<>>
  <2>1. o = f
    BY <1>3, <1>5, <1>7, Zenon
  <2>2. DOMAIN o = 1 .. k
    BY <1>4, <2>1, Zenon
  <2> QED
    <3>1. ItemsTell(o, m.text, said)
      BY <1>6, <1>7, <2>1, <2>2, Zenon DEF ItemsTell, T
    <3> QED
      BY <3>1, ItemsAreSaid, Zenon DEF o
<1>8. CASE m.text # <<>>
  <2>1. o = <<t>> \o f
    BY <1>3, <1>8, Zenon
  <2>2. DOMAIN o = 1 .. k + 1 /\ o[1] = t /\ \A n \in 1 .. k : n + 1 \in 1 .. k + 1 /\ o[n + 1] = f[n]
    BY <1>5, <2>1, Zenon
  <2>3. InJson(o[1]) = TextItem(m.text)
    BY <2>2, InJsonFacts, Zenon
  <2>4. 1 \in 1 .. k + 1 /\ \A n \in 1 .. k + 1 : n = 1 \/ \E j \in 1 .. k : n = j + 1
    <3>1. 1 \in 1 .. k + 1
      OBVIOUS
    <3>2. ASSUME NEW n \in 1 .. k + 1, n # 1 PROVE \E j \in 1 .. k : n = j + 1
      <4>1. n - 1 \in 1 .. k /\ n = (n - 1) + 1
        BY <3>2
      <4> QED
        BY <4>1
    <3> QED
      BY <3>1, <3>2
  <2>5. \A n \in DOMAIN o : \/ m.text # <<>> /\ InJson(o[n]) = TextItem(m.text)
                            \/ \E b \in T : InJson(o[n]) = CallItem(JsonCall(said, b))
    <3> TAKE n \in DOMAIN o
    <3>1. CASE n = 1
      BY <1>8, <2>3, <3>1, Zenon
    <3>2. CASE \E j \in 1 .. k : n = j + 1
      <4>1. PICK j \in 1 .. k : n = j + 1
        BY <3>2
      <4>2. o[n] = f[j]
        BY <2>2, <4>1, Zenon
      <4>3. \E b \in T : InJson(f[j]) = CallItem(JsonCall(said, b))
        BY <1>6, Zenon
      <4> QED
        BY <4>2, <4>3, Zenon
    <3> QED
      BY <2>2, <2>4, <3>1, <3>2, Zenon
  <2>6. \E n \in DOMAIN o : InJson(o[n]) = TextItem(m.text)
    BY <2>2, <2>3, <2>4, Zenon
  <2>7. \A b \in T : \E n \in DOMAIN o : InJson(o[n]) = CallItem(JsonCall(said, b))
    <3> TAKE b \in T
    <3>1. PICK j \in 1 .. k : InJson(f[j]) = CallItem(JsonCall(said, b))
      BY <1>6, Zenon
    <3>2. j + 1 \in DOMAIN o /\ o[j + 1] = f[j]
      BY <2>2, Zenon
    <3> QED
      BY <3>1, <3>2, Zenon
  <2> QED
    <3>1. ItemsTell(o, m.text, said)
      BY <2>5, <2>6, <2>7, Zenon DEF ItemsTell, T
    <3> QED
      BY <3>1, ItemsAreSaid, Zenon DEF o
<1> QED
  BY <1>7, <1>8

\* Kinds that differ in what was not told have the same text.
LEMMA TextsOfTold ==
  ASSUME said \in Seq(Forms), NEW K, NEW L, NEW U, ~Told(U), \A k : k \notin U => (k \in K <=> k \in L)
  PROVE  WholeText(said, K) = WholeText(said, L)
<1>1. \A b \in 1 .. Len(said) : Piece(said, K, b) = Piece(said, L, b)
  <2> TAKE b \in 1 .. Len(said)
  <2>1. said[b].parts \in Nat /\ b \in Nat /\ b \in DOMAIN said
    BY PartsOfBlocks
  <2>2. CASE said[b].kind \in U
    <3>1. ~ (said[b].parts > 0)
      BY <2>1, <2>2, Zenon DEF Told
    <3>2. said[b].parts = 0
      BY ONLY <2>1, <3>1
    <3>3. Parts(b, 0) = <<>>
      BY DEF Parts
    <3> QED
      BY <3>2, <3>3, Zenon DEF Piece
  <2>3. CASE said[b].kind \notin U
    <3>1. said[b].kind \in K <=> said[b].kind \in L
      BY <2>3, Zenon
    <3> QED
      BY <3>1, Zenon DEF Piece
  <2> QED
    BY <2>2, <2>3
<1> QED
  BY <1>1, SameText

\* Where nothing but the final answer was said beside it, all the text is the final answer;
\* and what a Chat stream passes on is what Chat returns, but for text they treat otherwise.
LEMMA TextsAgree ==
  ASSUME said \in Seq(Forms)
  PROVE  LET given == IF FinalText = <<>> THEN TextOf(SaidBlocks) ELSE FinalText
         IN /\ ~Commented => given = TextOf(SaidBlocks)
            /\ ~HeardOtherwise => given = WholeText(said, {"text", "plain"})
<1>1. FinalText = WholeText(said, {"text"}) /\ TextOf(SaidBlocks) = WholeText(said, {"text", "note", "plain"})
  BY TextsWhole, Zenon
<1>2. ~Told({"note", "plain"}) => WholeText(said, {"text"}) = WholeText(said, {"text", "note", "plain"})
  BY TextsOfTold
<1>3. ~Told({"plain"}) => WholeText(said, {"text"}) = WholeText(said, {"text", "plain"})
  BY TextsOfTold
<1>4. ~Told({"note"}) => WholeText(said, {"text", "note", "plain"}) = WholeText(said, {"text", "plain"})
  BY TextsOfTold
<1> QED
  BY <1>1, <1>2, <1>3, <1>4, Zenon DEF Commented, HeardOtherwise

\* What both callers of a finished stream have is what a caller of Chat is given.
LEMMA SameInTheEnd == ASSUME TurnInv PROVE SameEitherWay
<1> SUFFICES ASSUME upstream = "stopped" PROVE SameEitherWay
  BY Zenon DEF SameEitherWay
<1>1. /\ SaidSoFar(chat, adapted, said, backend, block, part) /\ block = Len(said) /\ BlockOver
      /\ said \in Seq(Forms) /\ \A b \in DOMAIN said : Speaks(backend, said[b])
      /\ backend \in {"anthropic", "codex"}
  <2>1. upstream \in {"streaming", "reason", "stopped"} /\ upstream \in {"reason", "stopped"}
    OBVIOUS
  <2>2. said \in Seq(Forms)
    BY DEF TurnInv, AdapterInv, TurnTyped
  <2> QED
    BY <2>1, <2>2, Zenon DEF TurnInv, CallersInv
<1>2. Finished(said, block, part)
  BY <1>1, Zenon DEF Finished, BlockOver
<1>3. /\ chat.text = SaidIn(said, {"text", "plain"}, block, part) /\ adapted.text = SaidIn(said, {"text", "note", "plain"}, block, part)
      /\ CallsSaid(chat.calls, said, backend, block, part) /\ CallsSaid(adapted.calls, said, backend, block, part)
      /\ TextHeld(adapted)
  BY <1>1, Zenon DEF SaidSoFar
<1>4. chat.text = WholeText(said, {"text", "plain"}) /\ adapted.text = TextOf(SaidBlocks)
  <2>1. \A kinds : SaidIn(said, kinds, block, part) = WholeText(said, kinds)
    BY <1>1, <1>2, SaidInTheEnd, Zenon DEF Finished
  <2> QED
    BY <1>1, <1>3, <2>1, TextsWhole, Zenon
<1>5. /\ Collected.text = IF FinalText = <<>> THEN TextOf(SaidBlocks) ELSE FinalText
      /\ Collected.calls = ToChatResponse(SaidBlocks).calls
  BY <1>1, CollectedText, Zenon
<1>6. ~HeardOtherwise => chat.text = Collected.text
  BY <1>1, <1>4, <1>5, TextsAgree, Zenon
<1>7. Calls(Streamed.calls) = Calls(Collected.calls)
  <2>1. Calls(Streamed.calls) = JsonCalls(said)
    BY <1>1, <1>2, <1>3, StreamedAsSaid, Zenon
  <2>2. Calls(Collected.calls) = JsonCalls(said)
    BY <1>1, <1>5, CollectedAsSaid, Zenon
  <2> QED
    BY <2>1, <2>2, Zenon
<1>8. ~Commented => ItemsOf(Output(adapted)) = ItemsOf(ResponseOutput(Collected))
  <2> SUFFICES ASSUME ~Commented PROVE ItemsOf(Output(adapted)) = ItemsOf(ResponseOutput(Collected))
    OBVIOUS
  <2>1. ItemsOf(Output(adapted)) = ItemsSaid(adapted.text, said)
    BY <1>1, <1>2, <1>3, OutputAsSaid, Zenon
  <2>2. ItemsOf(ResponseOutput(Collected)) = ItemsSaid(Collected.text, said)
    BY <1>1, <1>5, ResponseAsSaid, Zenon
  <2>3. Collected.text = adapted.text
    BY <1>1, <1>4, <1>5, TextsAgree, Zenon
  <2> QED
    BY <2>1, <2>2, <2>3, Zenon
<1> QED
  BY <1>6, <1>7, <1>8, Zenon DEF SameEitherWay

\* Every event keeps the invariant of an answer.
LEMMA TurnInvStep == ASSUME TurnInv, [TurnNext]_turnVars PROVE TurnInv'
<1>1. AdapterInv'
  <2>1. AdapterInv
    BY Zenon DEF TurnInv
  <2> QED
    BY <2>1, TurnStepKeepsInv
<1>2. CallersInv'
  BY CallersStep
<1> QED
  BY <1>1, <1>2, Zenon DEF TurnInv

\* However an answer is cut into blocks and parts, on either backend, and whatever calls run in
\* it beside the text: a Chat stream, a Responses stream and the collected answer end with the
\* same text and the same calls, with the same arguments.
THEOREM StreamedAsCollected == TurnSpec => []SameEitherWay
<1>1. TurnInit => TurnInv
  BY TurnInvInit
<1>2. TurnInv /\ [TurnNext]_turnVars => TurnInv'
  BY TurnInvStep
<1>3. TurnInv => SameEitherWay
  BY SameInTheEnd
<1> QED
  BY <1>1, <1>2, <1>3, PTL DEF TurnSpec

------------------------------------------------------------------------------
(* AdaptedTurn: the request that follows.                                      *)

\* The greatest of some numbers.
LEMMA MaxUpto ==
  ASSUME NEW m \in Nat, NEW s, s \subseteq 1 .. m, s # {}
  PROVE  Max(s) \in s /\ \A y \in s : y <= Max(s)
<1>1. s \subseteq Nat /\ \A x \in s : x <= m
  OBVIOUS
<1> QED
  BY <1>1, MaxFacts

\* The fold that convertMessages is, over the first m messages.
ConvertStep(g, q, m) ==
  [s \in SUBSET (1 .. m) |-> IF s = {} THEN <<>> ELSE ConvertMessage(g[s \ {Max(s)}], q[Max(s)])]

\* The fold that convertMessages is has its values, for any number of messages.
LEMMA ConvertFolds == ASSUME NEW q PROVE \A m \in Nat : \E g : g = ConvertStep(g, q, m)
<1> DEFINE T == {m \in Nat : \E g : g = ConvertStep(g, q, m)}
<1>1. 0 \in T
  <2> DEFINE G == [s \in SUBSET (1 .. 0) |-> <<>>]
  <2>1. \A s \in SUBSET (1 .. 0) : s = {}
    OBVIOUS
  <2>2. G = ConvertStep(G, q, 0)
    BY <2>1 DEF ConvertStep
  <2> HIDE DEF G
  <2>3. 0 \in Nat
    OBVIOUS
  <2> QED
    BY <2>2, <2>3, Zenon
<1>2. ASSUME NEW m \in Nat, m \in T PROVE m + 1 \in T
  <2>1. PICK g : g = ConvertStep(g, q, m)
    BY <1>2, Zenon
  <2>2. \A s \in SUBSET (1 .. m) : g[s] = IF s = {} THEN <<>> ELSE ConvertMessage(g[s \ {Max(s)}], q[Max(s)])
    <3>1. g = [s \in SUBSET (1 .. m) |-> IF s = {} THEN <<>> ELSE ConvertMessage(g[s \ {Max(s)}], q[Max(s)])]
      BY <2>1, Zenon DEF ConvertStep
    <3> QED
      BY <3>1, Zenon
  <2> DEFINE A == SUBSET (1 .. m)
             B == SUBSET (1 .. (m + 1))
             G == [s \in B |-> IF s \in A THEN g[s] ELSE ConvertMessage(g[s \ {m + 1}], q[m + 1])]
  <2>3. {} \in A /\ A \subseteq B /\ \A s \in A : s \ {Max(s)} \in A
    <3>1. 1 .. m \subseteq 1 .. (m + 1)
      OBVIOUS
    <3> QED
      BY <3>1
  <2>4. \A s \in B : s \notin A => s # {} /\ s \ {m + 1} \in A /\ Max(s) = m + 1
    <3> TAKE s \in B
    <3> SUFFICES ASSUME s \notin A PROVE s # {} /\ s \ {m + 1} \in A /\ Max(s) = m + 1
      OBVIOUS
    <3>1. m + 1 \in s /\ s \subseteq 1 .. (m + 1) /\ s \ {m + 1} \in A /\ s # {}
      <4>1. \A x \in 1 .. (m + 1) : x \in 1 .. m \/ x = m + 1
        OBVIOUS
      <4>2. s \subseteq 1 .. (m + 1) /\ ~ (s \subseteq 1 .. m)
        OBVIOUS
      <4>3. m + 1 \in s /\ s \ {m + 1} \subseteq 1 .. m
        BY <4>1, <4>2
      <4> QED
        BY <4>2, <4>3
    <3>2. Max(s) \in s /\ \A y \in s : y <= Max(s)
      <4>1. m + 1 \in Nat
        OBVIOUS
      <4> QED
        BY <3>1, <4>1, MaxUpto
    <3> HIDE DEF A, B
    <3>3. Max(s) \in 1 .. (m + 1) /\ m + 1 <= Max(s)
      BY <3>1, <3>2
    <3>4. Max(s) = m + 1
      BY ONLY <3>3, m \in Nat
    <3> QED
      BY <3>1, <3>4
  <2>5. \A s \in A : G[s] = g[s]
    BY <2>3
  <2>6. \A s \in B : G[s] = IF s = {} THEN <<>> ELSE ConvertMessage(G[s \ {Max(s)}], q[Max(s)])
    <3> TAKE s \in B
    <3>1. CASE s \in A
      <4>1. G[s] = g[s] /\ G[s \ {Max(s)}] = g[s \ {Max(s)}]
        BY <2>3, <2>5, <3>1, Zenon
      <4>2. g[s] = IF s = {} THEN <<>> ELSE ConvertMessage(g[s \ {Max(s)}], q[Max(s)])
        BY <2>2, <3>1, Zenon
      <4> HIDE DEF G
      <4> QED
        BY <4>1, <4>2, Zenon
    <3>2. CASE s \notin A
      <4>1. s # {} /\ s \ {m + 1} \in A /\ Max(s) = m + 1
        BY <2>4, <3>2, Zenon
      <4>2. G[s] = ConvertMessage(g[s \ {m + 1}], q[m + 1])
        BY <3>2, Zenon
      <4>3. G[s \ {m + 1}] = g[s \ {m + 1}]
        BY <2>5, <4>1, Zenon
      <4> HIDE DEF G
      <4> QED
        BY <4>1, <4>2, <4>3, Zenon
    <3> QED
      BY <3>1, <3>2
  <2>7. G = [s \in B |-> G[s]]
    OBVIOUS
  <2> HIDE DEF G
  <2>8. G = ConvertStep(G, q, m + 1)
    BY <2>6, <2>7, Zenon DEF ConvertStep
  <2>9. m + 1 \in Nat
    OBVIOUS
  <2> QED
    BY <2>8, <2>9, Zenon
<1> HIDE DEF T
<1>3. Nat \subseteq T
  BY <1>1, <1>2, NatSetInduction, Zenon
<1> QED
  BY <1>3 DEF T

\* convertMessages, message by message.
LEMMA Converted ==
  ASSUME NEW q, NEW n \in Nat, DOMAIN q = 1 .. n
  PROVE  \E v : /\ v[0] = <<>> /\ ConvertMessages(q) = v[n]
                /\ \A m \in 0 .. n - 1 : v[m + 1] = ConvertMessage(v[m], q[m + 1])
<1> DEFINE Step(g) == [s \in SUBSET (DOMAIN q) |-> IF s = {} THEN <<>> ELSE ConvertMessage(g[s \ {Max(s)}], q[Max(s)])]
           iter == CHOOSE g : g = Step(g)
           v == [m \in 0 .. n |-> iter[1 .. m]]
<1>1. \E g : g = Step(g)
  <2>1. \E g : g = ConvertStep(g, q, n)
    BY ConvertFolds
  <2> QED
    BY <2>1, Zenon DEF ConvertStep
<1>2. iter = Step(iter)
  <2> HIDE DEF Step
  <2> QED
    BY <1>1, Zenon
<1>3. ConvertMessages(q) = iter[DOMAIN q]
  BY Zenon DEF ConvertMessages, FoldLeft, MapThenFoldSet
<1> HIDE DEF iter
<1>4. \A s \in SUBSET (1 .. n) : iter[s] = IF s = {} THEN <<>> ELSE ConvertMessage(iter[s \ {Max(s)}], q[Max(s)])
  <2>1. iter = [s \in SUBSET (1 .. n) |-> IF s = {} THEN <<>> ELSE ConvertMessage(iter[s \ {Max(s)}], q[Max(s)])]
    BY <1>2, Zenon
  <2> QED
    BY <2>1, Zenon
<1>5. v[0] = <<>>
  <2>1. 1 .. 0 = {} /\ 0 \in 0 .. n /\ {} \in SUBSET (1 .. n)
    OBVIOUS
  <2>2. v[0] = iter[1 .. 0]
    BY <2>1, Zenon
  <2> QED
    BY <1>4, <2>1, <2>2, Zenon
<1>6. ConvertMessages(q) = v[n]
  <2>1. n \in 0 .. n
    OBVIOUS
  <2>2. v[n] = iter[1 .. n]
    BY <2>1, Zenon
  <2> QED
    BY <1>3, <2>2, Zenon
<1>7. ASSUME NEW m \in 0 .. n - 1 PROVE v[m + 1] = ConvertMessage(v[m], q[m + 1])
  <2> DEFINE s == 1 .. (m + 1)
  <2>1. /\ m \in Nat /\ m + 1 \in Nat /\ m \in 0 .. n /\ m + 1 \in 0 .. n
        /\ s # {} /\ s \in SUBSET (1 .. n) /\ s \ {m + 1} = 1 .. m /\ m + 1 \in s
    OBVIOUS
  <2>2. Max(s) = m + 1
    <3>1. Max(s) \in s /\ \A y \in s : y <= Max(s)
      BY <2>1, MaxUpto
    <3>2. m + 1 <= Max(s) /\ Max(s) \in 1 .. (m + 1)
      BY <2>1, <3>1
    <3> QED
      BY ONLY <2>1, <3>2
  <2>3. v[m + 1] = iter[s] /\ v[m] = iter[1 .. m]
    BY <2>1, Zenon
  <2> HIDE DEF s, v
  <2>4. iter[s] = ConvertMessage(iter[s \ {Max(s)}], q[Max(s)])
    BY <1>4, <2>1, Zenon
  <2> QED
    BY <2>1, <2>2, <2>3, <2>4, Zenon
<1> HIDE DEF v
<1> QED
  BY <1>5, <1>6, <1>7, Zenon

\* A message of the Messages API and the blocks it has.
MessageBy(role, blocks) == [role |-> role, blocks |-> blocks]
ResultBlock(id) == [type |-> "tool_result", answers |-> id]
TextBlock(text) == [type |-> "text", text |-> text]
CallBlocks(message) == ContentBlocks(message) \o [n \in DOMAIN message.calls |-> ToolUse(message.calls[n])]

\* A sequence that ends in an element, and is another before it.
LEMMA AppendIs ==
  ASSUME NEW E, NEW s \in Seq(E), NEW e \in E, NEW t \in Seq(E), Len(t) = Len(s) + 1, t[Len(s) + 1] = e,
         \A i \in 1 .. Len(s) : t[i] = s[i]
  PROVE  Append(s, e) = t
<1> DEFINE g == Append(s, e)
<1>1. Len(s) \in Nat
  OBVIOUS
<1>2. g \in Seq(E)
  BY AppendFacts
<1>3. g[Len(s) + 1] = e
  BY AppendFacts
<1>4. \A i \in 1 .. Len(s) : g[i] = s[i]
  BY AppendFacts
<1>5. DOMAIN g = 1 .. Len(s) + 1
  BY AppendFacts
<1> HIDE DEF g
<1>6. Len(g) = Len(s) + 1
  BY <1>1, <1>2, <1>5
<1>7. \A i \in 1 .. Len(g) : g[i] = t[i]
  BY <1>1, <1>3, <1>4, <1>6
<1>8. g = t
  BY <1>2, <1>6, <1>7
<1> QED
  BY <1>8 DEF g

\* A sequence of two, built up.
LEMMA AppendToOne == ASSUME NEW x, NEW y PROVE Append(<<x>>, y) = <<x, y>>
<1> DEFINE E == {x, y}
           s == <<x>>
           t == <<x, y>>
<1>1. x \in E /\ y \in E
  OBVIOUS
<1> HIDE DEF E
<1>2. s \in Seq(E) /\ t \in Seq(E) /\ Len(t) = Len(s) + 1 /\ t[Len(s) + 1] = y
      /\ \A i \in 1 .. Len(s) : t[i] = s[i]
  BY <1>1
<1> HIDE DEF s, t
<1>3. Append(s, y) = t
  BY <1>1, <1>2, AppendIs, Zenon
<1> QED
  BY <1>3 DEF s, t

\* The same for three.
LEMMA AppendToTwo == ASSUME NEW x, NEW y, NEW z PROVE Append(<<x, y>>, z) = <<x, y, z>>
<1> DEFINE E == {x, y, z}
           s == <<x, y>>
           t == <<x, y, z>>
<1>1. x \in E /\ y \in E /\ z \in E
  OBVIOUS
<1> HIDE DEF E
<1>2. s \in Seq(E) /\ t \in Seq(E) /\ Len(t) = Len(s) + 1 /\ t[Len(s) + 1] = z
      /\ \A i \in 1 .. Len(s) : t[i] = s[i]
  BY <1>1
<1> HIDE DEF s, t
<1>3. Append(s, z) = t
  BY <1>1, <1>2, AppendIs, Zenon
<1> QED
  BY <1>3 DEF s, t

\* One more value of a function.
LEMMA FunctionGrows ==
  ASSUME NEW f, NEW j \in Nat
  PROVE  [i \in 1 .. j |-> f[i]] \o <<f[j + 1]>> = [i \in 1 .. (j + 1) |-> f[i]]
<1> DEFINE g == [i \in 1 .. j |-> f[i]]
           h == [i \in 1 .. (j + 1) |-> f[i]]
           E == {f[i] : i \in 1 .. (j + 1)}
           x == f[j + 1]
<1>1. g \in Seq(E) /\ Len(g) = j /\ h \in Seq(E) /\ Len(h) = j + 1 /\ x \in E
  <2>1. g \in [1 .. j -> E] /\ h \in [1 .. (j + 1) -> E] /\ x \in E
    OBVIOUS
  <2> HIDE DEF E
  <2> QED
    BY <2>1
<1>2. h[j + 1] = x /\ \A i \in 1 .. j : h[i] = g[i]
  OBVIOUS
<1> HIDE DEF g, h, E, x
<1>3. g \o <<x>> = h
  <2>1. g \o <<x>> = Append(g, x)
    BY <1>1
  <2>2. Append(g, x) \in Seq(E) /\ Len(Append(g, x)) = j + 1 /\ Append(g, x)[j + 1] = x
        /\ \A i \in 1 .. j : Append(g, x)[i] = g[i]
    BY <1>1, AppendProperties
  <2>3. \A i \in 1 .. (j + 1) : Append(g, x)[i] = h[i]
    BY <1>2, <2>2
  <2> QED
    BY <1>1, <2>1, <2>2, <2>3
<1> QED
  BY <1>3 DEF g, h, x

\* Three elements put before others.
LEMMA ThreeBefore ==
  ASSUME NEW k \in Nat, NEW f, f = [m \in 1 .. k |-> f[m]], NEW x, NEW y, NEW z
  PROVE  \A g : g = <<x, y, z>> \o f =>
           /\ DOMAIN g = 1 .. k + 3 /\ g[1] = x /\ g[2] = y /\ g[3] = z
           /\ \A m \in 1 .. k : g[m + 3] = f[m]
<1> DEFINE E == {f[m] : m \in 1 .. k} \cup {x, y, z}
           three == <<x, y, z>>
           g == three \o f
<1>1. f \in Seq(E) /\ Len(f) = k
  <2>1. f \in [1 .. k -> E]
    OBVIOUS
  <2> HIDE DEF E
  <2> QED
    BY <2>1
<1>2. three \in Seq(E) /\ Len(three) = 3 /\ three[1] = x /\ three[2] = y /\ three[3] = z
  <2>1. x \in E /\ y \in E /\ z \in E
    OBVIOUS
  <2> HIDE DEF E
  <2> QED
    BY <2>1
<1> HIDE DEF E, three
<1>3. g \in Seq(E) /\ Len(g) = Len(three) + Len(f)
      /\ \A i \in 1 .. Len(three) + Len(f) : g[i] = IF i <= Len(three) THEN three[i] ELSE f[i - Len(three)]
  BY <1>1, <1>2, ConcatProperties, Zenon
<1>4. Len(three) + Len(f) = k + 3
  BY <1>1, <1>2
<1> HIDE DEF g
<1>5. \A i \in 1 .. k + 3 : g[i] = IF i <= 3 THEN three[i] ELSE f[i - 3]
  BY <1>2, <1>3, <1>4, Zenon
<1>6. DOMAIN g = 1 .. k + 3
  <2>1. g \in Seq(E) /\ Len(g) = k + 3
    BY <1>3, <1>4, Zenon
  <2> QED
    BY <2>1
<1>7. g[1] = x /\ g[2] = y /\ g[3] = z
  <2>1. 1 \in 1 .. k + 3 /\ 2 \in 1 .. k + 3 /\ 3 \in 1 .. k + 3 /\ 1 <= 3 /\ 2 <= 3 /\ 3 <= 3
    OBVIOUS
  <2> QED
    BY <1>2, <1>5, <2>1, Zenon
<1>8. ASSUME NEW m \in 1 .. k PROVE g[m + 3] = f[m]
  <2>1. m + 3 \in 1 .. k + 3 /\ ~ (m + 3 <= 3) /\ (m + 3) - 3 = m
    OBVIOUS
  <2>2. g[m + 3] = f[(m + 3) - 3]
    BY <1>5, <2>1, Zenon
  <2> QED
    BY <2>1, <2>2, Zenon
<1> QED
  BY <1>6, <1>7, <1>8, Zenon DEF g, three

\* A system message is none of the messages.
LEMMA SystemConverted ==
  ASSUME NEW text, NEW q, q = Chat("system", text, <<>>, Unset)
  PROVE  ConvertMessage(<<>>, q) = <<>>
<1>1. q.role = "system"
  BY DEF Chat
<1>2. System(q)
  BY <1>1 DEF System
<1>3. q.role # "tool"
  BY <1>1
<1> QED
  BY <1>2, <1>3, Zenon DEF ConvertMessage

\* The question is the first.
LEMMA QuestionConverted ==
  ASSUME NEW text, text # <<>>, NEW q, q = User(text)
  PROVE  ConvertMessage(<<>>, q) = <<MessageBy("user", <<TextBlock(text)>>)>>
<1> DEFINE b == TextBlock(text)
           none == [n \in DOMAIN q.calls |-> ToolUse(q.calls[n])]
           blocks == ContentBlocks(q) \o none
<1>1. q.role = "user" /\ q.text = text /\ q.calls = <<>>
  BY DEF User, Chat
<1>2. ~System(q) /\ q.role # "tool" /\ q.role # "assistant"
  BY <1>1 DEF System
<1>3. ContentBlocks(q) = <<b>>
  BY <1>1, Zenon DEF ContentBlocks, TextBlock
<1>4. none = <<>>
  BY <1>1
<1> HIDE DEF b, none
<1>5. blocks = <<b>>
  <2>1. <<b>> \in Seq({b})
    OBVIOUS
  <2>2. <<b>> \o <<>> = <<b>>
    BY <2>1, ConcatEmptySeq, Zenon
  <2> QED
    BY <1>3, <1>4, <2>2, Zenon
<1>6. ConvertMessage(<<>>, q) = AppendMessage(<<>>, "user", blocks)
  BY <1>2, Zenon DEF ConvertMessage, none
<1> HIDE DEF blocks
<1>7. <<b>> # <<>> /\ Append(<<>>, MessageBy("user", <<b>>)) = <<MessageBy("user", <<b>>)>>
  <2> DEFINE w == MessageBy("user", <<b>>)
  <2> HIDE DEF w
  <2>1. Append(<<>>, w) = <<w>>
    OBVIOUS
  <2>2. <<b>> # <<>>
    OBVIOUS
  <2> QED
    BY <2>1, <2>2 DEF w
<1>8. AppendMessage(<<>>, "user", <<b>>) = Append(<<>>, MessageBy("user", <<b>>))
  BY <1>7, Zenon DEF AppendMessage, MessageBy
<1> QED
  BY <1>5, <1>6, <1>7, <1>8, Zenon DEF b

\* The answer of the assistant, with its calls, is the second.
LEMMA AnswerConverted ==
  ASSUME NEW blocks, NEW q, q.role = "assistant", CallBlocks(q) # <<>>
  PROVE  ConvertMessage(<<MessageBy("user", blocks)>>, q) = <<MessageBy("user", blocks), MessageBy("assistant", CallBlocks(q))>>
<1> DEFINE u == MessageBy("user", blocks)
           w == MessageBy("assistant", CallBlocks(q))
<1>1. ~System(q) /\ q.role # "tool"
  BY DEF System
<1>2. ConvertMessage(<<u>>, q) = AppendMessage(<<u>>, "assistant", CallBlocks(q))
  BY <1>1, Zenon DEF ConvertMessage, CallBlocks
<1>3. u.role = "user"
  BY DEF MessageBy
<1> HIDE DEF u
<1>4. Last(<<u>>) = u
  BY DEF Last
<1>5. Last(<<u>>).role # "assistant"
  BY <1>3, <1>4
<1>6. AppendMessage(<<u>>, "assistant", CallBlocks(q)) = Append(<<u>>, w)
  BY <1>5, Zenon DEF AppendMessage, MessageBy
<1>7. Append(<<u>>, w) = <<u, w>>
  BY AppendToOne, Zenon
<1> QED
  BY <1>2, <1>6, <1>7, Zenon DEF u, w

\* The first result opens a message of the user, and each further one is added to it.
LEMMA ResultConverted ==
  ASSUME NEW u, NEW a, a.role = "assistant", NEW id, NEW q, q = ToolResult(id)
  PROVE  /\ ConvertMessage(<<u, a>>, q) = <<u, a, MessageBy("user", <<ResultBlock(id)>>)>>
         /\ \A blocks : ConvertMessage(<<u, a, MessageBy("user", blocks)>>, q)
                          = <<u, a, MessageBy("user", blocks \o <<ResultBlock(id)>>)>>
<1> DEFINE r == ResultBlock(id)
           w == MessageBy("user", <<r>>)
<1>1. q.role = "tool" /\ q.answers = id
  BY DEF ToolResult, Chat
<1>2. ~System(q)
  BY <1>1 DEF System
<1>3. \A ms : ConvertMessage(ms, q) = AppendMessage(ms, "user", <<r>>)
  BY <1>1, <1>2, Zenon DEF ConvertMessage, ResultBlock
<1>4. <<r>> # <<>>
  <2> HIDE DEF r
  <2> QED
    OBVIOUS
<1> HIDE DEF r
<1>5. ConvertMessage(<<u, a>>, q) = <<u, a, w>>
  <2>1. Last(<<u, a>>) = a
    BY DEF Last
  <2>2. Last(<<u, a>>).role # "user"
    BY <2>1
  <2>3. AppendMessage(<<u, a>>, "user", <<r>>) = Append(<<u, a>>, w)
    BY <1>4, <2>2, Zenon DEF AppendMessage, MessageBy
  <2>4. Append(<<u, a>>, w) = <<u, a, w>>
    BY AppendToTwo, Zenon
  <2> QED
    BY <1>3, <2>3, <2>4, Zenon
<1>6. ASSUME NEW blocks PROVE ConvertMessage(<<u, a, MessageBy("user", blocks)>>, q) = <<u, a, MessageBy("user", blocks \o <<r>>)>>
  <2> DEFINE x == MessageBy("user", blocks)
             ms == <<u, a, x>>
             more == blocks \o <<r>>
             y == MessageBy("user", more)
  <2>1. x = [role |-> "user", blocks |-> blocks] /\ y = [role |-> "user", blocks |-> more]
    BY DEF MessageBy
  <2> HIDE DEF x, y
  <2>2. ms # <<>> /\ Len(ms) = 3 /\ Last(ms) = x
    BY DEF Last
  <2>3. Last(ms).role = "user"
    BY <2>1, <2>2
  <2> DEFINE k == Len(ms)
  <2>4. k = 3
    BY <2>2
  <2> HIDE DEF ms, k
  <2>5. AppendMessage(ms, "user", <<r>>) = [ms EXCEPT ![k].blocks = @ \o <<r>>]
    BY <1>4, <2>2, <2>3, Zenon DEF AppendMessage, k
  <2> HIDE DEF more
  <2>6. [ms EXCEPT ![3].blocks = more] = <<u, a, y>>
    BY <2>1 DEF ms
  <2>7. [ms EXCEPT ![3].blocks = @ \o <<r>>] = [ms EXCEPT ![3].blocks = more]
    <3>1. ms[3].blocks = blocks
      BY <2>1 DEF ms
    <3>2. ms[3].blocks \o <<r>> = more
      BY <3>1, Zenon DEF more
    <3> QED
      BY <3>2
  <2> QED
    BY <1>3, <2>4, <2>5, <2>6, <2>7, Zenon DEF ms, x, y, more
<1> QED
  BY <1>5, <1>6 DEF r, w

\* The blocks of the first k results.
ResultBlocks(ids, k) == [m \in 1 .. k |-> ResultBlock(ids[m])]

\* One more result.
LEMMA ResultBlocksGrow ==
  ASSUME NEW ids
  PROVE  /\ ResultBlocks(ids, 1) = <<ResultBlock(ids[1])>>
         /\ \A j \in Nat : ResultBlocks(ids, j) \o <<ResultBlock(ids[j + 1])>> = ResultBlocks(ids, j + 1)
<1>1. ResultBlocks(ids, 1) = <<ResultBlock(ids[1])>>
  <2> DEFINE x == ResultBlock(ids[1])
             E == {x}
             f == [m \in 1 .. 1 |-> ResultBlock(ids[m])]
             g == <<x>>
  <2>1. x \in E /\ f[1] = x /\ f = [m \in 1 .. 1 |-> f[m]]
    OBVIOUS
  <2> HIDE DEF E, x
  <2>2. g \in Seq(E) /\ Len(g) = 1 /\ g[1] = x
    BY <2>1
  <2> HIDE DEF f, g
  <2>3. f \in [1 .. 1 -> E]
    BY <2>1
  <2>4. f \in Seq(E) /\ Len(f) = 1
    <3>1. \A n \in Nat : f \in [1 .. n -> E] => f \in Seq(E) /\ Len(f) = n
      OBVIOUS
    <3>2. 1 \in Nat
      OBVIOUS
    <3> QED
      BY <2>3, <3>1, <3>2, Zenon
  <2>5. \A i \in 1 .. 1 : f[i] = g[i]
    BY <2>1, <2>2
  <2>6. f = g
    BY <2>2, <2>4, <2>5
  <2> QED
    BY <2>6 DEF f, g, x, ResultBlocks
<1>2. ASSUME NEW j \in Nat
      PROVE  ResultBlocks(ids, j) \o <<ResultBlock(ids[j + 1])>> = ResultBlocks(ids, j + 1)
  <2> DEFINE f == [m \in 1 .. (j + 1) |-> ResultBlock(ids[m])]
  <2>1. f[j + 1] = ResultBlock(ids[j + 1]) /\ [m \in 1 .. j |-> f[m]] = ResultBlocks(ids, j)
        /\ [m \in 1 .. (j + 1) |-> f[m]] = ResultBlocks(ids, j + 1)
    BY DEF ResultBlocks
  <2> HIDE DEF f
  <2>2. [m \in 1 .. j |-> f[m]] \o <<f[j + 1]>> = [m \in 1 .. (j + 1) |-> f[m]]
    BY FunctionGrows
  <2> QED
    BY <2>1, <2>2, Zenon
<1> QED
  BY <1>1, <1>2

\* The messages that a question, its answer and the results of the tools become.
Replayed(text, ans, ids, k) ==
  <<MessageBy("user", <<TextBlock(text)>>), MessageBy("assistant", CallBlocks(ans)), MessageBy("user", ResultBlocks(ids, k))>>

\* What convertMessages makes of a request with the results of tools, for any number of them:
\* three messages, all results in the third.
LEMMA RequestConverted ==
  ASSUME NEW k \in Nat, k # 0, NEW ids, NEW text, text # <<>>,
         NEW ans, ans.role = "assistant", CallBlocks(ans) # <<>>,
         NEW q, DOMAIN q = 1 .. k + 3, q[1] = Chat("system", text, <<>>, Unset), q[2] = User(text), q[3] = ans,
         \A m \in 1 .. k : q[m + 3] = ToolResult(ids[m])
  PROVE  ConvertMessages(q) = Replayed(text, ans, ids, k)
<1> DEFINE u == MessageBy("user", <<TextBlock(text)>>)
           a == MessageBy("assistant", CallBlocks(ans))
           R(j) == MessageBy("user", ResultBlocks(ids, j))
<1>0. k + 3 \in Nat
  OBVIOUS
<1>1. PICK v : /\ v[0] = <<>> /\ ConvertMessages(q) = v[k + 3]
               /\ \A m \in 0 .. (k + 3) - 1 : v[m + 1] = ConvertMessage(v[m], q[m + 1])
  <2> DEFINE n == k + 3
  <2>1. n \in Nat /\ DOMAIN q = 1 .. n
    BY <1>0
  <2> HIDE DEF n
  <2>2. \E v : /\ v[0] = <<>> /\ ConvertMessages(q) = v[n]
               /\ \A m \in 0 .. n - 1 : v[m + 1] = ConvertMessage(v[m], q[m + 1])
    BY <2>1, Converted, Zenon
  <2> QED
    BY <2>2, Zenon DEF n
<1>2. v[1] = ConvertMessage(v[0], q[1]) /\ v[2] = ConvertMessage(v[1], q[2]) /\ v[3] = ConvertMessage(v[2], q[3])
  <2>1. 0 \in 0 .. (k + 3) - 1 /\ 1 \in 0 .. (k + 3) - 1 /\ 2 \in 0 .. (k + 3) - 1 /\ 0 + 1 = 1 /\ 1 + 1 = 2 /\ 2 + 1 = 3
    OBVIOUS
  <2> QED
    BY <1>1, <2>1, Zenon
<1>3. v[1] = <<>>
  <2>1. ConvertMessage(<<>>, q[1]) = <<>>
    BY SystemConverted, Zenon
  <2> QED
    BY <1>1, <1>2, <2>1, Zenon
<1>4. v[2] = <<u>>
  <2>1. ConvertMessage(<<>>, q[2]) = <<u>>
    BY QuestionConverted, Zenon
  <2> QED
    BY <1>2, <1>3, <2>1, Zenon
<1>5. v[3] = <<u, a>>
  <2>1. ConvertMessage(<<u>>, q[3]) = <<u, a>>
    BY AnswerConverted, Zenon
  <2> QED
    BY <1>2, <1>4, <2>1, Zenon
<1>6. a.role = "assistant"
  BY DEF MessageBy
<1> HIDE DEF u, a
<1>7. \A j \in 1 .. k : /\ ConvertMessage(<<u, a>>, q[j + 3]) = <<u, a, MessageBy("user", <<ResultBlock(ids[j])>>)>>
                        /\ \A blocks : ConvertMessage(<<u, a, MessageBy("user", blocks)>>, q[j + 3])
                                         = <<u, a, MessageBy("user", blocks \o <<ResultBlock(ids[j])>>)>>
  <2> TAKE j \in 1 .. k
  <2> DEFINE x == q[j + 3]
             id == ids[j]
  <2>1. x = ToolResult(id)
    OBVIOUS
  <2> HIDE DEF x, id
  <2>2. /\ ConvertMessage(<<u, a>>, x) = <<u, a, MessageBy("user", <<ResultBlock(id)>>)>>
        /\ \A blocks : ConvertMessage(<<u, a, MessageBy("user", blocks)>>, x)
                         = <<u, a, MessageBy("user", blocks \o <<ResultBlock(id)>>)>>
    BY <1>6, <2>1, ResultConverted
  <2> QED
    BY <2>2, Zenon DEF x, id
<1> DEFINE T == {j \in Nat : j + 1 \in 1 .. k => v[j + 4] = <<u, a, R(j + 1)>>}
<1>8. 0 \in T
  <2>1. 1 \in 1 .. k /\ 3 \in 0 .. (k + 3) - 1 /\ 0 + 4 = 4 /\ 3 + 1 = 4 /\ 1 + 3 = 4 /\ 0 + 1 = 1 /\ 0 \in Nat
    OBVIOUS
  <2>2. v[4] = ConvertMessage(<<u, a>>, q[4])
    BY <1>1, <1>5, <2>1, Zenon
  <2>3. ConvertMessage(<<u, a>>, q[4]) = <<u, a, MessageBy("user", <<ResultBlock(ids[1])>>)>>
    BY <1>7, <2>1, Zenon
  <2>4. R(1) = MessageBy("user", <<ResultBlock(ids[1])>>)
    BY ResultBlocksGrow, Zenon
  <2> QED
    BY <2>1, <2>2, <2>3, <2>4, Zenon
<1>9. ASSUME NEW j \in Nat, j \in T PROVE j + 1 \in T
  <2> SUFFICES ASSUME (j + 1) + 1 \in 1 .. k PROVE v[(j + 1) + 4] = <<u, a, R((j + 1) + 1)>>
    OBVIOUS
  <2>1. j + 1 \in 1 .. k /\ j + 4 \in 0 .. (k + 3) - 1 /\ (j + 4) + 1 = (j + 1) + 4 /\ ((j + 1) + 1) + 3 = (j + 4) + 1
        /\ j + 1 \in Nat
    OBVIOUS
  <2>2. v[j + 4] = <<u, a, R(j + 1)>>
    BY <1>9, <2>1
  <2>3. v[(j + 4) + 1] = ConvertMessage(v[j + 4], q[(j + 4) + 1])
    BY <1>1, <2>1, Zenon
  <2>4. ConvertMessage(<<u, a, R(j + 1)>>, q[((j + 1) + 1) + 3])
          = <<u, a, MessageBy("user", ResultBlocks(ids, j + 1) \o <<ResultBlock(ids[(j + 1) + 1])>>)>>
    BY <1>7, Zenon
  <2>5. ResultBlocks(ids, j + 1) \o <<ResultBlock(ids[(j + 1) + 1])>> = ResultBlocks(ids, (j + 1) + 1)
    BY <2>1, ResultBlocksGrow, Zenon
  <2> QED
    BY <2>1, <2>2, <2>3, <2>4, <2>5, Zenon
<1> HIDE DEF T
<1>10. Nat \subseteq T
  BY <1>8, <1>9, NatSetInduction, Zenon
<1>11. v[k + 3] = <<u, a, R(k)>>
  <2>1. k - 1 \in Nat /\ (k - 1) + 1 = k /\ (k - 1) + 4 = k + 3 /\ k \in 1 .. k
    OBVIOUS
  <2>2. k - 1 \in T
    BY <1>10, <2>1
  <2>3. (k - 1) + 1 \in 1 .. k => v[(k - 1) + 4] = <<u, a, R((k - 1) + 1)>>
    BY <2>2, Zenon DEF T
  <2> QED
    BY <2>1, <2>3, Zenon
<1> QED
  BY <1>1, <1>11, Zenon DEF u, a, Replayed

\* A function on the numbers up to k that grows, and has all of S for its values.
Sorts(s, k, S) ==
  /\ s \in [1 .. k -> S]
  /\ \A m, n \in 1 .. k : m < n => s[m] < s[n]
  /\ \A x \in S : \E n \in 1 .. k : s[n] = x

\* Numbers in order.
LEMMA SortsInOrder ==
  ASSUME NEW S, S \subseteq Nat, NEW k \in Nat, NEW s, Sorts(s, k, S)
  PROVE  /\ \A n \in 1 .. k : n \in Nat /\ s[n] \in S /\ s[n] \in Nat
         /\ \A m, n \in 1 .. k : s[m] < s[n] => m < n
<1>1. \A n \in 1 .. k : n \in Nat /\ s[n] \in S /\ s[n] \in Nat
  <2>1. \A n \in 1 .. k : n \in Nat
    OBVIOUS
  <2>2. \A n \in 1 .. k : s[n] \in S
    BY Zenon DEF Sorts
  <2> QED
    BY <2>1, <2>2
<1>2. ASSUME NEW m \in 1 .. k, NEW n \in 1 .. k, s[m] < s[n] PROVE m < n
  <2>1. m \in Nat /\ n \in Nat /\ s[m] \in Nat /\ s[n] \in Nat
    BY <1>1
  <2>2. CASE m = n
    BY <1>2, <2>1, <2>2
  <2>3. CASE n < m
    <3>1. s[n] < s[m]
      BY <2>3 DEF Sorts
    <3> QED
      BY ONLY <1>2, <2>1, <3>1
  <2> QED
    BY <2>1, <2>2, <2>3
<1> QED
  BY <1>1, <1>2

\* Two functions that sort the same numbers, and agree on the first: the next of the one is
\* not before that of the other.
LEMMA NoneBefore ==
  ASSUME NEW S, S \subseteq Nat, NEW k \in Nat, NEW s, Sorts(s, k, S), NEW t, Sorts(t, k, S),
         NEW n \in 1 .. k, \A j \in 1 .. k : j < n => s[j] = t[j]
  PROVE  ~ (s[n] < t[n])
<1> SUFFICES ASSUME s[n] < t[n] PROVE FALSE
  OBVIOUS
<1>1. s[n] \in S
  BY SortsInOrder
<1>2. PICK j \in 1 .. k : t[j] = s[n]
  BY <1>1 DEF Sorts
<1>3. j < n
  <2>1. t[j] < t[n]
    BY <1>2
  <2> QED
    BY <2>1, SortsInOrder
<1>4. s[j] < s[n] /\ s[j] = s[n]
  BY <1>2, <1>3 DEF Sorts
<1>5. s[n] \in Nat
  BY SortsInOrder
<1> QED
  BY <1>4, <1>5

\* Numbers are sorted in one way.
LEMMA SortedOnce ==
  ASSUME NEW S, S \subseteq Nat, NEW k \in Nat, NEW s, Sorts(s, k, S), NEW t, Sorts(t, k, S)
  PROVE  s = t
<1> DEFINE T == {m \in Nat : \A n \in 1 .. k : n <= m => s[n] = t[n]}
<1>1. 0 \in T
  OBVIOUS
<1>2. ASSUME NEW m \in Nat, m \in T PROVE m + 1 \in T
  <2> SUFFICES ASSUME NEW n \in 1 .. k, n <= m + 1 PROVE s[n] = t[n]
    OBVIOUS
  <2>1. CASE n <= m
    BY <1>2, <2>1
  <2>2. CASE n = m + 1
    <3>1. \A j \in 1 .. k : j < n => s[j] = t[j] /\ t[j] = s[j]
      BY <1>2, <2>2
    <3>2. ~ (s[n] < t[n])
      BY <3>1, NoneBefore
    <3>3. ~ (t[n] < s[n])
      BY <3>1, NoneBefore
    <3>4. s[n] \in Nat /\ t[n] \in Nat
      BY SortsInOrder
    <3> QED
      BY ONLY <3>2, <3>3, <3>4
  <2> QED
    BY <2>1, <2>2
<1> HIDE DEF T
<1>3. Nat \subseteq T
  BY <1>1, <1>2, NatSetInduction, Zenon
<1>4. \A n \in 1 .. k : s[n] = t[n]
  <2>1. k \in T
    BY <1>3
  <2> QED
    BY <2>1 DEF T
<1> QED
  BY <1>4 DEF Sorts

\* What sorts some numbers is their ascending sequence.
LEMMA AscendingIs ==
  ASSUME NEW S, S \subseteq Nat, NEW k \in Nat, NEW s, Sorts(s, k, S)
  PROVE  Ascending(S) = s /\ IsFiniteSet(S) /\ Cardinality(S) = k
<1>1. s \in Injection(1 .. k, S)
  <2>1. \A m, n \in 1 .. k : s[m] = s[n] => m = n
    <3> SUFFICES ASSUME NEW m \in 1 .. k, NEW n \in 1 .. k, s[m] = s[n], m # n PROVE FALSE
      OBVIOUS
    <3>1. m \in Nat /\ n \in Nat /\ s[m] \in Nat /\ s[n] \in Nat
      BY SortsInOrder
    <3>2. m < n \/ n < m
      BY <3>1
    <3>3. s[m] < s[n] \/ s[n] < s[m]
      BY <3>2 DEF Sorts
    <3> QED
      BY <3>1, <3>3
  <2> QED
    BY <2>1 DEF Injection, IsInjective, Sorts
<1>2. s \in Surjection(1 .. k, S)
  BY DEF Surjection, Sorts
<1>3. IsFiniteSet(1 .. k) /\ Cardinality(1 .. k) = k
  BY FS_Interval
<1>4. IsFiniteSet(S) /\ Cardinality(S) = k
  <2>1. IsFiniteSet(S) /\ (Cardinality(S) = Cardinality(1 .. k) <=> s \in Injection(1 .. k, S))
    BY <1>2, <1>3, FS_Surjection
  <2> QED
    BY <1>1, <1>3, <2>1
<1>5. Sorts(Ascending(S), k, S)
  BY <1>4, AscendingFacts DEF Sorts
<1> QED
  BY <1>4, <1>5, SortedOnce

\* The numbers after e.
LEMMA AscendingFrom ==
  ASSUME NEW e \in Nat, NEW r \in Nat
  PROVE  Ascending(e + 1 .. e + r) = [m \in 1 .. r |-> e + m]
<1> DEFINE S == e + 1 .. e + r
           s == [m \in 1 .. r |-> e + m]
<1>1. S \subseteq Nat
  OBVIOUS
<1>2. Sorts(s, r, S)
  <2>1. s \in [1 .. r -> S] /\ \A m, n \in 1 .. r : m < n => s[m] < s[n]
    OBVIOUS
  <2>2. ASSUME NEW x \in S PROVE \E n \in 1 .. r : s[n] = x
    <3>1. x - e \in 1 .. r /\ s[x - e] = x
      OBVIOUS
    <3> QED
      BY <3>1
  <2> QED
    BY <2>1, <2>2 DEF Sorts
<1> HIDE DEF S, s
<1>3. Ascending(S) = s
  BY <1>1, <1>2, AscendingIs
<1> QED
  BY <1>3 DEF S, s

\* A sequence of all the elements of a set.
LEMMA InAnyOrder ==
  ASSUME NEW S, IsFiniteSet(S), NEW f, f \in SetToSeqs(S)
  PROVE  /\ Cardinality(S) \in Nat
         /\ f \in [1 .. Cardinality(S) -> S]
         /\ \A x \in S : \E n \in 1 .. Cardinality(S) : f[n] = x
<1> DEFINE c == Cardinality(S)
<1>1. c \in Nat
  BY FS_CardinalityType
<1>2. f \in [1 .. c -> S] /\ \A i, j \in 1 .. c : i # j => f[i] # f[j]
  BY Zenon DEF SetToSeqs
<1> HIDE DEF c
<1>3. f \in Injection(1 .. c, S)
  BY <1>2 DEF Injection, IsInjective
<1>4. IsFiniteSet(1 .. c) /\ Cardinality(1 .. c) = c
  BY <1>1, FS_Interval
<1>5. f \in Surjection(1 .. c, S)
  <2>1. Cardinality(1 .. c) = Cardinality(S)
    BY <1>4 DEF c
  <2> QED
    BY <1>3, <2>1, FS_Injection
<1>6. \A x \in S : \E n \in 1 .. c : f[n] = x
  BY <1>5 DEF Surjection
<1> QED
  BY <1>1, <1>2, <1>6 DEF c

\* The blocks of an answer of r calls: perhaps a text, then the calls.
BlocksOfCalls(blocks, asked, r, e) ==
  /\ e \in {0, 1} /\ DOMAIN blocks = 1 .. e + r
  /\ \A n \in 1 .. e : blocks[n].type = "text"
  /\ \A m \in 1 .. r : blocks[e + m] = ToolUse(asked[m])

\* The content of an answer: perhaps a text, then a block for each call.
LEMMA CallBlocksAre ==
  ASSUME NEW q, NEW r \in Nat, DOMAIN q.calls = 1 .. r
  PROVE  \E e : BlocksOfCalls(CallBlocks(q), q.calls, r, e)
<1> DEFINE c == ContentBlocks(q)
           t == TextBlock(q.text)
           f == [n \in DOMAIN q.calls |-> ToolUse(q.calls[n])]
           E == {f[n] : n \in 1 .. r} \cup {t}
           e == Len(c)
           b == CallBlocks(q)
<1>1. b = c \o f
  BY Zenon DEF CallBlocks
<1>2. c = <<>> \/ c = <<t>>
  BY Zenon DEF ContentBlocks, TextBlock
<1>3. t.type = "text"
  BY DEF TextBlock
<1>4. \A m \in 1 .. r : f[m] = ToolUse(q.calls[m])
  OBVIOUS
<1>5. f \in [1 .. r -> E] /\ t \in E
  OBVIOUS
<1> HIDE DEF f, E, t
<1>6. f \in Seq(E) /\ Len(f) = r
  BY <1>5
<1>7. /\ c \in Seq(E) /\ e \in {0, 1}
      /\ \A n \in 1 .. e : c[n] = t
  <2>1. CASE c = <<>>
    <3>1. <<>> \in Seq(E) /\ Len(<<>>) = 0
      OBVIOUS
    <3>2. \A n \in 1 .. 0 : FALSE
      OBVIOUS
    <3> QED
      BY <2>1, <3>1, <3>2
  <2>2. CASE c = <<t>>
    <3>1. <<t>> \in Seq(E) /\ Len(<<t>>) = 1 /\ \A n \in 1 .. 1 : <<t>>[n] = t
      BY <1>5
    <3> QED
      BY <2>2, <3>1
  <2> QED
    BY <1>2, <2>1, <2>2
<1> HIDE DEF c
<1>8. b \in Seq(E) /\ Len(b) = e + r /\ \A n \in 1 .. e + r : b[n] = IF n <= e THEN c[n] ELSE f[n - e]
  <2>1. c \o f \in Seq(E) /\ Len(c \o f) = Len(c) + Len(f)
        /\ \A n \in 1 .. Len(c) + Len(f) : (c \o f)[n] = IF n <= Len(c) THEN c[n] ELSE f[n - Len(c)]
    BY <1>6, <1>7, ConcatProperties, Zenon
  <2> QED
    BY <1>1, <1>6, <2>1, Zenon
<1> HIDE DEF b, e
<1>9. DOMAIN b = 1 .. e + r
  BY <1>8
<1>10. \A n \in 1 .. e : b[n].type = "text"
  <2> TAKE n \in 1 .. e
  <2>1. n \in 1 .. e + r /\ n <= e
    BY <1>7
  <2>2. b[n] = t
    BY <1>7, <1>8, <2>1, Zenon
  <2> QED
    BY <1>3, <2>2
<1>11. \A m \in 1 .. r : b[e + m] = ToolUse(q.calls[m])
  <2> TAKE m \in 1 .. r
  <2>1. e + m \in 1 .. e + r /\ ~ (e + m <= e) /\ (e + m) - e = m
    BY <1>7
  <2>2. b[e + m] = f[(e + m) - e]
    BY <1>8, <2>1, Zenon
  <2> QED
    BY <1>4, <2>1, <2>2, Zenon
<1> QED
  BY <1>7, <1>9, <1>10, <1>11, Zenon DEF BlocksOfCalls, b

\* Where the calls stand among the blocks, and that there is no result among them.
ToolPlaces(blocks) == {n \in DOMAIN blocks : blocks[n].type = "tool_use"}
CallPlaces(blocks, asked, r, e) ==
  /\ ToolPlaces(blocks) = e + 1 .. e + r
  /\ \A n \in DOMAIN blocks : blocks[n].type # "tool_result"
  /\ \A n \in e + 1 .. e + r : n - e \in 1 .. r /\ blocks[n].id = asked[n - e].id

\* Where the calls stand in it.
LEMMA PlacesOfCalls ==
  ASSUME NEW blocks, NEW asked, NEW r \in Nat, NEW e, BlocksOfCalls(blocks, asked, r, e)
  PROVE  CallPlaces(blocks, asked, r, e)
<1>1. e \in {0, 1} /\ DOMAIN blocks = 1 .. e + r
  BY DEF BlocksOfCalls
<1>2. \A n \in 1 .. e : blocks[n].type = "text"
  BY DEF BlocksOfCalls
<1>3. \A n \in e + 1 .. e + r : n - e \in 1 .. r /\ blocks[n] = ToolUse(asked[n - e])
  <2> TAKE n \in e + 1 .. e + r
  <2>1. n - e \in 1 .. r /\ e + (n - e) = n
    BY <1>1
  <2>2. blocks[e + (n - e)] = ToolUse(asked[n - e])
    BY <2>1, Zenon DEF BlocksOfCalls
  <2> QED
    BY <2>1, <2>2, Zenon
<1>4. \A n \in e + 1 .. e + r : blocks[n].type = "tool_use" /\ blocks[n].id = asked[n - e].id
  <2>1. \A call : ToolUse(call).type = "tool_use" /\ ToolUse(call).id = call.id
    BY DEF ToolUse
  <2> QED
    BY <1>3, <2>1, Zenon
<1>5. \A n \in 1 .. e + r : n \in 1 .. e \/ n \in e + 1 .. e + r
  BY <1>1
<1>6. \A n \in 1 .. e : n \in 1 .. e + r
  BY <1>1
<1>7. \A n \in e + 1 .. e + r : n \in 1 .. e + r
  BY <1>1
<1>8. {n \in DOMAIN blocks : blocks[n].type = "tool_use"} = e + 1 .. e + r
  <2>1. ASSUME NEW n \in 1 .. e + r, blocks[n].type = "tool_use" PROVE n \in e + 1 .. e + r
    BY <1>2, <1>5, <2>1
  <2> QED
    BY <1>1, <1>4, <1>7, <2>1, Zenon
<1>9. \A n \in DOMAIN blocks : blocks[n].type # "tool_result"
  BY <1>1, <1>2, <1>4, <1>5
<1> QED
  BY <1>3, <1>4, <1>8, <1>9, Zenon DEF ToolPlaces, CallPlaces

\* The tool blocks of an answer are its calls, in order.
LEMMA ToolBlocksOfCalls ==
  ASSUME NEW blocks, NEW asked, NEW r \in Nat, NEW e, BlocksOfCalls(blocks, asked, r, e)
  PROVE  ToolBlocks(blocks) = [m \in 1 .. r |-> ToolUse(asked[m])]
<1> DEFINE P == ToolPlaces(blocks)
           at == Ascending(P)
<1>1. e \in Nat /\ P = e + 1 .. e + r
  <2>1. e \in Nat
    BY DEF BlocksOfCalls
  <2>2. CallPlaces(blocks, asked, r, e)
    BY PlacesOfCalls
  <2> QED
    BY <2>1, <2>2, Zenon DEF CallPlaces
<1>2. at = [m \in 1 .. r |-> e + m]
  <2> HIDE DEF P
  <2> QED
    BY <1>1, AscendingFrom
<1>3. ToolBlocks(blocks) = [m \in DOMAIN at |-> blocks[at[m]]]
  BY Zenon DEF ToolBlocks, ToolPlaces
<1> HIDE DEF at
<1>4. DOMAIN at = 1 .. r /\ \A m \in 1 .. r : at[m] = e + m
  BY <1>2
<1>5. \A m \in 1 .. r : blocks[e + m] = ToolUse(asked[m])
  BY DEF BlocksOfCalls
<1>6. \A m \in 1 .. r : blocks[at[m]] = ToolUse(asked[m])
  BY <1>4, <1>5
<1> QED
  BY <1>3, <1>4, <1>6

\* Each result stands for a call, and each call has one.
Answered(ids, k, asked, r) ==
  /\ \A j \in 1 .. k : \E m \in 1 .. r : ids[j] = asked[m].id
  /\ \A m \in 1 .. r : \E j \in 1 .. k : ids[j] = asked[m].id

\* What a request that follows an answer says of it.
SaysAgain(ms, made) ==
  /\ RolesAlternate(ms) /\ ResultsFollowCalls(ms) /\ CallsAnswered(ms)
  /\ ToolBlocks(ms[2].blocks) = [m \in DOMAIN made |-> ToolUse(made[m])]

\* A request with an answer and results for all its calls, and for nothing else, is what the
\* Messages API demands, and repeats the calls.
LEMMA ReplayHolds ==
  ASSUME NEW text, NEW q, NEW r \in Nat, DOMAIN q.calls = 1 .. r, NEW k \in Nat, NEW ids, Answered(ids, k, q.calls, r),
         NEW ms, ms = Replayed(text, q, ids, k)
  PROVE  SaysAgain(ms, q.calls)
<1> DEFINE asked == q.calls
           b == CallBlocks(q)
           t == <<TextBlock(text)>>
           w == ResultBlocks(ids, k)
<1>1. PICK e : BlocksOfCalls(b, asked, r, e)
  BY CallBlocksAre
<1>2. /\ {n \in DOMAIN b : b[n].type = "tool_use"} = e + 1 .. e + r
      /\ \A n \in DOMAIN b : b[n].type # "tool_result"
      /\ \A n \in e + 1 .. e + r : n - e \in 1 .. r /\ b[n].id = asked[n - e].id
  <2> HIDE DEF b, asked
  <2>1. CallPlaces(b, asked, r, e)
    BY <1>1, PlacesOfCalls
  <2> QED
    BY <2>1, Zenon DEF CallPlaces, ToolPlaces
<1>3. ToolBlocks(b) = [m \in 1 .. r |-> ToolUse(asked[m])]
  BY <1>1, ToolBlocksOfCalls
<1>4. /\ DOMAIN t = {1} /\ t[1].type = "text"
  BY DEF TextBlock
<1>5. DOMAIN w = 1 .. k /\ \A j \in 1 .. k : w[j].type = "tool_result" /\ w[j].answers = ids[j]
  BY DEF ResultBlocks, ResultBlock
<1>6. e \in Nat /\ \A m \in 1 .. r : e + m \in e + 1 .. e + r /\ (e + m) - e = m
  <2>1. e \in Nat
    BY <1>1 DEF BlocksOfCalls
  <2> QED
    BY <2>1
<1> HIDE DEF b, t, w
<1> DEFINE x == MessageBy("user", t)
           y == MessageBy("assistant", b)
           z == MessageBy("user", w)
<1>7. x.role = "user" /\ y.role = "assistant" /\ z.role = "user" /\ x.blocks = t /\ y.blocks = b /\ z.blocks = w
  BY DEF MessageBy
<1>8. ms = <<x, y, z>>
  BY Zenon DEF Replayed, b, t, w
<1> HIDE DEF x, y, z
<1>9. ms[1] = x /\ ms[2] = y /\ ms[3] = z /\ Len(ms) = 3 /\ DOMAIN ms = {1, 2, 3}
  BY <1>8
<1>10. RolesAlternate(ms)
  BY <1>7, <1>9 DEF RolesAlternate
<1>11. /\ BlocksOf(ms[1], "tool_result") = {} /\ BlocksOf(ms[2], "tool_result") = {}
       /\ BlocksOf(ms[3], "tool_result") = 1 .. k
       /\ BlocksOf(ms[1], "tool_use") = {} /\ BlocksOf(ms[2], "tool_use") = e + 1 .. e + r
       /\ BlocksOf(ms[3], "tool_use") = {}
  <2>1. BlocksOf(ms[1], "tool_result") = {} /\ BlocksOf(ms[1], "tool_use") = {}
    BY <1>4, <1>7, <1>9 DEF BlocksOf
  <2>2. BlocksOf(ms[2], "tool_result") = {} /\ BlocksOf(ms[2], "tool_use") = e + 1 .. e + r
    BY <1>2, <1>7, <1>9 DEF BlocksOf
  <2>3. BlocksOf(ms[3], "tool_result") = 1 .. k /\ BlocksOf(ms[3], "tool_use") = {}
    BY <1>5, <1>7, <1>9 DEF BlocksOf
  <2> QED
    BY <2>1, <2>2, <2>3, Zenon
<1> HIDE DEF asked
<1>12. /\ \A j \in 1 .. k : \E c \in e + 1 .. e + r : ms[2].blocks[c].id = ms[3].blocks[j].answers
       /\ \A c \in e + 1 .. e + r : \E j \in 1 .. k : ms[3].blocks[j].answers = ms[2].blocks[c].id
  <2>1. ms[2].blocks = b /\ ms[3].blocks = w
    BY <1>7, <1>9, Zenon
  <2>2. ASSUME NEW j \in 1 .. k PROVE \E c \in e + 1 .. e + r : b[c].id = w[j].answers
    <3>1. PICK m \in 1 .. r : ids[j] = asked[m].id
      BY Zenon DEF Answered, asked
    <3>2. e + m \in e + 1 .. e + r /\ b[e + m].id = asked[m].id
      <4>1. e + m \in e + 1 .. e + r /\ (e + m) - e = m
        BY <1>6, Zenon
      <4>2. b[e + m].id = asked[(e + m) - e].id
        BY <1>2, <4>1, Zenon
      <4> QED
        BY <4>1, <4>2, Zenon
    <3> QED
      BY <1>5, <3>1, <3>2, Zenon
  <2>3. ASSUME NEW c \in e + 1 .. e + r PROVE \E j \in 1 .. k : w[j].answers = b[c].id
    <3>1. c - e \in 1 .. r /\ b[c].id = asked[c - e].id
      BY <1>2, Zenon
    <3>2. PICK j \in 1 .. k : ids[j] = asked[c - e].id
      BY <3>1, Zenon DEF Answered, asked
    <3> QED
      BY <1>5, <3>1, <3>2, Zenon
  <2> QED
    BY <2>1, <2>2, <2>3, Zenon
<1>13. ResultsFollowCalls(ms)
  <2> SUFFICES ASSUME NEW n \in DOMAIN ms, NEW j \in BlocksOf(ms[n], "tool_result")
               PROVE  /\ n > 1 /\ ms[n - 1].role = "assistant"
                      /\ \E c \in BlocksOf(ms[n - 1], "tool_use") : ms[n - 1].blocks[c].id = ms[n].blocks[j].answers
    BY Zenon DEF ResultsFollowCalls
  <2>1. n = 3 /\ j \in 1 .. k
    BY <1>9, <1>11
  <2>2. 3 > 1 /\ 3 - 1 = 2
    OBVIOUS
  <2>3. ms[2].role = "assistant"
    BY <1>7, <1>9, Zenon
  <2> QED
    BY <1>11, <1>12, <2>1, <2>2, <2>3, Zenon
<1>14. CallsAnswered(ms)
  <2> SUFFICES ASSUME NEW n \in DOMAIN ms, NEW c \in BlocksOf(ms[n], "tool_use")
               PROVE  /\ n < Len(ms)
                      /\ \E j \in BlocksOf(ms[n + 1], "tool_result") : ms[n + 1].blocks[j].answers = ms[n].blocks[c].id
    BY Zenon DEF CallsAnswered
  <2>1. n = 2 /\ c \in e + 1 .. e + r
    BY <1>9, <1>11
  <2>2. n < Len(ms) /\ n + 1 = 3
    BY <1>9, <2>1
  <2>3. \E j \in BlocksOf(ms[3], "tool_result") : ms[3].blocks[j].answers = ms[2].blocks[c].id
    BY <1>11, <1>12, <2>1, Zenon
  <2> QED
    BY <2>1, <2>2, <2>3, Zenon
<1>15. ToolBlocks(ms[2].blocks) = [m \in 1 .. r |-> ToolUse(asked[m])]
  BY <1>3, <1>7, <1>9, Zenon
<1>16. DOMAIN asked = 1 .. r
  BY Zenon DEF asked
<1>17. [m \in 1 .. r |-> ToolUse(asked[m])] = [m \in DOMAIN asked |-> ToolUse(asked[m])]
  BY <1>16, Zenon
<1>18. SaysAgain(ms, asked)
  BY <1>10, <1>13, <1>14, <1>15, <1>17, Zenon DEF SaysAgain
<1> QED
  BY <1>18 DEF asked

\* The calls of an answer as a Chat caller sends them: all of them, in the order of the blocks.
StreamedInOrder(asked, s) ==
  LET at == Ascending(ToolsOf(s))
      k  == Cardinality(ToolsOf(s))
  IN /\ k \in Nat /\ DOMAIN asked = 1 .. k
     /\ \A m \in 1 .. k : asked[m] = WholeCall(s, at[m])

\* A Chat caller that sorts what it kept by index has the calls in the order of their blocks.
LEMMA StreamedCalls ==
  ASSUME said \in Seq(Forms), NEW n, NEW p, Finished(said, n, p), CallsSaid(chat.calls, said, backend, n, p)
  PROVE  /\ StreamedInOrder(Streamed.calls, said)
         /\ \A i \in DOMAIN chat.calls : \E m \in DOMAIN Streamed.calls : Streamed.calls[m] = chat.calls[i]
         /\ \A m \in DOMAIN Streamed.calls : \E i \in DOMAIN chat.calls : Streamed.calls[m] = chat.calls[i]
         /\ IsFiniteSet(DOMAIN chat.calls)
<1> DEFINE T == ToolsOf(said)
           k == Cardinality(T)
           at == Ascending(T)
           I(b) == IndexIn(said, backend, b)
           D == DOMAIN chat.calls
           idx == [m \in 1 .. k |-> I(at[m])]
<1>1. n \in Nat /\ T = ToolsIn(said, n) /\ n = Len(said) /\ (n = 0 \/ p = said[n].parts)
  BY DEF ToolsOf, Finished
<1>2. T \subseteq Nat /\ T \subseteq 1 .. n /\ IsFiniteSet(T)
  BY <1>1, ToolsCounted DEF ToolsIn
<1>3. /\ k \in Nat /\ at \in [1 .. k -> T]
      /\ \A m, j \in 1 .. k : m < j => at[m] < at[j]
      /\ \A x \in T : \E m \in 1 .. k : at[m] = x
  <2> HIDE DEF T
  <2> QED
    BY <1>2, AscendingFacts, Zenon
<1>4. D = {I(b) : b \in T} /\ \A b \in T : chat.calls[I(b)] = CallIn(said, n, p, b)
  BY <1>1, Zenon DEF CallsSaid
<1>5. \A b \in T : CallIn(said, n, p, b) = WholeCall(said, b)
  BY <1>1, <1>2, SaidInTheEnd
<1>6. \A b \in T : I(b) \in Nat
  BY <1>1, IndexTyped
<1>7. \A b, c \in T : b < c => I(b) < I(c)
  BY <1>1, IndexGrows
<1> HIDE DEF T, k, at, I
<1>8. D \subseteq Nat
  BY <1>4, <1>6
<1>9. \A m \in 1 .. k : at[m] \in T /\ idx[m] = I(at[m]) /\ idx[m] \in D
  BY <1>3, <1>4
<1>10. Sorts(idx, k, D)
  <2>1. idx \in [1 .. k -> D]
    BY <1>9
  <2>2. \A m, j \in 1 .. k : m < j => idx[m] < idx[j]
    BY <1>3, <1>7, <1>9, Zenon
  <2>3. ASSUME NEW x \in D PROVE \E m \in 1 .. k : idx[m] = x
    <3>1. PICK b \in T : x = I(b)
      BY <1>4
    <3>2. PICK m \in 1 .. k : at[m] = b
      BY <1>3, Zenon
    <3> QED
      BY <1>9, <3>1, <3>2, Zenon
  <2> HIDE DEF idx, D
  <2> QED
    BY <2>1, <2>2, <2>3, Zenon DEF Sorts
<1> HIDE DEF idx
<1>11. Ascending(D) = idx /\ IsFiniteSet(D)
  <2> HIDE DEF D
  <2> QED
    BY <1>3, <1>8, <1>10, AscendingIs, Zenon
<1> DEFINE asked == Streamed.calls
<1>12. asked = [m \in DOMAIN idx |-> chat.calls[idx[m]]]
  BY <1>11 DEF Streamed, Assistant, Chat
<1> HIDE DEF asked
<1>13. DOMAIN idx = 1 .. k
  BY <1>10 DEF Sorts
<1>14. DOMAIN asked = 1 .. k /\ \A m \in 1 .. k : asked[m] = chat.calls[idx[m]]
  BY <1>12, <1>13
<1>15. \A m \in 1 .. k : asked[m] = WholeCall(said, at[m])
  BY <1>4, <1>5, <1>9, <1>14, Zenon
<1>16. StreamedInOrder(asked, said)
  BY <1>3, <1>14, <1>15, Zenon DEF StreamedInOrder, T, k, at
<1>17. \A i \in D : \E m \in DOMAIN asked : asked[m] = chat.calls[i]
  <2> TAKE i \in D
  <2>1. PICK m \in 1 .. k : idx[m] = i
    BY <1>10, Zenon DEF Sorts
  <2> QED
    BY <1>14, <2>1, Zenon
<1>18. \A m \in DOMAIN asked : \E i \in D : asked[m] = chat.calls[i]
  BY <1>9, <1>14, Zenon
<1> QED
  BY <1>11, <1>16, <1>17, <1>18, Zenon DEF asked

\* A tool block is the same for the call that was streamed and for the one that was collected.
LEMMA ToolUsesAgree ==
  ASSUME said \in Seq(Forms), NEW asked, StreamedInOrder(asked, said), NEW made, made = ToChatResponse(SaidBlocks).calls
  PROVE  [m \in DOMAIN made |-> ToolUse(made[m])] = [m \in DOMAIN asked |-> ToolUse(asked[m])]
<1> DEFINE at == Ascending(ToolsOf(said))
           k == Cardinality(ToolsOf(said))
<1>1. k \in Nat /\ DOMAIN asked = 1 .. k /\ \A m \in 1 .. k : asked[m] = WholeCall(said, at[m])
  BY Zenon DEF StreamedInOrder
<1>2. DOMAIN made = DOMAIN at /\ \A m \in DOMAIN at : made[m] = JsonCall(said, at[m])
  BY CollectedCalls, Zenon
<1>3. DOMAIN at = 1 .. k
  <2> DEFINE T == ToolsOf(said)
  <2>1. T \subseteq Nat /\ IsFiniteSet(T)
    <3>1. Len(said) \in Nat
      OBVIOUS
    <3> QED
      BY <3>1, ToolsCounted DEF ToolsOf, ToolsIn
  <2> HIDE DEF T
  <2>2. Ascending(T) \in [1 .. Cardinality(T) -> T]
    BY <2>1, AscendingFacts, Zenon
  <2>3. DOMAIN Ascending(T) = 1 .. Cardinality(T)
    BY <2>2
  <2> QED
    BY <2>3 DEF T
<1> HIDE DEF at, k
<1>4. \A b : ToolUse(WholeCall(said, b)) = ToolUse(JsonCall(said, b))
  <2> TAKE b
  <2> DEFINE w == Parts(b, said[b].parts)
             i == CallId(b)
             x == WholeCall(said, b)
             y == JsonCall(said, b)
  <2>1. AsJSON(AsJSON(w)) = AsJSON(w)
    BY JsonTwice
  <2>2. x = [id |-> i, name |-> <<"name">>, args |-> w] /\ y = [id |-> i, name |-> <<"name">>, args |-> AsJSON(w)]
    BY Zenon DEF WholeCall, JsonCall
  <2> HIDE DEF w, i, x, y
  <2>3. x.id = y.id /\ x.name = y.name /\ x.args = w /\ y.args = AsJSON(w)
    BY <2>2
  <2>4. AsJSON(x.args) = AsJSON(y.args)
    BY <2>1, <2>3, Zenon
  <2>5. ToolUse(x) = ToolUse(y)
    BY <2>3, <2>4, Zenon DEF ToolUse
  <2> QED
    BY <2>5 DEF x, y
<1>5. \A m \in 1 .. k : ToolUse(made[m]) = ToolUse(asked[m])
  BY <1>1, <1>2, <1>3, <1>4, Zenon
<1> QED
  BY <1>1, <1>2, <1>3, <1>5

\* An answer with a call has content.
LEMMA CallBlocksSome ==
  ASSUME NEW q, NEW r \in Nat, DOMAIN q.calls = 1 .. r, r # 0
  PROVE  CallBlocks(q) # <<>>
<1> DEFINE b == CallBlocks(q)
<1>1. PICK e : BlocksOfCalls(b, q.calls, r, e)
  BY CallBlocksAre
<1>2. e \in {0, 1} /\ DOMAIN b = 1 .. e + r
  BY <1>1 DEF BlocksOfCalls
<1>3. 1 \in DOMAIN b
  BY <1>2
<1> HIDE DEF b
<1>4. b # <<>>
  BY <1>3
<1> QED
  BY <1>4 DEF b

\* The next request of a Chat caller, converted, for any answer and any results of its calls.
LEMMA NextConverted ==
  ASSUME NEW ans, NEW r \in Nat, r # 0, DOMAIN ans.calls = 1 .. r, ans.role = "assistant",
         NEW k \in Nat, k # 0, NEW ids, DOMAIN ids = 1 .. k, Answered(ids, k, ans.calls, r),
         NEW q, q = <<Chat("system", Question, <<>>, Unset), User(Question), ans>> \o [n \in DOMAIN ids |-> ToolResult(ids[n])]
  PROVE  SaysAgain(ConvertMessages(q), ans.calls)
<1> DEFINE f == [n \in DOMAIN ids |-> ToolResult(ids[n])]
           x == Chat("system", Question, <<>>, Unset)
           y == User(Question)
           ms == ConvertMessages(q)
<1>1. f = [m \in 1 .. k |-> f[m]] /\ \A m \in 1 .. k : f[m] = ToolResult(ids[m])
  OBVIOUS
<1>2. q = <<x, y, ans>> \o f
  BY Zenon
<1> HIDE DEF f, x, y
<1>3. /\ DOMAIN q = 1 .. k + 3 /\ q[1] = x /\ q[2] = y /\ q[3] = ans
      /\ \A m \in 1 .. k : q[m + 3] = f[m]
  BY <1>1, <1>2, ThreeBefore
<1>4. Question # <<>>
  BY DEF Question
<1>5. CallBlocks(ans) # <<>>
  BY CallBlocksSome
<1>6. \A m \in 1 .. k : q[m + 3] = ToolResult(ids[m])
  BY <1>1, <1>3, Zenon
<1>7. ms = Replayed(Question, ans, ids, k)
  BY <1>3, <1>4, <1>5, <1>6, RequestConverted DEF x, y
<1> HIDE DEF ms
<1>8. SaysAgain(ms, ans.calls)
  BY <1>7, ReplayHolds, Zenon
<1> QED
  BY <1>8 DEF ms

\* A Chat caller's calls, in sequence and by index; all have results; their ids.
SameCalls(D, kept, asked) ==
  /\ \A i \in D : \E m \in DOMAIN asked : asked[m] = kept[i]
  /\ \A m \in DOMAIN asked : \E i \in D : asked[m] = kept[i]
AllAnswered(results, asked, r) ==
  r # 0 /\ \E k \in Nat : k # 0 /\ DOMAIN results = 1 .. k /\ Answered(results, k, asked, r)
IdsOf(D, kept) == {kept[i].id : i \in D}

\* Results of the calls that a Chat caller kept, in whatever order it got them.
LEMMA ResultsAnswer ==
  ASSUME NEW D, IsFiniteSet(D), D # {}, NEW kept, NEW asked, NEW r \in Nat, DOMAIN asked = 1 .. r,
         SameCalls(D, kept, asked),
         NEW results, results \in SetToSeqs(IdsOf(D, kept))
  PROVE  AllAnswered(results, asked, r)
<1> DEFINE ids == IdsOf(D, kept)
           k == Cardinality(ids)
           g == [i \in D |-> kept[i].id]
<1>1. IsFiniteSet(ids)
  <2>1. ids = {g[i] : i \in D} /\ g \in Surjection(D, ids)
    BY DEF Surjection, IdsOf
  <2> HIDE DEF g, ids
  <2> QED
    BY <2>1, FS_Surjection
<1>2. \A x : x \in ids <=> \E i \in D : x = kept[i].id
  BY Zenon DEF IdsOf
<1>3. results \in SetToSeqs(ids)
  OBVIOUS
<1> HIDE DEF ids
<1>4. k \in Nat /\ results \in [1 .. k -> ids] /\ \A x \in ids : \E j \in 1 .. k : results[j] = x
  BY <1>1, <1>3, InAnyOrder, Zenon
<1> HIDE DEF k
<1>5. PICK i \in D : TRUE
  OBVIOUS
<1>6. r # 0
  <2>1. PICK m \in DOMAIN asked : asked[m] = kept[i]
    BY <1>5, Zenon DEF SameCalls
  <2>2. m \in 1 .. r
    OBVIOUS
  <2> QED
    BY <2>2
<1>7. k # 0
  <2>1. kept[i].id \in ids
    BY <1>2, <1>5, Zenon
  <2>2. PICK j \in 1 .. k : results[j] = kept[i].id
    BY <1>4, <2>1, Zenon
  <2> QED
    BY <2>2
<1>8. DOMAIN results = 1 .. k
  BY <1>4
<1>9. ASSUME NEW j \in 1 .. k PROVE \E m \in 1 .. r : results[j] = asked[m].id
  <2>1. results[j] \in ids
    BY <1>4
  <2>2. PICK h \in D : results[j] = kept[h].id
    BY <1>2, <2>1, Zenon
  <2>3. PICK m \in DOMAIN asked : asked[m] = kept[h]
    BY <2>2, Zenon DEF SameCalls
  <2> QED
    BY <2>2, <2>3, Zenon
<1>10. ASSUME NEW m \in 1 .. r PROVE \E j \in 1 .. k : results[j] = asked[m].id
  <2>1. PICK h \in D : asked[m] = kept[h]
    BY Zenon DEF SameCalls
  <2>2. kept[h].id \in ids
    BY <1>2, <2>1, Zenon
  <2>3. PICK j \in 1 .. k : results[j] = kept[h].id
    BY <1>4, <2>2, Zenon
  <2> QED
    BY <2>1, <2>3, Zenon
<1> QED
  BY <1>4, <1>6, <1>7, <1>8, <1>9, <1>10, Zenon DEF Answered, AllAnswered

\* What the answer was does not change once it began.
LEMMA CollectedStays ==
  ASSUME UNCHANGED <<backend, said>>
  PROVE  Collected' = Collected
<1>1. SaidBlocks' = SaidBlocks
  BY DEF SaidBlocks, SaidBlock
<1>2. FinalText' = FinalText
  BY DEF FinalText
<1> QED
  BY <1>1, <1>2 DEF Collected, CollectCodex

\* AskAgain sends back what the model said.
LEMMA AskedAsSaid ==
  ASSUME Apis = {"chat"}, TurnInv, AskAgain
  PROVE  SaysAgain(resent', Collected.calls)
<1> DEFINE D == DOMAIN chat.calls
           asked == Streamed.calls
<1>1. /\ backend = "anthropic" /\ upstream = "stopped" /\ D # {}
      /\ \E results \in SetToSeqs({chat.calls[i].id : i \in D}) :
           resent' = ConvertMessages(NextRequest("chat", results))
  <2>1. backend = "anthropic" /\ upstream = "stopped" /\ D # {}
        /\ \E api \in Apis : \E results \in SetToSeqs({chat.calls[i].id : i \in D}) :
             resent' = ConvertMessages(NextRequest(api, results))
    BY Zenon DEF AskAgain
  <2>2. \A api \in Apis : api = "chat"
    OBVIOUS
  <2> QED
    BY <2>1, <2>2, Zenon
<1>2. PICK results \in SetToSeqs({chat.calls[i].id : i \in D}) :
        resent' = ConvertMessages(NextRequest("chat", results))
  BY <1>1, Zenon
<1>3. /\ SaidSoFar(chat, adapted, said, backend, block, part) /\ block = Len(said) /\ BlockOver
      /\ said \in Seq(Forms) /\ \A b \in DOMAIN said : Speaks(backend, said[b])
      /\ backend \in {"anthropic", "codex"}
  <2>1. upstream \in {"streaming", "reason", "stopped"} /\ upstream \in {"reason", "stopped"}
    BY <1>1
  <2>2. said \in Seq(Forms)
    BY DEF TurnInv, AdapterInv, TurnTyped
  <2> QED
    BY <2>1, <2>2, Zenon DEF TurnInv, CallersInv
<1>4. Finished(said, block, part) /\ CallsSaid(chat.calls, said, backend, block, part)
  BY <1>3, Zenon DEF Finished, BlockOver, SaidSoFar
<1>5. /\ StreamedInOrder(asked, said)
      /\ \A i \in D : \E m \in DOMAIN asked : asked[m] = chat.calls[i]
      /\ \A m \in DOMAIN asked : \E i \in D : asked[m] = chat.calls[i]
      /\ IsFiniteSet(D)
  BY <1>3, <1>4, StreamedCalls, Zenon
<1> DEFINE r == Cardinality(ToolsOf(said))
<1>6. r \in Nat /\ DOMAIN asked = 1 .. r
  BY <1>5, Zenon DEF StreamedInOrder
<1>7. Streamed.role = "assistant"
  BY DEF Streamed, Assistant, Chat
<1> HIDE DEF D, asked, r
<1>8. r # 0 /\ \E k \in Nat : k # 0 /\ DOMAIN results = 1 .. k /\ Answered(results, k, asked, r)
  <2>1. results \in SetToSeqs(IdsOf(D, chat.calls))
    BY <1>2, Zenon DEF IdsOf
  <2>3. IsFiniteSet(D) /\ D # {}
    BY <1>1, <1>5, Zenon
  <2>4. SameCalls(D, chat.calls, asked)
    BY <1>5, Zenon DEF SameCalls
  <2>5. AllAnswered(results, asked, r)
    BY <1>6, <2>1, <2>3, <2>4, ResultsAnswer, Zenon
  <2> QED
    BY <2>5, Zenon DEF AllAnswered
<1>9. PICK k \in Nat : k # 0 /\ DOMAIN results = 1 .. k /\ Answered(results, k, asked, r)
  BY <1>8, Zenon
<1>10. NextRequest("chat", results)
         = <<Chat("system", Question, <<>>, Unset), User(Question), Streamed>> \o [n \in DOMAIN results |-> ToolResult(results[n])]
  BY Zenon DEF NextRequest
<1>11. SaysAgain(resent', Streamed.calls)
  <2>1. SaysAgain(ConvertMessages(NextRequest("chat", results)), Streamed.calls)
    BY <1>6, <1>7, <1>8, <1>9, <1>10, NextConverted, Zenon DEF asked
  <2> QED
    BY <1>2, <2>1, Zenon
<1>12. [m \in DOMAIN Collected.calls |-> ToolUse(Collected.calls[m])] = [m \in DOMAIN asked |-> ToolUse(asked[m])]
  <2>1. Collected.calls = ToChatResponse(SaidBlocks).calls
    BY <1>3, CollectedText, Zenon
  <2> QED
    BY <1>3, <1>5, <2>1, ToolUsesAgree, Zenon
<1> QED
  BY <1>11, <1>12, Zenon DEF SaysAgain, asked

\* Every event keeps it: the next request is made once, and the answer stays.
LEMMA ReplayStep ==
  ASSUME Apis = {"chat"}, TurnInv, ReplayedAsSaid, [TurnNext]_turnVars
  PROVE  ReplayedAsSaid'
<1>1. ReplayedAsSaid <=> (resent # <<>> => SaysAgain(resent, Collected.calls))
  BY Zenon DEF ReplayedAsSaid, SaysAgain
<1>2. ReplayedAsSaid' <=> (resent' # <<>> => SaysAgain(resent', Collected'.calls))
  BY Zenon DEF ReplayedAsSaid, SaysAgain
<1>3. UNCHANGED <<backend, said>>
  BY Zenon DEF TurnNext, turnVars, ContentBlockStart, ContentBlockDelta, MessageDelta, MessageStop, Cut,
     StreamFails, CodexTool, CodexDelta, CodexEnd, AskAgain
<1>4. Collected' = Collected
  BY <1>3, CollectedStays
<1>5. resent' = resent \/ AskAgain
  BY Zenon DEF TurnNext, turnVars, ContentBlockStart, ContentBlockDelta, MessageDelta, MessageStop, Cut,
     StreamFails, CodexTool, CodexDelta, CodexEnd
<1>6. CASE resent' = resent
  BY <1>1, <1>2, <1>4, <1>6, Zenon
<1>7. CASE AskAgain
  BY <1>2, <1>4, <1>7, AskedAsSaid, Zenon
<1> QED
  BY <1>5, <1>6, <1>7

\* However an answer was cut into blocks and parts, and in whatever order the results of its
\* calls came: what a Chat caller sends back repeats the calls of the model, in order and with
\* their arguments, with a result for each right after them.  A Responses caller gets less
\* (AdapterKeepsCalls).
THEOREM AnswerReplayed == ASSUME Apis = {"chat"} PROVE TurnSpec => []ReplayedAsSaid
<1>1. TurnInit => TurnInv /\ ReplayedAsSaid
  <2>1. TurnInit => resent = <<>>
    BY DEF TurnInit
  <2> QED
    BY <2>1, TurnInvInit DEF ReplayedAsSaid
<1>2. TurnInv /\ ReplayedAsSaid /\ [TurnNext]_turnVars => TurnInv' /\ ReplayedAsSaid'
  BY TurnInvStep, ReplayStep
<1> QED
  BY <1>1, <1>2, PTL DEF TurnSpec
===============================================================================
