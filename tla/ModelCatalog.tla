---------------------------- MODULE ModelCatalog -----------------------------
(* The model choices of a ChatGPT route (gateway/gateway.go, gateway/chatgpt.go): *)
(* the cache that a periodic refresh replaces, and that every HTTP request which  *)
(* asks for models or manages accounts brings in line with the active account     *)
(* (syncChatGPTModels).  Requests are handled concurrently; one action is one     *)
(* critical section of route.modelMu or of the account store, or a call upstream. *)
(* A catalogue is named by the account it was listed for.                         *)
EXTENDS Naturals

CONSTANTS Accounts,      \* 1 .. n: the accounts, in the order the user takes them up
          Callers,       \* HTTP requests that run at a time
          MaxCalls,      \* bound on the requests
          Nobody         \* no account; the empty catalogue; the signature before a sync

ASSUME AccountsAssumption == Accounts \subseteq Nat /\ 1 \in Accounts
ASSUME NobodyAssumption   == Nobody \notin Nat

VARIABLES
  around,      \* the environment: "requests", or "all" (ticks, and accounts taken up again)
  active,      \* state.Active
  connected,   \* the accounts that have a session with the plan's scope
  authProfile, \* route.authProfile: the account and whether it was connected
  cachedModels,\* route.cachedModels: an account, or Nobody (nil)
  doing,       \* where a request is: [at, status, changed, listed]
  refreshing,  \* where refreshModelCache is: [at, listed]
  calls        \* requests begun

catalogueVars == <<around, active, connected, authProfile, cachedModels, doing, refreshing, calls>>

Signature == [account |-> active, connected |-> active \in connected]
Unsynced  == [account |-> Nobody, connected |-> FALSE]
Resting   == [at |-> "done", status |-> Unsynced, changed |-> FALSE, listed |-> Nobody]

\* NewContext has warmed the cache, or could not.
CatalogueInit ==
  /\ around \in {"requests", "all"}
  /\ active = 1 /\ connected = Accounts
  /\ authProfile = Unsynced /\ cachedModels \in {1, Nobody}
  /\ doing = [c \in Callers |-> Resting]
  /\ refreshing = [at |-> "idle", listed |-> Nobody]
  /\ calls = 0

------------------------------------------------------------------------------
(* A request: an account action if it is one, Status, and syncChatGPTModels.    *)

Move(c, to)  == doing' = [doing EXCEPT ![c] = IF to = "done" THEN Resting ELSE [@ EXCEPT !.at = to]]
Here(c, at)  == doing[c].at = at

\* GET of the models or of the accounts, or POST of select or disconnect.
Begin(c) ==
  /\ Here(c, "done") /\ calls < MaxCalls
  /\ calls' = calls + 1
  /\ Move(c, "status")
  /\ \/ UNCHANGED <<active, connected>>
     \/ active' \in {a \in Accounts : around = "all" \/ a > active} /\ UNCHANGED connected
     \/ connected' = connected \ {active} /\ UNCHANGED active
  /\ UNCHANGED <<around, authProfile, cachedModels, refreshing>>

ReadStatus(c) ==
  /\ Here(c, "status")
  /\ doing' = [doing EXCEPT ![c] = [@ EXCEPT !.at = "sync", !.status = Signature]]
  /\ UNCHANGED <<around, active, connected, authProfile, cachedModels, refreshing, calls>>

\* Without a status there is no sync: handleChatGPTAuth answers 500, Models lists the cache.
StatusFails(c) ==
  /\ Here(c, "status")
  /\ Move(c, "done")
  /\ UNCHANGED <<around, active, connected, authProfile, cachedModels, refreshing, calls>>

\* Another account, or another state of it, empties the cache.
Flushed(changed) == IF changed THEN Nobody ELSE cachedModels

Compare(c) ==
  /\ Here(c, "sync")
  /\ LET changed == doing[c].status # authProfile
     IN /\ cachedModels' = Flushed(changed)
        /\ doing' = [doing EXCEPT ![c] = [@ EXCEPT !.at = "look", !.changed = changed]]
  /\ authProfile' = doing[c].status
  /\ UNCHANGED <<around, active, connected, refreshing, calls>>

Look(c) ==
  /\ Here(c, "look")
  /\ Move(c, IF doing[c].status.connected /\ (doing[c].changed \/ cachedModels = Nobody)
             THEN "list" ELSE "done")
  /\ UNCHANGED <<around, active, connected, authProfile, cachedModels, refreshing, calls>>

\* ListModels takes the token of whoever is active now, and asks with it.
TakeToken(c) ==
  /\ Here(c, "list") /\ active \in connected
  /\ doing' = [doing EXCEPT ![c] = [@ EXCEPT !.at = "store", !.listed = active]]
  /\ UNCHANGED <<around, active, connected, authProfile, cachedModels, refreshing, calls>>

ListFails(c) ==
  /\ doing[c].at \in {"list", "store"}
  /\ Move(c, "done")
  /\ UNCHANGED <<around, active, connected, authProfile, cachedModels, refreshing, calls>>

\* mutant: what was listed is stored whatever happened meanwhile
AlwaysCurrent(c) == TRUE

\* The list is stored if no other sync has recorded another account meanwhile.
StillCurrent(c) == authProfile = doing[c].status

StoreListed(c) ==
  /\ Here(c, "store")
  /\ cachedModels' = IF StillCurrent(c) THEN doing[c].listed ELSE cachedModels
  /\ Move(c, "done")
  /\ UNCHANGED <<around, active, connected, authProfile, refreshing, calls>>

CallerStep(c) == \/ Begin(c) \/ ReadStatus(c) \/ StatusFails(c) \/ Compare(c) \/ Look(c)
                 \/ TakeToken(c) \/ ListFails(c) \/ StoreListed(c)

------------------------------------------------------------------------------
(* refreshModelCacheLoop.                                                      *)

Tick ==
  /\ refreshing.at = "idle" /\ around = "all"
  /\ refreshing' = [at |-> "list", listed |-> Nobody]
  /\ UNCHANGED <<around, active, connected, authProfile, cachedModels, doing, calls>>

RefreshTakesToken ==
  /\ refreshing.at = "list" /\ active \in connected
  /\ refreshing' = [at |-> "store", listed |-> active]
  /\ UNCHANGED <<around, active, connected, authProfile, cachedModels, doing, calls>>

RefreshFails ==
  /\ refreshing.at \in {"list", "store"}
  /\ refreshing' = [at |-> "store", listed |-> Nobody]
  /\ refreshing # refreshing'
  /\ UNCHANGED <<around, active, connected, authProfile, cachedModels, doing, calls>>

\* mutant: a refresh that failed leaves what there was
RefreshKeeps(models) == IF models = Nobody THEN cachedModels ELSE models

\* What was found replaces the cache, whoever is active by now; nothing, after a failure.
Refreshed(models) == models

RefreshStores ==
  /\ refreshing.at = "store"
  /\ cachedModels' = Refreshed(refreshing.listed)
  /\ refreshing' = [at |-> "idle", listed |-> Nobody]
  /\ UNCHANGED <<around, active, connected, authProfile, doing, calls>>

RefreshStep == Tick \/ RefreshTakesToken \/ RefreshFails \/ RefreshStores

CatalogueNext == (\E c \in Callers : CallerStep(c)) \/ RefreshStep
CatalogueSpec == CatalogueInit /\ [][CatalogueNext]_catalogueVars

\* The ticker ticks, and every refresh has a time limit.
CatalogueFairness == WF_catalogueVars(RefreshStep)

------------------------------------------------------------------------------
(* Properties.                                                                 *)

\* Between two ticks, once the status of the active account was synced the choices are
\* that account's or none, never another's, however many requests switch, disconnect
\* and list at the same time (gateway/chatgpt.go:109-134).
CatalogueIsActive ==
  around = "requests" /\ authProfile = Signature => cachedModels \in {active, Nobody}

\* "account switching refreshes Gateway choices" (providers/chatgpt/README.md:110-111):
\* a refresh that began under the account before may store its models after the switch,
\* but not for good.
CatalogueRecovers == around = "all" => <>[](cachedModels \in {active, Nobody})
==============================================================================
