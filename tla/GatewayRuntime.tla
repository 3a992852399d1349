---------------------------- MODULE GatewayRuntime ---------------------------
(* The gateway generations of the process (cmd/llm-provider/runtime.go): every  *)
(* HTTP request is pinned to the generation it starts on, a reload publishes a   *)
(* replacement at once and closes the previous Gateway when its last request     *)
(* has returned, and Close retires the last one.                                 *)
(* One action is one critical section of gatewayRuntime.mu, the end of a Wait,   *)
(* or a call on a Gateway.                                                       *)
EXTENDS Naturals

CONSTANTS Requests,      \* HTTP requests, each served at most once
          Reloaders,     \* goroutines that call Reload
          MaxReloads,    \* bound on the replacements built
          None           \* the nil generation

ASSUME NoneAssumption       == None \notin Nat
ASSUME MaxReloadsAssumption == MaxReloads \in Nat

VARIABLES
  last,      \* generations 0 .. last were built, in this order
  current,   \* gatewayRuntime.current: a generation, or None (nil)
  closed,    \* gatewayRuntime.closed
  shut,      \* generations whose Gateway was closed
  members,   \* requests counted in the WaitGroup of a generation
  at,        \* where the handler of a request is
  pin,       \* the generation it holds
  rl,        \* where a Reload call is
  mine,      \* the replacement it built
  prev,      \* the generation it retires
  cl,        \* where the Close call is
  clPrev     \* the generation it retires

runtime == <<last, current, closed, shut>>
serving == <<members, at, pin>>
reload  == <<rl, mine, prev>>
closing == <<cl, clPrev>>
vars    == <<runtime, serving, reload, closing>>

Generations == 0 .. MaxReloads

TypeOK ==
  /\ last \in Generations /\ current \in Generations \cup {None}
  /\ closed \in BOOLEAN /\ shut \subseteq Generations
  /\ members \in [Generations -> SUBSET Requests]
  /\ at \in [Requests -> {"new", "serving", "unavailable", "returned"}]
  /\ pin \in [Requests -> Generations \cup {None}]
  /\ rl \in [Reloaders -> {"idle", "build", "swap", "discard", "drain", "auth", "close"}]
  /\ mine \in [Reloaders -> Generations \cup {None}]
  /\ prev \in [Reloaders -> Generations \cup {None}]
  /\ cl \in {"idle", "drain", "done"} /\ clPrev \in Generations \cup {None}

Init ==
  /\ last = 0 /\ current = 0 /\ closed = FALSE /\ shut = {}
  /\ members = [g \in Generations |-> {}]
  /\ at = [q \in Requests |-> "new"] /\ pin = [q \in Requests |-> None]
  /\ rl = [w \in Reloaders |-> "idle"]
  /\ mine = [w \in Reloaders |-> None] /\ prev = [w \in Reloaders |-> None]
  /\ cl = "idle" /\ clPrev = None

------------------------------------------------------------------------------
(* ServeHTTP.                                                                  *)

PinUncounted(q) ==                                               \* mutant
  pin' = [pin EXCEPT ![q] = current] /\ members' = members

\* The generation is read and its WaitGroup raised in one critical section.
Pin(q) == /\ pin' = [pin EXCEPT ![q] = current]
          /\ members' = [members EXCEPT ![current] = @ \cup {q}]

Serve(q) ==
  /\ at[q] = "new"
  /\ IF closed \/ current = None
     THEN at' = [at EXCEPT ![q] = "unavailable"] /\ UNCHANGED <<members, pin>>
     ELSE at' = [at EXCEPT ![q] = "serving"] /\ Pin(q)
  /\ UNCHANGED <<runtime, reload, closing>>

DoneForgotten(q) == members' = members                           \* mutant

Done(q) == members' = [members EXCEPT ![pin[q]] = @ \ {q}]

\* The handler of a request returned; the deferred Done follows.
Return(q) ==
  /\ at[q] = "serving"
  /\ at' = [at EXCEPT ![q] = "returned"]
  /\ Done(q)
  /\ UNCHANGED <<pin, runtime, reload, closing>>

------------------------------------------------------------------------------
(* Reload.                                                                     *)

StartReload(w) ==
  /\ rl[w] = "idle" /\ last < MaxReloads
  /\ rl' = [rl EXCEPT ![w] = "build"]
  /\ UNCHANGED <<mine, prev, runtime, serving, closing>>

\* gateway.NewContext warms the replacement's model caches, or fails.
Build(w) ==
  /\ rl[w] = "build" /\ last < MaxReloads
  /\ last' = last + 1
  /\ mine' = [mine EXCEPT ![w] = last + 1]
  /\ rl' = [rl EXCEPT ![w] = "swap"]
  /\ UNCHANGED <<current, closed, shut, prev, serving, closing>>

BuildFails(w) ==
  /\ rl[w] = "build"
  /\ rl' = [rl EXCEPT ![w] = "idle"]
  /\ UNCHANGED <<mine, prev, runtime, serving, closing>>

Swap(w) ==
  /\ rl[w] = "swap"
  /\ IF closed
     THEN rl' = [rl EXCEPT ![w] = "discard"] /\ UNCHANGED <<current, prev>>
     ELSE /\ prev' = [prev EXCEPT ![w] = current]
          /\ current' = mine[w]
          /\ rl' = [rl EXCEPT ![w] = "drain"]
  /\ UNCHANGED <<last, closed, shut, mine, serving, closing>>

DiscardLeaks(w) == shut' = shut                                  \* mutant

\* The replacement of a closed runtime is closed in its turn.
CloseReplacement(w) == shut' = shut \cup {mine[w]}

Discard(w) ==
  /\ rl[w] = "discard"
  /\ CloseReplacement(w)
  /\ rl' = [rl EXCEPT ![w] = "idle"]
  /\ UNCHANGED <<last, current, closed, mine, prev, serving, closing>>

DrainedAtOnce(g) == TRUE                                         \* mutant

\* sync.WaitGroup.Wait
Drained(g) == members[g] = {}

Drain(w) ==
  /\ rl[w] = "drain" /\ Drained(prev[w])
  /\ rl' = [rl EXCEPT ![w] = "auth"]
  /\ UNCHANGED <<mine, prev, runtime, serving, closing>>

\* waitAuthentication: the sign-in of the retired Gateway has ended, or the
\* reload's context is done.
AuthenticationEnds(w) ==
  /\ rl[w] = "auth"
  /\ rl' = [rl EXCEPT ![w] = "close"]
  /\ UNCHANGED <<mine, prev, runtime, serving, closing>>

\* gatewayGeneration.close waits again, then closes the Gateway.
CloseGeneration(w) ==
  /\ rl[w] = "close" /\ Drained(prev[w])
  /\ shut' = shut \cup {prev[w]}
  /\ rl' = [rl EXCEPT ![w] = "idle"]
  /\ UNCHANGED <<last, current, closed, mine, prev, serving, closing>>

ReloadStep(w) == Build(w) \/ BuildFails(w) \/ Swap(w) \/ Discard(w) \/ Drain(w)
                 \/ AuthenticationEnds(w) \/ CloseGeneration(w)

------------------------------------------------------------------------------
(* Close.  A second call returns at once.                                      *)

BeginClose ==
  /\ cl = "idle" /\ ~closed
  /\ closed' = TRUE /\ current' = None
  /\ clPrev' = current
  /\ cl' = IF current = None THEN "done" ELSE "drain"
  /\ UNCHANGED <<last, shut, serving, reload>>

FinishClose ==
  /\ cl = "drain" /\ Drained(clPrev)
  /\ shut' = shut \cup {clPrev}
  /\ cl' = "done"
  /\ UNCHANGED <<last, current, closed, clPrev, serving, reload>>

------------------------------------------------------------------------------
Next == \/ \E q \in Requests : Serve(q) \/ Return(q)
        \/ \E w \in Reloaders : StartReload(w) \/ ReloadStep(w)
        \/ BeginClose \/ FinishClose

Spec == Init /\ [][Next]_vars

\* Goroutines run; handlers return; a build and a sign-in end, however they end.
\* Nobody need call Reload or Close.
Fairness == /\ \A q \in Requests : WF_vars(Return(q))
            /\ \A w \in Reloaders : WF_vars(ReloadStep(w))
            /\ WF_vars(FinishClose)
FairSpec == Spec /\ Fairness

------------------------------------------------------------------------------
(* Properties.                                                                 *)

\* No request runs on a Gateway that was closed under it, whatever reloads and
\* Close do meanwhile (a request counted too late would escape their Wait).
RunsOnOpenGateway ==
  \A q \in Requests : at[q] = "serving" => pin[q] \in 0 .. last /\ pin[q] \notin shut

\* A reload holds its replacement, or the generation it retires.
Unpublished(w) == rl[w] \in {"swap", "discard"}
Retiring(w)    == rl[w] \in {"drain", "auth", "close"}

\* Who will close generation g.
Owned(g) ==
  \/ current = g
  \/ \E w \in Reloaders : Unpublished(w) /\ mine[w] = g
  \/ \E w \in Reloaders : Retiring(w) /\ prev[w] = g
  \/ cl = "drain" /\ clPrev = g

\* Every Gateway that was built and is not closed is still somebody's to close: no
\* race of reloads with each other or with Close leaks providers and their processes.
NoGatewayLeaked == \A g \in 0 .. last : g \notin shut => Owned(g)

\* A generation that somebody retires is never published, nor published again, and
\* no two callers retire the same one: a closed Gateway cannot come back.
RetiredForGood ==
  /\ current # None => current <= last /\ current \notin shut
  /\ \A w \in Reloaders :
       /\ Unpublished(w) =>
            mine[w] \in 1 .. last /\ mine[w] \notin shut /\ mine[w] # current
       /\ Retiring(w) =>
            prev[w] \in 0 .. last /\ prev[w] \notin shut /\ prev[w] # current
  /\ cl = "drain" => clPrev \in 0 .. last /\ clPrev \notin shut
  /\ cl = "idle" => current # None /\ ~closed
  /\ cl # "idle" => current = None /\ closed

\* Two callers never own the same generation.
OwnersDiffer ==
  /\ \A v, w \in Reloaders : v # w =>
       /\ Unpublished(v) /\ Unpublished(w) => mine[v] # mine[w]
       /\ Retiring(v) /\ Retiring(w) =>
            prev[v] # prev[w]
       /\ Unpublished(v) /\ Retiring(w) =>
            mine[v] # prev[w]
  /\ cl = "drain" => \A w \in Reloaders :
       /\ Unpublished(w) => mine[w] # clPrev
       /\ Retiring(w) => prev[w] # clPrev

\* What makes these inductive: the WaitGroup of a generation holds exactly the
\* requests pinned to it, and none is pinned to a replacement before its publication.
MembersArePinned ==
  /\ \A q \in Requests, g \in Generations : q \in members[g] <=> at[q] = "serving" /\ pin[q] = g
  /\ \A w \in Reloaders, q \in Requests :
       Unpublished(w) /\ at[q] = "serving" => pin[q] # mine[w]
  /\ shut \subseteq 0 .. last

IInv == /\ TypeOK /\ MembersArePinned /\ RunsOnOpenGateway /\ NoGatewayLeaked
        /\ RetiredForGood /\ OwnersDiffer

\* A reload ends once the requests of the generation it retires have returned: it
\* never waits for a request that the replacement serves.
ReloadEnds == \A w \in Reloaders : rl[w] = "build" ~> rl[w] = "idle"
==============================================================================
