------------------------ MODULE GatewayRuntime_proofs ------------------------
(* Proofs about GatewayRuntime for any number of requests and reloads: the      *)
(* invariant IInv is inductive.                                                 *)
EXTENDS GatewayRuntime, TLAPS

USE NoneAssumption, MaxReloadsAssumption DEF Generations, Unpublished, Retiring

\* The generations built so far are generations.
LEMMA Built == ASSUME last \in Generations, NEW g \in 0 .. last
               PROVE g \in Generations
  OBVIOUS

LEMMA TypeInit == Init => TypeOK
<1> SUFFICES ASSUME Init PROVE TypeOK
  OBVIOUS
<1>1. 0 \in Generations
  OBVIOUS
<1> HIDE DEF Generations
<1> QED
  BY <1>1 DEF Init, TypeOK

\* Every step keeps the variables in their types.
LEMMA TypeStep == IInv /\ [Next]_vars => TypeOK'
<1> SUFFICES ASSUME IInv, [Next]_vars PROVE TypeOK'
  OBVIOUS
<1> USE DEF IInv, TypeOK
<1>1. ASSUME NEW q \in Requests, Serve(q) PROVE TypeOK'
  <2> HIDE DEF Generations
  <2> QED BY <1>1 DEF Serve, Pin, runtime, reload, closing
<1>2. ASSUME NEW q \in Requests, Return(q) PROVE TypeOK'
  BY <1>2 DEF Return, Done, runtime, reload, closing
<1>3. ASSUME NEW w \in Reloaders, StartReload(w) \/ BuildFails(w) \/ Drain(w) \/ AuthenticationEnds(w)
      PROVE TypeOK'
  BY <1>3 DEF StartReload, BuildFails, Drain, AuthenticationEnds, runtime, serving, closing
<1>4. ASSUME NEW w \in Reloaders, Build(w) PROVE TypeOK'
  BY <1>4 DEF Build, serving, closing
<1>5. ASSUME NEW w \in Reloaders, Swap(w) PROVE TypeOK'
  BY <1>5 DEF Swap, serving, closing
<1>6. ASSUME NEW w \in Reloaders, Discard(w) PROVE TypeOK'
  <2>1. mine[w] \in Generations
    BY <1>6, Built DEF Discard, RetiredForGood
  <2> HIDE DEF Generations
  <2> QED
    BY <1>6, <2>1 DEF Discard, CloseReplacement, serving, closing
<1>7. ASSUME NEW w \in Reloaders, CloseGeneration(w) PROVE TypeOK'
  <2>1. prev[w] \in Generations
    BY <1>7, Built DEF CloseGeneration, RetiredForGood
  <2> HIDE DEF Generations
  <2> QED
    BY <1>7, <2>1 DEF CloseGeneration, serving, closing
<1>8. CASE BeginClose
  BY <1>8 DEF BeginClose, serving, reload
<1>9. CASE FinishClose
  BY <1>9 DEF FinishClose, serving, reload, RetiredForGood
<1>10. CASE UNCHANGED vars
  BY <1>10 DEF vars, runtime, serving, reload, closing
<1> QED
  BY <1>1, <1>2, <1>3, <1>4, <1>5, <1>6, <1>7, <1>8, <1>9, <1>10 DEF Next, ReloadStep

\* A WaitGroup holds the requests that are pinned to its generation, at every step.
LEMMA MembersStep == IInv /\ [Next]_vars => MembersArePinned'
<1> SUFFICES ASSUME IInv, [Next]_vars PROVE MembersArePinned'
  OBVIOUS
<1> USE DEF IInv, TypeOK, MembersArePinned
<1>1. ASSUME NEW q \in Requests, Serve(q) PROVE MembersArePinned'
  BY <1>1 DEF Serve, Pin, runtime, reload, closing, RetiredForGood
<1>2. ASSUME NEW q \in Requests, Return(q) PROVE MembersArePinned'
  BY <1>2 DEF Return, Done, runtime, reload, closing, RunsOnOpenGateway
<1>3. ASSUME NEW w \in Reloaders, StartReload(w) \/ BuildFails(w) \/ Drain(w)
                                  \/ AuthenticationEnds(w)
      PROVE MembersArePinned'
  <2>1. UNCHANGED <<shut, last, members, at, pin, mine>>
    BY <1>3 DEF StartReload, BuildFails, Drain, AuthenticationEnds, runtime, serving
  <2>2. \A v \in Reloaders : Unpublished(v)' => Unpublished(v)
    BY <1>3 DEF StartReload, BuildFails, Drain, AuthenticationEnds
  <2> QED
    BY <2>1, <2>2
<1>8. ASSUME NEW w \in Reloaders, Swap(w) PROVE MembersArePinned'
  BY <1>8 DEF Swap, serving
<1>4. ASSUME NEW w \in Reloaders, Build(w) PROVE MembersArePinned'
  BY <1>4 DEF Build, serving, closing, RunsOnOpenGateway
<1>5. ASSUME NEW w \in Reloaders, Discard(w) \/ CloseGeneration(w) PROVE MembersArePinned'
  <2>1. shut' \subseteq 0 .. last /\ last' = last
    <3>1. CASE Discard(w)
      <4>1. mine[w] \in 0 .. last
        BY <3>1 DEF Discard, RetiredForGood
      <4>2. shut' = shut \cup {mine[w]} /\ last' = last
        BY <3>1 DEF Discard, CloseReplacement
      <4>3. shut \subseteq 0 .. last
        OBVIOUS
      <4> HIDE DEF IInv, TypeOK, MembersArePinned, Generations
      <4> QED
        BY <4>1, <4>2, <4>3
    <3>2. CASE CloseGeneration(w)
      <4>1. prev[w] \in 0 .. last
        BY <3>2 DEF CloseGeneration, RetiredForGood
      <4>2. shut' = shut \cup {prev[w]} /\ last' = last
        BY <3>2 DEF CloseGeneration
      <4>3. shut \subseteq 0 .. last
        OBVIOUS
      <4> HIDE DEF IInv, TypeOK, MembersArePinned, Generations
      <4> QED
        BY <4>1, <4>2, <4>3
    <3> QED
      BY <1>5, <3>1, <3>2
  <2> QED
    BY <1>5, <2>1 DEF Discard, CloseGeneration, serving
<1>6. CASE BeginClose \/ FinishClose
  <2>1. shut' \subseteq 0 .. last /\ last' = last
    <3>1. CASE BeginClose
      BY <3>1 DEF BeginClose
    <3>2. CASE FinishClose
      BY <3>2 DEF FinishClose, RetiredForGood
    <3> QED
      BY <1>6, <3>1, <3>2
  <2> QED
    BY <1>6, <2>1 DEF BeginClose, FinishClose, serving, reload
<1>7. CASE UNCHANGED vars
  BY <1>7 DEF vars, runtime, serving, reload, closing
<1> QED
  BY <1>1, <1>2, <1>3, <1>4, <1>5, <1>6, <1>7, <1>8 DEF Next, ReloadStep

\* Who retires or will publish a generation stays alone with it.
LEMMA OwnersStep == IInv /\ [Next]_vars => RetiredForGood' /\ OwnersDiffer'
<1> SUFFICES ASSUME IInv, [Next]_vars PROVE RetiredForGood' /\ OwnersDiffer'
  OBVIOUS
<1> USE DEF IInv, TypeOK, RetiredForGood, OwnersDiffer
<1>1. ASSUME NEW q \in Requests, Serve(q) \/ Return(q) PROVE RetiredForGood' /\ OwnersDiffer'
  BY <1>1 DEF Serve, Return, runtime, reload, closing
<1>2. ASSUME NEW w \in Reloaders, StartReload(w) \/ BuildFails(w) \/ Drain(w) \/ AuthenticationEnds(w)
      PROVE RetiredForGood' /\ OwnersDiffer'
  BY <1>2 DEF StartReload, BuildFails, Drain, AuthenticationEnds, runtime, serving, closing
<1>3. ASSUME NEW w \in Reloaders, Build(w) PROVE RetiredForGood' /\ OwnersDiffer'
  BY <1>3 DEF Build, serving, closing, MembersArePinned
<1>4. ASSUME NEW w \in Reloaders, Swap(w) PROVE RetiredForGood' /\ OwnersDiffer'
  BY <1>4 DEF Swap, serving, closing
<1>5. ASSUME NEW w \in Reloaders, Discard(w) PROVE RetiredForGood' /\ OwnersDiffer'
  BY <1>5 DEF Discard, CloseReplacement, serving, closing
<1>6. ASSUME NEW w \in Reloaders, CloseGeneration(w) PROVE RetiredForGood' /\ OwnersDiffer'
  BY <1>6 DEF CloseGeneration, serving, closing
<1>7. CASE BeginClose
  BY <1>7 DEF BeginClose, serving, reload
<1>8. CASE FinishClose
  BY <1>8 DEF FinishClose, serving, reload
<1>9. CASE UNCHANGED vars
  BY <1>9 DEF vars, runtime, reload, closing
<1> QED
  BY <1>1, <1>2, <1>3, <1>4, <1>5, <1>6, <1>7, <1>8, <1>9 DEF Next, ReloadStep

\* A Gateway is closed only when the WaitGroup of its generation is empty, or when it
\* was never published: no running request loses its Gateway.
LEMMA RunsStep == IInv /\ [Next]_vars => RunsOnOpenGateway'
<1> SUFFICES ASSUME IInv, [Next]_vars PROVE RunsOnOpenGateway'
  OBVIOUS
<1> USE DEF IInv, TypeOK, RunsOnOpenGateway, MembersArePinned
<1>1. ASSUME NEW q \in Requests, Serve(q) PROVE RunsOnOpenGateway'
  BY <1>1 DEF Serve, Pin, runtime, reload, closing, RetiredForGood
<1>2. ASSUME NEW q \in Requests, Return(q) PROVE RunsOnOpenGateway'
  BY <1>2 DEF Return, runtime
<1>3. ASSUME NEW w \in Reloaders, StartReload(w) \/ BuildFails(w) \/ Drain(w)
                                  \/ AuthenticationEnds(w) \/ Swap(w) \/ Build(w)
      PROVE RunsOnOpenGateway'
  BY <1>3 DEF StartReload, BuildFails, Drain, AuthenticationEnds, Swap, Build, runtime, serving
<1>4. ASSUME NEW w \in Reloaders, CloseGeneration(w) PROVE RunsOnOpenGateway'
  BY <1>4 DEF CloseGeneration, Drained, serving
<1>5. CASE FinishClose
  BY <1>5 DEF FinishClose, Drained, serving
<1>6. CASE BeginClose
  BY <1>6 DEF BeginClose, serving
<1>7. ASSUME NEW w \in Reloaders, Discard(w) PROVE RunsOnOpenGateway'
  BY <1>7 DEF Discard, CloseReplacement, serving, Drained
<1>8. CASE UNCHANGED vars
  BY <1>8 DEF vars, runtime, serving
<1> QED
  BY <1>1, <1>2, <1>3, <1>4, <1>5, <1>6, <1>7, <1>8 DEF Next, ReloadStep
\* No Gateway loses its last owner without being closed.
LEMMA LeakStep == IInv /\ [Next]_vars => NoGatewayLeaked'
<1> SUFFICES ASSUME IInv, [Next]_vars PROVE NoGatewayLeaked'
  OBVIOUS
<1> USE DEF IInv, TypeOK, NoGatewayLeaked, Owned
<1>1. ASSUME NEW q \in Requests, Serve(q) \/ Return(q) PROVE NoGatewayLeaked'
  BY <1>1 DEF Serve, Return, runtime, reload, closing
<1>2. ASSUME NEW w \in Reloaders, StartReload(w) \/ BuildFails(w) \/ Drain(w) \/ AuthenticationEnds(w)
      PROVE NoGatewayLeaked'
  BY <1>2 DEF StartReload, BuildFails, Drain, AuthenticationEnds, runtime, closing
<1>3. ASSUME NEW w \in Reloaders, Build(w) PROVE NoGatewayLeaked'
  BY <1>3 DEF Build, closing
<1>4. ASSUME NEW w \in Reloaders, Swap(w) PROVE NoGatewayLeaked'
  <2> SUFFICES ASSUME NEW g \in 0 .. last', g \notin shut' PROVE Owned(g)'
    OBVIOUS
  <2>1. g \in 0 .. last /\ g \notin shut /\ cl' = cl /\ clPrev' = clPrev
    BY <1>4 DEF Swap, closing
  <2>2. CASE closed
    <3>1. rl' = [rl EXCEPT ![w] = "discard"] /\ UNCHANGED <<current, mine, prev>>
      BY <1>4, <2>2 DEF Swap
    <3> QED
      BY <1>4, <2>1, <3>1 DEF Swap
  <2>3. CASE ~closed
    <3>1. /\ rl' = [rl EXCEPT ![w] = "drain"] /\ prev' = [prev EXCEPT ![w] = current]
          /\ current' = mine[w] /\ mine' = mine /\ rl[w] = "swap"
      BY <1>4, <2>3 DEF Swap
    <3>2. rl'[w] = "drain" /\ prev'[w] = current
      BY <3>1
    <3>3. \A v \in Reloaders : v # w => rl'[v] = rl[v] /\ prev'[v] = prev[v]
      BY <3>1
    <3>4. CASE current = g
      BY <3>2, <3>4
    <3>5. CASE \E v \in Reloaders : Unpublished(v) /\ mine[v] = g
      BY <3>1, <3>3, <3>5
    <3>6. CASE \E v \in Reloaders : Retiring(v) /\ prev[v] = g
      BY <3>1, <3>3, <3>6
    <3> QED
      BY <2>1, <3>4, <3>5, <3>6
  <2> QED
    BY <2>2, <2>3
<1>5. ASSUME NEW w \in Reloaders, Discard(w) PROVE NoGatewayLeaked'
  BY <1>5 DEF Discard, CloseReplacement, closing
<1>6. ASSUME NEW w \in Reloaders, CloseGeneration(w) PROVE NoGatewayLeaked'
  BY <1>6 DEF CloseGeneration, closing
<1>7. CASE BeginClose
  BY <1>7 DEF BeginClose, reload, RetiredForGood
<1>8. CASE FinishClose
  BY <1>8 DEF FinishClose, reload
<1>9. CASE UNCHANGED vars
  BY <1>9 DEF vars, runtime, reload, closing
<1> QED
  BY <1>1, <1>2, <1>3, <1>4, <1>5, <1>6, <1>7, <1>8, <1>9 DEF Next, ReloadStep

LEMMA InitInv == Init => IInv
<1> SUFFICES ASSUME Init PROVE IInv
  OBVIOUS
<1>1. MembersArePinned
  BY DEF Init, MembersArePinned
<1>2. RunsOnOpenGateway /\ NoGatewayLeaked
  BY DEF Init, RunsOnOpenGateway, NoGatewayLeaked, Owned
<1>3. RetiredForGood /\ OwnersDiffer
  BY DEF Init, RetiredForGood, OwnersDiffer
<1> QED
  BY TypeInit, <1>1, <1>2, <1>3 DEF IInv

LEMMA StepInv == IInv /\ [Next]_vars => IInv'
  BY TypeStep, MembersStep, OwnersStep, RunsStep, LeakStep DEF IInv

------------------------------------------------------------------------------
\* The invariant of the runtime, whatever the number of requests, reloads and their
\* interleaving with Close: WaitGroups hold the pinned requests, owners are distinct.
THEOREM Invariance == Spec => []IInv
  BY InitInv, StepInv, PTL DEF Spec

\* runtime.go:21-23: a request finishes on the generation it started on, which is not
\* closed before.
THEOREM RequestsKeepTheirGateway == Spec => []RunsOnOpenGateway
<1>1. IInv => RunsOnOpenGateway
  BY DEF IInv
<1> QED
  BY Invariance, <1>1, PTL

\* Every Gateway that was built is closed, or there is a caller whose next steps
\* close it.
THEOREM GatewaysAreOwned == Spec => []NoGatewayLeaked
<1>1. IInv => NoGatewayLeaked
  BY DEF IInv
<1> QED
  BY Invariance, <1>1, PTL
==============================================================================
