-------------------------- MODULE ConfigReload_proofs -------------------------
(* Proofs about the process around the runtime, for any number of requests, writes   *)
(* of the file and replacements: what it does with the runtime is a behaviour of     *)
(* GatewayRuntime, whose proofs are used here through an instance, and its exit      *)
(* finds every Gateway closed and no request running.                                *)
EXTENDS ConfigReload, TLAPS

Proved == INSTANCE GatewayRuntime_proofs WITH Reloaders <- {Worker}

------------------------------------------------------------------------------
(* The two instances of GatewayRuntime are one: what is proved of Proved holds of RT. *)

LEMMA SameInit == RT!Init => Proved!Init
  BY DEF RT!Init, Proved!Init, RT!Generations, Proved!Generations

LEMMA SameInv == RT!IInv <=> Proved!IInv
  BY DEF RT!IInv, Proved!IInv, RT!TypeOK, Proved!TypeOK, RT!Generations, Proved!Generations,
         RT!MembersArePinned, Proved!MembersArePinned, RT!RunsOnOpenGateway, Proved!RunsOnOpenGateway,
         RT!NoGatewayLeaked, Proved!NoGatewayLeaked, RT!Owned, Proved!Owned,
         RT!RetiredForGood, Proved!RetiredForGood, RT!OwnersDiffer, Proved!OwnersDiffer,
         RT!Unpublished, Proved!Unpublished, RT!Retiring, Proved!Retiring

LEMMA SameStep == [RT!Next]_(RT!vars) => [Proved!Next]_(Proved!vars)
<1> USE DEF RT!vars, Proved!vars, RT!runtime, Proved!runtime, RT!serving, Proved!serving,
            RT!reload, Proved!reload, RT!closing, Proved!closing, RT!Drained, Proved!Drained
<1>1. ASSUME NEW q \in Requests, RT!Serve(q) \/ RT!Return(q) PROVE Proved!Serve(q) \/ Proved!Return(q)
  BY <1>1 DEF RT!Serve, Proved!Serve, RT!Pin, Proved!Pin, RT!Return, Proved!Return, RT!Done, Proved!Done
<1>2. ASSUME NEW w \in {Worker}, RT!StartReload(w) \/ RT!ReloadStep(w)
      PROVE  Proved!StartReload(w) \/ Proved!ReloadStep(w)
  BY <1>2
  DEF RT!StartReload, Proved!StartReload, RT!ReloadStep, Proved!ReloadStep, RT!Build, Proved!Build,
      RT!BuildFails, Proved!BuildFails, RT!Swap, Proved!Swap, RT!Discard, Proved!Discard,
      RT!CloseReplacement, Proved!CloseReplacement, RT!Drain, Proved!Drain,
      RT!AuthenticationEnds, Proved!AuthenticationEnds, RT!CloseGeneration, Proved!CloseGeneration
<1>3. RT!BeginClose \/ RT!FinishClose => Proved!BeginClose \/ Proved!FinishClose
  BY DEF RT!BeginClose, Proved!BeginClose, RT!FinishClose, Proved!FinishClose
<1> QED
  BY <1>1, <1>2, <1>3 DEF RT!Next, Proved!Next

\* The invariant of the runtime, for this instance of it.
LEMMA RuntimeInit == RT!Init => RT!IInv
  BY SameInit, SameInv, NoneAssumption, MaxReloadsAssumption, Proved!InitInv

LEMMA RuntimeStep == RT!IInv /\ [RT!Next]_(RT!vars) => RT!IInv'
<1>1. Proved!IInv /\ [Proved!Next]_(Proved!vars) => Proved!IInv'
  BY NoneAssumption, MaxReloadsAssumption, Proved!StepInv
<1>2. Proved!IInv' => RT!IInv'
  BY SameInv, PTL
<1> QED
  BY <1>1, <1>2, SameInv, SameStep

------------------------------------------------------------------------------
(* The process and the runtime.                                                *)

\* Every step of the process is a step of the runtime, or none of it.
LEMMA ProcessStep == [Next]_vars => [RT!Next]_(RT!vars)
<1> SUFFICES ASSUME [Next]_vars PROVE RT!Next \/ UNCHANGED RT!vars
  OBVIOUS
<1>1. UNCHANGED runtime => UNCHANGED RT!vars
  BY DEF runtime, RT!vars, RT!runtime, RT!serving, RT!reload, RT!closing
<1>2. CASE HTTP
  BY <1>2 DEF HTTP, RT!Next
<1>3. CASE WatcherStep
  BY <1>1, <1>3 DEF WatcherStep, HandleEvent, TimerFires, WatcherStops, WatcherReturns
<1>4. CASE WorkerStep
  BY <1>1, <1>4 DEF WorkerStep, TakeRequest, WorkerReturns, LoadRejected, Load, Reload, RT!Next
<1>5. CASE MainStep
  BY <1>5 DEF MainStep, BeginClose, Exit, RT!Next
<1>6. CASE (\E valid \in BOOLEAN : WriteFile(valid)) \/ Interrupt \/ ServerReturns
  BY <1>1, <1>6 DEF WriteFile, Interrupt, ServerReturns
<1>7. CASE UNCHANGED vars
  BY <1>1, <1>7 DEF vars
<1> QED
  BY <1>2, <1>3, <1>4, <1>5, <1>6, <1>7 DEF Next

\* The process uses the runtime as its callers are expected to: one worker reloads, and
\* the runtime is closed once (cmd/llm-provider/main.go).
THEOREM ProcessUsesRuntime == Spec => RT!Spec
<1>1. Init => RT!Init
  BY DEF Init
<1> QED
  BY <1>1, ProcessStep, PTL DEF Spec, RT!Spec

------------------------------------------------------------------------------
(* The exit.                                                                   *)

Flags == {timer, token, ctx} \subseteq BOOLEAN

\* The types, and that every event is of a write.
ProcessTypeOK ==
  /\ Flags
  /\ file \in 0 .. MaxWrites /\ bad \subseteq 1 .. MaxWrites
  /\ events \in 0 .. file
  /\ watch \in {"run", "stopping", "returned"}
  /\ wk \in {"wait", "load", "reload", "returned"}
  /\ loading \in 0 .. MaxWrites /\ config \in [RT!Generations -> 0 .. MaxWrites]
  /\ main \in {"serve", "stopWatcher", "close", "exited"}

\* The worker is inside Reload exactly while it says so, the watcher has waited for it,
\* and run() for the watcher, before it closes the runtime.
ExitOrder ==
  /\ wk = "reload" <=> rl[Worker] # "idle"
  /\ watch = "returned" => wk = "returned"
  /\ main \in {"close", "exited"} => watch = "returned"
  /\ main \in {"serve", "stopWatcher"} => cl = "idle"
  /\ main = "close" => cl = "drain"
  /\ main = "exited" => cl = "done"

LEMMA ExitOrderStep == RT!IInv /\ ExitOrder /\ [Next]_vars => ExitOrder'
<1> SUFFICES ASSUME RT!IInv, ExitOrder, [Next]_vars PROVE ExitOrder'
  OBVIOUS
<1> USE DEF ExitOrder, runtime, watcher, worker, process
<1>1. CASE HTTP
  BY <1>1 DEF HTTP, RT!Serve, RT!Return, RT!reload, RT!closing
<1>2. CASE WatcherStep
  BY <1>2 DEF WatcherStep, HandleEvent, TimerFires, WatcherStops, WatcherReturns
<1>3. CASE TakeRequest \/ WorkerReturns \/ LoadRejected
  BY <1>3 DEF TakeRequest, WorkerReturns, LoadRejected
<1>4. CASE Load
  <2>1. rl' = [rl EXCEPT ![Worker] = "build"] /\ rl \in [{Worker} -> {"idle", "build", "swap",
          "discard", "drain", "auth", "close"}]
    BY <1>4 DEF Load, RT!StartReload, RT!IInv, RT!TypeOK
  <2>2. rl'[Worker] # "idle" /\ wk = "load" /\ wk' = "reload" /\ UNCHANGED <<cl, watch, main>>
    BY <1>4, <2>1 DEF Load, RT!StartReload, RT!closing
  <2> QED
    BY <2>2
<1>5. CASE Reload
  <2>1. UNCHANGED <<cl, watch, main>>
    BY <1>5 DEF Reload, RT!ReloadStep, RT!Build, RT!BuildFails, RT!Swap, RT!Discard, RT!Drain,
                RT!AuthenticationEnds, RT!CloseGeneration, RT!closing
  <2>2. wk = "reload" /\ wk' = IF rl'[Worker] = "idle" THEN "wait" ELSE "reload"
    BY <1>5 DEF Reload
  <2> QED
    BY <2>1, <2>2
<1>6. CASE BeginClose
  <2>1. current # None
    BY <1>6 DEF BeginClose, RT!IInv, RT!RetiredForGood
  <2> QED
    BY <1>6, <2>1 DEF BeginClose, WatcherDone, RT!BeginClose, RT!reload
<1>7. CASE Exit
  BY <1>7 DEF Exit, RT!FinishClose, RT!reload
<1>8. CASE (\E valid \in BOOLEAN : WriteFile(valid)) \/ Interrupt \/ ServerReturns
  BY <1>8 DEF WriteFile, Interrupt, ServerReturns, Running
<1>9. CASE UNCHANGED vars
  BY <1>9 DEF vars
<1> QED
  BY <1>1, <1>2, <1>3, <1>4, <1>5, <1>6, <1>7, <1>8, <1>9 DEF Next, WorkerStep, MainStep

\* At the exit nobody is left to close a Gateway, so all of them are closed.
LEMMA ExitFindsAllClosed ==
  RT!IInv /\ ExitOrder /\ main = "exited" =>
    0 .. last \subseteq shut /\ \A q \in Requests : at[q] # "serving"
<1> SUFFICES ASSUME RT!IInv, ExitOrder, main = "exited"
             PROVE  0 .. last \subseteq shut /\ \A q \in Requests : at[q] # "serving"
  OBVIOUS
<1>1. cl = "done" /\ current = None /\ \A w \in {Worker} : rl[w] = "idle"
  BY DEF ExitOrder, RT!IInv, RT!RetiredForGood
<1>2. \A g \in 0 .. last : ~RT!Owned(g)
  BY <1>1, NoneAssumption DEF RT!Owned, RT!Unpublished, RT!Retiring, RT!IInv, RT!TypeOK
<1>3. 0 .. last \subseteq shut
  BY <1>2 DEF RT!IInv, RT!NoGatewayLeaked
<1> QED
  BY <1>3 DEF RT!IInv, RT!RunsOnOpenGateway

LEMMA ProcessTypeStep == RT!TypeOK' /\ ProcessTypeOK /\ [Next]_vars => ProcessTypeOK'
<1> SUFFICES ASSUME RT!TypeOK', ProcessTypeOK, [Next]_vars PROVE ProcessTypeOK'
  OBVIOUS
<1> USE DEF runtime, watcher, worker, process
<1>0. Flags'
  <2>1. timer' \in {timer, TRUE, FALSE} /\ token' \in {token, TRUE, FALSE} /\ ctx' \in {ctx, TRUE}
    BY Zenon
    DEF Next, HTTP, WatcherStep, HandleEvent, TimerFires, RequestReload, WatcherStops,
        WatcherReturns, WorkerStep, TakeRequest, WorkerReturns, LoadRejected, Load, Reload, MainStep,
        BeginClose, Exit, WriteFile, Interrupt, ServerReturns, Stop, vars
  <2> QED
    BY <2>1 DEF ProcessTypeOK, Flags
<1> USE MaxWritesAssumption DEF ProcessTypeOK
<1>1. CASE HTTP
  BY <1>0, <1>1 DEF HTTP
<1>2. CASE WatcherStep
  <2>1. CASE HandleEvent
    BY <1>0, <2>1 DEF HandleEvent
  <2>2. CASE TimerFires \/ WatcherStops \/ WatcherReturns
    BY <1>0, <2>2 DEF TimerFires, WatcherStops, WatcherReturns
  <2> QED
    BY <1>2, <2>1, <2>2 DEF WatcherStep
<1>3. CASE TakeRequest \/ WorkerReturns \/ LoadRejected \/ Load
  BY <1>0, <1>3 DEF TakeRequest, WorkerReturns, LoadRejected, Load
<1>4. CASE Reload
  BY <1>0, <1>4 DEF Reload
<1>5. CASE MainStep
  BY <1>0, <1>5 DEF MainStep, BeginClose, Exit
<1>6. CASE (\E valid \in BOOLEAN : WriteFile(valid)) \/ Interrupt \/ ServerReturns
  <2>1. ASSUME NEW valid \in BOOLEAN, WriteFile(valid) PROVE ProcessTypeOK'
    <3>1. file' \in 0 .. MaxWrites /\ events' \in 0 .. file'
      BY <2>1 DEF WriteFile
    <3>2. bad' \subseteq 1 .. MaxWrites
      BY <2>1 DEF WriteFile
    <3> QED
      BY <1>0, <2>1, <3>1, <3>2 DEF WriteFile
  <2>2. CASE Interrupt \/ ServerReturns
    BY <1>0, <2>2 DEF Interrupt, ServerReturns
  <2> QED
    BY <1>6, <2>1, <2>2
<1>7. CASE UNCHANGED vars
  BY <1>0, <1>7 DEF vars
<1> QED
  BY <1>1, <1>2, <1>3, <1>4, <1>5, <1>6, <1>7 DEF Next, WorkerStep

\* run() returns with every Gateway closed and no request cut off, whatever reload the
\* worker was in when the process was told to stop.
THEOREM CleanExit == Spec => []ExitIsClean
<1> DEFINE Inv == RT!IInv /\ ProcessTypeOK /\ ExitOrder
<1>1. Init => Inv
  <2> SUFFICES ASSUME Init PROVE Inv
    OBVIOUS
  <2>1. RT!IInv
    BY RuntimeInit DEF Init
  <2>2. Flags /\ ExitOrder
    BY DEF Init, RT!Init, Flags, ExitOrder
  <2>3. ProcessTypeOK
    BY <2>2, MaxWritesAssumption DEF Init, ProcessTypeOK
  <2> QED
    BY <2>1, <2>2, <2>3
<1>2. Inv /\ [Next]_vars => Inv'
  <2>1. RT!IInv' => RT!TypeOK'
    BY DEF RT!IInv
  <2> QED
    BY <2>1, ProcessStep, RuntimeStep, ProcessTypeStep, ExitOrderStep
<1>3. Inv => ExitIsClean
  <2> SUFFICES ASSUME Inv PROVE ExitIsClean
    OBVIOUS
  <2>1. {timer, token, ctx} \subseteq BOOLEAN
    BY DEF ProcessTypeOK, Flags
  <2>2. events \in 0 .. MaxWrites
    BY MaxWritesAssumption DEF ProcessTypeOK
  <2>3. RT!TypeOK
    BY DEF RT!IInv
  <2> QED
    BY <2>1, <2>2, <2>3, ExitFindsAllClosed, Zenon DEF ExitIsClean, IInv, TypeOK, ProcessTypeOK
<1> QED
  BY <1>1, <1>2, <1>3, PTL DEF Spec
===============================================================================
