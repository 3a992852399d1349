----------------------------- MODULE ConfigReload ----------------------------
(* The process around the gateway generations (cmd/llm-provider/main.go and     *)
(* config_watcher.go): the watcher debounces the events of the configuration     *)
(* file, its worker loads the file and reloads the runtime, and run() stops the  *)
(* watcher and closes the runtime before it returns.                             *)
(* The runtime is GatewayRuntime, whose only caller of Reload is the worker.     *)
EXTENDS Naturals

CONSTANTS Requests,      \* HTTP requests
          MaxWrites,     \* bound on the writes of the configuration file
          MaxReloads,    \* bound on the replacements built
          Flaky,         \* building a replacement may fail although its file is valid
          Worker,        \* the goroutine of configWatcher.Run
          None

ASSUME MaxWritesAssumption  == MaxWrites \in Nat
ASSUME MaxReloadsAssumption == MaxReloads \in Nat
ASSUME FlakyAssumption      == Flaky \in BOOLEAN
ASSUME NoneAssumption       == None \notin Nat

VARIABLES
  file,      \* the version of the configuration file
  bad,       \* the versions LoadConfig rejects (half-written ones, say)
  events,    \* events in configWatcher.watcher.Events
  timer,     \* the debounce timer runs
  token,     \* reloadRequests holds its one element
  watch,     \* configWatcher.Run
  wk,        \* its worker
  loading,   \* the version the worker loaded
  config,    \* the version each generation was built from
  ctx,       \* the context of NotifyContext is done
  main       \* where run() is

VARIABLES last, current, closed, shut, members, at, pin, rl, mine, prev, cl, clPrev

RT == INSTANCE GatewayRuntime WITH Reloaders <- {Worker}

watcher == <<events, timer, token, watch>>
worker  == <<wk, loading, config>>
runtime == <<last, current, closed, shut, members, at, pin, rl, mine, prev, cl, clPrev>>
process == <<file, bad, ctx, main>>
vars    == <<watcher, worker, process, runtime>>

TypeOK ==
  /\ RT!TypeOK
  /\ file \in 0 .. MaxWrites /\ bad \subseteq 1 .. MaxWrites
  /\ events \in 0 .. MaxWrites /\ {timer, token, ctx} \subseteq BOOLEAN
  /\ watch \in {"run", "stopping", "returned"}
  /\ wk \in {"wait", "load", "reload", "returned"}
  /\ loading \in 0 .. MaxWrites /\ config \in [RT!Generations -> 0 .. MaxWrites]
  /\ main \in {"serve", "stopWatcher", "close", "exited"}

Init ==
  /\ RT!Init
  /\ file = 0 /\ bad = {} /\ events = 0 /\ timer = FALSE /\ token = FALSE
  /\ watch = "run" /\ wk = "wait" /\ loading = 0
  /\ config = [g \in RT!Generations |-> 0]
  /\ ctx = FALSE /\ main = "serve"

Running == main # "exited"

------------------------------------------------------------------------------
(* The file and the HTTP server.                                               *)

\* An editor saves the file; fsnotify reports it.
WriteFile(valid) ==
  /\ Running /\ file < MaxWrites
  /\ file' = file + 1
  /\ bad' = IF valid THEN bad ELSE bad \cup {file + 1}
  /\ events' = events + 1
  /\ UNCHANGED <<timer, token, watch, worker, ctx, main, runtime>>

\* net/http hands a connection's request to the runtime, or its handler returns.
HTTP == /\ Running
        /\ \E q \in Requests : RT!Serve(q) \/ RT!Return(q)
        /\ UNCHANGED <<watcher, worker, process>>

------------------------------------------------------------------------------
(* configWatcher.Run.                                                          *)

\* An event of the file starts the timer, or starts it anew.
HandleEvent ==
  /\ watch = "run" /\ events > 0
  /\ events' = events - 1
  /\ timer' = TRUE
  /\ UNCHANGED <<token, watch, worker, process, runtime>>

RequestIfIdle == token' = (token \/ wk = "wait")                 \* mutant

\* A request that finds one waiting is dropped: the worker has yet to load the file.
RequestReload == token' = TRUE

TimerFires ==
  /\ watch = "run" /\ timer
  /\ timer' = FALSE
  /\ RequestReload
  /\ UNCHANGED <<events, watch, worker, process, runtime>>

\* The deferred cancelWorker, then <-workerDone.
WatcherStops ==
  /\ watch = "run" /\ ctx
  /\ watch' = "stopping"
  /\ UNCHANGED <<events, timer, token, worker, process, runtime>>

WatcherReturns ==
  /\ watch = "stopping" /\ wk = "returned"
  /\ watch' = "returned"
  /\ UNCHANGED <<events, timer, token, worker, process, runtime>>

------------------------------------------------------------------------------
(* The worker.  Once the context is done, select may still take a request.      *)

TakeRequest ==
  /\ wk = "wait" /\ token
  /\ token' = FALSE
  /\ wk' = "load"
  /\ UNCHANGED <<events, timer, watch, loading, config, process, runtime>>

WorkerReturns ==
  /\ wk = "wait" /\ ctx
  /\ wk' = "returned"
  /\ UNCHANGED <<watcher, loading, config, process, runtime>>

\* loadGatewayConfig; a file it rejects leaves the current Gateway in place.
LoadRejected ==
  /\ wk = "load" /\ file \in bad
  /\ wk' = "wait"
  /\ UNCHANGED <<watcher, loading, config, process, runtime>>

Load ==
  /\ wk = "load" /\ file \notin bad
  /\ loading' = file
  /\ RT!StartReload(Worker)
  /\ wk' = "reload"
  /\ UNCHANGED <<watcher, config, process>>

\* The steps of runtime.Reload; the worker goes on when it has returned.
Reload ==
  /\ wk = "reload"
  /\ RT!ReloadStep(Worker)
  /\ RT!BuildFails(Worker) => Flaky \/ ctx
  /\ config' = IF last' = last THEN config ELSE [config EXCEPT ![last'] = loading]
  /\ wk' = IF rl'[Worker] = "idle" THEN "wait" ELSE "reload"
  /\ UNCHANGED <<watcher, loading, process>>

------------------------------------------------------------------------------
(* run().                                                                      *)

\* SIGINT or SIGTERM.
Interrupt ==
  /\ Running /\ ~ctx
  /\ ctx' = TRUE
  /\ UNCHANGED <<file, bad, main, watcher, worker, runtime>>

StopForgotten == ctx' = ctx                                      \* mutant
Stop == ctx' = TRUE

\* ListenAndServe returns, after Shutdown or with an error; the deferred stop
\* follows, and run() waits for the watcher.
ServerReturns ==
  /\ main = "serve"
  /\ Stop
  /\ main' = "stopWatcher"
  /\ UNCHANGED <<file, bad, watcher, worker, runtime>>

CloseAtOnce == TRUE                                              \* mutant
WatcherDone == watch = "returned"

\* The deferred runtime.Close.
BeginClose ==
  /\ main = "stopWatcher" /\ WatcherDone
  /\ RT!BeginClose
  /\ main' = "close"
  /\ UNCHANGED <<file, bad, ctx, watcher, worker>>

Exit ==
  /\ main = "close"
  /\ RT!FinishClose
  /\ main' = "exited"
  /\ UNCHANGED <<file, bad, ctx, watcher, worker>>

------------------------------------------------------------------------------
WatcherStep == HandleEvent \/ TimerFires \/ WatcherStops \/ WatcherReturns
WorkerStep  == TakeRequest \/ WorkerReturns \/ LoadRejected \/ Load \/ Reload
MainStep    == BeginClose \/ Exit

Next == \/ \E valid \in BOOLEAN : WriteFile(valid)
        \/ HTTP \/ Interrupt \/ ServerReturns
        \/ Running /\ (WatcherStep \/ WorkerStep \/ MainStep)

Spec == Init /\ [][Next]_vars

\* Goroutines run, the server returns when it is shut down, and handlers return;
\* nobody need write the file or stop the process.
Fairness ==
  /\ WF_vars(Running /\ WatcherStep) /\ WF_vars(Running /\ WorkerStep)
  /\ WF_vars(MainStep) /\ WF_vars(ctx /\ ServerReturns)
  /\ \A q \in Requests :
       WF_vars(Running /\ RT!Return(q) /\ UNCHANGED <<watcher, worker, process>>)
FairSpec == Spec /\ Fairness

------------------------------------------------------------------------------
(* Properties.                                                                 *)

\* The process uses the runtime as the runtime expects: its invariant (no request on
\* a closed Gateway, no Gateway leaked or closed twice) survives the composition.
IInv == TypeOK /\ RT!IInv

\* That survives to the end: the process exits with no request cut off and no Gateway
\* left open, as run() waits for the worker, which may be inside Reload, before it
\* closes the runtime.
ExitIsClean ==
  /\ IInv
  /\ main = "exited" => /\ 0 .. last \subseteq shut
                        /\ \A q \in Requests : at[q] # "serving"

\* No change of the file is lost between the events, the timer, the one-element
\* channel and the load: the last valid version gets served, unless the process is
\* stopped first.
LastConfigServed ==
  []<>(ctx \/ file \in bad \/ (current # None /\ config[current] = file))

\* Once the server has returned, the process exits.
ShutdownCompletes == main # "serve" ~> main = "exited"
==============================================================================
