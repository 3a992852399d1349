---------------------------- MODULE DelegatedTools ---------------------------
(* One Codex turn whose tool callbacks are delegated to the API caller         *)
(* (providers/codex/stream.go, and the parts of provider.go that use a         *)
(* turnState).  The goroutines that share the turnState are:                   *)
(*   - the reader: it applies the App Server's messages (readLoop);            *)
(*   - one handler per HTTP request of the caller: a stream is read until it   *)
(*     ends (recv) and is then closed (close); every stream but the first is   *)
(*     the product of a request that carries tool results                      *)
(*     (resumeDelegatedTurn).                                                  *)
(* One action is one critical section of turnState.mu or Provider.mu, or one   *)
(* write on the transport.  signal() follows its critical section directly and *)
(* is part of its action: a later token only wakes a receiver later.           *)
(* Definitions marked "mutant" are faults planted to see a property fail; the  *)
(* specification does not use them.                                            *)
EXTENDS Naturals, FiniteSets, Sequences, SequencesExt

CONSTANTS Calls,      \* tool callbacks the App Server may issue in this turn
          Streams,    \* HTTP requests of the caller that touch this turn
          First,      \* the request whose ChatStream started the turn
          Parallel,   \* parallel_tool_calls
          Lossy,      \* callers may go away: writes to them fail, contexts end
          Patient,    \* callers send results only after the earlier streams ended
          Retries,    \* callers may send results that were answered already
          MaxText     \* bound on the plain chunks of the turn

Text      == "text"       \* a chunk without tool calls, or the delta it is made of
Completed == "completed"  \* turn/completed, status completed or interrupted
Failed    == "failed"     \* turn/completed with status failed, or thread/closed
None      == "none"
Chunks    == Calls \cup {Text}
Messages  == Calls \cup {Text, Completed, Failed}

ASSUME CallsAssumption == /\ IsFiniteSet(Calls)
                          /\ {Text, Completed, Failed, None} \cap Calls = {}
ASSUME StreamsAssumption == First \in Streams /\ None \notin Streams
ASSUME FlagsAssumption == {Parallel, Lossy, Patient, Retries} \subseteq BOOLEAN
ASSUME MaxTextAssumption == MaxText \in Nat

VARIABLES
  queue,         \* turnState.queue: chunks, a tool chunk standing as its call
  delegated,     \* turnState.delegated: the parked callbacks, in arrival order
  queued,        \* the parked callbacks whose .queued is set
  delivered,     \* the parked callbacks whose .delivered is set
  awaitingTools, done, err, errDelivered, closed, wake,   \* turnState.*
  active,        \* Provider.active[thread] and .turns[turn] hold this turnState
  rd, msg,       \* the reader: where it is, and the message it handles
  up,            \* the connection with App Server
  over,          \* App Server ended the turn
  interrupted,   \* turn/interrupt was sent
  issued,        \* callbacks App Server issued
  answers,       \* how many JSON-RPC responses were written for a callback
  texts,         \* plain chunks sent so far
  pc,            \* where the handler of each request is
  holder,        \* the request that holds Provider.conversationMu
  results,       \* the tool results that request carries
  todo, cur,     \* callbacks it still has to answer, and the one it answers
  seen           \* callbacks that reached the caller

turn    == <<queue, delegated, queued, delivered, awaitingTools, done, err,
             errDelivered, closed, wake, active>>
server  == <<up, over, interrupted, issued, answers, texts>>
reader  == <<rd, msg>>
handler == <<pc, holder, results, todo, cur, seen>>
vars    == <<turn, server, reader, handler>>

TypeOK ==
  /\ queue \in Seq(Chunks) /\ delegated \in Seq(Calls)
  /\ queued \subseteq Calls /\ delivered \subseteq Calls
  /\ {awaitingTools, done, err, errDelivered, closed, wake, active,
      up, over, interrupted} \subseteq BOOLEAN
  /\ rd \in {"idle", "lookup", "apply", "answer", "remove", "finish", "fail", "stopped"}
  /\ msg \in Messages \cup {None}
  /\ issued \subseteq Calls /\ answers \in [Calls -> Nat] /\ texts \in Nat
  /\ pc \in [Streams -> {"unused", "check", "match", "write", "ack",
                         "recv", "wait", "ended", "detach", "closed"}]
  /\ holder \in Streams \cup {None}
  /\ results \subseteq Calls /\ todo \subseteq Calls /\ seen \subseteq Calls
  /\ cur \in Calls \cup {None}

Init ==
  /\ queue = <<>> /\ delegated = <<>> /\ queued = {} /\ delivered = {}
  /\ awaitingTools = FALSE /\ done = FALSE /\ err = FALSE
  /\ errDelivered = FALSE /\ closed = FALSE /\ wake = FALSE /\ active = TRUE
  /\ up = TRUE /\ over = FALSE /\ interrupted = FALSE /\ issued = {}
  /\ answers = [c \in Calls |-> 0] /\ texts = 0 /\ rd = "idle" /\ msg = None
  /\ pc = [s \in Streams |-> IF s = First THEN "recv" ELSE "unused"]
  /\ holder = None /\ results = {} /\ todo = {} /\ cur = None /\ seen = {}

------------------------------------------------------------------------------
(* queueDelegatedToolsLocked: every parked callback that is neither queued nor *)
(* delivered gets a chunk; or, one at a time, the oldest when none is out.     *)

Position(dlg, c) == CHOOSE i \in DOMAIN dlg : dlg[i] = c

InOrder(dlg, S) ==
  CHOOSE s \in [1 .. Cardinality(S) -> S] :
    \A i, j \in DOMAIN s : i < j => Position(dlg, s[i]) < Position(dlg, s[j])

ExposedAlways(dlg) == ToSet(dlg) \ (queued \cup delivered)       \* mutant
ExposedDeliveredToo(dlg) == ToSet(dlg) \ queued                  \* mutant

Exposed(dlg) ==
  IF Parallel THEN ToSet(dlg) \ (queued \cup delivered)
  ELSE IF dlg = <<>> \/ ToSet(dlg) \cap (queued \cup delivered) # {} THEN {}
  ELSE {Head(dlg)}

QueueDelegatedTools(dlg) ==
  /\ queue'  = queue \o InOrder(dlg, Exposed(dlg))
  /\ queued' = (queued \cap ToSet(dlg)) \cup Exposed(dlg)

SignalLost == wake' = wake                                       \* mutant
Signal     == wake' = TRUE

EndedIfDone == done                                              \* mutant
Ended       == done \/ closed

EnqueueChunk(chunk) ==
  /\ queue' = IF Ended THEN queue ELSE Append(queue, chunk)
  /\ Signal

FinishUnheard(failed) ==                                         \* mutant
  /\ done' = TRUE
  /\ err'  = IF done THEN err ELSE failed
  /\ wake' = wake

Finish(failed) ==
  /\ done' = TRUE
  /\ err'  = IF done THEN err ELSE failed
  /\ Signal

------------------------------------------------------------------------------
(* The App Server, known only through its messages, and the connection.        *)

AppServerSends(m) ==
  /\ rd = "idle" /\ up /\ ~over
  /\ m \in Calls => m \notin issued
  /\ m = Text => texts < MaxText
  /\ m = Completed => interrupted \/ \A c \in issued : answers[c] > 0
  /\ rd' = "lookup" /\ msg' = m
  /\ issued' = issued \cup ({m} \cap Calls)
  /\ texts'  = IF m = Text THEN texts + 1 ELSE texts
  /\ over'   = (m \in {Completed, Failed})
  /\ UNCHANGED <<turn, up, interrupted, answers, handler>>

ConnectionBreaks ==
  /\ Lossy /\ up
  /\ up' = FALSE
  /\ UNCHANGED <<turn, over, interrupted, issued, answers, texts, reader, handler>>

------------------------------------------------------------------------------
(* The reader goroutine.                                                       *)

\* handleNotification and handleDynamicToolCall find the turn under Provider.mu.
LookupDropsCallback ==                                           \* mutant
  /\ rd = "lookup"
  /\ rd' = IF active THEN "apply" ELSE "idle"
  /\ UNCHANGED <<turn, server, msg, handler>>

Lookup ==
  /\ rd = "lookup"
  /\ rd' = CASE active -> "apply"
             [] ~active /\ msg \in Calls -> "answer"
             [] OTHER -> "idle"
  /\ UNCHANGED <<turn, server, msg, handler>>

ApplyText ==
  /\ rd = "apply" /\ msg = Text
  /\ EnqueueChunk(Text)
  /\ rd' = "idle"
  /\ UNCHANGED <<delegated, queued, delivered, awaitingTools, done, err,
                 errDelivered, closed, active, server, msg, handler>>

\* addDelegatedTool parks the callback ...
AddDelegatedTool ==
  /\ rd = "apply" /\ msg \in Calls /\ ~Ended
  /\ delegated' = Append(delegated, msg)
  /\ awaitingTools' = TRUE
  /\ QueueDelegatedTools(delegated')
  /\ Signal
  /\ rd' = "idle"
  /\ UNCHANGED <<delivered, done, err, errDelivered, closed, active, server,
                 msg, handler>>

\* ... or returns false, and the callback is answered with an error.
RefuseDelegatedTool ==
  /\ rd = "apply" /\ msg \in Calls /\ Ended
  /\ rd' = "answer"
  /\ UNCHANGED <<turn, server, msg, handler>>

AnswerRefused ==
  /\ rd = "answer"
  /\ answers' = IF up THEN [answers EXCEPT ![msg] = @ + 1] ELSE answers
  /\ rd' = "idle"
  /\ UNCHANGED <<turn, up, over, interrupted, issued, texts, msg, handler>>

\* turn/completed: a last chunk unless the turn failed, then removeTurn, then
\* finish.
ApplyCompleted ==
  /\ rd = "apply" /\ msg \in {Completed, Failed}
  /\ IF msg = Completed THEN EnqueueChunk(Text) ELSE UNCHANGED <<queue, wake>>
  /\ rd' = "remove"
  /\ UNCHANGED <<delegated, queued, delivered, awaitingTools, done, err,
                 errDelivered, closed, active, server, msg, handler>>

RemoveCompleted ==
  /\ rd = "remove"
  /\ active' = FALSE
  /\ rd' = "finish"
  /\ UNCHANGED <<queue, delegated, queued, delivered, awaitingTools, done, err,
                 errDelivered, closed, wake, server, msg, handler>>

FinishCompleted ==
  /\ rd = "finish"
  /\ Finish(msg = Failed)
  /\ rd' = "idle"
  /\ UNCHANGED <<queue, delegated, queued, delivered, awaitingTools,
                 errDelivered, closed, active, server, msg, handler>>

\* failConnection collects the active turns and finishes them with an error; it
\* does not remove them.
FailConnection ==
  /\ rd = "idle" /\ ~up
  /\ rd' = IF active THEN "fail" ELSE "stopped"
  /\ UNCHANGED <<turn, server, msg, handler>>

FinishFailed ==
  /\ rd = "fail"
  /\ Finish(TRUE)
  /\ rd' = "stopped"
  /\ UNCHANGED <<queue, delegated, queued, delivered, awaitingTools,
                 errDelivered, closed, active, server, msg, handler>>

ReaderStep ==
  \/ Lookup \/ ApplyText \/ AddDelegatedTool \/ RefuseDelegatedTool
  \/ AnswerRefused \/ ApplyCompleted \/ RemoveCompleted \/ FinishCompleted
  \/ FailConnection \/ FinishFailed

------------------------------------------------------------------------------
(* Streams: recv until it ends, then close.                                    *)

\* recv takes the first chunk; markDelegatedToolDeliveredLocked.
RecvChunk(s, reached) ==
  /\ pc[s] = "recv" /\ queue # <<>>
  /\ LET chunk == Head(queue)
         parked == {chunk} \cap ToSet(delegated)
     IN /\ queue' = Tail(queue)
        /\ queued' = queued \ parked
        /\ delivered' = delivered \cup parked
        /\ seen' = IF reached THEN seen \cup ({chunk} \cap Calls) ELSE seen
  /\ pc' = [pc EXCEPT ![s] = IF reached THEN "recv" ELSE "ended"]
  /\ UNCHANGED <<delegated, awaitingTools, done, err, errDelivered, closed, wake,
                 active, server, reader, holder, results, todo, cur>>

\* recv on an empty queue: the turn's error once, end of file when it is over or
\* waits for the caller, and otherwise a wait for the next signal.
RecvEmpty(s) ==
  /\ pc[s] = "recv" /\ queue = <<>>
  /\ errDelivered' = (errDelivered \/ (Ended /\ err))
  /\ pc' = [pc EXCEPT ![s] = IF Ended \/ awaitingTools THEN "ended" ELSE "wait"]
  /\ UNCHANGED <<queue, delegated, queued, delivered, awaitingTools, done, err,
                 closed, wake, active, server, reader, holder, results, todo,
                 cur, seen>>

Woken(s) ==
  /\ pc[s] = "wait" /\ wake
  /\ wake' = FALSE
  /\ pc' = [pc EXCEPT ![s] = "recv"]
  /\ UNCHANGED <<queue, delegated, queued, delivered, awaitingTools, done, err,
                 errDelivered, closed, active, server, reader, holder, results,
                 todo, cur, seen>>

ContextDone(s) ==
  /\ Lossy /\ pc[s] = "wait"
  /\ pc' = [pc EXCEPT ![s] = "ended"]
  /\ UNCHANGED <<turn, server, reader, holder, results, todo, cur, seen>>

\* close: nothing while callbacks are parked; otherwise the first close of a turn
\* that is not done interrupts it, and removeTurn follows in a second step.
Close(s) ==
  /\ pc[s] = "ended"
  /\ IF (awaitingTools /\ ~done) \/ closed
     THEN /\ pc' = [pc EXCEPT ![s] = "closed"]
          /\ UNCHANGED <<closed, wake, interrupted>>
     ELSE /\ closed' = TRUE
          /\ Signal
          /\ interrupted' = (interrupted \/ ~done)
          /\ pc' = [pc EXCEPT ![s] = IF done THEN "closed" ELSE "detach"]
  /\ UNCHANGED <<queue, delegated, queued, delivered, awaitingTools, done, err,
                 errDelivered, active, up, over, issued, answers, texts, reader,
                 holder, results, todo, cur, seen>>

RemoveClosed(s) ==
  /\ pc[s] = "detach"
  /\ active' = FALSE
  /\ pc' = [pc EXCEPT ![s] = "closed"]
  /\ UNCHANGED <<queue, delegated, queued, delivered, awaitingTools, done, err,
                 errDelivered, closed, wake, server, reader, holder, results,
                 todo, cur, seen>>

StreamStep(s) ==
  \/ \E reached \in IF Lossy THEN BOOLEAN ELSE {TRUE} : RecvChunk(s, reached)
  \/ RecvEmpty(s) \/ Woken(s) \/ ContextDone(s) \/ Close(s) \/ RemoveClosed(s)

------------------------------------------------------------------------------
(* Requests with tool results: resumeDelegatedTurn, under conversationMu.      *)

\* The request leaves without this turn: an error, or (fall-through of
\* ChatStream) a new thread rebuilt from the caller's history.
Leave(s) == /\ pc' = [pc EXCEPT ![s] = "closed"]
            /\ holder' = None /\ results' = {} /\ todo' = {} /\ cur' = None

\* Its stream on this turn opens, and conversationMu is released.
Open(s) == /\ pc' = [pc EXCEPT ![s] = "recv"]
           /\ holder' = None /\ results' = {} /\ todo' = {} /\ cur' = None

MutexIgnored == TRUE                                             \* mutant
MutexFree    == holder = None        \* Provider.conversationMu

RequestArrives(s, R) ==
  /\ pc[s] = "unused" /\ MutexFree
  /\ R # {} /\ R \subseteq seen
  /\ Patient => \A t \in Streams : pc[t] \in {"unused", "ended", "detach", "closed"}
  /\ Retries \/ (R = seen /\ \E c \in R : answers[c] = 0)
  /\ IF active
     THEN /\ pc' = [pc EXCEPT ![s] = "check"]
          /\ holder' = s /\ results' = R
          /\ UNCHANGED <<todo, cur>>
     ELSE Leave(s)
  /\ UNCHANGED <<turn, server, reader, seen>>

CheckAwaiting(s) ==
  /\ pc[s] = "check"
  /\ IF awaitingTools /\ ~done
     THEN /\ pc' = [pc EXCEPT ![s] = "match"]
          /\ UNCHANGED <<holder, results, todo, cur>>
     ELSE Leave(s)
  /\ UNCHANGED <<turn, server, reader, seen>>

\* matchDelegatedToolResults: every delivered callback needs its result.
MatchResults(s) ==
  /\ pc[s] = "match"
  /\ LET pending == ToSet(delegated) \cap delivered
     IN CASE done \/ ~awaitingTools \/ delegated = <<>> \/ ~(pending \subseteq results) -> Leave(s)
          [] OTHER ->
               IF pending = {} THEN Open(s)
               ELSE /\ pc' = [pc EXCEPT ![s] = "write"]
                    /\ todo' = pending
                    /\ UNCHANGED <<holder, results, cur>>
  /\ UNCHANGED <<turn, server, reader, seen>>

Before(c, d) == \E i, j \in DOMAIN delegated :
                   i < j /\ delegated[i] = c /\ delegated[j] = d

WriteResult(s) ==
  /\ pc[s] = "write"
  /\ \E c \in todo :
       /\ ~ \E d \in todo : Before(d, c)
       /\ IF up
          THEN /\ answers' = [answers EXCEPT ![c] = @ + 1]
               /\ pc' = [pc EXCEPT ![s] = "ack"]
               /\ cur' = c
               /\ UNCHANGED <<holder, results, todo>>
          ELSE Leave(s) /\ UNCHANGED answers
  /\ UNCHANGED <<turn, up, over, interrupted, issued, texts, reader, seen>>

\* acknowledgeDelegatedTool removes the callback and exposes the next ones; it
\* fails on a callback that is no longer parked.
Acknowledge(s) ==
  /\ pc[s] = "ack"
  /\ IF cur \in ToSet(delegated)
     THEN /\ delegated' = RemoveAt(delegated, Position(delegated, cur))
          /\ awaitingTools' = (delegated' # <<>>)
          /\ QueueDelegatedTools(delegated')
          /\ delivered' = delivered \ {cur}
          /\ Signal
          /\ IF todo = {cur}
             THEN Open(s)
             ELSE /\ pc' = [pc EXCEPT ![s] = "write"]
                  /\ todo' = todo \ {cur}
                  /\ cur' = None
                  /\ UNCHANGED <<holder, results>>
     ELSE /\ Leave(s)
          /\ UNCHANGED <<delegated, awaitingTools, queue, queued, delivered, wake>>
  /\ UNCHANGED <<done, err, errDelivered, closed, active, server, reader, seen>>

ResumeStep(s) ==
  CheckAwaiting(s) \/ MatchResults(s) \/ WriteResult(s) \/ Acknowledge(s)

------------------------------------------------------------------------------
Next ==
  \/ \E m \in Messages : AppServerSends(m)
  \/ ConnectionBreaks
  \/ ReaderStep
  \/ \E s \in Streams : StreamStep(s) \/ ResumeStep(s)
  \/ \E s \in Streams, R \in SUBSET seen : RequestArrives(s, R)

Spec == Init /\ [][Next]_vars

\* The reader and the handlers run; a caller sends the results it owes.  Nothing
\* obliges App Server to send, the connection to break or a caller to retry.
Fairness ==
  /\ WF_vars(ReaderStep)
  /\ \A s \in Streams : WF_vars(StreamStep(s)) /\ WF_vars(ResumeStep(s))
  /\ WF_vars(\E s \in Streams : RequestArrives(s, seen))

FairSpec == Spec /\ Fairness

------------------------------------------------------------------------------
(* Safety.                                                                     *)

\* The flags of a parked callback agree with the queue: exactly the queued ones
\* have one chunk waiting in it, a callback is not queued and delivered at once,
\* and a callback that left the turn has neither flag nor chunk
\* (addDelegatedTool, queueDelegatedToolsLocked, markDelegatedToolDeliveredLocked,
\* acknowledgeDelegatedTool).
FlagsMatchQueue ==
  /\ queued = ToSet(queue) \cap Calls
  /\ \A i, j \in DOMAIN queue : queue[i] = queue[j] /\ queue[i] \in Calls => i = j
  /\ queued \cap delivered = {}
  /\ queued \cup delivered \subseteq ToSet(delegated)

\* No parked callback is forgotten: with parallel_tool_calls each is on its way to
\* the caller, without it exactly one is, and the others follow as it is
\* acknowledged (a callback left out would block the turn for good).
NoStrandedCallback ==
  IF Parallel THEN ToSet(delegated) \subseteq queued \cup delivered
  ELSE /\ delegated # <<>> => queued \cup delivered # {}
       /\ \A c, d \in queued \cup delivered : c = d

\* Every callback App Server issued is accounted for: it is in the reader's hands,
\* or parked and unanswered (answered only while its acknowledgement is due), or
\* answered exactly once; only a lost connection leaves one unanswered and unparked.
InHand(c) == rd \in {"lookup", "apply", "answer"} /\ msg = c
BeingAcknowledged(c) == \E s \in Streams : pc[s] = "ack" /\ cur = c

CallbackAccounted ==
  \A c \in issued :
    /\ InHand(c) => answers[c] = 0 /\ c \notin ToSet(delegated)
    /\ c \in ToSet(delegated) => answers[c] = IF BeingAcknowledged(c) THEN 1 ELSE 0
    /\ ~InHand(c) /\ c \notin ToSet(delegated) =>
         answers[c] = 1 \/ (answers[c] = 0 /\ ~up)

\* The request that resumes the turn always finds the callback it answered still
\* parked: acknowledgeDelegatedTool never reports "no longer pending".
AcknowledgeFindsCallback ==
  \A s \in Streams : pc[s] = "ack" => cur \in ToSet(delegated) \cap delivered

\* A turn that was closed before it was done parks nothing: a callback parked in it
\* could not be answered by anybody (close against addDelegatedTool).
ClosedTurnParksNothing == closed /\ ~done => delegated = <<>>

\* What else makes these inductive: the parked callbacks are distinct and were
\* issued, awaitingTools says whether there are any, nothing but an issued callback
\* was answered, and the request that holds conversationMu still has to answer only
\* callbacks that are parked and delivered.
ParkedOnce ==
  /\ \A i, j \in DOMAIN delegated : delegated[i] = delegated[j] => i = j
  /\ awaitingTools = (delegated # <<>>)
  /\ ToSet(delegated) \subseteq issued
  /\ \A c \in Calls \ issued : answers[c] = 0
  /\ \A c \in Calls : InHand(c) => c \in issued
  /\ rd = "answer" => msg \in Calls

HolderOwns ==
  \A s \in Streams :
    /\ pc[s] \in {"check", "match", "write", "ack"} => holder = s
    /\ pc[s] \in {"write", "ack"} => todo \subseteq ToSet(delegated) \cap delivered
    /\ pc[s] = "ack" => cur \in todo

IInv == /\ TypeOK /\ FlagsMatchQueue /\ NoStrandedCallback /\ ParkedOnce
        /\ CallbackAccounted /\ HolderOwns /\ ClosedTurnParksNothing

\* Once a callback was handed over or answered, its chunk never returns to the
\* queue (no second tool call for the caller).
NeverShownAgain ==
  [][\A c \in Calls : c \in delivered \/ answers[c] > 0 => c \notin ToSet(queue')]_vars

\* The turnState implements the promise of ToolCallbacks.
Status(c) == CASE answers[c] > 0 -> "answered"
               [] answers[c] = 0 /\ c \in delivered -> "shown"
               [] answers[c] = 0 /\ c \in ToSet(delegated) \ delivered -> "parked"
               [] answers[c] = 0 /\ c \in issued \ ToSet(delegated) -> "asked"
               [] OTHER -> "none"

Promise == INSTANCE ToolCallbacks WITH status <- [c \in Calls |-> Status(c)]
ImplementsToolCallbacks == Promise!Spec

\* README.md:758-760: the caller's results let "the same Codex thread and turn"
\* continue.  So nobody closes and interrupts a turn that a stream is reading.
ResumedTurnContinues ==
  [][~closed /\ closed' /\ ~done => \A s \in Streams : pc[s] \notin {"recv", "wait"}]_vars

(* Liveness.                                                                   *)

\* A callback is answered in the end, or its turn is over: no callback waits for
\* ever when the caller answers what it is given.
CallbackResolved ==
  \A c \in Calls : c \in issued ~> (answers[c] > 0 \/ done \/ closed)

\* Once the turn is done, every stream on it ends and is closed: the one token of
\* turnState.wake reaches whoever waits for it.
StreamsEnd ==
  \A s \in Streams : done /\ pc[s] \in {"recv", "wait", "ended", "detach"} ~> pc[s] = "closed"
==============================================================================
