------------------------------- MODULE JsonRpc -------------------------------
(* The JSON-RPC connection of the Codex provider with its App Server process    *)
(* (Call, ensureStarted, callStarted, readLoop, failConnection and Close in      *)
(* providers/codex/provider.go): the process is started by the first call, calls *)
(* wait in Provider.pending for the reader to hand them their response, and a    *)
(* failed connection has to release all of them.                                 *)
(* One action is one critical section of Provider.mu, one transport operation,   *)
(* or one select.                                                                *)
EXTENDS Naturals

CONSTANTS Callers     \* concurrent calls of Provider.Call

None == "none"

ASSUME CallersAssumption == None \notin Callers

VARIABLES
  startMu,      \* the caller that holds Provider.startMu
  started, closed, readDone,     \* Provider.*
  pending,      \* Provider.pending: messages whose response is awaited
  response,     \* the channel of each message: None when empty
  transport,    \* "none", "open" or "closed"
  spawned,      \* App Server processes started
  serverUp,     \* the process lives
  received,     \* requests the process has read and not answered
  replies,      \* responses on their way
  initialized,  \* the process has read "initialized"
  early,        \* it read another request before that
  pc, kind,     \* where a call is, and the message it sends
  rd, rdMsg     \* the reader, and the response it hands over

provider == <<startMu, started, closed, readDone, pending, response, transport>>
server   == <<spawned, serverUp, received, replies, initialized, early>>
reader   == <<rd, rdMsg>>
caller   == <<pc, kind>>
vars     == <<provider, server, caller, reader>>

\* The messages of a call: its own, and "initialize" if it starts the process.
NoMessage == [caller |-> None, kind |-> "none"]
Messages == [caller : Callers, kind : {"initialize", "call"}]

Stages == {"register", "write", "wait"}
TypeOK ==
  /\ startMu \in Callers \cup {None}
  /\ {started, closed, readDone, serverUp, initialized, early} \subseteq BOOLEAN
  /\ pending \subseteq Messages /\ received \subseteq Messages /\ replies \subseteq Messages
  /\ response \in [Messages -> {None, "result", "error"}]
  /\ transport \in {"none", "open", "closed"} /\ spawned \in Nat
  /\ pc \in [Callers -> {"idle", "notify", "abort", "ok", "error"} \cup Stages]
  /\ kind \in [Callers -> {"initialize", "call"}]
  /\ rd \in {"off", "read", "hand", "finish", "stopped"}
  /\ rdMsg \in Messages \cup {NoMessage}

Init ==
  /\ startMu = None /\ started = FALSE /\ closed = FALSE /\ readDone = FALSE
  /\ pending = {} /\ response = [m \in Messages |-> None] /\ transport = "none"
  /\ spawned = 0 /\ serverUp = FALSE /\ received = {} /\ replies = {}
  /\ initialized = FALSE /\ early = FALSE
  /\ pc = [c \in Callers |-> "idle"] /\ kind = [c \in Callers |-> "call"]
  /\ rd = "off" /\ rdMsg = NoMessage

To(c, where) == pc' = [pc EXCEPT ![c] = where] /\ UNCHANGED kind
Send(c, k)   == pc' = [pc EXCEPT ![c] = "register"] /\ kind' = [kind EXCEPT ![c] = k]

------------------------------------------------------------------------------
(* ensureStarted, under startMu.                                               *)

FoundStarted(c) ==
  /\ pc[c] = "idle" /\ startMu = None /\ ~closed /\ started
  /\ Send(c, "call")
  /\ UNCHANGED <<provider, server, reader>>

FoundClosed(c) ==
  /\ pc[c] = "idle" /\ startMu = None /\ closed
  /\ To(c, "error")
  /\ UNCHANGED <<provider, server, reader>>

SpawnFails(c) ==
  /\ pc[c] = "idle" /\ startMu = None /\ ~closed /\ ~started
  /\ To(c, "error")
  /\ UNCHANGED <<provider, server, reader>>

MarkStarted == started' = TRUE

\* The process is started, and the lock kept during the handshake.
Spawn(c) ==
  /\ pc[c] = "idle" /\ startMu = None /\ ~closed /\ ~started
  /\ startMu' = c /\ MarkStarted /\ transport' = "open"
  /\ spawned' = spawned + 1 /\ serverUp' = TRUE
  /\ rd' = "read"
  /\ Send(c, "initialize")
  /\ UNCHANGED <<closed, readDone, pending, response, received, replies, initialized,
                 early, rdMsg>>

\* "initialized" is written and startMu released ...
NotifyInitialized(c) ==
  /\ pc[c] = "notify"
  /\ \/ /\ transport = "open"
        /\ initialized' = serverUp /\ startMu' = None /\ Send(c, "call")
     \/ /\ transport = "closed" \/ ~serverUp
        /\ To(c, "abort") /\ UNCHANGED <<initialized, startMu>>
  /\ UNCHANGED <<started, closed, readDone, pending, response, transport, spawned,
                 serverUp, received, replies, early, reader>>

KeepTransport == transport' = transport                          \* mutant
CloseTransport == transport' = "closed"

\* ... or the handshake failed: the transport is closed, for good.
AbortStart(c) ==
  /\ pc[c] = "abort"
  /\ CloseTransport /\ startMu' = None
  /\ To(c, "error")
  /\ UNCHANGED <<started, closed, readDone, pending, response, server, reader>>

------------------------------------------------------------------------------
(* callStarted.                                                                *)

Message(c)  == [caller |-> c, kind |-> kind[c]]
Failed(c)   == To(c, IF kind[c] = "initialize" THEN "abort" ELSE "error")
Answered(c) == To(c, IF kind[c] = "initialize" THEN "notify" ELSE "ok")

Register(c) ==
  /\ pc[c] = "register"
  /\ pending' = pending \cup {Message(c)}
  /\ To(c, "write")
  /\ UNCHANGED <<startMu, started, closed, readDone, response, transport, server, reader>>

\* What is written to a process that has died is lost, unless the write fails.
WriteSucceeds(c) ==
  /\ pc[c] = "write" /\ transport = "open"
  /\ received' = IF serverUp THEN received \cup {Message(c)} ELSE received
  /\ early' = (early \/ (serverUp /\ kind[c] = "call" /\ ~initialized))
  /\ To(c, "wait")
  /\ UNCHANGED <<provider, spawned, serverUp, replies, initialized, reader>>

WriteFails(c) ==
  /\ pc[c] = "write" /\ (transport = "closed" \/ ~serverUp)
  /\ pending' = pending \ {Message(c)}
  /\ Failed(c)
  /\ UNCHANGED <<startMu, started, closed, readDone, response, transport, server, reader>>

TakeResponse(c) ==
  LET m == Message(c)
  IN /\ pc[c] = "wait" /\ response[m] # None
     /\ response' = [response EXCEPT ![m] = None]
     /\ IF response[m] = "result" THEN Answered(c) ELSE Failed(c)
     /\ UNCHANGED <<startMu, started, closed, readDone, pending, transport, server, reader>>

ContextDone(c) ==
  /\ pc[c] = "wait"
  /\ pending' = pending \ {Message(c)}
  /\ Failed(c)
  /\ UNCHANGED <<startMu, started, closed, readDone, response, transport, server, reader>>

ReadDoneIgnored == FALSE                                         \* mutant
ReadDone        == readDone

\* The reader has gone; the entry in pending stays.
ConnectionGone(c) ==
  /\ pc[c] = "wait" /\ ReadDone
  /\ Failed(c)
  /\ UNCHANGED <<provider, server, reader>>

------------------------------------------------------------------------------
(* App Server, and the end of the provider.                                    *)

\* It answers, with a result or with an error.
Reply(m) ==
  /\ serverUp /\ m \in received
  /\ received' = received \ {m} /\ replies' = replies \cup {m}
  /\ UNCHANGED <<provider, spawned, serverUp, initialized, early, caller, reader>>

ServerDies ==
  /\ serverUp
  /\ serverUp' = FALSE
  /\ UNCHANGED <<provider, spawned, received, replies, initialized, early, caller, reader>>

\* Close waits for startMu.
Close ==
  /\ ~closed /\ startMu = None
  /\ closed' = TRUE
  /\ transport' = IF transport = "open" THEN "closed" ELSE transport
  /\ UNCHANGED <<startMu, started, readDone, pending, response, server, caller, reader>>

------------------------------------------------------------------------------
(* readLoop.                                                                   *)

PendingKept(m) == pending' = pending                             \* mutant
Forget(m)      == pending' = pending \ {m}

\* The call is looked up and forgotten under mu (what a closed transport still holds
\* may be read) ...
ReadReply(m) ==
  /\ rd = "read" /\ m \in replies
  /\ replies' = replies \ {m}
  /\ Forget(m)
  /\ IF m \in pending THEN rd' = "hand" /\ rdMsg' = m ELSE UNCHANGED reader
  /\ UNCHANGED <<startMu, started, closed, readDone, response, transport, spawned,
                 serverUp, received, initialized, early, caller>>

\* ... and is handed its response, through a channel that holds one.
HandOver(outcome) ==
  /\ rd = "hand" /\ response[rdMsg] = None
  /\ response' = [response EXCEPT ![rdMsg] = outcome]
  /\ rd' = "read" /\ rdMsg' = NoMessage
  /\ UNCHANGED <<startMu, started, closed, readDone, pending, transport, server, caller>>

\* A read fails: the transport was closed, the process died, or what it sent cannot be
\* decoded.  failConnection sends every pending call the error, under mu; a send would
\* block, with mu held, on a channel that is full.
FailPending ==
  /\ rd = "read"
  /\ \A m \in pending : response[m] = None
  /\ response' = [m \in Messages |-> IF m \in pending THEN "error" ELSE response[m]]
  /\ pending' = {}
  /\ rd' = "finish"
  /\ UNCHANGED <<startMu, started, closed, readDone, transport, server, caller, rdMsg>>

\* The active turns are finished (DelegatedTools), then readDone is closed.
CloseReadDone ==
  /\ rd = "finish"
  /\ readDone' = TRUE
  /\ rd' = "stopped"
  /\ UNCHANGED <<startMu, started, closed, pending, response, transport, server, caller, rdMsg>>

------------------------------------------------------------------------------
Starting(c) == FoundStarted(c) \/ FoundClosed(c) \/ SpawnFails(c) \/ Spawn(c)
Calling(c)  == NotifyInitialized(c) \/ AbortStart(c) \/ Register(c) \/ WriteSucceeds(c)
               \/ WriteFails(c) \/ TakeResponse(c) \/ ConnectionGone(c)
ReaderStep  == \/ \E m \in Messages : ReadReply(m)
               \/ \E outcome \in {"result", "error"} : HandOver(outcome)
               \/ FailPending \/ CloseReadDone

Next == \/ \E c \in Callers : Starting(c) \/ Calling(c) \/ ContextDone(c)
        \/ ReaderStep
        \/ \E m \in Messages : Reply(m)
        \/ ServerDies \/ Close

Spec == Init /\ [][Next]_vars

\* Goroutines run.  App Server need not answer, and no context need end.
Fairness == (\A c \in Callers : WF_vars(Calling(c))) /\ WF_vars(ReaderStep)
FairSpec == Spec /\ Fairness

------------------------------------------------------------------------------
(* Properties.                                                                 *)

\* The reader never blocks on a call's channel, and failConnection never blocks on one
\* with mu held: a call that is still pending, or that the reader hands a response,
\* has none yet.
ReaderNeverBlocks ==
  /\ \A m \in pending : response[m] = None
  /\ rd = "hand" => response[rdMsg] = None /\ rdMsg \notin pending

\* startMu is held by the call that performs the handshake and by no other.
StartMuHeld ==
  \A c \in Callers :
    startMu = c <=> pc[c] \in {"notify", "abort"} \/ (pc[c] \in Stages /\ kind[c] = "initialize")

\* The provider "owns one Codex App Server process" (provider.go:42-43), which reads no
\* request before the handshake is over, even when the call that performs it fails
\* half-way and others wait to go on.
HandshakeFirst == TypeOK /\ StartMuHeld /\ spawned <= 1 /\ ~early

\* A lost connection releases every call that waits for a response, also one that
\* registered itself after failConnection had emptied the map.
LostConnectionReleases ==
  \A c \in Callers : rd \in {"finish", "stopped"} ~> pc[c] \notin Stages
==============================================================================
