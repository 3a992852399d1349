----------------------- MODULE ConversationCheckpoints -----------------------
(* How the Codex provider finds the thread of a request that names none         *)
(* (providers/codex/conversation_registry.go, and ChatStream and prepareThread  *)
(* in provider.go): checkpoints of finished turns, kept in a cache under the     *)
(* hash of the transcript ("lineage"), the thread ("head") and the caller's      *)
(* scope ("session").                                                            *)
(* A request stands for the turn it starts, for the thread that is created for   *)
(* it, and for the transcript that ends with its answer: what the conversation   *)
(* cache identifies by a hash is identified here by its last request.  Callers    *)
(* that resend a transcript send what they sent before and the answer to it; no  *)
(* two of them send transcripts that are equal byte for byte.                    *)
(* Requests with an explicit conversation_id or with tool results are left out.  *)
EXTENDS Naturals, SequencesExt

CONSTANTS Requests,       \* chat requests, all of one scope
          Environments    \* what may happen around them, one choice per behaviour

\* faults:  the kinds of cache entry whose Get or Set may fail
\* abandon: a turn may be abandoned, or fail, before it completes
\* alone:   no request arrives while another one is served
\* unloads: App Server may unload threads, and fail to resume or fork them
Environment == [faults : SUBSET {"lineage", "head", "session"},
                abandon : BOOLEAN, alone : BOOLEAN, unloads : BOOLEAN]

None == "none"        \* no request: no thread, no entry, the empty transcript

ASSUME RequestsAssumption == None \notin Requests
ASSUME EnvironmentsAssumption == Environments \subseteq Environment

VARIABLES
  lineage,   \* "lineage:" entries: transcript -> thread (the turn is the transcript's)
  head,      \* "head:" entries: thread -> transcript
  session,   \* the "session:" entry of the scope: a transcript, and its thread
  content,   \* App Server: the turns in the history of each thread
  loaded,    \* Provider.loaded
  active,    \* Provider.active: thread -> request
  pc,        \* where a request is
  mutex,     \* conversationMu: the request that holds it
  sent,      \* the transcript a request carries
  hist,      \* the transcript it extends, and the request itself
  point,     \* the checkpoint inferConversation found: thread and transcript
  thread,    \* the thread the request runs on
  answered,  \* requests whose caller was given a complete answer
  env        \* the environment, which never changes

cache   == <<lineage, head, session>>
server  == <<content, loaded, active>>
request == <<pc, mutex, sent, hist, point, thread, answered>>
vars    == <<cache, server, request, env>>

OrNone    == Requests \cup {None}
Checkpoint(t, n) == [thread |-> t, node |-> n]
NoPoint   == Checkpoint(None, None)
Points    == [thread : OrNone, node : OrNone]

TypeOK ==
  /\ lineage \in [Requests -> OrNone] /\ head \in [Requests -> OrNone]
  /\ session \in Points
  /\ content \in [Requests -> Seq(Requests)] /\ loaded \subseteq Requests
  /\ active \in [Requests -> OrNone]
  /\ pc \in [Requests -> {"idle", "active", "head", "fork", "prepare", "start", "open",
                          "lineage", "saveHead", "session", "done"}]
  /\ mutex \in OrNone
  /\ sent \in [Requests -> Seq(Requests)] /\ hist \in [Requests -> Seq(Requests)]
  /\ point \in [Requests -> Points] /\ thread \in [Requests -> OrNone]
  /\ answered \subseteq Requests /\ env \in Environments

Init ==
  /\ lineage = [n \in Requests |-> None] /\ head = [t \in Requests |-> None]
  /\ session = NoPoint
  /\ content = [t \in Requests |-> <<>>] /\ loaded = {}
  /\ active = [t \in Requests |-> None]
  /\ pc = [r \in Requests |-> "idle"] /\ mutex = None
  /\ sent = [r \in Requests |-> <<>>] /\ hist = sent
  /\ point = [r \in Requests |-> NoPoint]
  /\ thread = [r \in Requests |-> None] /\ answered = {}
  /\ env \in Environments

------------------------------------------------------------------------------
(* inferConversation and resolveInferredThread, under conversationMu.          *)

Works(kind) == IF kind \in env.faults THEN BOOLEAN ELSE {TRUE}

Extends(r, n) == hist' = [hist EXCEPT ![r] = Append(IF n = None THEN <<>> ELSE hist[n], r)]

Found(r, p) ==
  /\ point' = [point EXCEPT ![r] = p]
  /\ pc' = [pc EXCEPT ![r] = IF p.thread = None THEN "prepare" ELSE "active"]

MutexIgnored == TRUE                                             \* mutant
MutexFree    == mutex = None

Arrive(r) == /\ pc[r] = "idle" /\ MutexFree
             /\ env.alone => \A q \in Requests : pc[q] \in {"idle", "done"}
             /\ mutex' = r
             /\ UNCHANGED <<cache, server, thread, answered>>

\* The request carries the transcript of an answer its caller was given ...
InferFromHistory(r) ==
  /\ Arrive(r)
  /\ \E n \in answered, works \in Works("lineage") :
       /\ sent' = [sent EXCEPT ![r] = Append(sent[n], n)]
       /\ Extends(r, n)
       /\ Found(r, IF works THEN Checkpoint(lineage[n], n) ELSE NoPoint)

\* ... or a new message only; the scope tells which conversation it continues.
InferFromScope(r) ==
  /\ Arrive(r) /\ UNCHANGED sent
  /\ \E works \in Works("session") :
       LET p == IF works THEN session ELSE NoPoint
       IN Extends(r, p.node) /\ Found(r, p)

BusyNever(t) == FALSE                                            \* mutant
Busy(t)      == active[t] # None

CheckActive(r) ==
  /\ pc[r] = "active"
  /\ pc' = [pc EXCEPT ![r] = IF Busy(point[r].thread) THEN "fork" ELSE "head"]
  /\ UNCHANGED <<cache, server, mutex, sent, hist, point, thread, answered>>

MovedNever(p, h) == FALSE                                        \* mutant

\* The thread went on after the checkpoint.
Moved(p, h) == h \notin {None, p.node}

CheckHead(r) ==
  /\ pc[r] = "head"
  /\ \E works \in Works("head") :
       LET moved == works /\ Moved(point[r], head[point[r].thread])
       IN /\ pc' = [pc EXCEPT ![r] = IF moved THEN "fork" ELSE "prepare"]
          /\ thread' = [thread EXCEPT ![r] = IF moved THEN None ELSE point[r].thread]
  /\ UNCHANGED <<cache, server, mutex, sent, hist, point, answered>>

ForkBefore(p) == LET turns == content[p.thread]                  \* mutant
                 IN SubSeq(turns, 1, (CHOOSE i \in DOMAIN turns : turns[i] = p.node) - 1)

\* thread/fork copies the thread up to lastTurnId.
ForkedContent(p) ==
  LET turns == content[p.thread]
  IN SubSeq(turns, 1, CHOOSE i \in DOMAIN turns : turns[i] = p.node)

Fork(r) ==
  /\ pc[r] = "fork"
  /\ pc' = [pc EXCEPT ![r] = "prepare"]
  /\ \/ /\ content' = [content EXCEPT ![r] = ForkedContent(point[r])]
        /\ loaded' = loaded \cup {r}
        /\ thread' = [thread EXCEPT ![r] = r]
     \/ env.unloads /\ UNCHANGED <<content, loaded, thread>>
  /\ UNCHANGED <<cache, active, mutex, sent, hist, point, answered>>

------------------------------------------------------------------------------
(* prepareThread, injectHistory and turn/start.                                *)

\* The thread found is loaded, or thread/resume loads it.
PrepareKnown(r) ==
  /\ pc[r] = "prepare" /\ thread[r] # None
  /\ loaded' = loaded \cup {thread[r]}
  /\ pc' = [pc EXCEPT ![r] = "start"]
  /\ UNCHANGED <<cache, content, active, mutex, sent, hist, point, thread, answered>>

\* thread/start, with the history the caller sent, and no more: if the scope named
\* the conversation, it begins anew.  Also when an inferred thread cannot be resumed.
PrepareFresh(r) ==
  /\ pc[r] = "prepare"
  /\ thread[r] = None \/ (env.unloads /\ thread[r] \notin loaded)
  /\ content' = [content EXCEPT ![r] = sent[r]]
  /\ hist' = [hist EXCEPT ![r] = Append(sent[r], r)]
  /\ loaded' = loaded \cup {r}
  /\ thread' = [thread EXCEPT ![r] = r]
  /\ pc' = [pc EXCEPT ![r] = "start"]
  /\ UNCHANGED <<cache, active, mutex, sent, point, answered>>

\* The thread is reserved and the turn started; conversationMu is released.  The
\* refusal of a thread that has a turn is out of reach here (InferredNeverRefused).
Start(r) ==
  /\ pc[r] = "start" /\ active[thread[r]] = None
  /\ active' = [active EXCEPT ![thread[r]] = r]
  /\ content' = [content EXCEPT ![thread[r]] = Append(@, r)]
  /\ pc' = [pc EXCEPT ![r] = "open"]
  /\ mutex' = None
  /\ UNCHANGED <<cache, loaded, sent, hist, point, thread, answered>>

\* A call on App Server fails: the request is answered with the error.
GiveUp(r) ==
  /\ env.unloads /\ pc[r] \in {"prepare", "start"}
  /\ pc' = [pc EXCEPT ![r] = "done"]
  /\ mutex' = None
  /\ UNCHANGED <<cache, server, sent, hist, point, thread, answered>>

\* thread/closed for a thread without a turn.
ThreadUnloaded(t) ==
  /\ env.unloads /\ t \in loaded /\ active[t] = None
  /\ loaded' = loaded \ {t}
  /\ UNCHANGED <<cache, content, active, request>>

------------------------------------------------------------------------------
(* The end of a turn: removeTurn, then the stream's end of file, at which       *)
(* saveConversationCheckpoint runs, without conversationMu.                    *)

TurnCompletes(r) ==
  /\ pc[r] = "open"
  /\ active' = [active EXCEPT ![thread[r]] = None]
  /\ answered' = answered \cup {r}
  /\ pc' = [pc EXCEPT ![r] = "lineage"]
  /\ UNCHANGED <<cache, content, loaded, mutex, sent, hist, point, thread>>

\* Abandoned or failed, or with an empty answer: the turn stays in the thread and no checkpoint is saved.
TurnAbandoned(r) ==
  /\ env.abandon /\ pc[r] = "open"
  /\ active' = [active EXCEPT ![thread[r]] = None]
  /\ pc' = [pc EXCEPT ![r] = "done"]
  /\ UNCHANGED <<cache, content, loaded, mutex, sent, hist, point, thread, answered>>

SaveLineage(r) ==
  /\ pc[r] = "lineage"
  /\ \E works \in Works("lineage") :
       lineage' = IF works THEN [lineage EXCEPT ![r] = thread[r]] ELSE lineage
  /\ pc' = [pc EXCEPT ![r] = "saveHead"]
  /\ UNCHANGED <<head, session, server, mutex, sent, hist, point, thread, answered>>

SetHead(r) == head' = [head EXCEPT ![thread[r]] = r]

SaveHead(r) ==
  /\ pc[r] = "saveHead"
  /\ \E works \in Works("head") : IF works THEN SetHead(r) ELSE UNCHANGED head
  /\ pc' = [pc EXCEPT ![r] = "session"]
  /\ UNCHANGED <<lineage, session, server, mutex, sent, hist, point, thread, answered>>

SaveSession(r) ==
  /\ pc[r] = "session"
  /\ \E works \in Works("session") :
       session' = IF works THEN Checkpoint(thread[r], r) ELSE session
  /\ pc' = [pc EXCEPT ![r] = "done"]
  /\ UNCHANGED <<lineage, head, server, mutex, sent, hist, point, thread, answered>>

------------------------------------------------------------------------------
RequestStep(r) ==
  \/ InferFromHistory(r) \/ InferFromScope(r) \/ CheckActive(r) \/ CheckHead(r)
  \/ Fork(r) \/ PrepareKnown(r) \/ PrepareFresh(r) \/ Start(r) \/ GiveUp(r)
  \/ TurnCompletes(r) \/ TurnAbandoned(r)
  \/ SaveLineage(r) \/ SaveHead(r) \/ SaveSession(r)

Next == /\ \/ \E r \in Requests : RequestStep(r)
           \/ \E t \in Requests : ThreadUnloaded(t)
        /\ UNCHANGED env

Spec == Init /\ [][Next]_vars

------------------------------------------------------------------------------
(* Properties.                                                                 *)

\* A turn runs on a thread that holds the transcript its request extends, nothing
\* more and nothing less: no turn of another branch, no turn nobody was shown
\* (README.md:662-666).
RightHistory == \A r \in Requests : pc[r] = "open" => content[thread[r]] = hist[r]

\* The head entry of a thread names its last turn, unless that is still running or
\* being saved: resolveInferredThread compares with the truth.
HeadIsLastTurn ==
  \A t \in Requests : head[t] # None =>
    \/ head[t] = Last(content[t])
    \/ \E r \in Requests : thread[r] = t /\ pc[r] \in {"open", "lineage", "saveHead"}

\* That much the code achieves when turns are served one after the other, none is
\* abandoned, and the head entries are kept; whatever else fails.
Calm == env.alone /\ ~env.abandon /\ "head" \notin env.faults
HistoryWhenCalm == Calm => RightHistory /\ HeadIsLastTurn

\* A thread has all the turns of a transcript, in the order of the transcript.
Keeps(turns, transcript) ==
  /\ \A i \in DOMAIN transcript : \E k \in DOMAIN turns : turns[k] = transcript[i]
  /\ \A i, j \in DOMAIN transcript, k, l \in DOMAIN turns :
       i < j /\ turns[k] = transcript[i] /\ turns[l] = transcript[j] => k < l

Holds(t, n) == Keeps(content[t], hist[n])

\* Whatever fails, is abandoned or overlaps, a turn never runs on a thread that lacks
\* a turn of the transcript its request extends, or has them in another order; and so
\* the threads that checkpoints name stay good to resume or to fork.
HistoryComplete ==
  /\ \A r \in Requests : pc[r] = "open" => Holds(thread[r], r)
  /\ \A n \in Requests : lineage[n] # None => Holds(lineage[n], n)
  /\ session.thread # None => Holds(session.thread, session.node)

\* Inference never leads a request to a thread that another turn holds, which would
\* refuse it ("already has an active turn") although it may be answered elsewhere.
InferredNeverRefused == \A r \in Requests : pc[r] = "start" => active[thread[r]] = None

------------------------------------------------------------------------------
(* What makes them inductive.                                                  *)

\* Between its inference and its start, a request holds conversationMu; when requests
\* come one by one, only one is under way.
Locked   == {r \in Requests : pc[r] \in {"active", "head", "fork", "prepare", "start"}}
Running  == {r \in Requests : pc[r] \in {"open", "lineage", "saveHead", "session"}}
InTurn   == /\ Locked = {mutex} \ {None}
            /\ env.alone => \A r, q \in Locked \cup Running : r = q

\* A thread is reserved by the one request that runs on it; a request that is about to
\* run has checked, under conversationMu, that its thread is free.
Reserved ==
  /\ \A r \in Requests : pc[r] = "open" => active[thread[r]] = r
  /\ \A t \in Requests : active[t] # None => pc[active[t]] = "open" /\ thread[active[t]] = t
  /\ \A r \in Requests : pc[r] = "head" => active[point[r].thread] = None
  /\ \A r \in Requests : pc[r] = "prepare" /\ thread[r] # None => active[thread[r]] = None
  /\ InferredNeverRefused

\* Only the request that creates a thread has to do with it until its turn has started.
Started == {"open", "lineage", "saveHead", "session", "done"}
Known(t) == t \in Requests /\ thread[t] = t /\ pc[t] \in Started

ThreadsKnown ==
  /\ \A r \in Requests :
       /\ pc[r] \in {"idle", "active", "head", "fork"} => thread[r] = None
       /\ pc[r] = "start" \/ r \in Running => thread[r] # None
       /\ pc[r] \in {"active", "head", "fork"} => Known(point[r].thread)
       /\ thread[r] \notin {None, r} => Known(thread[r])
       /\ lineage[r] # None => Known(lineage[r])
       /\ head[r] # None => Known(r) /\ pc[head[r]] \in Started
  /\ session.thread # None => Known(session.thread)

\* A transcript names answered turns, each once, and ends with its own; a thread has
\* turns that were started, each once.
Once(turns) == \A i, j \in DOMAIN turns : turns[i] = turns[j] => i = j

Transcripts ==
  /\ \A r \in answered : pc[r] \in Started
  /\ \A r \in Requests :
       /\ Once(sent[r]) /\ ToSet(sent[r]) \subseteq answered \ {r}
       /\ pc[r] # "idle" => hist[r] # <<>> /\ Last(hist[r]) = r
       /\ Once(content[r]) /\ \A q \in ToSet(content[r]) : pc[q] \in Started

\* The thread of a checkpoint has the transcript of the checkpoint, from the inference
\* to the checkpoint that is saved for the request.
HistoryKept ==
  /\ \A r \in Requests :
       /\ pc[r] \in {"active", "head", "fork"} =>
            /\ point[r].node \in Requests /\ pc[point[r].node] \in Started
            /\ Front(hist[r]) = hist[point[r].node]
            /\ Holds(point[r].thread, point[r].node)
       /\ pc[r] \in {"prepare", "start"} /\ thread[r] # None =>
            Keeps(content[thread[r]], Front(hist[r]))
       /\ r \in Running => Holds(thread[r], r)
       /\ lineage[r] # None => pc[r] \in Started
  /\ session.thread # None => session.node \in Requests /\ pc[session.node] \in Started
  /\ HistoryComplete

\* In calm conditions the thread begins with that transcript, and the head entry says
\* whether it ends with it.
CalmCheckpoint(t, n) == IsPrefix(hist[n], content[t]) /\ head[t] # None

CalmHistory ==
  /\ \A r \in Requests :
       /\ pc[r] \in {"active", "head", "fork"} => CalmCheckpoint(point[r].thread, point[r].node)
       /\ pc[r] \in {"prepare", "start"} /\ thread[r] # None =>
            content[thread[r]] = Front(hist[r])
       /\ r \in Running => content[thread[r]] = hist[r]
       /\ pc[r] = "session" => head[thread[r]] = r
       /\ lineage[r] # None => /\ IsPrefix(hist[r], content[lineage[r]])
                               /\ \/ head[lineage[r]] # None
                                  \/ pc[r] = "saveHead" /\ thread[r] = lineage[r]
       /\ head[r] # None =>
            \/ content[r] = hist[head[r]]
            \/ \E q \in Requests : thread[q] = r /\ pc[q] \in {"open", "lineage", "saveHead"}
  /\ session.thread # None => CalmCheckpoint(session.thread, session.node)

IInv == /\ TypeOK /\ InTurn /\ Reserved /\ ThreadsKnown /\ Transcripts /\ HistoryKept
        /\ Calm => CalmHistory
==============================================================================
