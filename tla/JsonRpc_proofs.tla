---------------------------- MODULE JsonRpc_proofs ----------------------------
(* Proofs about the JSON-RPC connection for any number of concurrent calls: one    *)
(* process, which reads nothing before its handshake, and a reader that no call    *)
(* can block.                                                                      *)
EXTENDS JsonRpc, TLAPS

USE CallersAssumption

------------------------------------------------------------------------------
(* What makes the properties inductive.                                        *)

\* A process is started at most once.
OneStart == spawned = IF started THEN 1 ELSE 0

\* What a call may be written to: a process that has read "initialized", or none at all.
Settled == initialized \/ ~serverUp \/ transport = "closed"

\* Once startMu is free after a start, or a call got past it, that is how things are.
AfterHandshake ==
  /\ startMu # None => started
  /\ started /\ startMu = None => Settled
  /\ \A c \in Callers : pc[c] \in Stages /\ kind[c] = "call" => started /\ Settled
  /\ ~early

\* The messages that a call has not registered yet.
Unsent(c, k) ==
  IF k = "call" THEN kind[c] = "initialize" \/ pc[c] \in {"idle", "register"}
  ELSE pc[c] = "idle" \/ (pc[c] = "register" /\ kind[c] = "initialize")

Fresh(m) == m \notin pending /\ response[m] = None /\ ~(rd = "hand" /\ rdMsg = m)

\* A message is registered once, and nothing is known of it before.
UnsentIsFresh ==
  \A c \in Callers, k \in {"initialize", "call"} :
    Unsent(c, k) => Fresh([caller |-> c, kind |-> k])

\* Only the call that performs the handshake writes "initialized".
StarterNotifies == \A c \in Callers : pc[c] = "notify" => kind[c] = "initialize"

HandsToCall == rd = "hand" => rdMsg \in Messages

\* The inductive invariants of the handshake and of the reader.
StartInv  == TypeOK /\ StartMuHeld /\ OneStart /\ AfterHandshake
ReaderInv == ReaderNeverBlocks /\ HandsToCall /\ UnsentIsFresh /\ StarterNotifies

LEMMA InitInv == Init => StartInv /\ ReaderInv
<1> SUFFICES ASSUME Init PROVE StartInv /\ ReaderInv
  OBVIOUS
<1> USE DEF Init
<1>1. TypeOK
  BY DEF TypeOK, Stages, Messages, NoMessage
<1>2. StartMuHeld /\ OneStart /\ AfterHandshake
  BY DEF StartMuHeld, OneStart, AfterHandshake, Stages
<1>3. ReaderNeverBlocks /\ HandsToCall /\ StarterNotifies
  BY DEF ReaderNeverBlocks, HandsToCall, StarterNotifies
<1>4. UnsentIsFresh
  BY DEF UnsentIsFresh, Fresh, Messages
<1> QED
  BY <1>1, <1>2, <1>3, <1>4 DEF StartInv, ReaderInv

LEMMA MessageType == ASSUME TypeOK, NEW c \in Callers PROVE Message(c) \in Messages
  BY DEF TypeOK, Message, Messages

------------------------------------------------------------------------------
(* The handshake.                                                              *)

\* The steps of a call keep the types.
LEMMA CallerType ==
  ASSUME TypeOK, NEW c \in Callers, Starting(c) \/ Calling(c) \/ ContextDone(c)
  PROVE  TypeOK'
<1> USE DEF TypeOK, Stages, provider, server, reader
<1>1. Message(c) \in Messages
  BY MessageType
<1>2. CASE FoundStarted(c) \/ FoundClosed(c) \/ SpawnFails(c)
  BY <1>2 DEF FoundStarted, FoundClosed, SpawnFails, Send, To
<1>8. CASE Spawn(c)
  BY <1>8 DEF Spawn, MarkStarted, Send
<1>3. CASE NotifyInitialized(c)
  BY <1>3 DEF NotifyInitialized, Send, To
<1>4. CASE AbortStart(c)
  BY <1>4 DEF AbortStart, CloseTransport, To
<1>5. CASE Register(c) \/ WriteFails(c) \/ ContextDone(c) \/ ConnectionGone(c)
  BY <1>1, <1>5 DEF Register, WriteFails, ContextDone, ConnectionGone, Failed, To
<1>6. CASE WriteSucceeds(c)
  BY <1>1, <1>6 DEF WriteSucceeds, To
<1>7. CASE TakeResponse(c)
  BY <1>1, <1>7 DEF TakeResponse, Answered, Failed, To
<1> QED
  BY <1>2, <1>3, <1>4, <1>5, <1>6, <1>7, <1>8 DEF Starting, Calling

\* And so do the reader, App Server and Close.
LEMMA OtherType ==
  ASSUME TypeOK, ReaderStep \/ (\E m \in Messages : Reply(m)) \/ ServerDies \/ Close
  PROVE  TypeOK'
<1> USE DEF TypeOK, provider, server, reader, caller
<1>1. ASSUME NEW m \in Messages, ReadReply(m) PROVE TypeOK'
  BY <1>1 DEF ReadReply, Forget
<1>2. ASSUME NEW outcome \in {"result", "error"}, HandOver(outcome) PROVE TypeOK'
  BY <1>2 DEF HandOver
<1>3. CASE FailPending \/ CloseReadDone
  BY <1>3 DEF FailPending, CloseReadDone
<1>4. CASE (\E m \in Messages : Reply(m)) \/ ServerDies \/ Close
  BY <1>4 DEF Reply, ServerDies, Close
<1> QED
  BY <1>1, <1>2, <1>3, <1>4 DEF ReaderStep

\* The steps of a call: a process that is up and not initialized is behind startMu.
LEMMA CallerStart ==
  ASSUME StartInv, NEW c \in Callers, Starting(c) \/ Calling(c) \/ ContextDone(c)
  PROVE  StartInv'
<1> USE DEF StartInv, provider, server, reader
<1>0. TypeOK'
  BY CallerType
<1> USE DEF StartMuHeld, OneStart, AfterHandshake, Settled, Stages, TypeOK
<1>1. CASE FoundStarted(c)
  BY <1>0, <1>1 DEF FoundStarted, Send
<1>2. CASE FoundClosed(c) \/ SpawnFails(c)
  BY <1>0, <1>2 DEF FoundClosed, SpawnFails, To
<1>3. CASE Spawn(c)
  BY <1>0, <1>3 DEF Spawn, MarkStarted, Send
<1>4. CASE NotifyInitialized(c)
  <2>1. /\ UNCHANGED <<started, spawned, serverUp, transport, early>>
        /\ pc[c] = "notify" /\ startMu = c /\ started
    BY <1>4 DEF NotifyInitialized
  <2>2. CASE initialized' = serverUp /\ startMu' = None /\ Send(c, "call")
    <3>1. \A d \in Callers : d # c => ~(startMu = d)
      BY <2>1
    <3>2. /\ \A d \in Callers \ {c} : pc'[d] = pc[d] /\ kind'[d] = kind[d]
          /\ pc'[c] = "register" /\ kind'[c] = "call"
      BY <2>2 DEF Send
    <3>3. StartMuHeld'
      BY <2>2, <3>1, <3>2
    <3>4. started /\ OneStart'
      BY <2>1
    <3>5. AfterHandshake'
      BY <2>1, <2>2, <3>2, <3>4
    <3> QED
      BY <1>0, <3>3, <3>4, <3>5
  <2>3. CASE To(c, "abort") /\ UNCHANGED <<initialized, startMu>>
    BY <1>0, <2>1, <2>3 DEF To
  <2> QED
    BY <1>4, <2>2, <2>3 DEF NotifyInitialized
<1>5. CASE AbortStart(c)
  BY <1>0, <1>5 DEF AbortStart, CloseTransport, To
<1>6. CASE Register(c)
  BY <1>0, <1>6 DEF Register, To
<1>7. CASE WriteFails(c) \/ ContextDone(c) \/ ConnectionGone(c)
  <2>1. /\ UNCHANGED <<startMu, started, transport, server>>
        /\ pc[c] \in Stages /\ Failed(c)
    BY <1>7 DEF WriteFails, ContextDone, ConnectionGone
  <2> QED
    BY <1>0, <2>1 DEF Failed, To
<1>8. CASE WriteSucceeds(c)
  BY <1>0, <1>8 DEF WriteSucceeds, To
<1>9. CASE TakeResponse(c)
  BY <1>0, <1>9 DEF TakeResponse, Answered, Failed, To
<1> QED
  BY <1>1, <1>2, <1>3, <1>4, <1>5, <1>6, <1>7, <1>8, <1>9 DEF Starting, Calling

\* Nobody else starts a process or opens a transport.
LEMMA OtherStart ==
  ASSUME StartInv, ReaderStep \/ (\E m \in Messages : Reply(m)) \/ ServerDies \/ Close
  PROVE  StartInv'
<1> USE DEF StartInv, provider, server, reader, caller
<1>0. TypeOK'
  BY OtherType
<1>1. /\ UNCHANGED <<startMu, started, spawned, initialized, early, caller>>
      /\ serverUp' => serverUp
      /\ transport = "closed" => transport' = "closed"
  BY DEF ReaderStep, ReadReply, HandOver, FailPending, CloseReadDone, Reply, ServerDies, Close
<1> QED
  BY <1>0, <1>1 DEF StartMuHeld, OneStart, AfterHandshake, Settled

------------------------------------------------------------------------------
(* The reader.                                                                 *)

\* A call registers its own message, which is fresh, and otherwise takes away.
LEMMA CallerReader ==
  ASSUME TypeOK, ReaderInv, NEW c \in Callers, Starting(c) \/ Calling(c) \/ ContextDone(c)
  PROVE  ReaderInv'
<1> USE DEF ReaderInv, ReaderNeverBlocks, HandsToCall, TypeOK, provider, server
<1>1. Message(c) \in Messages
  BY MessageType
<1>2. /\ \A d \in Callers, k \in {"initialize", "call"} : Unsent(d, k)' => Unsent(d, k)
      /\ StarterNotifies'
  <2>1. \/ \E k \in {"initialize", "call"} :
             Send(c, k) /\ (pc[c] = "idle" \/ (pc[c] = "notify" /\ k = "call"))
        \/ \E where \in {"write", "wait", "abort", "ok", "error"} : To(c, where)
        \/ kind[c] = "initialize" /\ To(c, "notify")
    BY DEF Starting, FoundStarted, FoundClosed, SpawnFails, Spawn, Calling, NotifyInitialized,
           AbortStart, Register, WriteSucceeds, WriteFails, TakeResponse, ConnectionGone,
           ContextDone, Failed, Answered
  <2>2. CASE (\E where \in {"write", "wait", "abort", "ok", "error"} : To(c, where))
             \/ (kind[c] = "initialize" /\ To(c, "notify"))
    <3>1. /\ kind' = kind /\ \A d \in Callers \ {c} : pc'[d] = pc[d]
          /\ pc'[c] \notin {"idle", "register"}
          /\ pc'[c] = "notify" => kind[c] = "initialize"
      BY <2>2 DEF To
    <3> QED
      BY <3>1 DEF Unsent, StarterNotifies
  <2>3. CASE \E k \in {"initialize", "call"} :
               Send(c, k) /\ (pc[c] = "idle" \/ (pc[c] = "notify" /\ k = "call"))
    <3>1. /\ \A d \in Callers \ {c} : pc'[d] = pc[d] /\ kind'[d] = kind[d]
          /\ pc'[c] = "register"
      BY <2>3 DEF Send
    <3>2. \A k \in {"initialize", "call"} : Unsent(c, k)' => Unsent(c, k)
      <4>1. PICK k \in {"initialize", "call"} :
              Send(c, k) /\ (pc[c] = "idle" \/ (pc[c] = "notify" /\ k = "call"))
        BY <2>3
      <4>2. kind'[c] = k
        BY <4>1 DEF Send
      <4> QED
        BY <3>1, <4>1, <4>2 DEF Unsent, StarterNotifies
    <3> QED
      BY <3>1, <3>2 DEF Unsent, StarterNotifies
  <2> QED
    BY <2>1, <2>2, <2>3
<1>3. CASE Register(c)
  <2>1. Fresh(Message(c))
    BY <1>3 DEF Register, UnsentIsFresh, Unsent, Message
  <2>2. \A k \in {"initialize", "call"} : Unsent(c, k)' => Message(c) # [caller |-> c, kind |-> k]
    BY <1>3 DEF Register, Unsent, Message, To
  <2>3. /\ pending' = pending \cup {Message(c)}
        /\ UNCHANGED <<response, rd, rdMsg>>
    BY <1>3 DEF Register, reader
  <2>4. ReaderNeverBlocks' /\ HandsToCall'
    BY <1>1, <2>1, <2>3 DEF Fresh
  <2>5. UnsentIsFresh'
    <3> SUFFICES ASSUME NEW d \in Callers, NEW k \in {"initialize", "call"}, Unsent(d, k)'
                 PROVE  Fresh([caller |-> d, kind |-> k])'
      BY DEF UnsentIsFresh
    <3>1. Fresh([caller |-> d, kind |-> k])
      BY <1>2 DEF UnsentIsFresh
    <3>2. [caller |-> d, kind |-> k] # Message(c)
      BY <2>2 DEF Message
    <3> QED
      BY <2>3, <3>1, <3>2 DEF Fresh
  <2> QED
    BY <1>2, <2>4, <2>5
<1>4. CASE Starting(c) \/ (Calling(c) /\ ~Register(c)) \/ ContextDone(c)
  <2>1. rdMsg' = rdMsg /\ (rd' = "hand" => rd = "hand") /\ pending' \subseteq pending
        /\ \A m \in Messages : response[m] = None => response'[m] = None
    BY <1>1, <1>4
    DEF Starting, FoundStarted, FoundClosed, SpawnFails, Spawn, Calling, NotifyInitialized,
        AbortStart, WriteSucceeds, WriteFails, TakeResponse, ConnectionGone, ContextDone, reader
  <2>2. UnsentIsFresh'
    BY <1>2, <2>1 DEF UnsentIsFresh, Fresh, Messages
  <2> QED
    BY <1>2, <2>1, <2>2
<1> QED
  BY <1>3, <1>4 DEF Calling

\* The reader sends to those that are pending, and takes them off that list.
LEMMA OtherReader ==
  ASSUME TypeOK, ReaderInv, ReaderStep \/ (\E m \in Messages : Reply(m)) \/ ServerDies \/ Close
  PROVE  ReaderInv'
<1> USE DEF ReaderInv, ReaderNeverBlocks, HandsToCall, TypeOK, provider, server, reader, caller
<1>1. ASSUME NEW m \in Messages, ReadReply(m) PROVE ReaderInv'
  BY <1>1 DEF ReadReply, Forget, UnsentIsFresh, Fresh, Unsent, StarterNotifies
<1>2. ASSUME NEW outcome \in {"result", "error"}, HandOver(outcome) PROVE ReaderInv'
  BY <1>2 DEF HandOver, UnsentIsFresh, Fresh, Unsent, StarterNotifies
<1>3. CASE FailPending
  BY <1>3 DEF FailPending, UnsentIsFresh, Fresh, Unsent, StarterNotifies, Messages
<1>4. CASE CloseReadDone \/ (\E m \in Messages : Reply(m)) \/ ServerDies \/ Close
  BY <1>4 DEF CloseReadDone, Reply, ServerDies, Close, UnsentIsFresh, Fresh, Unsent, StarterNotifies
<1> QED
  BY <1>1, <1>2, <1>3, <1>4 DEF ReaderStep

------------------------------------------------------------------------------
\* The inductive invariant of the connection.
THEOREM Invariance == Spec => [](StartInv /\ ReaderInv)
<1>1. StartInv /\ ReaderInv /\ [Next]_vars => StartInv' /\ ReaderInv'
  <2> SUFFICES ASSUME StartInv, ReaderInv, [Next]_vars PROVE StartInv' /\ ReaderInv'
    OBVIOUS
  <2>1. TypeOK
    BY DEF StartInv
  <2>2. CASE UNCHANGED vars
    BY <2>2 DEF vars, provider, server, reader, caller, StartInv, ReaderInv, TypeOK, StartMuHeld,
                OneStart, AfterHandshake, Settled, ReaderNeverBlocks, HandsToCall, UnsentIsFresh,
                Fresh, Unsent, StarterNotifies
  <2>3. CASE Next
    BY <2>1, <2>3, CallerStart, OtherStart, CallerReader, OtherReader DEF Next
  <2> QED
    BY <2>2, <2>3
<1> QED
  BY <1>1, InitInv, PTL DEF Spec

\* However many calls start at once and wherever the handshake fails, one process is started
\* and reads no request before "initialized".
THEOREM OneProcessAfterHandshake == Spec => []HandshakeFirst
<1>1. StartInv => HandshakeFirst
  BY DEF StartInv, HandshakeFirst, OneStart, AfterHandshake
<1> QED
  BY <1>1, Invariance, PTL

\* However calls register, give up and fail, the channel the reader sends to is empty.
THEOREM ReaderIsFree == Spec => []ReaderNeverBlocks
<1>1. ReaderInv => ReaderNeverBlocks
  BY DEF ReaderInv
<1> QED
  BY <1>1, Invariance, PTL
===============================================================================
