------------------------- MODULE TurnRegistry_proofs -------------------------
(* The reservation of a Codex thread never outlives its turn, for every set of *)
(* requests and every bound on the notifications.                              *)
EXTENDS TurnRegistry, TLAPS

USE RequestsAssumption, AbandonAssumption

LEMMA InitInv == Init => IInv
PROOF
<1> SUFFICES ASSUME Init PROVE IInv OBVIOUS
<1> USE DEF Init
<1>1. wire \in Seq(Message) /\ starts \in Seq(Requests) OBVIOUS
<1>2. TypeOK BY <1>1 DEF TypeOK
<1>3. NoStaleReservation BY DEF NoStaleReservation
<1>4. KnownTurns BY DEF KnownTurns
<1> QED BY <1>2, <1>3, <1>4 DEF IInv

\* The requests' own steps.
LEMMA RequestInv ==
  ASSUME IInv, NEW r \in Requests,
         \/ Starts(r) \/ SetTurnID(r) \/ RegisterTurn(r) \/ CancelStart(r)
         \/ FinishCancelled(r) \/ StreamEnds(r) \/ Close(r) \/ RemoveClosed(r)
  PROVE  IInv'
PROOF
<1> USE DEF IInv, registry, states, reader, server
<1>1. CASE Reserve(r)
  <2>1. starts' \in Seq(Requests) BY <1>1 DEF Reserve, TypeOK
  <2>2. TypeOK' BY <1>1, <2>1 DEF Reserve, TypeOK
  <2>3. NoStaleReservation'
    BY <1>1 DEF Reserve, TypeOK, NoStaleReservation, KnownTurns
  <2>4. KnownTurns'
    BY <1>1 DEF Reserve, TypeOK, KnownTurns, ThreadFree, Starting
  <2> QED BY <2>2, <2>3, <2>4
<1>2. CASE Refuse(r)
  BY <1>2 DEF Refuse, ThreadFree, TypeOK, NoStaleReservation, KnownTurns
<1>3. CASE SetTurnID(r)
  BY <1>3 DEF SetTurnID, TypeOK, NoStaleReservation, KnownTurns
<1>4. CASE RegisterTurn(r)
  BY <1>4 DEF RegisterTurn, TypeOK, NoStaleReservation, KnownTurns
<1>5. CASE CancelStart(r)
  BY <1>5 DEF CancelStart, RemoveTurn, TypeOK, NoStaleReservation, KnownTurns
<1>6. CASE FinishCancelled(r)
  BY <1>6 DEF FinishCancelled, Finish, TypeOK, NoStaleReservation, KnownTurns
<1>7. CASE StreamEnds(r)
  BY <1>7 DEF StreamEnds, TypeOK, NoStaleReservation, KnownTurns
<1>8. CASE Close(r)
  BY <1>8 DEF Close, TypeOK, NoStaleReservation, KnownTurns
<1>9. CASE RemoveClosed(r)
  BY <1>9 DEF RemoveClosed, RemoveTurn, TypeOK, NoStaleReservation, KnownTurns
<1> QED BY <1>1, <1>2, <1>3, <1>4, <1>5, <1>6, <1>7, <1>8, <1>9 DEF Starts

\* App Server only writes to the wire.
LEMMA ServerInv ==
  ASSUME IInv, ServerStep PROVE IInv'
PROOF
<1> USE DEF IInv, registry, states, reader, server
<1>1. ASSUME NEW m \in Message, wire' = Append(wire, m)
      PROVE  wire' \in Seq(Message)
  BY <1>1 DEF TypeOK
<1>2. CASE StartTurn
  <2>1. Head(starts) \in Requests /\ Tail(starts) \in Seq(Requests)
    BY <1>2 DEF StartTurn, TypeOK
  <2>2. MessageOf("reply", Head(starts)) \in Message
    BY <2>1 DEF MessageOf, Message
  <2>3. wire' \in Seq(Message) BY <1>1, <1>2, <2>2 DEF StartTurn
  <2> QED BY <1>2, <2>1, <2>3 DEF StartTurn, TypeOK, NoStaleReservation, KnownTurns
<1>3. CASE SendText
  <2>1. MessageOf("text", running) \in Message
    BY <1>3 DEF SendText, TypeOK, MessageOf, Message
  <2>2. wire' \in Seq(Message) BY <1>1, <1>3, <2>1 DEF SendText
  <2>3. texts' \in [Requests -> Nat] BY <1>3 DEF SendText, TypeOK
  <2> QED BY <1>3, <2>2, <2>3 DEF SendText, TypeOK, NoStaleReservation, KnownTurns
<1>4. CASE CompleteTurn
  <2>1. MessageOf("completed", running) \in Message
    BY <1>4 DEF CompleteTurn, TypeOK, MessageOf, Message
  <2>2. wire' \in Seq(Message) BY <1>1, <1>4, <2>1 DEF CompleteTurn
  <2> QED BY <1>4, <2>2 DEF CompleteTurn, TypeOK, NoStaleReservation, KnownTurns
<1>5. CASE RefuseTurn
  <2>1. Head(starts) \in Requests /\ Tail(starts) \in Seq(Requests)
    BY <1>5 DEF RefuseTurn, TypeOK
  <2>2. MessageOf("refusal", Head(starts)) \in Message
    BY <2>1 DEF MessageOf, Message
  <2>3. wire' \in Seq(Message) BY <1>1, <1>5, <2>2 DEF RefuseTurn
  <2> QED BY <1>5, <2>1, <2>3 DEF RefuseTurn, TypeOK, NoStaleReservation, KnownTurns
<1> QED BY <1>2, <1>3, <1>4, <1>5 DEF ServerStep

LEMMA ReaderInv ==
  ASSUME IInv, ReaderStep PROVE IInv'
PROOF
<1> USE DEF IInv, registry, states, reader, server
<1>1. CASE ReadReply
  <2>1. Head(wire) \in Message /\ Tail(wire) \in Seq(Message)
    BY <1>1 DEF ReadReply, TypeOK
  <2>2. Head(wire).turn \in Requests BY <2>1 DEF Message
  <2> QED BY <1>1, <2>1, <2>2 DEF ReadReply, TypeOK, NoStaleReservation, KnownTurns
<1>2. CASE ReadNotification
  <2>1. Head(wire) \in Message /\ Tail(wire) \in Seq(Message)
    BY <1>2 DEF ReadNotification, TypeOK
  <2>2. CASE Found(Head(wire)) = None
    BY <1>2, <2>1, <2>2 DEF ReadNotification, TypeOK, NoStaleReservation, KnownTurns
  <2>3. CASE Found(Head(wire)) # None
    <3>1. Found(Head(wire)) \in turns \/ Found(Head(wire)) = active
      BY DEF Found
    <3>2. Found(Head(wire)) \in Requests /\ pc[Found(Head(wire))] # "idle"
      BY <2>3, <3>1 DEF TypeOK, NoStaleReservation, KnownTurns
    <3> HIDE DEF Found
    <3> QED BY <1>2, <2>1, <2>3, <3>2
            DEF ReadNotification, TypeOK, NoStaleReservation, KnownTurns
  <2> QED BY <2>2, <2>3
<1>3. CASE ApplyText
  <2>1. rdState \in Requests /\ rdMsg.turn \in Requests
    BY <1>3 DEF ApplyText, TypeOK, KnownTurns, Message, NoMessage, MessageOf
  <2>2. TypeOK' BY <1>3, <2>1 DEF ApplyText, Enqueue, TypeOK
  <2> QED BY <1>3, <2>2 DEF ApplyText, NoStaleReservation, KnownTurns
<1>4. CASE ApplyCompleted
  <2>1. rdState \in Requests /\ rdMsg.turn \in Requests
    BY <1>4 DEF ApplyCompleted, TypeOK, KnownTurns, Message, NoMessage, MessageOf
  <2>2. TypeOK' BY <1>4, <2>1 DEF ApplyCompleted, Enqueue, TypeOK
  <2> QED BY <1>4, <2>2 DEF ApplyCompleted, NoStaleReservation, KnownTurns
<1>5. CASE RemoveCompleted
  BY <1>5 DEF RemoveCompleted, RemoveTurn, TypeOK, NoStaleReservation, KnownTurns
<1>6. CASE FinishCompleted
  BY <1>6 DEF FinishCompleted, Finish, TypeOK, NoStaleReservation, KnownTurns
<1> QED BY <1>1, <1>2, <1>3, <1>4, <1>5, <1>6 DEF ReaderStep

\* The inductive invariant.
THEOREM Invariance == Spec => []IInv
PROOF
<1>1. IInv /\ [Next]_vars => IInv'
  <2> SUFFICES ASSUME IInv, [Next]_vars PROVE IInv' OBVIOUS
  <2>1. CASE UNCHANGED vars
    BY <2>1 DEF vars, registry, states, reader, server, IInv, TypeOK,
                NoStaleReservation, KnownTurns
  <2>2. ASSUME NEW r \in Requests,
               Starts(r) \/ CancelStart(r) \/ StreamEnds(r) \/ Handler(r)
        PROVE  IInv'
    BY <2>2, RequestInv DEF Handler
  <2> QED BY <2>1, <2>2, ServerInv, ReaderInv DEF Next
<1> QED BY InitInv, <1>1, PTL DEF Spec

\* A thread is only ever reserved by a turn that still runs or is just being removed.
THEOREM ReservationIsFresh == Spec => []NoStaleReservation
PROOF
<1>1. IInv => NoStaleReservation BY DEF IInv
<1> QED BY <1>1, Invariance, PTL

------------------------------------------------------------------------------
(* While callers stay, one turn at a time has to do with the thread.           *)

\* Everything that is on its way to or from App Server, or in the reader's hands, is of
\* the request that holds the thread.
PipelineIsActive ==
  /\ active = None => wire = <<>> /\ starts = <<>> /\ running = None
  /\ running \in {None, active}
  /\ starts \in {<<>>, <<active>>}
  /\ \A i \in DOMAIN wire : wire[i].turn = active
  /\ rd \in {"apply", "remove"} => rdState = active /\ rdMsg.turn = active

\* Its messages come in order: the answer to turn/start first, while the request waits
\* for it; the end last, when nothing else is under way.
LastWord(kind) == kind \in {"refusal", "completed"}

InOrder ==
  /\ starts # <<>> => wire = <<>> /\ running = None /\ pc[active] = "sent"
                      /\ rd \in {"idle", "finish"}
  /\ \A i \in DOMAIN wire :
       /\ wire[i].kind \in {"reply", "refusal"} <=> i = 1 /\ pc[active] = "sent"
       /\ LastWord(wire[i].kind) => i = Len(wire) /\ running = None
  /\ active # None /\ pc[active] = "sent" /\ starts = <<>> => wire # <<>>
  /\ active # None /\ pc[active] = "rejected" => wire = <<>> /\ running = None
                                                 /\ rd \in {"idle", "finish"}
  /\ active # None /\ pc[active] = "sent" => rd \in {"idle", "finish"}
  /\ (rd = "apply" /\ rdMsg.kind = "completed") \/ rd = "remove" =>
       wire = <<>> /\ running = None

\* The other requests are over, for the registry: their turns were taken off it.
OthersAreOver ==
  \A r \in Requests : r # active =>
    /\ pc[r] \in {"idle", "replied", "set", "open", "cancelled", "ended", "gone"}
    /\ pc[r] \in {"replied", "set", "open"} => r \in done \/ (rd = "finish" /\ rdState = r)
    /\ pc[r] = "ended" => r \in done

\* And the one that holds it is not.
ActiveIsLive ==
  active # None => pc[active] \in {"sent", "replied", "rejected", "set", "open"}

StayParts == /\ PipelineIsActive /\ InOrder /\ OthersAreOver /\ ActiveIsLive
             /\ \A r \in Requests : got[r] \subseteq {r}

StayInv == ~abandon => StayParts

\* What Append and Tail do to a sequence, position by position.
LEMMA AppendFacts ==
  ASSUME NEW S, NEW q \in Seq(S), NEW e \in S
  PROVE  /\ Len(q) \in Nat /\ DOMAIN q = 1 .. Len(q) /\ Len(q) = 0 => q = <<>>
         /\ Len(Append(q, e)) = Len(q) + 1 /\ DOMAIN Append(q, e) = 1 .. Len(q) + 1
         /\ Append(q, e) # <<>> /\ Append(q, e)[Len(q) + 1] = e
         /\ \A i \in 1 .. Len(q) : Append(q, e)[i] = q[i]
PROOF
<1>1. Append(q, e) \in Seq(S) OBVIOUS
<1>2. Len(Append(q, e)) = Len(q) + 1 OBVIOUS
<1>3. \A i \in 1 .. Len(q) : Append(q, e)[i] = q[i] OBVIOUS
<1>4. Append(q, e)[Len(q) + 1] = e OBVIOUS
<1>5. Len(q) \in Nat /\ DOMAIN q = 1 .. Len(q) OBVIOUS
<1>6. DOMAIN Append(q, e) = 1 .. Len(Append(q, e)) BY <1>1
<1>7. Len(q) = 0 => q = <<>> OBVIOUS
<1>8. Append(q, e) # <<>> BY <1>2, <1>5
<1> QED BY <1>2, <1>3, <1>4, <1>5, <1>6, <1>7, <1>8

LEMMA TailFacts ==
  ASSUME NEW S, NEW q \in Seq(S), q # <<>>
  PROVE  /\ Head(q) = q[1] /\ Head(q) \in S /\ Len(q) \in Nat \ {0}
         /\ DOMAIN q = 1 .. Len(q) /\ 1 \in DOMAIN q
         /\ Len(Tail(q)) = Len(q) - 1 /\ DOMAIN Tail(q) = 1 .. Len(q) - 1
         /\ \A i \in 1 .. Len(q) - 1 : Tail(q)[i] = q[i + 1]
         /\ Len(q) = 1 => Tail(q) = <<>>
         /\ Len(q) > 1 => Tail(q) # <<>>
PROOF
<1>1. Head(q) = q[1] /\ Head(q) \in S OBVIOUS
<1>2. Len(q) \in Nat \ {0} /\ DOMAIN q = 1 .. Len(q) OBVIOUS
<1>3. Tail(q) \in Seq(S) /\ Len(Tail(q)) = Len(q) - 1 OBVIOUS
<1>4. \A i \in 1 .. Len(q) - 1 : Tail(q)[i] = q[i + 1] OBVIOUS
<1>5. DOMAIN Tail(q) = 1 .. Len(Tail(q)) BY <1>3
<1>6. Len(q) = 1 => Tail(q) = <<>> BY <1>3
<1>7. Len(q) > 1 => Tail(q) # <<>> BY <1>2, <1>3
<1> QED BY <1>1, <1>2, <1>3, <1>4, <1>5, <1>6, <1>7

LEMMA StayInit == Init => StayInv
  BY DEF Init, StayInv, StayParts, PipelineIsActive, InOrder, OthersAreOver, ActiveIsLive

\* Requests that come, start, are refused and end.
LEMMA StayRequest ==
  ASSUME IInv, StayParts, ~abandon, NEW r \in Requests,
         \/ Starts(r) \/ SetTurnID(r) \/ RegisterTurn(r) \/ CancelStart(r)
         \/ FinishCancelled(r) \/ StreamEnds(r) \/ Close(r) \/ RemoveClosed(r)
  PROVE  StayParts'
PROOF
<1> USE DEF registry, states, reader, server, StayParts, IInv, TypeOK
<1>1. CASE Reserve(r)
  <2>1. /\ active = None /\ active' = r /\ pc[r] = "idle" /\ pc' = [pc EXCEPT ![r] = "sent"]
        /\ wire = <<>> /\ running = None /\ starts = <<>>
        /\ UNCHANGED <<turns, states, reader, wire, running, texts, abandon>>
    BY <1>1 DEF Reserve, ThreadFree, PipelineIsActive
  <2>2. starts' = <<r>> BY <1>1, <2>1 DEF Reserve
  <2>3. rd \in {"idle", "finish"} BY <2>1 DEF PipelineIsActive, KnownTurns
  <2>4. PipelineIsActive' BY <2>1, <2>2, <2>3 DEF PipelineIsActive
  <2>5. InOrder' BY <2>1, <2>2, <2>3 DEF InOrder
  <2>6. OthersAreOver' BY <2>1 DEF OthersAreOver
  <2>7. ActiveIsLive' BY <2>1 DEF ActiveIsLive
  <2> QED BY <2>1, <2>4, <2>5, <2>6, <2>7
<1>2. CASE CancelStart(r)
  <2>1. /\ pc[r] = "rejected" /\ active' = None /\ pc' = [pc EXCEPT ![r] = "cancelled"]
        /\ UNCHANGED <<states, reader, wire, server>>
    BY <1>2 DEF CancelStart, RemoveTurn
  <2>2. r = active BY <2>1 DEF OthersAreOver
  <2>3. wire = <<>> /\ running = None /\ starts = <<>> /\ rd \in {"idle", "finish"}
    BY <2>1, <2>2 DEF InOrder
  <2>4. PipelineIsActive' /\ InOrder' BY <2>1, <2>3 DEF PipelineIsActive, InOrder
  <2>5. OthersAreOver' BY <2>1, <2>2 DEF OthersAreOver
  <2>6. ActiveIsLive' BY <2>1 DEF ActiveIsLive
  <2> QED BY <2>1, <2>4, <2>5, <2>6
<1>3. CASE SetTurnID(r) \/ RegisterTurn(r)
  <2>1. /\ pc[r] \in {"replied", "set"} /\ \E where \in {"set", "open"} : pc' = [pc EXCEPT ![r] = where]
        /\ UNCHANGED <<active, done, got, reader, wire, server>>
    BY <1>3 DEF SetTurnID, RegisterTurn
  <2>2. PipelineIsActive' BY <2>1 DEF PipelineIsActive
  <2>3. InOrder' BY <2>1 DEF InOrder
  <2>4. OthersAreOver' BY <2>1 DEF OthersAreOver
  <2>5. ActiveIsLive' BY <2>1 DEF ActiveIsLive
  <2> QED BY <2>1, <2>2, <2>3, <2>4, <2>5
<1>4. CASE Refuse(r) \/ FinishCancelled(r) \/ StreamEnds(r) \/ Close(r) \/ RemoveClosed(r)
  <2>1. /\ UNCHANGED <<active, got, reader, wire, server>> \/ RemoveClosed(r)
        /\ done \subseteq done'
    BY <1>4 DEF Refuse, FinishCancelled, StreamEnds, Close, Finish, RemoveClosed
  <2>2. r # active
    BY <1>4 DEF Refuse, FinishCancelled, StreamEnds, Close, RemoveClosed, ActiveIsLive,
                NoStaleReservation
  <2>3. ~RemoveClosed(r) BY <2>2 DEF RemoveClosed, OthersAreOver
  <2>4. /\ \E where \in {"gone", "ended"} : pc' = [pc EXCEPT ![r] = where]
        /\ pc'[r] = "ended" => r \in done'
    BY <1>4, <2>2, <2>3 DEF Refuse, FinishCancelled, StreamEnds, Close, OthersAreOver
  <2>5. PipelineIsActive' BY <2>1, <2>3 DEF PipelineIsActive
  <2>6. InOrder' BY <2>1, <2>2, <2>3, <2>4 DEF InOrder, PipelineIsActive
  <2>7. OthersAreOver' BY <2>1, <2>3, <2>4 DEF OthersAreOver
  <2>8. ActiveIsLive' BY <2>1, <2>2, <2>3, <2>4 DEF ActiveIsLive
  <2> QED BY <2>1, <2>3, <2>5, <2>6, <2>7, <2>8
<1> QED BY <1>1, <1>2, <1>3, <1>4 DEF Starts

\* App Server takes up or refuses the turn it was asked for, writes text, and ends it.
LEMMA StayServer ==
  ASSUME IInv, StayParts, ~abandon, ServerStep
  PROVE  StayParts'
PROOF
<1> USE DEF registry, states, reader, StayParts, IInv, TypeOK
<1>1. CASE StartTurn \/ RefuseTurn
  <2>1. /\ active # None /\ starts = <<active>> /\ wire = <<>> /\ running = None
        /\ pc[active] = "sent" /\ rd \in {"idle", "finish"}
    BY <1>1 DEF StartTurn, RefuseTurn, PipelineIsActive, InOrder
  <2>2. PICK kind \in {"reply", "refusal"} :
          /\ wire' = Append(wire, MessageOf(kind, Head(starts))) /\ starts' = Tail(starts)
          /\ running' = IF kind = "reply" THEN Head(starts) ELSE running
          /\ UNCHANGED <<registry, states, pc, reader>>
    BY <1>1 DEF StartTurn, RefuseTurn
  <2>3. /\ Head(starts) = active /\ starts' = <<>>
        /\ Len(wire') = 1 /\ DOMAIN wire' = {1} /\ wire' # <<>>
        /\ wire'[1] = MessageOf(kind, active)
    BY <2>1, <2>2
  <2>4. PipelineIsActive' BY <2>1, <2>2, <2>3 DEF PipelineIsActive, MessageOf
  <2>5. InOrder' BY <2>1, <2>2, <2>3 DEF InOrder, MessageOf, LastWord
  <2> QED BY <2>2, <2>4, <2>5 DEF OthersAreOver, ActiveIsLive
<1>2. CASE SendText \/ CompleteTurn
  <2>1. /\ active # None /\ running = active /\ starts = <<>> /\ rd # "remove"
        /\ ~(rd = "apply" /\ rdMsg.kind = "completed")
        /\ pc[active] = "sent" => wire # <<>>
        /\ pc[active] # "rejected"
        /\ \A i \in DOMAIN wire : ~LastWord(wire[i].kind)
    BY <1>2 DEF SendText, CompleteTurn, PipelineIsActive, InOrder
  <2>2. PICK kind \in {"text", "completed"} :
          /\ wire' = Append(wire, MessageOf(kind, active)) /\ starts' = starts
          /\ running' = IF kind = "completed" THEN None ELSE running
          /\ UNCHANGED <<registry, states, pc, reader>>
    BY <1>2, <2>1 DEF SendText, CompleteTurn
  <2>3. MessageOf(kind, active) \in Message /\ wire \in Seq(Message)
    BY <2>1 DEF MessageOf, Message
  <2>4. /\ Len(wire') = Len(wire) + 1 /\ DOMAIN wire' = 1 .. Len(wire) + 1 /\ wire' # <<>>
        /\ Len(wire) \in Nat /\ DOMAIN wire = 1 .. Len(wire)
        /\ wire'[Len(wire) + 1] = MessageOf(kind, active)
        /\ \A i \in 1 .. Len(wire) : wire'[i] = wire[i]
        /\ Len(wire) = 0 => wire = <<>>
    <3> HIDE DEF StayParts, IInv, TypeOK, registry, states, reader
    <3> QED BY <2>2, <2>3, AppendFacts
  <2>5. PipelineIsActive' BY <2>1, <2>2, <2>4 DEF PipelineIsActive, MessageOf
  <2>6. ASSUME NEW i \in DOMAIN wire'
        PROVE  /\ wire'[i].kind \in {"reply", "refusal"} <=> i = 1 /\ pc[active] = "sent"
               /\ LastWord(wire'[i].kind) => i = Len(wire') /\ running' = None
    <3>1. CASE i \in 1 .. Len(wire)
      BY <2>1, <2>4, <3>1 DEF InOrder
    <3>2. CASE i = Len(wire) + 1
      BY <2>1, <2>2, <2>4, <3>2 DEF MessageOf, LastWord
    <3> QED BY <2>4, <3>1, <3>2
  <2>7. InOrder' BY <2>1, <2>2, <2>4, <2>6 DEF InOrder
  <2> QED BY <2>2, <2>5, <2>7 DEF OthersAreOver, ActiveIsLive
<1> QED BY <1>1, <1>2 DEF ServerStep

\* The reader gives what comes to the request that holds the thread.
LEMMA StayReader ==
  ASSUME IInv, StayParts, ~abandon, ReaderStep
  PROVE  StayParts'
PROOF
<1> USE DEF registry, states, reader, server, StayParts, IInv, TypeOK
<1>1. ASSUME wire # <<>>, wire' = Tail(wire)
      PROVE  /\ Head(wire) = wire[1] /\ Head(wire) \in Message /\ Len(wire) \in Nat \ {0}
             /\ DOMAIN wire = 1 .. Len(wire)
             /\ Len(wire') = Len(wire) - 1 /\ DOMAIN wire' = 1 .. Len(wire) - 1
             /\ \A i \in 1 .. Len(wire) - 1 : wire'[i] = wire[i + 1]
             /\ Len(wire) = 1 => wire' = <<>>
             /\ Len(wire) > 1 => wire' # <<>>
             /\ active # None /\ Head(wire).turn = active /\ starts = <<>>
  <2>1. /\ Head(wire) = wire[1] /\ Head(wire) \in Message /\ Len(wire) \in Nat \ {0}
        /\ DOMAIN wire = 1 .. Len(wire)
        /\ Len(wire') = Len(wire) - 1 /\ DOMAIN wire' = 1 .. Len(wire) - 1
        /\ \A i \in 1 .. Len(wire) - 1 : wire'[i] = wire[i + 1]
        /\ Len(wire) = 1 => wire' = <<>>
        /\ Len(wire) > 1 => wire' # <<>>
    <3>1. wire \in Seq(Message) OBVIOUS
    <3> HIDE DEF StayParts, IInv, TypeOK, registry, states, reader, server
    <3> QED BY <1>1, <3>1, TailFacts
  <2>2. 1 \in DOMAIN wire
    <3> HIDE DEF StayParts, IInv, TypeOK, registry, states, reader, server
    <3> QED BY <2>1
  <2>3. active # None /\ wire[1].turn = active BY <1>1, <2>2 DEF PipelineIsActive
  <2>4. starts = <<>> BY <1>1 DEF InOrder
  <2> QED BY <2>1, <2>3, <2>4
<1>2. CASE ReadReply
  <2>1. /\ rd = "idle" /\ wire # <<>> /\ wire' = Tail(wire)
        /\ Head(wire).kind \in {"reply", "refusal"}
        /\ UNCHANGED <<registry, states, reader, server>>
    BY <1>2 DEF ReadReply
  <2>2. /\ pc[active] = "sent" /\ active \in Requests
        /\ Head(wire).kind = "refusal" => Len(wire) = 1 /\ running = None
    BY <1>1, <2>1 DEF InOrder, LastWord
  <2>3. pc' = [pc EXCEPT ![active] = IF Head(wire).kind = "reply" THEN "replied" ELSE "rejected"]
    BY <1>1, <1>2, <2>1, <2>2 DEF ReadReply
  <2>4. PipelineIsActive' BY <1>1, <2>1 DEF PipelineIsActive
  <2>5. ASSUME NEW i \in DOMAIN wire'
        PROVE  /\ wire'[i].kind \notin {"reply", "refusal"}
               /\ LastWord(wire'[i].kind) => i = Len(wire') /\ running = None
    <3>1. i + 1 \in DOMAIN wire /\ wire'[i] = wire[i + 1] /\ i + 1 # 1
      BY <1>1, <2>1, <2>5
    <3> QED BY <1>1, <2>1, <3>1 DEF InOrder
  <2>6. InOrder' BY <1>1, <2>1, <2>2, <2>3, <2>5 DEF InOrder
  <2>7. OthersAreOver' BY <2>1, <2>3 DEF OthersAreOver
  <2>8. ActiveIsLive' BY <2>1, <2>2, <2>3 DEF ActiveIsLive
  <2> QED BY <2>1, <2>4, <2>6, <2>7, <2>8
<1>3. CASE ReadNotification
  <2>1. /\ rd = "idle" /\ wire # <<>> /\ wire' = Tail(wire)
        /\ Head(wire).kind \notin {"reply", "refusal"}
        /\ UNCHANGED <<registry, states, pc, server>>
    BY <1>3 DEF ReadNotification
  <2>2. Found(Head(wire)) = active BY <1>1, <2>1 DEF Found
  <2>3. /\ rd' = "apply" /\ rdMsg' = Head(wire) /\ rdState' = active
    BY <1>1, <1>3, <2>1, <2>2 DEF ReadNotification
  <2>4. pc[active] # "sent"
    <3>1. 1 \in DOMAIN wire /\ wire[1] = Head(wire) BY <1>1, <2>1
    <3> QED BY <2>1, <3>1 DEF InOrder
  <2>5. Head(wire).kind = "completed" => Len(wire) = 1 /\ running = None
    <3>1. 1 \in DOMAIN wire /\ wire[1] = Head(wire) BY <1>1, <2>1
    <3>2. LastWord(wire[1].kind) => 1 = Len(wire) /\ running = None BY <3>1 DEF InOrder
    <3> QED BY <3>1, <3>2 DEF LastWord
  <2>6. pc[active] # "rejected" BY <1>1, <2>1 DEF InOrder
  <2>7. PipelineIsActive' BY <1>1, <2>1, <2>3 DEF PipelineIsActive
  <2>8. ASSUME NEW i \in DOMAIN wire'
        PROVE  /\ wire'[i].kind \notin {"reply", "refusal"}
               /\ LastWord(wire'[i].kind) => i = Len(wire') /\ running = None
    <3>1. i + 1 \in DOMAIN wire /\ wire'[i] = wire[i + 1] /\ i + 1 # 1
      BY <1>1, <2>1, <2>8
    <3> QED BY <1>1, <2>1, <3>1 DEF InOrder
  <2>9. InOrder' BY <1>1, <2>1, <2>3, <2>4, <2>5, <2>6, <2>8 DEF InOrder
  <2> QED BY <2>1, <2>3, <2>7, <2>9 DEF OthersAreOver, ActiveIsLive
<1>4. CASE ApplyText \/ ApplyCompleted
  <2>1. /\ rdState = active /\ rdMsg.turn = active /\ rd = "apply"
        /\ UNCHANGED <<registry, done, pc, rdMsg, rdState, wire, server>>
        /\ rd' = IF rdMsg.kind = "text" THEN "idle" ELSE "remove"
        /\ rdMsg.kind \in {"text", "completed"}
    BY <1>4 DEF ApplyText, ApplyCompleted, PipelineIsActive
  <2>2. \A r \in Requests : got'[r] \subseteq {r}
    BY <1>4, <2>1 DEF ApplyText, ApplyCompleted, Enqueue
  <2>3. PipelineIsActive' BY <2>1 DEF PipelineIsActive
  <2>4. starts = <<>> /\ (active # None => pc[active] \notin {"sent", "rejected"})
    BY <2>1 DEF InOrder
  <2>5. InOrder' BY <2>1, <2>4 DEF InOrder
  <2> QED BY <2>1, <2>2, <2>3, <2>5 DEF OthersAreOver, ActiveIsLive
<1>5. CASE RemoveCompleted
  <2>1. /\ rd = "remove" /\ rd' = "finish" /\ active' = None /\ rdState = active
        /\ UNCHANGED <<states, pc, rdMsg, rdState, wire, server>>
        /\ wire = <<>> /\ running = None /\ starts = <<>>
    BY <1>5 DEF RemoveCompleted, RemoveTurn, PipelineIsActive, InOrder
  <2>2. active # None => pc[active] \in {"replied", "set", "open"}
    BY <2>1 DEF InOrder, ActiveIsLive
  <2>3. OthersAreOver' BY <2>1, <2>2 DEF OthersAreOver
  <2> QED BY <2>1, <2>3 DEF PipelineIsActive, InOrder, ActiveIsLive
<1>6. CASE FinishCompleted
  <2>1. /\ rd = "finish" /\ rd' = "idle" /\ done' = done \cup {rdState}
        /\ UNCHANGED <<registry, turnID, closed, got, pc, rdMsg, rdState, wire, server>>
    BY <1>6 DEF FinishCompleted, Finish
  <2>2. OthersAreOver' BY <2>1 DEF OthersAreOver
  <2> QED BY <2>1, <2>2 DEF PipelineIsActive, InOrder, ActiveIsLive
<1> QED BY <1>2, <1>3, <1>4, <1>5, <1>6 DEF ReaderStep

LEMMA StayStep == IInv /\ StayInv /\ [Next]_vars => StayInv'
PROOF
<1> SUFFICES ASSUME IInv, StayInv, [Next]_vars, ~abandon' PROVE StayParts'
  BY DEF StayInv, StayParts
<1>1. ~abandon
  <2>1. Next => abandon' = abandon
    BY DEF Next, Starts, Reserve, Refuse, CancelStart, StreamEnds, Handler, SetTurnID,
           RegisterTurn, FinishCancelled, Close, RemoveClosed, ReaderStep, ReadReply,
           ReadNotification, ApplyText, ApplyCompleted, RemoveCompleted, FinishCompleted,
           ServerStep, StartTurn, RefuseTurn, SendText, CompleteTurn, server
  <2> QED BY <2>1 DEF vars, server
<1>2. StayParts BY <1>1 DEF StayInv, StayParts
<1>3. CASE UNCHANGED vars
  BY <1>2, <1>3 DEF vars, registry, states, reader, server, StayParts, PipelineIsActive,
                    InOrder, OthersAreOver, ActiveIsLive
<1>4. ASSUME NEW r \in Requests,
             Starts(r) \/ CancelStart(r) \/ StreamEnds(r) \/ Handler(r)
      PROVE  StayParts'
  BY <1>1, <1>2, <1>4, StayRequest DEF Handler
<1> QED BY <1>1, <1>2, <1>3, <1>4, StayServer, StayReader DEF Next

\* While callers stay, turns run one after the other, and each stream is given what
\* belongs to its own turn only.
THEOREM TurnsAreSeparate == Spec => []OwnTurnOnly
PROOF
<1>1. IInv /\ StayInv => OwnTurnOnly
  BY DEF StayInv, StayParts, OwnTurnOnly, OneTurnPerThread, OthersAreOver, Live
<1>2. Spec => []StayInv BY StayInit, StayStep, Invariance, PTL DEF Spec
<1> QED BY <1>1, <1>2, Invariance, PTL
==============================================================================
