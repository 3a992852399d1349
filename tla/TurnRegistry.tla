----------------------------- MODULE TurnRegistry ----------------------------
(* The turns of one Codex thread: how requests reserve the thread, how the      *)
(* reader finds the turnState a notification is for, and how turns leave the    *)
(* registry (Provider.active and Provider.turns in providers/codex/provider.go).*)
(* Every request names the same thread, by conversation_id or by an inferred    *)
(* checkpoint.  A request stands for its turnState and for its turn at App      *)
(* Server as well.  One action is one critical section of Provider.mu or        *)
(* turnState.mu.                                                                *)
EXTENDS Naturals, Sequences

CONSTANTS Requests,   \* ChatStream calls for the thread
          Abandon,    \* the values of "abandon" a behaviour may have
          MaxText     \* bound on the text notifications of one turn

None == "none"

ASSUME RequestsAssumption == None \notin Requests
ASSUME AbandonAssumption  == Abandon \subseteq BOOLEAN
ASSUME MaxTextAssumption  == MaxText \in Nat

VARIABLES
  active,    \* Provider.active[thread]: a request, or None
  turns,     \* the turn ids Provider.turns has an entry for
  turnID,    \* turnState.turnID of each request
  done,      \* requests whose turnState is done
  closed,    \* requests whose turnState is closed
  got,       \* the turns whose text or end a request's stream was given
  pc,        \* where the handler of a request is
  rd,        \* the reader goroutine
  rdMsg,     \* the notification it handles
  rdState,   \* the turnState it found for it
  wire,      \* messages from App Server, in order
  starts,    \* turn/start calls App Server has not taken up yet
  running,   \* the turn App Server runs in the thread
  texts,     \* text notifications it has sent for a turn
  abandon    \* callers may go away before their turn has ended; it never changes

registry == <<active, turns>>
states   == <<turnID, done, closed, got>>
reader   == <<rd, rdMsg, rdState>>
server   == <<starts, running, texts, abandon>>
vars     == <<registry, states, pc, reader, wire, server>>

MessageOf(kind, t) == [kind |-> kind, turn |-> t]
NoMessage == MessageOf("none", None)
Message == [kind : {"reply", "refusal", "text", "completed"}, turn : Requests]

TypeOK ==
  /\ active \in Requests \cup {None} /\ turns \subseteq Requests
  /\ turnID \in [Requests -> Requests \cup {None}]
  /\ done \subseteq Requests /\ closed \subseteq Requests
  /\ got \in [Requests -> SUBSET Requests]
  /\ pc \in [Requests -> {"idle", "sent", "replied", "rejected", "set", "cancelled",
                          "open", "ended", "detach", "gone"}]
  /\ rd \in {"idle", "apply", "remove", "finish"}
  /\ rdMsg \in Message \cup {NoMessage} /\ rdState \in Requests \cup {None}
  /\ wire \in Seq(Message) /\ starts \in Seq(Requests)
  /\ running \in Requests \cup {None} /\ texts \in [Requests -> Nat]
  /\ abandon \in BOOLEAN

Init ==
  /\ active = None /\ turns = {} /\ turnID = [r \in Requests |-> None]
  /\ done = {} /\ closed = {} /\ got = [r \in Requests |-> {}]
  /\ pc = [r \in Requests |-> "idle"]
  /\ rd = "idle" /\ rdMsg = NoMessage /\ rdState = None
  /\ wire = <<>> /\ starts = <<>> /\ running = None
  /\ texts = [r \in Requests |-> 0] /\ abandon \in Abandon

------------------------------------------------------------------------------
\* removeTurn deletes the thread's entry, whoever it belongs to.
RemoveKeepsThread(r) ==                                          \* mutant
  /\ active' = active
  /\ turns'  = turns \ {turnID[r]}

RemoveTurn(r) ==
  /\ active' = None
  /\ turns'  = turns \ {turnID[r]}

Finish(r) == done' = done \cup {r}

Enqueue(r, t) ==
  got' = [got EXCEPT ![r] = IF r \in done \cup closed THEN @ ELSE @ \cup {t}]

------------------------------------------------------------------------------
(* ChatStream.  Provider.conversationMu is held from the reservation until it  *)
(* returns.                                                                    *)

Starting == {r \in Requests : pc[r] \in {"sent", "replied", "rejected", "set", "cancelled"}}

ThreadShared == TRUE                                             \* mutant
ThreadFree   == active = None

Reserve(r) ==
  /\ pc[r] = "idle" /\ Starting = {} /\ ThreadFree
  /\ active' = r
  /\ starts' = Append(starts, r)
  /\ pc' = [pc EXCEPT ![r] = "sent"]
  /\ UNCHANGED <<turns, states, reader, wire, running, texts, abandon>>

\* "thread ... already has an active turn"
Refuse(r) ==
  /\ pc[r] = "idle" /\ Starting = {} /\ ~ThreadFree
  /\ pc' = [pc EXCEPT ![r] = "gone"]
  /\ UNCHANGED <<registry, states, reader, wire, server>>

SetTurnID(r) ==
  /\ pc[r] = "replied"
  /\ turnID' = [turnID EXCEPT ![r] = r]
  /\ pc' = [pc EXCEPT ![r] = "set"]
  /\ UNCHANGED <<registry, done, closed, got, reader, wire, server>>

RegisterTurn(r) ==
  /\ pc[r] = "set"
  /\ turns' = turns \cup {r}
  /\ pc' = [pc EXCEPT ![r] = "open"]
  /\ UNCHANGED <<active, states, reader, wire, server>>

\* turn/start failed, or the request's context ended while it waited for the reply:
\* removeTurn, then finish.  In the second case App Server is not told.
CancelStart(r) ==
  /\ pc[r] = "rejected" \/ (abandon /\ pc[r] = "sent")
  /\ RemoveTurn(r)
  /\ pc' = [pc EXCEPT ![r] = "cancelled"]
  /\ UNCHANGED <<states, reader, wire, server>>

FinishCancelled(r) ==
  /\ pc[r] = "cancelled"
  /\ Finish(r)
  /\ pc' = [pc EXCEPT ![r] = "gone"]
  /\ UNCHANGED <<registry, turnID, closed, got, reader, wire, server>>

------------------------------------------------------------------------------
(* The stream's handler: it reads until the turn is done, or is abandoned, and *)
(* closes the stream.  close interrupts a turn that is not done, then          *)
(* removeTurn runs in a second critical section.                               *)

StreamEnds(r) ==
  /\ pc[r] = "open" /\ (r \in done \/ abandon)
  /\ pc' = [pc EXCEPT ![r] = "ended"]
  /\ UNCHANGED <<registry, states, reader, wire, server>>

Close(r) ==
  /\ pc[r] = "ended"
  /\ closed' = closed \cup {r}
  /\ pc' = [pc EXCEPT ![r] = IF r \in done THEN "gone" ELSE "detach"]
  /\ UNCHANGED <<registry, turnID, done, got, reader, wire, server>>

RemoveClosed(r) ==
  /\ pc[r] = "detach"
  /\ RemoveTurn(r)
  /\ pc' = [pc EXCEPT ![r] = "gone"]
  /\ UNCHANGED <<states, reader, wire, server>>

------------------------------------------------------------------------------
(* App Server runs the turns of a thread one after the other.  The completion  *)
(* of a turn, interrupted or not, names it inside "turn" only, so it carries   *)
(* no turnId for the lookup.                                                   *)

StartTurn ==
  /\ running = None /\ starts # <<>>
  /\ running' = Head(starts) /\ starts' = Tail(starts)
  /\ wire' = Append(wire, MessageOf("reply", Head(starts)))
  /\ UNCHANGED <<registry, states, pc, reader, texts, abandon>>

RefuseTurn ==
  /\ starts # <<>>
  /\ starts' = Tail(starts)
  /\ wire' = Append(wire, MessageOf("refusal", Head(starts)))
  /\ UNCHANGED <<registry, states, pc, reader, running, texts, abandon>>

SendText ==
  /\ running # None /\ texts[running] < MaxText
  /\ texts' = [texts EXCEPT ![running] = @ + 1]
  /\ wire' = Append(wire, MessageOf("text", running))
  /\ UNCHANGED <<registry, states, pc, reader, starts, running, abandon>>

CompleteTurn ==
  /\ running # None
  /\ running' = None
  /\ wire' = Append(wire, MessageOf("completed", running))
  /\ UNCHANGED <<registry, states, pc, reader, starts, texts, abandon>>

------------------------------------------------------------------------------
(* The reader.                                                                 *)

\* A response reaches the call that waits for it, if it still does.
ReadReply ==
  /\ rd = "idle" /\ wire # <<>> /\ Head(wire).kind \in {"reply", "refusal"}
  /\ wire' = Tail(wire)
  /\ LET r    == Head(wire).turn
         next == IF Head(wire).kind = "reply" THEN "replied" ELSE "rejected"
     IN pc' = IF pc[r] = "sent" THEN [pc EXCEPT ![r] = next] ELSE pc
  /\ UNCHANGED <<registry, states, reader, server>>

FoundByTurnID(m) == IF m.kind = "text" /\ m.turn \in turns        \* mutant
                    THEN m.turn ELSE None

Found(m) == IF m.kind = "text" /\ m.turn \in turns THEN m.turn ELSE active

\* handleNotification: the lookup.  No turnState, nothing to do.
ReadNotification ==
  /\ rd = "idle" /\ wire # <<>> /\ Head(wire).kind \notin {"reply", "refusal"}
  /\ wire' = Tail(wire)
  /\ LET m == Head(wire)
     IN IF Found(m) = None THEN UNCHANGED reader
        ELSE rd' = "apply" /\ rdMsg' = m /\ rdState' = Found(m)
  /\ UNCHANGED <<registry, states, pc, server>>

\* setTurnIDIfEmpty and enqueue.
ApplyText ==
  /\ rd = "apply" /\ rdMsg.kind = "text"
  /\ turnID' = IF turnID[rdState] = None
               THEN [turnID EXCEPT ![rdState] = rdMsg.turn] ELSE turnID
  /\ Enqueue(rdState, rdMsg.turn)
  /\ rd' = "idle"
  /\ UNCHANGED <<registry, done, closed, pc, rdMsg, rdState, wire, server>>

\* turn/completed: the last chunk, removeTurn, finish.
ApplyCompleted ==
  /\ rd = "apply" /\ rdMsg.kind = "completed"
  /\ Enqueue(rdState, rdMsg.turn)
  /\ rd' = "remove"
  /\ UNCHANGED <<registry, turnID, done, closed, pc, rdMsg, rdState, wire, server>>

RemoveCompleted ==
  /\ rd = "remove"
  /\ RemoveTurn(rdState)
  /\ rd' = "finish"
  /\ UNCHANGED <<states, pc, rdMsg, rdState, wire, server>>

FinishCompleted ==
  /\ rd = "finish"
  /\ Finish(rdState)
  /\ rd' = "idle"
  /\ UNCHANGED <<registry, turnID, closed, got, pc, rdMsg, rdState, wire, server>>

------------------------------------------------------------------------------
Starts(r)  == Reserve(r) \/ Refuse(r)
Handler(r) == SetTurnID(r) \/ RegisterTurn(r) \/ FinishCancelled(r) \/ Close(r)
              \/ RemoveClosed(r) \/ (pc[r] = "rejected" /\ CancelStart(r))
ReaderStep == ReadReply \/ ReadNotification \/ ApplyText \/ ApplyCompleted
              \/ RemoveCompleted \/ FinishCompleted
ServerStep == StartTurn \/ RefuseTurn \/ SendText \/ CompleteTurn

Next == \/ \E r \in Requests : Starts(r) \/ CancelStart(r) \/ StreamEnds(r) \/ Handler(r)
        \/ ReaderStep \/ ServerStep

Spec == Init /\ [][Next]_vars

\* Goroutines run; App Server takes up or refuses, and ends, every turn.  A stream
\* ends once its turn is done; callers need not come, leave or cancel.
Fairness == /\ \A r \in Requests : WF_vars(Handler(r)) /\ WF_vars(r \in done /\ StreamEnds(r))
            /\ WF_vars(ReaderStep) /\ WF_vars(StartTurn \/ RefuseTurn) /\ WF_vars(CompleteTurn)
FairSpec == Spec /\ Fairness

------------------------------------------------------------------------------
(* Properties.                                                                 *)

\* A stream is, or will be, read whose turn has not been taken off the registry at
\* its end.
Live(r) == /\ pc[r] \in {"sent", "replied", "set", "open"} /\ r \notin done
           /\ ~(rd = "finish" /\ rdState = r)

\* provider.go:268-269: two requests "cannot both start on one Codex thread".  It
\* holds while callers stay; an abandoned turn breaks it.
OneTurnPerThread == \A r, q \in Requests : Live(r) /\ Live(q) => r = q

\* The thread is never left reserved by a turn that is over: while a request holds
\* it, that request is still running, or is about to remove itself, or the reader is
\* about to remove its turn.  A reservation left behind would refuse the
\* conversation's requests for good.
NoStaleReservation ==
  active # None =>
    /\ active \notin done
    /\ active \in closed => pc[active] = "detach"
    /\ pc[active] \in {"sent", "replied", "rejected", "set", "open", "ended", "detach"}

\* What makes it inductive: a request that has not started is known to nobody, and a
\* turn that the reader is about to finish no longer holds the thread.
KnownTurns ==
  /\ \A r \in Requests : pc[r] = "idle" => r \notin done \cup closed \cup turns
  /\ \A r \in Requests : pc[r] = "cancelled" => active # r
  /\ rd # "idle" => rdState \in Requests /\ pc[rdState] # "idle"
  /\ rd = "finish" => active # rdState

IInv == TypeOK /\ NoStaleReservation /\ KnownTurns

\* While callers stay, turns run one after the other, and a stream is given the text
\* and the end of its own turn only, although the lookup falls back to the thread
\* (handleNotification).
OwnTurnOnly == ~abandon => OneTurnPerThread /\ \A r \in Requests : got[r] \subseteq {r}

\* A reservation ends: the next request of the conversation is not refused for ever.
ThreadIsFreed == \A r \in Requests : active = r ~> active # r

\* An open stream ends when nobody leaves: its completion is not taken for another
\* turn's, nor dropped because the registry forgot the turn.
StreamEventuallyEnds == \A r \in Requests : ~abandon /\ pc[r] = "sent" ~> pc[r] = "gone"
==============================================================================
