------------------------ MODULE DelegatedTools_proofs ------------------------
(* The safety of DelegatedTools for every set of callbacks and requests.       *)
EXTENDS DelegatedTools, SequenceTheorems, FiniteSetTheorems, TLAPS

------------------------------------------------------------------------------
(* Sequences: the set of elements after Append, Tail and RemoveAt.             *)

\* Appending adds one element.
LEMMA AppendSet ==
  ASSUME NEW S, NEW q \in Seq(S), NEW e \in S
  PROVE  /\ Append(q, e) \in Seq(S)
         /\ ToSet(Append(q, e)) = ToSet(q) \cup {e}
PROOF
<1>1. /\ Append(q, e) \in Seq(S) /\ Len(Append(q, e)) = Len(q) + 1
      /\ \A i \in 1 .. Len(q) : Append(q, e)[i] = q[i]
      /\ Append(q, e)[Len(q) + 1] = e
  OBVIOUS
<1>2. ToSet(q) \cup {e} \subseteq ToSet(Append(q, e))
  BY <1>1 DEF ToSet
<1>3. ToSet(Append(q, e)) \subseteq ToSet(q) \cup {e}
  BY <1>1 DEF ToSet
<1> QED BY <1>1, <1>2, <1>3

\* A sequence is its head and its tail.
LEMMA TailSet ==
  ASSUME NEW S, NEW q \in Seq(S), q # <<>>
  PROVE  /\ Head(q) \in S /\ Tail(q) \in Seq(S)
         /\ ToSet(q) = {Head(q)} \cup ToSet(Tail(q))
PROOF
<1>1. /\ Head(q) = q[1] /\ Head(q) \in S /\ Tail(q) \in Seq(S)
      /\ Len(q) \in Nat /\ Len(q) > 0 /\ Len(Tail(q)) = Len(q) - 1
      /\ \A i \in 1 .. Len(q) - 1 : Tail(q)[i] = q[i + 1]
  OBVIOUS
<1>2. {Head(q)} \cup ToSet(Tail(q)) \subseteq ToSet(q)
  BY <1>1 DEF ToSet
<1>3. ASSUME NEW i \in 1 .. Len(q)
      PROVE  q[i] \in {Head(q)} \cup ToSet(Tail(q))
  <2>1. CASE i = 1 BY <2>1, <1>1
  <2>2. CASE i # 1
    <3>1. i - 1 \in 1 .. Len(Tail(q)) /\ Tail(q)[i - 1] = q[i] BY <2>2, <1>1
    <3>2. DOMAIN Tail(q) = 1 .. Len(Tail(q)) BY <1>1
    <3>3. Tail(q)[i - 1] \in ToSet(Tail(q)) BY <3>1, <3>2 DEF ToSet
    <3> QED BY <3>1, <3>3
  <2> QED BY <2>1, <2>2
<1> QED BY <1>1, <1>2, <1>3 DEF ToSet

\* Removing an element of a sequence without repetitions removes just that one.
LEMMA RemoveSet ==
  ASSUME NEW S, NEW q \in Seq(S), NEW n \in DOMAIN q,
         \A i, j \in DOMAIN q : q[i] = q[j] => i = j
  PROVE  /\ RemoveAt(q, n) \in Seq(S)
         /\ ToSet(RemoveAt(q, n)) = ToSet(q) \ {q[n]}
         /\ \A i, j \in DOMAIN RemoveAt(q, n) :
              RemoveAt(q, n)[i] = RemoveAt(q, n)[j] => i = j
PROOF
<1> DEFINE r == RemoveAt(q, n)
<1>1. /\ r \in Seq(S) /\ Len(r) = Len(q) - 1 /\ Len(q) \in Nat /\ n \in 1 .. Len(q)
      /\ \A i \in 1 .. Len(q) - 1 : r[i] = IF i < n THEN q[i] ELSE q[i + 1]
  <2> DEFINE a == SubSeq(q, 1, n - 1)
             b == SubSeq(q, n + 1, Len(q))
  <2>1. /\ a \in Seq(S) /\ Len(a) = n - 1 /\ Len(q) \in Nat /\ n \in 1 .. Len(q)
        /\ \A i \in 1 .. n - 1 : a[i] = q[i]
    OBVIOUS
  <2>2. /\ b \in Seq(S) /\ Len(b) = Len(q) - n
        /\ \A i \in 1 .. Len(q) - n : b[i] = q[i + n]
    OBVIOUS
  <2>3. r = a \o b BY DEF RemoveAt
  <2> HIDE DEF a, b, r
  <2>4. /\ r \in Seq(S) /\ Len(r) = Len(a) + Len(b)
        /\ \A i \in 1 .. Len(a) + Len(b) : r[i] = IF i <= Len(a) THEN a[i] ELSE b[i - Len(a)]
    <3>1. /\ a \o b \in Seq(S) /\ Len(a \o b) = Len(a) + Len(b)
          /\ \A i \in 1 .. Len(a) + Len(b) :
               (a \o b)[i] = IF i <= Len(a) THEN a[i] ELSE b[i - Len(a)]
      <4>1. a \in Seq(S) BY <2>1
      <4>2. b \in Seq(S) BY <2>2
      <4> QED BY ONLY <4>1, <4>2, ConcatProperties, Zenon
    <3> QED BY ONLY <3>1, <2>3, Zenon
  <2>5. Len(q) \in Nat /\ n \in 1 .. Len(q) /\ Len(a) = n - 1 /\ Len(b) = Len(q) - n
    BY <2>1, <2>2
  <2>6. ASSUME NEW i \in 1 .. Len(q) - 1
        PROVE  r[i] = IF i < n THEN q[i] ELSE q[i + 1]
    <3>1. CASE i < n
      <4>1. i \in 1 .. n - 1 /\ i <= Len(a) /\ i \in 1 .. Len(a) + Len(b)
        BY ONLY <3>1, <2>5, <2>6
      <4>2. r[i] = a[i] BY <4>1, <2>4
      <4>3. a[i] = q[i] BY <4>1, <2>1
      <4> QED BY <3>1, <4>2, <4>3
    <3>2. CASE i >= n
      <4>1. i - Len(a) \in 1 .. Len(q) - n /\ (i - Len(a)) + n = i + 1
        BY ONLY <3>2, <2>5, <2>6
      <4>2. i \in 1 .. Len(a) + Len(b) /\ ~(i <= Len(a)) /\ ~(i < n)
        <5>1. \A m \in Nat, la, lb \in Int, j, k \in Int :
                k \in 1 .. m /\ la = k - 1 /\ lb = m - k /\ j \in 1 .. m - 1 /\ j >= k
                => j \in 1 .. la + lb /\ ~(j <= la) /\ ~(j < k)
          OBVIOUS
        <5>2. Len(a) \in Int /\ Len(b) \in Int /\ n \in Int /\ i \in Int
          BY ONLY <2>5, <2>6
        <5> QED BY <5>1, <5>2, <3>2, <2>5, <2>6
      <4>3. r[i] = b[i - Len(a)] BY <4>2, <2>4
      <4>4. b[i - Len(a)] = q[(i - Len(a)) + n] BY <4>1, <2>2
      <4> QED BY <4>1, <4>2, <4>3, <4>4
    <3> QED BY ONLY <3>1, <3>2, <2>5, <2>6
  <2> QED
    <3>1. r \in Seq(S) BY <2>4
    <3>2. Len(r) = Len(q) - 1 BY ONLY <2>4, <2>5
    <3> QED BY <3>1, <3>2, <2>5, <2>6
<1>2. ASSUME NEW i \in DOMAIN r, NEW j \in DOMAIN r, r[i] = r[j]
      PROVE  i = j
  <2> DEFINE Old(k) == IF k < n THEN k ELSE k + 1
  <2>1. DOMAIN r = 1 .. Len(q) - 1 /\ DOMAIN q = 1 .. Len(q) BY <1>1
  <2>2. Old(i) \in DOMAIN q /\ Old(j) \in DOMAIN q BY <1>1, <1>2, <2>1
  <2>3. r[i] = q[Old(i)] /\ r[j] = q[Old(j)] BY <1>1, <1>2, <2>1
  <2>4. Old(i) = Old(j) BY <1>2, <2>2, <2>3
  <2> QED BY <2>4, <1>1, <1>2, <2>1
<1>3. ToSet(r) \subseteq ToSet(q) \ {q[n]}
  BY <1>1 DEF ToSet
<1>4. ASSUME NEW i \in 1 .. Len(q), i # n
      PROVE  q[i] \in ToSet(r)
  <2>1. CASE i < n
    <3>1. i \in 1 .. Len(r) /\ r[i] = q[i] BY <2>1, <1>1
    <3> QED BY <3>1, <1>1 DEF ToSet
  <2>2. CASE i > n
    <3>1. i - 1 \in 1 .. Len(r) /\ r[i - 1] = q[i] BY <2>2, <1>1
    <3> QED BY <3>1, <1>1 DEF ToSet
  <2> QED BY <2>1, <2>2, <1>4, <1>1
<1>5. ToSet(q) \ {q[n]} \subseteq ToSet(r)
  BY <1>4 DEF ToSet
<1> QED BY <1>1, <1>2, <1>3, <1>5

------------------------------------------------------------------------------
(* Actions that leave the turn's callbacks alone.                              *)

LEMMA AppServerSendsInv ==
  ASSUME IInv, NEW m \in Messages, AppServerSends(m) PROVE IInv'
PROOF
<1> USE DEF AppServerSends, turn, handler
<1>1. TypeOK' BY DEF IInv, TypeOK, Messages, Text, Completed, Failed
<1>2. FlagsMatchQueue' BY DEF IInv, FlagsMatchQueue
<1>3. NoStrandedCallback' BY DEF IInv, NoStrandedCallback
<1>4. ParkedOnce'
  BY CallsAssumption DEF IInv, TypeOK, ParkedOnce, InHand
<1>5. CallbackAccounted'
  BY DEF IInv, TypeOK, ParkedOnce, CallbackAccounted, InHand, BeingAcknowledged
<1>6. HolderOwns' BY DEF IInv, HolderOwns
<1>7. ClosedTurnParksNothing' BY DEF IInv, ClosedTurnParksNothing
<1> QED BY <1>1, <1>2, <1>3, <1>4, <1>5, <1>6, <1>7 DEF IInv

LEMMA ConnectionBreaksInv ==
  ASSUME IInv, ConnectionBreaks PROVE IInv'
PROOF
<1> USE DEF ConnectionBreaks, turn, server, reader, handler
<1>1. TypeOK' BY DEF IInv, TypeOK
<1>2. FlagsMatchQueue' BY DEF IInv, FlagsMatchQueue
<1>3. NoStrandedCallback' BY DEF IInv, NoStrandedCallback
<1>4. ParkedOnce' BY DEF IInv, ParkedOnce, InHand
<1>5. CallbackAccounted'
  BY DEF IInv, CallbackAccounted, InHand, BeingAcknowledged
<1>6. HolderOwns' BY DEF IInv, HolderOwns
<1>7. ClosedTurnParksNothing' BY DEF IInv, ClosedTurnParksNothing
<1> QED BY <1>1, <1>2, <1>3, <1>4, <1>5, <1>6, <1>7 DEF IInv

LEMMA LookupInv ==
  ASSUME IInv, Lookup PROVE IInv'
PROOF
<1> USE DEF Lookup, turn, server, reader, handler
<1>1. TypeOK' BY DEF IInv, TypeOK
<1>2. FlagsMatchQueue' BY DEF IInv, FlagsMatchQueue
<1>3. NoStrandedCallback' BY DEF IInv, NoStrandedCallback
<1>4. ParkedOnce' BY CallsAssumption DEF IInv, TypeOK, ParkedOnce, InHand, Text, Completed, Failed
<1>5. CallbackAccounted'
  BY CallsAssumption DEF IInv, TypeOK, ParkedOnce, CallbackAccounted, InHand, BeingAcknowledged, Text, Completed, Failed
<1>6. HolderOwns' BY DEF IInv, HolderOwns
<1>7. ClosedTurnParksNothing' BY DEF IInv, ClosedTurnParksNothing
<1> QED BY <1>1, <1>2, <1>3, <1>4, <1>5, <1>6, <1>7 DEF IInv

LEMMA RefuseDelegatedToolInv ==
  ASSUME IInv, RefuseDelegatedTool PROVE IInv'
PROOF
<1> USE DEF RefuseDelegatedTool, turn, server, reader, handler
<1>1. TypeOK' BY DEF IInv, TypeOK
<1>2. FlagsMatchQueue' BY DEF IInv, FlagsMatchQueue
<1>3. NoStrandedCallback' BY DEF IInv, NoStrandedCallback
<1>4. ParkedOnce' BY DEF IInv, ParkedOnce, InHand
<1>5. CallbackAccounted'
  BY DEF IInv, CallbackAccounted, InHand, BeingAcknowledged
<1>6. HolderOwns' BY DEF IInv, HolderOwns
<1>7. ClosedTurnParksNothing' BY DEF IInv, ClosedTurnParksNothing
<1> QED BY <1>1, <1>2, <1>3, <1>4, <1>5, <1>6, <1>7 DEF IInv

LEMMA AnswerRefusedInv ==
  ASSUME IInv, AnswerRefused PROVE IInv'
PROOF
<1> USE DEF AnswerRefused, turn, server, reader, handler
<1>1. TypeOK' BY DEF IInv, TypeOK, ParkedOnce
<1>2. FlagsMatchQueue' BY DEF IInv, FlagsMatchQueue
<1>3. NoStrandedCallback' BY DEF IInv, NoStrandedCallback
<1>4. ParkedOnce' BY DEF IInv, TypeOK, ParkedOnce, InHand
<1>5. CallbackAccounted'
  BY DEF IInv, TypeOK, ParkedOnce, CallbackAccounted, InHand, BeingAcknowledged
<1>6. HolderOwns' BY DEF IInv, HolderOwns
<1>7. ClosedTurnParksNothing' BY DEF IInv, ClosedTurnParksNothing
<1> QED BY <1>1, <1>2, <1>3, <1>4, <1>5, <1>6, <1>7 DEF IInv

LEMMA RemoveCompletedInv ==
  ASSUME IInv, RemoveCompleted PROVE IInv'
PROOF
<1> USE DEF RemoveCompleted, turn, server, reader, handler
<1>1. TypeOK' BY DEF IInv, TypeOK
<1>2. FlagsMatchQueue' BY DEF IInv, FlagsMatchQueue
<1>3. NoStrandedCallback' BY DEF IInv, NoStrandedCallback
<1>4. ParkedOnce' BY CallsAssumption DEF IInv, TypeOK, ParkedOnce, InHand, Text, Completed, Failed
<1>5. CallbackAccounted'
  BY CallsAssumption DEF IInv, TypeOK, ParkedOnce, CallbackAccounted, InHand, BeingAcknowledged, Text, Completed, Failed
<1>6. HolderOwns' BY DEF IInv, HolderOwns
<1>7. ClosedTurnParksNothing' BY DEF IInv, ClosedTurnParksNothing
<1> QED BY <1>1, <1>2, <1>3, <1>4, <1>5, <1>6, <1>7 DEF IInv

LEMMA FailConnectionInv ==
  ASSUME IInv, FailConnection PROVE IInv'
PROOF
<1> USE DEF FailConnection, turn, server, reader, handler
<1>1. TypeOK' BY DEF IInv, TypeOK
<1>2. FlagsMatchQueue' BY DEF IInv, FlagsMatchQueue
<1>3. NoStrandedCallback' BY DEF IInv, NoStrandedCallback
<1>4. ParkedOnce' BY CallsAssumption DEF IInv, TypeOK, ParkedOnce, InHand, Text, Completed, Failed
<1>5. CallbackAccounted'
  BY CallsAssumption DEF IInv, TypeOK, ParkedOnce, CallbackAccounted, InHand, BeingAcknowledged, Text, Completed, Failed
<1>6. HolderOwns' BY DEF IInv, HolderOwns
<1>7. ClosedTurnParksNothing' BY DEF IInv, ClosedTurnParksNothing
<1> QED BY <1>1, <1>2, <1>3, <1>4, <1>5, <1>6, <1>7 DEF IInv

LEMMA FinishCompletedInv ==
  ASSUME IInv, FinishCompleted PROVE IInv'
PROOF
<1> USE DEF FinishCompleted, Finish, Signal, turn, server, reader, handler
<1>1. TypeOK' BY DEF IInv, TypeOK
<1>2. FlagsMatchQueue' BY DEF IInv, FlagsMatchQueue
<1>3. NoStrandedCallback' BY DEF IInv, NoStrandedCallback
<1>4. ParkedOnce' BY CallsAssumption DEF IInv, TypeOK, ParkedOnce, InHand, Text, Completed, Failed
<1>5. CallbackAccounted'
  BY CallsAssumption DEF IInv, TypeOK, ParkedOnce, CallbackAccounted, InHand, BeingAcknowledged, Text, Completed, Failed
<1>6. HolderOwns' BY DEF IInv, HolderOwns
<1>7. ClosedTurnParksNothing' BY DEF IInv, ClosedTurnParksNothing
<1> QED BY <1>1, <1>2, <1>3, <1>4, <1>5, <1>6, <1>7 DEF IInv

LEMMA FinishFailedInv ==
  ASSUME IInv, FinishFailed PROVE IInv'
PROOF
<1> USE DEF FinishFailed, Finish, Signal, turn, server, reader, handler
<1>1. TypeOK' BY DEF IInv, TypeOK
<1>2. FlagsMatchQueue' BY DEF IInv, FlagsMatchQueue
<1>3. NoStrandedCallback' BY DEF IInv, NoStrandedCallback
<1>4. ParkedOnce' BY CallsAssumption DEF IInv, TypeOK, ParkedOnce, InHand, Text, Completed, Failed
<1>5. CallbackAccounted'
  BY CallsAssumption DEF IInv, TypeOK, ParkedOnce, CallbackAccounted, InHand, BeingAcknowledged, Text, Completed, Failed
<1>6. HolderOwns' BY DEF IInv, HolderOwns
<1>7. ClosedTurnParksNothing' BY DEF IInv, ClosedTurnParksNothing
<1> QED BY <1>1, <1>2, <1>3, <1>4, <1>5, <1>6, <1>7 DEF IInv

LEMMA RecvEmptyInv ==
  ASSUME IInv, NEW s \in Streams, RecvEmpty(s) PROVE IInv'
PROOF
<1> USE DEF RecvEmpty, turn, server, reader, handler
<1>1. TypeOK' BY DEF IInv, TypeOK
<1>2. FlagsMatchQueue' BY DEF IInv, FlagsMatchQueue
<1>3. NoStrandedCallback' BY DEF IInv, NoStrandedCallback
<1>4. ParkedOnce' BY DEF IInv, ParkedOnce, InHand
<1>5. CallbackAccounted'
  BY DEF IInv, TypeOK, CallbackAccounted, InHand, BeingAcknowledged
<1>6. HolderOwns' BY DEF IInv, TypeOK, HolderOwns
<1>7. ClosedTurnParksNothing' BY DEF IInv, ParkedOnce, ClosedTurnParksNothing
<1> QED BY <1>1, <1>2, <1>3, <1>4, <1>5, <1>6, <1>7 DEF IInv

LEMMA WokenInv ==
  ASSUME IInv, NEW s \in Streams, Woken(s) PROVE IInv'
PROOF
<1> USE DEF Woken, turn, server, reader, handler
<1>1. TypeOK' BY DEF IInv, TypeOK
<1>2. FlagsMatchQueue' BY DEF IInv, FlagsMatchQueue
<1>3. NoStrandedCallback' BY DEF IInv, NoStrandedCallback
<1>4. ParkedOnce' BY DEF IInv, ParkedOnce, InHand
<1>5. CallbackAccounted'
  BY DEF IInv, TypeOK, CallbackAccounted, InHand, BeingAcknowledged
<1>6. HolderOwns' BY DEF IInv, TypeOK, HolderOwns
<1>7. ClosedTurnParksNothing' BY DEF IInv, ParkedOnce, ClosedTurnParksNothing
<1> QED BY <1>1, <1>2, <1>3, <1>4, <1>5, <1>6, <1>7 DEF IInv

LEMMA ContextDoneInv ==
  ASSUME IInv, NEW s \in Streams, ContextDone(s) PROVE IInv'
PROOF
<1> USE DEF ContextDone, turn, server, reader, handler
<1>1. TypeOK' BY DEF IInv, TypeOK
<1>2. FlagsMatchQueue' BY DEF IInv, FlagsMatchQueue
<1>3. NoStrandedCallback' BY DEF IInv, NoStrandedCallback
<1>4. ParkedOnce' BY DEF IInv, ParkedOnce, InHand
<1>5. CallbackAccounted'
  BY DEF IInv, TypeOK, CallbackAccounted, InHand, BeingAcknowledged
<1>6. HolderOwns' BY DEF IInv, TypeOK, HolderOwns
<1>7. ClosedTurnParksNothing' BY DEF IInv, ParkedOnce, ClosedTurnParksNothing
<1> QED BY <1>1, <1>2, <1>3, <1>4, <1>5, <1>6, <1>7 DEF IInv

LEMMA CloseInv ==
  ASSUME IInv, NEW s \in Streams, Close(s) PROVE IInv'
PROOF
<1> USE DEF Close, turn, server, reader, handler, Signal
<1>1. TypeOK' BY DEF IInv, TypeOK
<1>2. FlagsMatchQueue' BY DEF IInv, FlagsMatchQueue
<1>3. NoStrandedCallback' BY DEF IInv, NoStrandedCallback
<1>4. ParkedOnce' BY DEF IInv, ParkedOnce, InHand
<1>5. CallbackAccounted'
  BY DEF IInv, TypeOK, CallbackAccounted, InHand, BeingAcknowledged
<1>6. HolderOwns' BY DEF IInv, TypeOK, HolderOwns
<1>7. ClosedTurnParksNothing' BY DEF IInv, ParkedOnce, ClosedTurnParksNothing
<1> QED BY <1>1, <1>2, <1>3, <1>4, <1>5, <1>6, <1>7 DEF IInv

LEMMA RemoveClosedInv ==
  ASSUME IInv, NEW s \in Streams, RemoveClosed(s) PROVE IInv'
PROOF
<1> USE DEF RemoveClosed, turn, server, reader, handler
<1>1. TypeOK' BY DEF IInv, TypeOK
<1>2. FlagsMatchQueue' BY DEF IInv, FlagsMatchQueue
<1>3. NoStrandedCallback' BY DEF IInv, NoStrandedCallback
<1>4. ParkedOnce' BY DEF IInv, ParkedOnce, InHand
<1>5. CallbackAccounted'
  BY DEF IInv, TypeOK, CallbackAccounted, InHand, BeingAcknowledged
<1>6. HolderOwns' BY DEF IInv, TypeOK, HolderOwns
<1>7. ClosedTurnParksNothing' BY DEF IInv, ParkedOnce, ClosedTurnParksNothing
<1> QED BY <1>1, <1>2, <1>3, <1>4, <1>5, <1>6, <1>7 DEF IInv

LEMMA CheckAwaitingInv ==
  ASSUME IInv, NEW s \in Streams, CheckAwaiting(s) PROVE IInv'
PROOF
<1> USE DEF CheckAwaiting, turn, server, reader, handler, Leave
<1>1. TypeOK' BY DEF IInv, TypeOK
<1>2. FlagsMatchQueue' BY DEF IInv, FlagsMatchQueue
<1>3. NoStrandedCallback' BY DEF IInv, NoStrandedCallback
<1>4. ParkedOnce' BY DEF IInv, ParkedOnce, InHand
<1>5. CallbackAccounted'
  <2>1. \A c \in Calls : ~BeingAcknowledged(c) /\ ~BeingAcknowledged(c)'
    BY StreamsAssumption DEF IInv, TypeOK, HolderOwns, BeingAcknowledged
  <2> QED BY <2>1 DEF IInv, TypeOK, CallbackAccounted, InHand
<1>6. HolderOwns' BY DEF IInv, TypeOK, HolderOwns
<1>7. ClosedTurnParksNothing' BY DEF IInv, ParkedOnce, ClosedTurnParksNothing
<1> QED BY <1>1, <1>2, <1>3, <1>4, <1>5, <1>6, <1>7 DEF IInv

LEMMA MatchResultsInv ==
  ASSUME IInv, NEW s \in Streams, MatchResults(s) PROVE IInv'
PROOF
<1> USE DEF MatchResults, turn, server, reader, handler, Leave, Open
<1>1. TypeOK' BY DEF IInv, TypeOK
<1>2. FlagsMatchQueue' BY DEF IInv, FlagsMatchQueue
<1>3. NoStrandedCallback' BY DEF IInv, NoStrandedCallback
<1>4. ParkedOnce' BY DEF IInv, ParkedOnce, InHand
<1>5. CallbackAccounted'
  <2>1. \A c \in Calls : ~BeingAcknowledged(c) /\ ~BeingAcknowledged(c)'
    BY StreamsAssumption DEF IInv, TypeOK, HolderOwns, BeingAcknowledged
  <2> QED BY <2>1 DEF IInv, TypeOK, CallbackAccounted, InHand
<1>6. HolderOwns' BY DEF IInv, TypeOK, HolderOwns
<1>7. ClosedTurnParksNothing' BY DEF IInv, ParkedOnce, ClosedTurnParksNothing
<1> QED BY <1>1, <1>2, <1>3, <1>4, <1>5, <1>6, <1>7 DEF IInv

LEMMA RequestArrivesInv ==
  ASSUME IInv, NEW s \in Streams, NEW R \in SUBSET seen, RequestArrives(s, R) PROVE IInv'
PROOF
<1> USE DEF RequestArrives, MutexFree, turn, server, reader, handler, Leave
<1>1. TypeOK' BY DEF IInv, TypeOK
<1>2. FlagsMatchQueue' BY DEF IInv, FlagsMatchQueue
<1>3. NoStrandedCallback' BY DEF IInv, NoStrandedCallback
<1>4. ParkedOnce' BY DEF IInv, ParkedOnce, InHand
<1>5. CallbackAccounted'
  <2>1. \A c \in Calls : ~BeingAcknowledged(c) /\ ~BeingAcknowledged(c)'
    BY StreamsAssumption DEF IInv, TypeOK, HolderOwns, BeingAcknowledged
  <2> QED BY <2>1 DEF IInv, TypeOK, CallbackAccounted, InHand
<1>6. HolderOwns' BY StreamsAssumption DEF IInv, TypeOK, HolderOwns
<1>7. ClosedTurnParksNothing' BY DEF IInv, ClosedTurnParksNothing
<1> QED BY <1>1, <1>2, <1>3, <1>4, <1>5, <1>6, <1>7 DEF IInv

------------------------------------------------------------------------------
(* Actions that change the queue or the parked callbacks.                      *)

\* A chunk without tool calls leaves the queue's tool chunks as they are.
LEMMA EnqueueTextInv ==
  ASSUME IInv, EnqueueChunk(Text)
  PROVE  /\ queue' \in Seq(Chunks) /\ wake' = TRUE
         /\ ToSet(queue') \cap Calls = ToSet(queue) \cap Calls
         /\ \A i, j \in DOMAIN queue' :
              queue'[i] = queue'[j] /\ queue'[i] \in Calls => i = j
PROOF
<1>1. CASE done \/ closed
  BY <1>1 DEF IInv, TypeOK, FlagsMatchQueue, EnqueueChunk, Signal, Ended
<1>2. CASE ~(done \/ closed)
  <2>1. /\ queue \in Seq(Chunks) /\ Text \in Chunks /\ Text \notin Calls
        /\ queue' = Append(queue, Text) /\ wake' = TRUE
    BY <1>2, CallsAssumption DEF IInv, TypeOK, EnqueueChunk, Signal, Ended, Chunks
  <2>2. queue' \in Seq(Chunks) /\ ToSet(queue') = ToSet(queue) \cup {Text}
    BY <2>1, AppendSet
  <2>3. \A i, j \in DOMAIN queue : queue[i] = queue[j] /\ queue[i] \in Calls => i = j
    BY DEF IInv, FlagsMatchQueue
  <2> QED BY <2>1, <2>2, <2>3
<1> QED BY <1>1, <1>2

LEMMA ApplyTextInv ==
  ASSUME IInv, ApplyText PROVE IInv'
PROOF
<1> USE DEF ApplyText, server, reader, handler
<1>0. /\ queue' \in Seq(Chunks) /\ wake' = TRUE
      /\ ToSet(queue') \cap Calls = ToSet(queue) \cap Calls
      /\ \A i, j \in DOMAIN queue' :
           queue'[i] = queue'[j] /\ queue'[i] \in Calls => i = j
  BY EnqueueTextInv
<1>1. TypeOK' BY <1>0 DEF IInv, TypeOK
<1>2. FlagsMatchQueue' BY <1>0 DEF IInv, FlagsMatchQueue
<1>3. NoStrandedCallback' BY DEF IInv, NoStrandedCallback
<1>4. ParkedOnce' BY DEF IInv, ParkedOnce, InHand
<1>5. CallbackAccounted'
  BY CallsAssumption DEF IInv, TypeOK, CallbackAccounted, InHand, BeingAcknowledged
<1>6. HolderOwns' BY DEF IInv, HolderOwns
<1>7. ClosedTurnParksNothing' BY DEF IInv, ClosedTurnParksNothing
<1> QED BY <1>1, <1>2, <1>3, <1>4, <1>5, <1>6, <1>7 DEF IInv

LEMMA ApplyCompletedInv ==
  ASSUME IInv, ApplyCompleted PROVE IInv'
PROOF
<1> USE DEF ApplyCompleted, server, reader, handler
<1>0. /\ queue' \in Seq(Chunks) /\ wake' \in BOOLEAN
      /\ ToSet(queue') \cap Calls = ToSet(queue) \cap Calls
      /\ \A i, j \in DOMAIN queue' :
           queue'[i] = queue'[j] /\ queue'[i] \in Calls => i = j
  <2>1. CASE msg = Completed BY <2>1, EnqueueTextInv
  <2>2. CASE msg # Completed BY <2>2 DEF IInv, TypeOK, FlagsMatchQueue
  <2> QED BY <2>1, <2>2
<1>1. TypeOK' BY <1>0 DEF IInv, TypeOK
<1>2. FlagsMatchQueue' BY <1>0 DEF IInv, FlagsMatchQueue
<1>3. NoStrandedCallback' BY DEF IInv, NoStrandedCallback
<1>4. ParkedOnce' BY DEF IInv, ParkedOnce, InHand
<1>5. CallbackAccounted'
  BY CallsAssumption
     DEF IInv, TypeOK, CallbackAccounted, InHand, BeingAcknowledged, Completed, Failed
<1>6. HolderOwns' BY DEF IInv, HolderOwns
<1>7. ClosedTurnParksNothing' BY DEF IInv, ClosedTurnParksNothing
<1> QED BY <1>1, <1>2, <1>3, <1>4, <1>5, <1>6, <1>7 DEF IInv

\* A received tool chunk turns its callback from queued into delivered.
LEMMA RecvChunkInv ==
  ASSUME IInv, NEW s \in Streams, NEW reached \in BOOLEAN, RecvChunk(s, reached)
  PROVE  IInv'
PROOF
<1> USE DEF RecvChunk, server, reader
<1>a. /\ queue \in Seq(Chunks) /\ queue # <<>> /\ queue' = Tail(queue)
      /\ delegated' = delegated
  BY DEF IInv, TypeOK
<1>b. /\ Head(queue) \in Chunks /\ Tail(queue) \in Seq(Chunks)
      /\ ToSet(queue) = {Head(queue)} \cup ToSet(Tail(queue))
  BY <1>a, TailSet
<1>c. Head(queue) \in Calls => Head(queue) \in ToSet(delegated)
  BY <1>b DEF IInv, FlagsMatchQueue
<1>d. /\ queued' = queued \ ({Head(queue)} \cap Calls)
      /\ delivered' = delivered \cup ({Head(queue)} \cap Calls)
  <2>1. ToSet(delegated) \subseteq Calls BY DEF IInv, TypeOK, ParkedOnce
  <2> QED BY <1>c, <2>1
<1>e. Head(queue) \in Calls => Head(queue) \notin ToSet(Tail(queue))
  <2> SUFFICES ASSUME Head(queue) \in Calls, NEW i \in DOMAIN Tail(queue),
                      Tail(queue)[i] = Head(queue)
               PROVE  FALSE
    BY DEF ToSet
  <2>1. /\ i + 1 \in DOMAIN queue /\ 1 \in DOMAIN queue /\ i + 1 # 1
        /\ queue[i + 1] = queue[1] /\ queue[1] \in Calls
    BY <1>a
  <2> QED BY <2>1 DEF IInv, FlagsMatchQueue
<1>1. TypeOK'
  <2>1. seen' \subseteq Calls BY DEF IInv, TypeOK
  <2>2. queued' \subseteq Calls /\ delivered' \subseteq Calls BY <1>d DEF IInv, TypeOK
  <2> QED BY <1>a, <1>b, <2>1, <2>2 DEF IInv, TypeOK
<1>2. FlagsMatchQueue'
  <2>1. queued' = ToSet(queue') \cap Calls
    BY <1>a, <1>b, <1>d, <1>e DEF IInv, FlagsMatchQueue
  <2>2. ASSUME NEW i \in DOMAIN queue', NEW j \in DOMAIN queue',
               queue'[i] = queue'[j], queue'[i] \in Calls
        PROVE  i = j
    <3>1. /\ i + 1 \in DOMAIN queue /\ j + 1 \in DOMAIN queue
          /\ queue[i + 1] = queue'[i] /\ queue[j + 1] = queue'[j]
      BY <1>a, <2>2
    <3>2. i + 1 = j + 1 BY <3>1, <2>2 DEF IInv, FlagsMatchQueue
    <3> QED BY <3>2, <1>a
  <2>3. queued' \cap delivered' = {} /\ queued' \cup delivered' \subseteq ToSet(delegated')
    BY <1>a, <1>c, <1>d DEF IInv, FlagsMatchQueue
  <2> QED BY <2>1, <2>2, <2>3 DEF FlagsMatchQueue
<1>3. NoStrandedCallback'
  <2>1. queued' \cup delivered' = queued \cup delivered
    BY <1>b, <1>d DEF IInv, FlagsMatchQueue
  <2> QED BY <2>1, <1>a DEF IInv, NoStrandedCallback
<1>4. ParkedOnce' BY DEF IInv, ParkedOnce, InHand
<1>5. CallbackAccounted'
  BY DEF IInv, TypeOK, CallbackAccounted, InHand, BeingAcknowledged
<1>6. HolderOwns' BY DEF IInv, TypeOK, HolderOwns
<1>7. ClosedTurnParksNothing' BY DEF IInv, ClosedTurnParksNothing
<1> QED BY <1>1, <1>2, <1>3, <1>4, <1>5, <1>6, <1>7 DEF IInv

LEMMA WriteResultInv ==
  ASSUME IInv, NEW s \in Streams, WriteResult(s) PROVE IInv'
PROOF
<1> USE DEF WriteResult, turn, reader
<1>0. \A c \in Calls : ~BeingAcknowledged(c)
  BY StreamsAssumption DEF IInv, TypeOK, HolderOwns, BeingAcknowledged
<1>1. CASE ~up
  <2>1. TypeOK' BY <1>1 DEF IInv, TypeOK, Leave
  <2>2. FlagsMatchQueue' BY DEF IInv, FlagsMatchQueue
  <2>3. NoStrandedCallback' BY DEF IInv, NoStrandedCallback
  <2>4. ParkedOnce' BY <1>1 DEF IInv, ParkedOnce, InHand
  <2>5. CallbackAccounted'
    <3>1. \A c \in Calls : ~BeingAcknowledged(c)'
      BY <1>1, StreamsAssumption DEF IInv, TypeOK, HolderOwns, BeingAcknowledged, Leave
    <3> QED BY <1>0, <1>1, <3>1 DEF IInv, TypeOK, CallbackAccounted, InHand
  <2>6. HolderOwns' BY <1>1, StreamsAssumption DEF IInv, TypeOK, HolderOwns, Leave
  <2>7. ClosedTurnParksNothing' BY DEF IInv, ClosedTurnParksNothing
  <2> QED BY <2>1, <2>2, <2>3, <2>4, <2>5, <2>6, <2>7 DEF IInv
<1>2. ASSUME up, NEW c \in todo,
             answers' = [answers EXCEPT ![c] = @ + 1],
             pc' = [pc EXCEPT ![s] = "ack"], cur' = c,
             UNCHANGED <<holder, results, todo>>
      PROVE  IInv'
  <2> USE <1>2
  <2>0. /\ c \in ToSet(delegated) /\ c \in delivered /\ c \in Calls /\ c \in issued
        /\ answers[c] = 0 /\ ~InHand(c)
    BY <1>0 DEF IInv, TypeOK, HolderOwns, ParkedOnce, CallbackAccounted
  <2>1. TypeOK' BY <2>0 DEF IInv, TypeOK
  <2>2. FlagsMatchQueue' BY DEF IInv, FlagsMatchQueue
  <2>3. NoStrandedCallback' BY DEF IInv, NoStrandedCallback
  <2>4. ParkedOnce' BY <2>0 DEF IInv, TypeOK, ParkedOnce, InHand
  <2>5. CallbackAccounted'
    <3>1. \A d \in Calls : BeingAcknowledged(d)' <=> d = c
      BY StreamsAssumption DEF IInv, TypeOK, HolderOwns, BeingAcknowledged
    <3> QED BY <1>0, <2>0, <3>1 DEF IInv, TypeOK, CallbackAccounted, InHand
  <2>6. HolderOwns' BY StreamsAssumption DEF IInv, TypeOK, HolderOwns
  <2>7. ClosedTurnParksNothing' BY DEF IInv, ClosedTurnParksNothing
  <2> QED BY <2>1, <2>2, <2>3, <2>4, <2>5, <2>6, <2>7 DEF IInv
<1> QED BY <1>1, <1>2 DEF IInv, TypeOK

\* At most one callback is exposed at a time, so its place in the order is no
\* question.
LEMMA InOrderNone ==
  ASSUME NEW dlg PROVE InOrder(dlg, {}) = <<>>
PROOF
<1>1. Cardinality({}) = 0 BY FS_EmptySet
<1>2. \A f \in [1 .. 0 -> {}] : f = <<>>
  <2> TAKE f \in [1 .. 0 -> {}]
  <2>1. f \in Seq({}) /\ Len(f) = 0 OBVIOUS
  <2> QED BY <2>1
<1>3. <<>> \in [1 .. 0 -> {}] /\ DOMAIN <<>> = {} OBVIOUS
<1> QED BY <1>1, <1>2, <1>3 DEF InOrder

LEMMA InOrderOne ==
  ASSUME NEW dlg, NEW c PROVE InOrder(dlg, {c}) = <<c>>
PROOF
<1>1. Cardinality({c}) = 1 BY FS_Singleton
<1>2. <<c>> \in [1 .. 1 -> {c}] OBVIOUS
<1>3. \A f \in [1 .. 1 -> {c}] : f = <<c>>
  <2> TAKE f \in [1 .. 1 -> {c}]
  <2>1. DOMAIN f = 1 .. 1 /\ f[1] = c OBVIOUS
  <2> QED BY <2>1
<1>4. \A i, j \in DOMAIN <<c>> : ~(i < j) OBVIOUS
<1> QED BY <1>1, <1>2, <1>3, <1>4 DEF InOrder

\* What exposing one more callback, or none, does to the queue and the flags.
LEMMA ExposeOne ==
  ASSUME TypeOK, FlagsMatchQueue, NEW dlg \in Seq(Calls), NEW c \in Calls,
         Exposed(dlg) = {c}, c \notin queued, QueueDelegatedTools(dlg)
  PROVE  /\ queue' \in Seq(Chunks)
         /\ queued' = (queued \cap ToSet(dlg)) \cup {c}
         /\ ToSet(queue') \cap Calls = queued \cup {c}
         /\ \A i, j \in DOMAIN queue' :
              queue'[i] = queue'[j] /\ queue'[i] \in Calls => i = j
PROOF
<1>1. /\ queue \in Seq(Chunks) /\ c \in Chunks
      /\ queue' = queue \o <<c>>
      /\ queued' = (queued \cap ToSet(dlg)) \cup {c}
  BY InOrderOne DEF TypeOK, Chunks, QueueDelegatedTools
<1>2. queue' = Append(queue, c) BY <1>1
<1>3. queue' \in Seq(Chunks) /\ ToSet(queue') = ToSet(queue) \cup {c}
  <2> HIDE DEF Chunks
  <2>1. queue \in Seq(Chunks) /\ c \in Chunks BY <1>1
  <2>2. Append(queue, c) \in Seq(Chunks) /\ ToSet(Append(queue, c)) = ToSet(queue) \cup {c}
    BY <2>1, AppendSet
  <2> QED BY <1>2, <2>2
<1>4. c \notin ToSet(queue) BY DEF FlagsMatchQueue
<1>5. \A i, j \in DOMAIN queue' :
        queue'[i] = queue'[j] /\ queue'[i] \in Calls => i = j
  <2>1. \A i \in DOMAIN queue : queue[i] # c BY <1>4 DEF ToSet
  <2>2. \A i, j \in DOMAIN queue : queue[i] = queue[j] /\ queue[i] \in Calls => i = j
    BY DEF FlagsMatchQueue
  <2> QED BY <1>1, <1>2, <2>1, <2>2
<1> QED BY <1>1, <1>3, <1>5 DEF FlagsMatchQueue

LEMMA ExposeNone ==
  ASSUME TypeOK, NEW dlg, Exposed(dlg) = {}, QueueDelegatedTools(dlg)
  PROVE  queue' = queue /\ queued' = queued \cap ToSet(dlg)
PROOF
<1>1. queue' = queue \o <<>> BY InOrderNone DEF QueueDelegatedTools
<1> QED BY <1>1 DEF TypeOK, QueueDelegatedTools

LEMMA AddDelegatedToolInv ==
  ASSUME IInv, AddDelegatedTool PROVE IInv'
PROOF
<1> USE DEF AddDelegatedTool, Ended, server, handler
<1>a. /\ delegated \in Seq(Calls) /\ msg \in Calls
      /\ msg \in issued /\ answers[msg] = 0 /\ msg \notin ToSet(delegated)
      /\ ToSet(delegated) \subseteq Calls /\ InHand(msg)
  BY DEF IInv, TypeOK, ParkedOnce, CallbackAccounted, InHand
<1>b. /\ delegated' = Append(delegated, msg) /\ delegated' \in Seq(Calls)
      /\ ToSet(delegated') = ToSet(delegated) \cup {msg} /\ delegated' # <<>>
  BY <1>a, AppendSet
<1>c. msg \notin queued /\ msg \notin delivered
  BY <1>a DEF IInv, FlagsMatchQueue
<1>d. delegated = <<>> <=> ToSet(delegated) = {}
  BY <1>a DEF ToSet
<1>e. Exposed(delegated') = {msg} \/ Exposed(delegated') = {}
  <2>1. CASE Parallel
    BY <2>1, <1>b, <1>c DEF IInv, NoStrandedCallback, Exposed
  <2>2. CASE ~Parallel /\ delegated # <<>>
    BY <2>2, <1>b DEF IInv, NoStrandedCallback, FlagsMatchQueue, Exposed
  <2>3. CASE ~Parallel /\ delegated = <<>>
    <3>1. Head(delegated') = msg BY <2>3, <1>b
    <3> QED BY <2>3, <3>1 DEF Exposed
  <2> QED BY <2>1, <2>2, <2>3
<1>f. /\ queue' \in Seq(Chunks)
      /\ queued' = queued \cup Exposed(delegated')
      /\ ToSet(queue') \cap Calls = queued'
      /\ \A i, j \in DOMAIN queue' :
           queue'[i] = queue'[j] /\ queue'[i] \in Calls => i = j
  <2>1. queued \cap ToSet(delegated') = queued
    BY <1>b DEF IInv, FlagsMatchQueue
  <2>2. QueueDelegatedTools(delegated') OBVIOUS
  <2>3. CASE Exposed(delegated') = {msg}
    BY <2>1, <2>2, <2>3, <1>a, <1>b, <1>c, ExposeOne DEF IInv
  <2>4. CASE Exposed(delegated') = {}
    <3>1. queue' = queue /\ queued' = queued
      BY <2>1, <2>2, <2>4, ExposeNone DEF IInv
    <3> QED BY <2>4, <3>1 DEF IInv, TypeOK, FlagsMatchQueue
  <2> QED BY <1>e, <2>3, <2>4
<1>1. TypeOK'
  <2>1. queued' \subseteq Calls BY <1>a, <1>e, <1>f DEF IInv, TypeOK
  <2> QED BY <1>b, <1>f, <2>1 DEF IInv, TypeOK, Signal
<1>2. FlagsMatchQueue'
  BY <1>b, <1>c, <1>e, <1>f DEF IInv, FlagsMatchQueue
<1>3. NoStrandedCallback'
  <2>1. CASE Parallel
    <3>1. Exposed(delegated') = ToSet(delegated') \ (queued \cup delivered)
      BY <2>1 DEF Exposed
    <3> QED BY <2>1, <3>1, <1>f DEF NoStrandedCallback
  <2>2. CASE ~Parallel /\ ToSet(delegated') \cap (queued \cup delivered) # {}
    <3>1. Exposed(delegated') = {} BY <2>2 DEF Exposed
    <3> QED BY <2>2, <3>1, <1>f DEF IInv, NoStrandedCallback
  <2>3. CASE ~Parallel /\ ToSet(delegated') \cap (queued \cup delivered) = {}
    <3>1. Exposed(delegated') = {Head(delegated')} BY <2>3, <1>b DEF Exposed
    <3>2. queued = {} /\ delivered = {}
      BY <2>3, <1>b DEF IInv, FlagsMatchQueue
    <3> QED BY <2>3, <3>1, <3>2, <1>f DEF NoStrandedCallback
  <2> QED BY <2>1, <2>2, <2>3
<1>4. ParkedOnce'
  <2>1. \A i, j \in DOMAIN delegated' : delegated'[i] = delegated'[j] => i = j
    <3>1. \A i \in DOMAIN delegated : delegated[i] # msg BY <1>a DEF ToSet
    <3>2. \A i, j \in DOMAIN delegated : delegated[i] = delegated[j] => i = j
      BY DEF IInv, ParkedOnce
    <3> QED BY <1>a, <1>b, <3>1, <3>2
  <2> QED BY <1>a, <1>b, <2>1 DEF IInv, ParkedOnce, InHand
<1>5. CallbackAccounted'
  <2>1. ~BeingAcknowledged(msg)
    BY <1>a DEF IInv, HolderOwns, BeingAcknowledged
  <2> QED BY <1>a, <1>b, <2>1
          DEF IInv, CallbackAccounted, InHand, BeingAcknowledged
<1>6. HolderOwns' BY <1>b DEF IInv, HolderOwns
<1>7. ClosedTurnParksNothing' BY DEF ClosedTurnParksNothing
<1> QED BY <1>1, <1>2, <1>3, <1>4, <1>5, <1>6, <1>7 DEF IInv

LEMMA AcknowledgeInv ==
  ASSUME IInv, NEW s \in Streams, Acknowledge(s) PROVE IInv'
PROOF
<1> USE DEF Acknowledge, server, reader
<1> DEFINE n == Position(delegated, cur)
<1>a. /\ pc[s] = "ack" /\ holder = s /\ s # None
      /\ cur \in todo /\ cur \in delivered /\ cur \in ToSet(delegated)
      /\ cur \in Calls /\ cur \in issued /\ todo \subseteq ToSet(delegated) \cap delivered
      /\ BeingAcknowledged(cur) /\ answers[cur] = 1 /\ ~InHand(cur)
  BY StreamsAssumption
     DEF IInv, TypeOK, HolderOwns, ParkedOnce, CallbackAccounted, BeingAcknowledged
<1>b. n \in DOMAIN delegated /\ delegated[n] = cur
  BY <1>a DEF ToSet, Position
<1>c. /\ delegated' = RemoveAt(delegated, n) /\ delegated' \in Seq(Calls)
      /\ ToSet(delegated') = ToSet(delegated) \ {cur}
      /\ \A i, j \in DOMAIN delegated' : delegated'[i] = delegated'[j] => i = j
  <2>1. /\ delegated \in Seq(Calls)
        /\ \A i, j \in DOMAIN delegated : delegated[i] = delegated[j] => i = j
    BY DEF IInv, TypeOK, ParkedOnce
  <2>2. delegated' = RemoveAt(delegated, n) BY <1>a
  <2> HIDE DEF n
  <2> QED BY <1>b, <2>1, <2>2, RemoveSet
<1>d. /\ awaitingTools' = (delegated' # <<>>) /\ QueueDelegatedTools(delegated')
      /\ delivered' = delivered \ {cur} /\ wake' = TRUE
      /\ holder' \in {holder, None} /\ cur' = None /\ todo' \subseteq todo \ {cur}
      /\ results' \subseteq results
      /\ \/ pc' = [pc EXCEPT ![s] = "recv"]
         \/ pc' = [pc EXCEPT ![s] = "write"] /\ holder' = holder
  BY <1>a DEF Signal, Open
<1>e. delegated' = <<>> <=> ToSet(delegated') = {}
  BY <1>c DEF ToSet
<1>f. \/ Exposed(delegated') = {}
      \/ \E c \in Calls : Exposed(delegated') = {c} /\ c \notin queued /\ c \notin delivered
                          /\ c \in ToSet(delegated')
  <2>1. CASE Parallel
    BY <2>1, <1>c DEF IInv, NoStrandedCallback, Exposed
  <2>2. CASE ~Parallel /\ delegated' # <<>>
                       /\ ToSet(delegated') \cap (queued \cup delivered) = {}
    <3>1. Head(delegated') \in ToSet(delegated') /\ Head(delegated') \in Calls
      BY <2>2, <1>c, TailSet
    <3> QED BY <2>2, <3>1 DEF Exposed
  <2>3. CASE ~Parallel /\ (delegated' = <<>>
                            \/ ToSet(delegated') \cap (queued \cup delivered) # {})
    BY <2>3 DEF Exposed
  <2> QED BY <2>1, <2>2, <2>3
<1>g. /\ queue' \in Seq(Chunks)
      /\ queued' = queued \cup Exposed(delegated')
      /\ ToSet(queue') \cap Calls = queued'
      /\ \A i, j \in DOMAIN queue' :
           queue'[i] = queue'[j] /\ queue'[i] \in Calls => i = j
  <2>1. queued \cap ToSet(delegated') = queued
    BY <1>a, <1>c DEF IInv, FlagsMatchQueue
  <2>2. CASE Exposed(delegated') = {}
    <3>1. queue' = queue /\ queued' = queued
      BY <2>1, <2>2, <1>d, ExposeNone DEF IInv
    <3> QED BY <2>2, <3>1 DEF IInv, TypeOK, FlagsMatchQueue
  <2>3. CASE \E c \in Calls : Exposed(delegated') = {c} /\ c \notin queued
    <3> PICK c \in Calls : Exposed(delegated') = {c} /\ c \notin queued
      BY <2>3
    <3> QED BY <2>1, <1>c, <1>d, ExposeOne DEF IInv
  <2> QED BY <1>f, <2>2, <2>3
<1>1. TypeOK'
  <2>1. queued' \subseteq Calls BY <1>f, <1>g DEF IInv, TypeOK
  <2> QED BY <1>a, <1>c, <1>d, <1>g, <2>1 DEF IInv, TypeOK
<1>2. FlagsMatchQueue'
  <2>1. queued' \cap delivered' = {} BY <1>d, <1>f, <1>g DEF IInv, FlagsMatchQueue
  <2>2. queued' \cup delivered' \subseteq ToSet(delegated')
    BY <1>a, <1>c, <1>d, <1>f, <1>g DEF IInv, FlagsMatchQueue
  <2> QED BY <1>g, <2>1, <2>2 DEF FlagsMatchQueue
<1>3. NoStrandedCallback'
  <2>1. CASE Parallel
    BY <2>1, <1>c, <1>d, <1>g DEF IInv, NoStrandedCallback
  <2>2. CASE ~Parallel
    <3>1. queued = {} /\ delivered = {cur}
      BY <1>a, <2>2 DEF IInv, NoStrandedCallback, FlagsMatchQueue
    <3>2. CASE delegated' = <<>>
      BY <2>2, <3>1, <3>2, <1>d, <1>g DEF NoStrandedCallback, Exposed
    <3>3. CASE delegated' # <<>>
      <4>1. Exposed(delegated') = {Head(delegated')}
        BY <2>2, <3>1, <3>3, <1>c DEF Exposed
      <4> QED BY <2>2, <3>1, <4>1, <1>d, <1>g DEF NoStrandedCallback
    <3> QED BY <3>2, <3>3
  <2> QED BY <2>1, <2>2
<1>4. ParkedOnce' BY <1>c, <1>d, <1>a DEF IInv, ParkedOnce, InHand
<1>5. CallbackAccounted'
  <2>1. \A c \in Calls : ~BeingAcknowledged(c)'
    BY <1>a, <1>d, StreamsAssumption DEF IInv, TypeOK, HolderOwns, BeingAcknowledged
  <2>2. \A c \in Calls : BeingAcknowledged(c) => c = cur
    BY DEF BeingAcknowledged
  <2> QED BY <1>a, <1>c, <2>1, <2>2 DEF IInv, TypeOK, CallbackAccounted, InHand
<1>6. HolderOwns'
  BY <1>a, <1>c, <1>d, StreamsAssumption DEF IInv, TypeOK, HolderOwns
<1>7. ClosedTurnParksNothing'
  BY <1>a DEF IInv, ClosedTurnParksNothing, ToSet
<1> QED BY <1>1, <1>2, <1>3, <1>4, <1>5, <1>6, <1>7 DEF IInv

------------------------------------------------------------------------------
(* The theorems.                                                               *)

LEMMA InitInv == Init => IInv
PROOF
<1> SUFFICES ASSUME Init PROVE IInv OBVIOUS
<1> USE DEF Init
<1>0. ToSet(<<>>) = {} BY DEF ToSet
<1>1. TypeOK
  <2>1. queue \in Seq(Chunks) /\ delegated \in Seq(Calls) OBVIOUS
  <2>2. /\ answers \in [Calls -> Nat]
        /\ pc \in [Streams -> {"unused", "check", "match", "write", "ack",
                               "recv", "wait", "ended", "detach", "closed"}]
    OBVIOUS
  <2> QED BY <2>1, <2>2 DEF TypeOK
<1>2. FlagsMatchQueue BY <1>0 DEF FlagsMatchQueue
<1>3. NoStrandedCallback BY <1>0 DEF NoStrandedCallback
<1>4. ParkedOnce
  <2>1. awaitingTools = (delegated # <<>>) OBVIOUS
  <2>2. \A i, j \in DOMAIN delegated : delegated[i] = delegated[j] => i = j OBVIOUS
  <2>3. \A c \in Calls : ~InHand(c) BY DEF InHand
  <2> QED BY <1>0, <2>1, <2>2, <2>3 DEF ParkedOnce
<1>5. CallbackAccounted BY DEF CallbackAccounted
<1>6. HolderOwns BY DEF HolderOwns
<1>7. ClosedTurnParksNothing BY DEF ClosedTurnParksNothing
<1> QED BY <1>1, <1>2, <1>3, <1>4, <1>5, <1>6, <1>7 DEF IInv

LEMMA StutterInv == IInv /\ UNCHANGED vars => IInv'
PROOF
<1> SUFFICES ASSUME IInv, UNCHANGED vars PROVE IInv' OBVIOUS
<1> USE DEF vars, turn, server, reader, handler
<1>1. TypeOK' BY DEF IInv, TypeOK
<1>2. FlagsMatchQueue' BY DEF IInv, FlagsMatchQueue
<1>3. NoStrandedCallback' BY DEF IInv, NoStrandedCallback
<1>4. ParkedOnce' BY DEF IInv, ParkedOnce, InHand
<1>5. CallbackAccounted' BY DEF IInv, CallbackAccounted, InHand, BeingAcknowledged
<1>6. HolderOwns' BY DEF IInv, HolderOwns
<1>7. ClosedTurnParksNothing' BY DEF IInv, ClosedTurnParksNothing
<1> QED BY <1>1, <1>2, <1>3, <1>4, <1>5, <1>6, <1>7 DEF IInv

LEMMA NextInv == IInv /\ [Next]_vars => IInv'
PROOF
<1> SUFFICES ASSUME IInv, [Next]_vars PROVE IInv' OBVIOUS
<1>1. CASE \E m \in Messages : AppServerSends(m) BY <1>1, AppServerSendsInv
<1>2. CASE ConnectionBreaks BY <1>2, ConnectionBreaksInv
<1>3. CASE ReaderStep
  BY <1>3, LookupInv, ApplyTextInv, AddDelegatedToolInv, RefuseDelegatedToolInv,
     AnswerRefusedInv, ApplyCompletedInv, RemoveCompletedInv, FinishCompletedInv,
     FailConnectionInv, FinishFailedInv DEF ReaderStep
<1>4. ASSUME NEW s \in Streams, StreamStep(s) PROVE IInv'
  BY <1>4, RecvChunkInv, RecvEmptyInv, WokenInv, ContextDoneInv, CloseInv,
     RemoveClosedInv DEF StreamStep
<1>5. ASSUME NEW s \in Streams, ResumeStep(s) PROVE IInv'
  BY <1>5, CheckAwaitingInv, MatchResultsInv, WriteResultInv, AcknowledgeInv
     DEF ResumeStep
<1>6. CASE \E s \in Streams, R \in SUBSET seen : RequestArrives(s, R)
  BY <1>6, RequestArrivesInv
<1>7. CASE UNCHANGED vars BY <1>7, StutterInv
<1> QED BY <1>1, <1>2, <1>3, <1>4, <1>5, <1>6, <1>7 DEF Next

\* The inductive invariant holds in every reachable state, for any number of
\* callbacks, requests and plain chunks, and in both modes of parallel_tool_calls.
THEOREM Invariance == Spec => []IInv
PROOF
<1>1. IInv /\ UNCHANGED vars => IInv' BY NextInv
<1> QED BY InitInv, NextInv, PTL DEF Spec

\* Type correctness.
THEOREM TypeCorrect == Spec => []TypeOK
PROOF
<1>1. IInv => TypeOK BY DEF IInv
<1> QED BY <1>1, Invariance, PTL

\* Every issued callback stays accounted for; none is answered twice, and none is
\* dropped while the connection lives.
THEOREM NoCallbackLost == Spec => []CallbackAccounted
PROOF
<1>1. IInv => CallbackAccounted BY DEF IInv
<1> QED BY <1>1, Invariance, PTL

\* No parked callback is left without being queued for, or in the hands of, the
\* caller; one at a time without parallel_tool_calls.
THEOREM NoCallbackStranded == Spec => []NoStrandedCallback
PROOF
<1>1. IInv => NoStrandedCallback BY DEF IInv
<1> QED BY <1>1, Invariance, PTL

\* The resuming request never finds its callback gone.
THEOREM AcknowledgeSucceeds == Spec => []AcknowledgeFindsCallback
PROOF
<1>1. IInv => AcknowledgeFindsCallback
  BY DEF IInv, HolderOwns, AcknowledgeFindsCallback
<1> QED BY <1>1, Invariance, PTL

\* A turn closed before it was done has no parked callback.
THEOREM ClosedTurnIsEmpty == Spec => []ClosedTurnParksNothing
PROOF
<1>1. IInv => ClosedTurnParksNothing BY DEF IInv
<1> QED BY <1>1, Invariance, PTL

------------------------------------------------------------------------------
(* NeverShownAgain.                                                            *)

\* Answers are never taken back, and a delivered callback stays delivered until it
\* leaves the turn.
LEMMA AnswersGrow ==
  ASSUME IInv, [Next]_vars, NEW c \in Calls
  PROVE  /\ answers[c] > 0 => answers'[c] > 0
         /\ c \in delivered => c \in delivered' \/ c \notin ToSet(delegated')
PROOF
<1> USE DEF turn, server, reader, handler
<1>0. answers \in [Calls -> Nat] BY DEF IInv, TypeOK
<1>1. CASE \E m \in Messages : AppServerSends(m) BY <1>1 DEF AppServerSends
<1>2. CASE ConnectionBreaks BY <1>2 DEF ConnectionBreaks
<1>3. CASE ReaderStep
  <2>1. CASE AnswerRefused
    <3>1. delivered' = delivered BY <2>1 DEF AnswerRefused
    <3>2. answers[c] > 0 => answers'[c] > 0
      BY <2>1, <1>0 DEF AnswerRefused, IInv, ParkedOnce
    <3> QED BY <3>1, <3>2
  <2>2. CASE ~AnswerRefused
    BY <2>2, <1>3 DEF ReaderStep, Lookup, ApplyText, AddDelegatedTool,
       RefuseDelegatedTool, ApplyCompleted, RemoveCompleted,
       FinishCompleted, FailConnection, FinishFailed
  <2> QED BY <2>1, <2>2
<1>4. ASSUME NEW s \in Streams, StreamStep(s)
      PROVE  answers' = answers /\ delivered \subseteq delivered'
  BY <1>4 DEF StreamStep, RecvChunk, RecvEmpty, Woken, ContextDone, Close, RemoveClosed
<1>5. ASSUME NEW s \in Streams, CheckAwaiting(s) \/ MatchResults(s)
      PROVE  answers' = answers /\ delivered' = delivered
  BY <1>5 DEF CheckAwaiting, MatchResults
<1>6. ASSUME NEW s \in Streams, WriteResult(s)
      PROVE  (answers[c] > 0 => answers'[c] > 0) /\ delivered' = delivered
  BY <1>6, <1>0 DEF WriteResult
<1>7. ASSUME NEW s \in Streams, Acknowledge(s)
      PROVE  /\ answers' = answers
             /\ c \in delivered => c \in delivered' \/ c \notin ToSet(delegated')
  <2>1. answers' = answers BY <1>7 DEF Acknowledge
  <2>2. cur \in ToSet(delegated) BY <1>7 DEF Acknowledge, IInv, HolderOwns
  <2>3. delivered' = delivered \ {cur} BY <1>7, <2>2 DEF Acknowledge
  <2>4. cur \notin ToSet(delegated')
    <3> DEFINE n == Position(delegated, cur)
    <3>1. n \in DOMAIN delegated /\ delegated[n] = cur BY <2>2 DEF ToSet, Position
    <3>2. delegated' = RemoveAt(delegated, n) BY <1>7, <2>2 DEF Acknowledge
    <3>3. /\ delegated \in Seq(Calls)
          /\ \A i, j \in DOMAIN delegated : delegated[i] = delegated[j] => i = j
      BY DEF IInv, TypeOK, ParkedOnce
    <3> HIDE DEF n
    <3> QED BY <3>1, <3>2, <3>3, RemoveSet
  <2> QED BY <2>1, <2>3, <2>4
<1>8. ASSUME NEW s \in Streams, ResumeStep(s)
      PROVE  /\ answers[c] > 0 => answers'[c] > 0
             /\ c \in delivered => c \in delivered' \/ c \notin ToSet(delegated')
  BY <1>5, <1>6, <1>7, <1>8 DEF ResumeStep
<1>9. CASE \E s \in Streams, R \in SUBSET seen : RequestArrives(s, R)
  BY <1>9 DEF RequestArrives
<1>10. CASE UNCHANGED vars BY <1>10 DEF vars
<1> QED BY <1>1, <1>2, <1>3, <1>4, <1>8, <1>9, <1>10 DEF Next

\* The caller never gets a second chunk for a callback it has, or has answered.
THEOREM CallbackShownOnce == Spec => NeverShownAgain
PROOF
<1>1. ASSUME IInv, IInv', [Next]_vars
      PROVE  \A c \in Calls :
               c \in delivered \/ answers[c] > 0 => c \notin ToSet(queue')
  <2> SUFFICES ASSUME NEW c \in Calls, c \in delivered \/ answers[c] > 0,
                      c \in queued'
               PROVE  FALSE
    BY <1>1 DEF IInv, FlagsMatchQueue
  <2>1. c \notin delivered' /\ c \in ToSet(delegated')
    BY <1>1 DEF IInv, FlagsMatchQueue
  <2>2. answers'[c] > 0 BY <2>1, <1>1, AnswersGrow
  <2>3. ~BeingAcknowledged(c)'
    BY <2>1, <1>1 DEF IInv, HolderOwns, BeingAcknowledged
  <2>4. c \in issued' BY <2>1, <1>1 DEF IInv, ParkedOnce
  <2>5. answers'[c] = 0 BY <1>1, <2>1, <2>3, <2>4 DEF IInv, CallbackAccounted
  <2> QED BY <2>2, <2>5
<1>2. IInv /\ IInv' /\ [Next]_vars =>
        [\A c \in Calls :
           c \in delivered \/ answers[c] > 0 => c \notin ToSet(queue')]_vars
  BY <1>1
<1> QED BY <1>2, Invariance, PTL DEF Spec, NeverShownAgain

------------------------------------------------------------------------------
(* DelegatedTools implements ToolCallbacks.                                    *)

StatusMap == [c \in Calls |-> Status(c)]

LEMMA StatusUnchanged ==
  ASSUME UNCHANGED <<answers, delivered, delegated, issued>>
  PROVE  UNCHANGED StatusMap
BY DEF StatusMap, Status

\* One callback's status changes and the others keep theirs: a step of ToolCallbacks.
LEMMA StatusMoves ==
  ASSUME NEW c \in Calls, \A d \in Calls \ {c} : Status(d)' = Status(d),
         \/ Status(c) = "none" /\ Status(c)' = "asked"
         \/ Status(c) = "asked" /\ Status(c)' \in {"parked", "answered"}
         \/ Status(c) = "shown" /\ Status(c)' = "answered"
         \/ /\ Status(c) = "parked" /\ Status(c)' = "shown"
            /\ Parallel \/ \A d \in Calls : Status(d) # "shown"
  PROVE  Promise!Next
PROOF
<1> DEFINE m == [d \in Calls |-> Status(d)]
<1>1. m' = [m EXCEPT ![c] = Status(c)'] OBVIOUS
<1>2. \A d \in Calls : m[d] = Status(d) OBVIOUS
<1>3. CASE Status(c) = "none" /\ Status(c)' = "asked"
  BY <1>1, <1>2, <1>3 DEF Promise!Next, Promise!Ask, Promise!Move
<1>4. CASE Status(c) = "asked" /\ Status(c)' = "parked"
  BY <1>1, <1>2, <1>4 DEF Promise!Next, Promise!Park, Promise!Move
<1>5. CASE Status(c) = "asked" /\ Status(c)' = "answered"
  BY <1>1, <1>2, <1>5 DEF Promise!Next, Promise!Refuse, Promise!Move
<1>6. CASE Status(c) = "shown" /\ Status(c)' = "answered"
  BY <1>1, <1>2, <1>6 DEF Promise!Next, Promise!Answer, Promise!Move
<1>7. CASE /\ Status(c) = "parked" /\ Status(c)' = "shown"
           /\ Parallel \/ \A d \in Calls : Status(d) # "shown"
  BY <1>1, <1>2, <1>7 DEF Promise!Next, Promise!Show, Promise!Move
<1> QED BY <1>3, <1>4, <1>5, <1>6, <1>7

LEMMA PromiseStep ==
  ASSUME IInv, [Next]_vars
  PROVE  Promise!Next \/ UNCHANGED StatusMap
PROOF
<1> USE DEF turn, server, reader, handler
<1>0. /\ answers \in [Calls -> Nat] /\ delivered \subseteq ToSet(delegated)
      /\ ToSet(delegated) \subseteq issued /\ issued \subseteq Calls
  BY DEF IInv, TypeOK, FlagsMatchQueue, ParkedOnce
<1>1. ASSUME NEW m \in Messages, AppServerSends(m)
      PROVE  Promise!Next \/ UNCHANGED StatusMap
  <2>1. CASE m \notin Calls
    <3>1. issued' = issued BY <1>1, <2>1 DEF AppServerSends
    <3> QED BY <1>1, <3>1, StatusUnchanged DEF AppServerSends
  <2>2. CASE m \in Calls
    <3>1. /\ m \notin issued /\ issued' = issued \cup {m} /\ answers' = answers
          /\ delegated' = delegated /\ delivered' = delivered
      BY <1>1, <2>2 DEF AppServerSends
    <3>2. answers[m] = 0 BY <2>2, <3>1 DEF IInv, ParkedOnce
    <3>3. Status(m) = "none" /\ Status(m)' = "asked"
      BY <1>0, <2>2, <3>1, <3>2 DEF Status
    <3>4. \A d \in Calls \ {m} : Status(d)' = Status(d)
      BY <3>1 DEF Status
    <3> QED BY <2>2, <3>3, <3>4, StatusMoves
  <2> QED BY <2>1, <2>2
<1>2. CASE ConnectionBreaks BY <1>2, StatusUnchanged DEF ConnectionBreaks
<1>3. CASE AddDelegatedTool
  <2>1. msg \in Calls BY <1>3 DEF AddDelegatedTool
  <2> PICK c \in Calls : c = msg BY <2>1
  <2>2. /\ answers[c] = 0 /\ c \in issued /\ c \notin ToSet(delegated)
        /\ delegated \in Seq(Calls) /\ delegated' = Append(delegated, c)
        /\ answers' = answers /\ delivered' = delivered /\ issued' = issued
    BY <1>3 DEF AddDelegatedTool, IInv, TypeOK, ParkedOnce, CallbackAccounted, InHand
  <2>3. ToSet(delegated') = ToSet(delegated) \cup {c} BY <2>2, AppendSet
  <2>4. Status(c) = "asked" /\ Status(c)' = "parked"
    BY <1>0, <2>2, <2>3 DEF Status
  <2>5. \A d \in Calls \ {c} : Status(d)' = Status(d) BY <2>2, <2>3 DEF Status
  <2> QED BY <2>4, <2>5, StatusMoves
<1>4. CASE AnswerRefused
  <2>1. msg \in Calls BY <1>4 DEF AnswerRefused, IInv, ParkedOnce
  <2> PICK c \in Calls : c = msg BY <2>1
  <2>2. /\ answers[c] = 0 /\ c \in issued /\ c \notin ToSet(delegated)
        /\ delegated' = delegated /\ delivered' = delivered /\ issued' = issued
        /\ answers' = IF up THEN [answers EXCEPT ![c] = @ + 1] ELSE answers
    BY <1>4 DEF AnswerRefused, IInv, TypeOK, ParkedOnce, CallbackAccounted, InHand
  <2>3. CASE ~up BY <2>2, <2>3, StatusUnchanged
  <2>4. CASE up
    <3>1. answers'[c] = 1 /\ \A d \in Calls \ {c} : answers'[d] = answers[d]
      BY <1>0, <2>2, <2>4
    <3>2. Status(c) = "asked" /\ Status(c)' = "answered"
      BY <1>0, <2>2, <3>1 DEF Status
    <3>3. \A d \in Calls \ {c} : Status(d)' = Status(d) BY <2>2, <3>1 DEF Status
    <3> QED BY <3>2, <3>3, StatusMoves
  <2> QED BY <2>3, <2>4
<1>5. CASE ReaderStep /\ ~AddDelegatedTool /\ ~AnswerRefused
  <2>1. UNCHANGED <<answers, delivered, delegated, issued>>
    BY <1>5 DEF ReaderStep, Lookup, ApplyText, RefuseDelegatedTool, ApplyCompleted,
       RemoveCompleted, FinishCompleted, FailConnection, FinishFailed
  <2> QED BY <2>1, StatusUnchanged
<1>6. ASSUME NEW s \in Streams, NEW reached \in BOOLEAN, RecvChunk(s, reached)
      PROVE  Promise!Next \/ UNCHANGED StatusMap
  <2> PICK c : c = Head(queue) OBVIOUS
  <2>1. /\ queue \in Seq(Chunks) /\ queue # <<>>
        /\ answers' = answers /\ delegated' = delegated /\ issued' = issued
        /\ delivered' = delivered \cup ({c} \cap ToSet(delegated))
    BY <1>6 DEF RecvChunk, IInv, TypeOK
  <2>2. c \in ToSet(queue) BY <2>1, TailSet
  <2>3. CASE c \notin ToSet(delegated)
    <3>1. delivered' = delivered BY <2>1, <2>3
    <3> QED BY <2>1, <3>1, StatusUnchanged
  <2>4. CASE c \in ToSet(delegated)
    <3>1. /\ c \in Calls /\ c \in issued /\ c \in queued /\ c \notin delivered
          /\ delivered' = delivered \cup {c}
      BY <1>0, <2>1, <2>2, <2>4 DEF IInv, FlagsMatchQueue
    <3>2. answers[c] = 0
      BY <2>4, <3>1 DEF IInv, CallbackAccounted, HolderOwns, BeingAcknowledged
    <3>3. Status(c) = "parked" /\ Status(c)' = "shown"
      BY <2>1, <2>4, <3>1, <3>2 DEF Status
    <3>4. \A d \in Calls \ {c} : Status(d)' = Status(d) BY <2>1, <3>1 DEF Status
    <3>5. ASSUME ~Parallel, NEW d \in Calls PROVE Status(d) # "shown"
      <4>1. d \notin delivered
        BY <3>1, <3>5 DEF IInv, NoStrandedCallback, FlagsMatchQueue
      <4> QED BY <4>1 DEF Status
    <3> QED BY <3>1, <3>3, <3>4, <3>5, StatusMoves
  <2> QED BY <2>3, <2>4
<1>7. ASSUME NEW s \in Streams, StreamStep(s)
      PROVE  Promise!Next \/ UNCHANGED StatusMap
  <2>1. CASE \E reached \in BOOLEAN : RecvChunk(s, reached) BY <2>1, <1>6
  <2>2. CASE RecvEmpty(s) \/ Woken(s) \/ ContextDone(s) \/ Close(s) \/ RemoveClosed(s)
    <3>1. UNCHANGED <<answers, delivered, delegated, issued>>
      BY <2>2 DEF RecvEmpty, Woken, ContextDone, Close, RemoveClosed
    <3> QED BY <3>1, StatusUnchanged
  <2> QED BY <1>7, <2>1, <2>2 DEF StreamStep
<1>8. ASSUME NEW s \in Streams, WriteResult(s)
      PROVE  Promise!Next \/ UNCHANGED StatusMap
  <2>1. delegated' = delegated /\ delivered' = delivered /\ issued' = issued
    BY <1>8 DEF WriteResult
  <2>2. CASE ~up
    <3>1. answers' = answers BY <1>8, <2>2 DEF WriteResult
    <3> QED BY <2>1, <3>1, StatusUnchanged
  <2>3. ASSUME NEW c \in todo, answers' = [answers EXCEPT ![c] = @ + 1]
        PROVE  Promise!Next
    <3>1. /\ c \in Calls /\ c \in ToSet(delegated) /\ c \in delivered /\ c \in issued
      BY <1>0, <1>8, <2>3 DEF IInv, TypeOK, HolderOwns, WriteResult
    <3>2. ~BeingAcknowledged(c)
      BY <1>8, StreamsAssumption
         DEF WriteResult, IInv, TypeOK, HolderOwns, BeingAcknowledged
    <3>3. answers[c] = 0
      BY <3>1, <3>2 DEF IInv, CallbackAccounted
    <3>4. answers'[c] = 1 /\ \A d \in Calls \ {c} : answers'[d] = answers[d]
      BY <1>0, <2>3, <3>1, <3>3
    <3>5. Status(c) = "shown" /\ Status(c)' = "answered"
      BY <2>1, <3>1, <3>3, <3>4 DEF Status
    <3>6. \A d \in Calls \ {c} : Status(d)' = Status(d) BY <2>1, <3>4 DEF Status
    <3> QED BY <3>1, <3>5, <3>6, StatusMoves
  <2> QED BY <1>8, <2>2, <2>3 DEF WriteResult
<1>9. ASSUME NEW s \in Streams, Acknowledge(s)
      PROVE  UNCHANGED StatusMap
  <2>1. cur \in ToSet(delegated) /\ cur \in Calls /\ cur \in issued /\ answers[cur] = 1
    BY <1>0, <1>9 DEF Acknowledge, IInv, HolderOwns, CallbackAccounted, BeingAcknowledged
  <2> PICK c \in Calls : c = cur BY <2>1
  <2> PICK n : n = Position(delegated, c) OBVIOUS
  <2>2. /\ answers' = answers /\ issued' = issued /\ delivered' = delivered \ {c}
        /\ delegated' = RemoveAt(delegated, n)
    BY <1>9, <2>1 DEF Acknowledge
  <2>3. n \in DOMAIN delegated /\ delegated[n] = c BY <2>1 DEF ToSet, Position
  <2>4. /\ delegated \in Seq(Calls)
        /\ \A i, j \in DOMAIN delegated : delegated[i] = delegated[j] => i = j
    BY DEF IInv, TypeOK, ParkedOnce
  <2>5. ToSet(delegated') = ToSet(delegated) \ {c}
    BY <2>2, <2>3, <2>4, RemoveSet
  <2>6. Status(c) = "answered" /\ Status(c)' = "answered"
    BY <2>1, <2>2 DEF Status
  <2>7. \A d \in Calls \ {c} : Status(d)' = Status(d) BY <2>2, <2>5 DEF Status
  <2> QED BY <2>6, <2>7 DEF StatusMap
<1>10. ASSUME NEW s \in Streams, ResumeStep(s)
       PROVE  Promise!Next \/ UNCHANGED StatusMap
  <2>1. CASE CheckAwaiting(s) \/ MatchResults(s)
    <3>1. UNCHANGED <<answers, delivered, delegated, issued>>
      BY <2>1 DEF CheckAwaiting, MatchResults
    <3> QED BY <3>1, StatusUnchanged
  <2> QED BY <1>8, <1>9, <1>10, <2>1 DEF ResumeStep
<1>11. CASE \E s \in Streams, R \in SUBSET seen : RequestArrives(s, R)
  BY <1>11, StatusUnchanged DEF RequestArrives
<1>12. CASE UNCHANGED vars BY <1>12, StatusUnchanged DEF vars
<1> QED BY <1>1, <1>2, <1>3, <1>4, <1>5, <1>7, <1>10, <1>11, <1>12 DEF Next

\* The turnState, its queue, flags, streams and requests implement the promise made
\* to the caller and App Server about each callback.
THEOREM Implementation == Spec => ImplementsToolCallbacks
PROOF
<1>1. Init => Promise!Init
  <2> SUFFICES ASSUME Init, NEW c \in Calls PROVE Status(c) = "none"
    BY DEF Promise!Init
  <2> QED BY DEF Init, Status, ToSet
<1>2. IInv /\ [Next]_vars => [Promise!Next]_StatusMap
  BY PromiseStep
<1>3. StatusMap = [c \in Calls |-> Status(c)] BY DEF StatusMap
<1> QED BY <1>1, <1>2, Invariance, PTL DEF Spec, ImplementsToolCallbacks, Promise!Spec, StatusMap
==============================================================================
