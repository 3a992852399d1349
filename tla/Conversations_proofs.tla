------------------------- MODULE Conversations_proofs -------------------------
(* Conversation checkpoints keep the history of their threads, for any number of  *)
(* requests in any environment; and the cache they are kept in forgets only what   *)
(* it must, for any bound, keys and values.                                        *)
EXTENDS ConversationCheckpoints, LruCache, SequenceTheorems, FiniteSetTheorems, TLAPS

USE RequestsAssumption

------------------------------------------------------------------------------
(* Sequences: what is appended, cut off, and kept.                             *)

\* A sequence with one more element.
LEMMA AppendFacts ==
  ASSUME NEW S, NEW q \in Seq(S), NEW e \in S
  PROVE  /\ Append(q, e) \in Seq(S) /\ Append(q, e) # <<>>
         /\ Len(q) \in Nat /\ DOMAIN q = 1 .. Len(q)
         /\ Len(Append(q, e)) = Len(q) + 1 /\ DOMAIN Append(q, e) = 1 .. Len(q) + 1
         /\ \A i \in 1 .. Len(q) : Append(q, e)[i] = q[i]
         /\ Append(q, e)[Len(q) + 1] = e
         /\ Last(Append(q, e)) = e
         /\ Front(Append(q, e)) = q
PROOF
<1>1. /\ Append(q, e) \in Seq(S) /\ Append(q, e) # <<>> /\ Len(Append(q, e)) = Len(q) + 1
      /\ \A i \in 1 .. Len(q) : Append(q, e)[i] = q[i]
      /\ Append(q, e)[Len(q) + 1] = e
  BY AppendProperties
<1>2. Len(q) \in Nat /\ DOMAIN q = 1 .. Len(q) OBVIOUS
<1>3. DOMAIN Append(q, e) = 1 .. Len(q) + 1 BY <1>1
<1>4. Last(Append(q, e)) = e BY <1>1 DEF Last
<1>5. Front(Append(q, e)) = q
  <2> DEFINE a == Append(q, e)
             f == SubSeq(a, 1, Len(q))
  <2>1. \A i \in 1 .. Len(q) : a[i] \in S BY <1>1, <1>2
  <2>2. f \in Seq(S) /\ Len(f) = Len(q) /\ \A i \in 1 .. Len(q) : f[i] = a[i]
    <3>1. 1 \in Int /\ Len(q) \in Int BY <1>2
    <3> HIDE DEF a
    <3>2. /\ f \in Seq(S) /\ Len(f) = IF 1 <= Len(q) THEN Len(q) - 1 + 1 ELSE 0
          /\ \A i \in 1 .. Len(q) - 1 + 1 : f[i] = a[1 + i - 1]
      BY <2>1, <3>1, SubSeqProperties
    <3> QED BY <3>2, <1>2
  <2>3. f = q
    <3> HIDE DEF f
    <3> QED BY <2>2, <1>1, <1>2, SeqEqual
  <2> QED BY <2>3, <1>1, <1>2 DEF Front
<1> QED BY <1>1, <1>2, <1>3, <1>4, <1>5

LEMMA AppendElements ==
  ASSUME NEW S, NEW q \in Seq(S), NEW e \in S
  PROVE  ToSet(Append(q, e)) = ToSet(q) \cup {e}
PROOF
<1> DEFINE a == Append(q, e)
<1>1. /\ DOMAIN q = 1 .. Len(q) /\ DOMAIN a = 1 .. Len(q) + 1 /\ Len(q) \in Nat
      /\ \A i \in 1 .. Len(q) : a[i] = q[i]
      /\ a[Len(q) + 1] = e
  BY AppendFacts
<1> HIDE DEF a
<1> QED BY <1>1 DEF ToSet

LEMMA OnceAppend ==
  ASSUME NEW S, NEW q \in Seq(S), NEW e \in S, Once(q), e \notin ToSet(q)
  PROVE  Once(Append(q, e))
PROOF
<1> DEFINE a == Append(q, e)
<1>1. /\ DOMAIN q = 1 .. Len(q) /\ DOMAIN a = 1 .. Len(q) + 1 /\ Len(q) \in Nat
      /\ \A i \in 1 .. Len(q) : a[i] = q[i]
      /\ a[Len(q) + 1] = e
  BY AppendFacts
<1> HIDE DEF a
<1>2. \A i \in 1 .. Len(q) : q[i] # e BY <1>1 DEF ToSet
<1> QED BY <1>1, <1>2 DEF Once

\* A sequence that ends with e is the rest with e appended.
LEMMA LastAppended ==
  ASSUME NEW S, NEW q \in Seq(S), q # <<>>
  PROVE  q = Append(Front(q), Last(q)) /\ Front(q) \in Seq(S) /\ Last(q) \in S
PROOF
<1>1. PICK s \in Seq(S), e \in S : q = Append(s, e) BY SequenceEmptyOrAppend
<1>2. Front(q) = s /\ Last(q) = e BY <1>1, AppendFacts
<1> QED BY <1>1, <1>2

\* A thread that takes one more turn keeps what it had, and that with the new turn.
LEMMA KeepsAppend ==
  ASSUME NEW S, NEW c \in Seq(S), NEW h \in Seq(S), NEW e \in S,
         Keeps(c, h), e \notin ToSet(c)
  PROVE  Keeps(Append(c, e), h) /\ Keeps(Append(c, e), Append(h, e))
PROOF
<1> DEFINE d == Append(c, e)
           g == Append(h, e)
<1>1. /\ DOMAIN c = 1 .. Len(c) /\ DOMAIN d = 1 .. Len(c) + 1 /\ Len(c) \in Nat
      /\ \A i \in 1 .. Len(c) : d[i] = c[i]
      /\ d[Len(c) + 1] = e
  BY AppendFacts
<1>2. /\ DOMAIN h = 1 .. Len(h) /\ DOMAIN g = 1 .. Len(h) + 1 /\ Len(h) \in Nat
      /\ \A i \in 1 .. Len(h) : g[i] = h[i]
      /\ g[Len(h) + 1] = e
  BY AppendFacts
<1> HIDE DEF d, g
<1>3. \A k \in 1 .. Len(c) : c[k] # e BY <1>1 DEF ToSet
<1>4. \A i \in 1 .. Len(h) : h[i] # e BY <1>1, <1>2, <1>3 DEF Keeps
<1>5. Keeps(d, h)
  <2>1. \A i \in DOMAIN h : \E k \in DOMAIN d : d[k] = h[i] BY <1>1, <1>2 DEF Keeps
  <2>2. ASSUME NEW i \in DOMAIN h, NEW j \in DOMAIN h, NEW k \in DOMAIN d, NEW l \in DOMAIN d,
               i < j, d[k] = h[i], d[l] = h[j]
        PROVE  k < l
    <3>1. k \in 1 .. Len(c) /\ l \in 1 .. Len(c) BY <2>2, <1>1, <1>2, <1>4
    <3> QED BY <2>2, <3>1, <1>1 DEF Keeps
  <2> QED BY <2>1, <2>2 DEF Keeps
<1>6. Keeps(d, g)
  <2>1. ASSUME NEW i \in DOMAIN g PROVE \E k \in DOMAIN d : d[k] = g[i]
    <3>1. CASE i = Len(h) + 1 BY <3>1, <1>1, <1>2
    <3>2. CASE i \in 1 .. Len(h) BY <3>2, <1>2, <1>5 DEF Keeps
    <3> QED BY <3>1, <3>2, <1>2
  <2>2. ASSUME NEW i \in DOMAIN g, NEW j \in DOMAIN g, NEW k \in DOMAIN d, NEW l \in DOMAIN d,
               i < j, d[k] = g[i], d[l] = g[j]
        PROVE  k < l
    <3>1. i \in 1 .. Len(h) /\ g[i] = h[i] BY <2>2, <1>2
    <3>2. k \in 1 .. Len(c) BY <2>2, <3>1, <1>1, <1>4
    <3>3. CASE j = Len(h) + 1
      <4>1. l = Len(c) + 1 BY <2>2, <3>3, <1>1, <1>2, <1>3
      <4> QED BY <3>2, <4>1, <1>1
    <3>4. CASE j \in 1 .. Len(h) BY <2>2, <3>1, <3>4, <1>2, <1>5 DEF Keeps
    <3> QED BY <3>3, <3>4, <1>2
  <2> QED BY <2>1, <2>2 DEF Keeps
<1> QED BY <1>5, <1>6 DEF d, g

LEMMA KeepsItself ==
  ASSUME NEW S, NEW c \in Seq(S), Once(c)
  PROVE  Keeps(c, c)
BY DEF Once, Keeps

\* The first k turns of a thread.
LEMMA CutFacts ==
  ASSUME NEW S, NEW c \in Seq(S), NEW k \in 0 .. Len(c)
  PROVE  /\ SubSeq(c, 1, k) \in Seq(S) /\ Len(SubSeq(c, 1, k)) = k
         /\ DOMAIN SubSeq(c, 1, k) = 1 .. k
         /\ \A i \in 1 .. k : SubSeq(c, 1, k)[i] = c[i]
PROOF
<1> DEFINE f == SubSeq(c, 1, k)
<1>1. DOMAIN c = 1 .. Len(c) /\ Len(c) \in Nat /\ k \in Int /\ 1 \in Int OBVIOUS
<1>2. \A i \in 1 .. k : c[i] \in S BY <1>1
<1>3. /\ f \in Seq(S) /\ Len(f) = IF 1 <= k THEN k - 1 + 1 ELSE 0
      /\ \A i \in 1 .. k - 1 + 1 : f[i] = c[1 + i - 1]
  BY <1>1, <1>2, SubSeqProperties
<1>4. f \in Seq(S) /\ Len(f) = k /\ \A i \in 1 .. k : f[i] = c[i] BY <1>1, <1>3
<1> HIDE DEF f
<1>5. DOMAIN f = 1 .. k BY <1>4
<1> QED BY <1>4, <1>5 DEF f

\* What thread/fork copies: the turns up to one that the thread has.
LEMMA ForkPoint ==
  ASSUME NEW S, NEW c \in Seq(S), NEW n \in ToSet(c),
         NEW k, k = CHOOSE i \in DOMAIN c : c[i] = n
  PROVE  k \in 1 .. Len(c) /\ c[k] = n
PROOF
<1>1. \E i \in DOMAIN c : c[i] = n BY DEF ToSet
<1>2. k \in DOMAIN c /\ c[k] = n BY <1>1
<1> QED BY <1>2

LEMMA ForkFacts ==
  ASSUME NEW S, NEW c \in Seq(S), NEW k \in 1 .. Len(c), Once(c)
  PROVE  /\ ToSet(SubSeq(c, 1, k)) \subseteq ToSet(c)
         /\ Once(SubSeq(c, 1, k))
PROOF
<1> DEFINE f == SubSeq(c, 1, k)
<1>1. DOMAIN c = 1 .. Len(c) /\ Len(c) \in Nat OBVIOUS
<1>2. DOMAIN f = 1 .. k /\ \A i \in 1 .. k : f[i] = c[i] BY <1>1, CutFacts
<1> HIDE DEF f
<1>3. ToSet(f) \subseteq ToSet(c) BY <1>1, <1>2 DEF ToSet
<1>4. Once(f) BY <1>1, <1>2 DEF Once
<1> QED BY <1>3, <1>4 DEF f

\* A thread that keeps a transcript has its last turn; a fork there keeps it too.
LEMMA KeepsLast ==
  ASSUME NEW S, NEW c \in Seq(S), NEW h \in Seq(S), Keeps(c, h), h # <<>>
  PROVE  Last(h) \in ToSet(c)
PROOF
<1>1. DOMAIN h = 1 .. Len(h) /\ Len(h) \in Nat \ {0} /\ Last(h) = h[Len(h)]
  BY DEF Last
<1> QED BY <1>1 DEF Keeps, ToSet

LEMMA KeepsFork ==
  ASSUME NEW S, NEW c \in Seq(S), NEW h \in Seq(S), Once(c), Keeps(c, h), h # <<>>,
         NEW k \in 1 .. Len(c), c[k] = Last(h)
  PROVE  Keeps(SubSeq(c, 1, k), h)
PROOF
<1> DEFINE f == SubSeq(c, 1, k)
<1>1. /\ DOMAIN h = 1 .. Len(h) /\ Len(h) \in Nat \ {0} /\ Last(h) = h[Len(h)]
      /\ DOMAIN c = 1 .. Len(c) /\ Len(c) \in Nat
  BY DEF Last
<1>3. k \in 1 .. Len(c) /\ c[k] = Last(h) OBVIOUS
<1>4. DOMAIN f = 1 .. k /\ \A i \in 1 .. k : f[i] = c[i] BY <1>1, CutFacts
<1> HIDE DEF f
<1> SUFFICES Keeps(f, h) BY DEF f
<1>5. ASSUME NEW i \in DOMAIN h PROVE \E m \in DOMAIN f : f[m] = h[i]
  <2>1. PICK m \in DOMAIN c : c[m] = h[i] BY DEF Keeps
  <2>2. m <= k
    <3>1. CASE i = Len(h) BY <2>1, <3>1, <1>1, <1>3 DEF Once
    <3>2. CASE i < Len(h)
      <4>1. m < k BY <2>1, <3>2, <1>1, <1>3 DEF Keeps
      <4> QED BY <4>1, <1>1, <1>3, <2>1
    <3> QED BY <3>1, <3>2, <1>1
  <2> QED BY <2>1, <2>2, <1>1, <1>3, <1>4
<1>6. ASSUME NEW i \in DOMAIN h, NEW j \in DOMAIN h, NEW m \in DOMAIN f, NEW l \in DOMAIN f,
             i < j, f[m] = h[i], f[l] = h[j]
      PROVE  m < l
  <2>1. m \in DOMAIN c /\ l \in DOMAIN c /\ c[m] = h[i] /\ c[l] = h[j]
    BY <1>1, <1>3, <1>4, <1>6
  <2> QED BY <1>6, <2>1 DEF Keeps
<1> QED BY <1>5, <1>6 DEF Keeps

\* A thread begins with a transcript.
LEMMA PrefixFacts ==
  ASSUME NEW S, NEW c \in Seq(S), NEW h \in Seq(S)
  PROVE  IsPrefix(h, c) <=> Len(h) <= Len(c) /\ \A i \in 1 .. Len(h) : h[i] = c[i]
PROOF
<1>1. /\ DOMAIN h = 1 .. Len(h) /\ Len(h) \in Nat /\ DOMAIN c = 1 .. Len(c) /\ Len(c) \in Nat
  OBVIOUS
<1>2. SubSeq(h, 1, Len(h)) = h BY SubSeqFull
<1>3. ASSUME Len(h) <= Len(c)
      PROVE  /\ SubSeq(c, 1, Len(h)) \in Seq(S) /\ Len(SubSeq(c, 1, Len(h))) = Len(h)
             /\ \A i \in 1 .. Len(h) : SubSeq(c, 1, Len(h))[i] = c[i]
  BY <1>1, <1>3, CutFacts
<1>4. ASSUME Len(h) <= Len(c), \A i \in 1 .. Len(h) : h[i] = c[i]
      PROVE  SubSeq(c, 1, Len(h)) = h
  <2> DEFINE f == SubSeq(c, 1, Len(h))
  <2>1. f \in Seq(S) /\ Len(f) = Len(h) /\ \A i \in 1 .. Len(h) : f[i] = h[i]
    BY <1>3, <1>4
  <2> HIDE DEF f
  <2>2. f = h BY <2>1, SeqEqual
  <2> QED BY <2>2 DEF f
<1>5. ASSUME Len(h) <= Len(c), SubSeq(c, 1, Len(h)) = h
      PROVE  \A i \in 1 .. Len(h) : h[i] = c[i]
  BY <1>3, <1>5
<1> QED BY <1>2, <1>4, <1>5 DEF IsPrefix

LEMMA PrefixAppend ==
  ASSUME NEW S, NEW c \in Seq(S), NEW h \in Seq(S), NEW e \in S, IsPrefix(h, c)
  PROVE  IsPrefix(h, Append(c, e))
PROOF
<1> DEFINE d == Append(c, e)
<1>1. /\ Len(h) \in Nat /\ Len(c) \in Nat /\ d \in Seq(S) /\ Len(d) = Len(c) + 1
      /\ \A i \in 1 .. Len(c) : d[i] = c[i]
  BY AppendFacts
<1>2. Len(h) <= Len(c) /\ \A i \in 1 .. Len(h) : h[i] = c[i] BY PrefixFacts
<1> HIDE DEF d
<1>3. Len(h) <= Len(d) /\ \A i \in 1 .. Len(h) : h[i] = d[i] BY <1>1, <1>2
<1>4. IsPrefix(h, d) BY <1>1, <1>3, PrefixFacts
<1> QED BY <1>4 DEF d

LEMMA PrefixItself ==
  ASSUME NEW S, NEW c \in Seq(S)
  PROVE  IsPrefix(c, c)
BY PrefixFacts

\* A fork at the last turn of a transcript that the thread begins with, is the transcript.
LEMMA PrefixFork ==
  ASSUME NEW S, NEW c \in Seq(S), NEW h \in Seq(S), Once(c), IsPrefix(h, c), h # <<>>,
         NEW k \in 1 .. Len(c), c[k] = Last(h)
  PROVE  SubSeq(c, 1, k) = h
PROOF
<1> DEFINE f == SubSeq(c, 1, k)
<1>1. Len(h) \in Nat \ {0} /\ Len(c) \in Nat /\ DOMAIN c = 1 .. Len(c) /\ Last(h) = h[Len(h)]
  BY DEF Last
<1>2. Len(h) <= Len(c) /\ \A i \in 1 .. Len(h) : h[i] = c[i] BY PrefixFacts
<1>3. Len(h) \in DOMAIN c /\ c[Len(h)] = c[k] BY <1>1, <1>2
<1>4. k = Len(h) BY <1>1, <1>3 DEF Once
<1>5. f \in Seq(S) /\ Len(f) = k /\ \A i \in 1 .. k : f[i] = c[i] BY <1>1, CutFacts
<1> HIDE DEF f
<1>6. f = h BY <1>2, <1>4, <1>5, SeqEqual
<1> QED BY <1>6 DEF f
------------------------------------------------------------------------------
(* The invariant at the start and the types.                                   *)

LEMMA InitInv == Init => IInv
PROOF
<1> SUFFICES ASSUME Init PROVE IInv OBVIOUS
<1> USE DEF Init, NoPoint, Checkpoint, OrNone, Points
<1>1. <<>> \in Seq(Requests) /\ DOMAIN <<>> = {} OBVIOUS
<1>2. TypeOK BY <1>1 DEF TypeOK
<1>3. InTurn BY DEF InTurn, Locked, Running
<1>4. Reserved BY DEF Reserved, InferredNeverRefused
<1>5. ThreadsKnown BY DEF ThreadsKnown, Running
<1>6. \A r \in Requests : sent[r] = <<>> /\ content[r] = <<>> OBVIOUS
<1>7. Transcripts BY <1>1, <1>6 DEF Transcripts, Once, ToSet
<1>8. HistoryKept BY DEF HistoryKept, Running, HistoryComplete
<1>9. CalmHistory BY DEF CalmHistory, Running
<1> QED BY <1>2, <1>3, <1>4, <1>5, <1>7, <1>8, <1>9 DEF IInv

\* What an arriving request extends is a transcript.
LEMMA ExtendsType ==
  ASSUME TypeOK, NEW r \in Requests, NEW n \in OrNone, Extends(r, n)
  PROVE  hist' \in [Requests -> Seq(Requests)]
PROOF
<1>1. hist \in [Requests -> Seq(Requests)] BY DEF TypeOK
<1>2. (IF n = None THEN <<>> ELSE hist[n]) \in Seq(Requests) BY <1>1 DEF OrNone
<1>3. Append(IF n = None THEN <<>> ELSE hist[n], r) \in Seq(Requests)
  BY <1>2, AppendProperties
<1> QED BY <1>1, <1>3 DEF Extends

LEMMA FoundType ==
  ASSUME TypeOK, NEW r \in Requests, NEW p \in Points, Found(r, p)
  PROVE  /\ point' \in [Requests -> Points]
         /\ pc' = [pc EXCEPT ![r] = IF p.thread = None THEN "prepare" ELSE "active"]
BY DEF TypeOK, Found

\* thread/fork finds the turn of the checkpoint in the thread.
LEMMA ForkFinds ==
  ASSUME IInv, NEW r \in Requests, pc[r] = "fork"
  PROVE  /\ point[r].thread \in Requests /\ point[r].node \in Requests
         /\ hist[point[r].node] \in Seq(Requests) \ {<<>>}
         /\ Last(hist[point[r].node]) = point[r].node
         /\ content[point[r].thread] \in Seq(Requests) /\ Once(content[point[r].thread])
         /\ Keeps(content[point[r].thread], hist[point[r].node])
         /\ \E k \in 1 .. Len(content[point[r].thread]) :
              /\ content[point[r].thread][k] = point[r].node
              /\ ForkedContent(point[r]) = SubSeq(content[point[r].thread], 1, k)
PROOF
<1>1. TypeOK /\ Transcripts /\ HistoryKept /\ ThreadsKnown BY DEF IInv
<1> DEFINE t == point[r].thread
           n == point[r].node
<1>2. t \in Requests
  BY <1>1 DEF ThreadsKnown, Known, TypeOK, Points, OrNone
<1>3. n \in Requests /\ pc[n] \in Started /\ Keeps(content[t], hist[n])
  BY <1>1 DEF HistoryKept, Holds
<1>4. hist[n] \in Seq(Requests) /\ hist[n] # <<>> /\ Last(hist[n]) = n
  BY <1>1, <1>3 DEF Transcripts, TypeOK, Started
<1>5. content[t] \in Seq(Requests) /\ Once(content[t])
  BY <1>1, <1>2 DEF Transcripts, TypeOK
<1>6. n \in ToSet(content[t]) BY <1>3, <1>4, <1>5, KeepsLast
<1> DEFINE k == CHOOSE i \in DOMAIN content[t] : content[t][i] = n
<1>7. k \in 1 .. Len(content[t]) /\ content[t][k] = n
  <2> HIDE DEF t, n
  <2> QED BY <1>5, <1>6, ForkPoint
<1>8. ForkedContent(point[r]) = SubSeq(content[t], 1, k) BY DEF ForkedContent
<1> HIDE DEF k
<1> QED BY <1>2, <1>3, <1>4, <1>5, <1>7, <1>8

\* A request that is about to run, or runs, has a thread.
LEMMA HasThread ==
  ASSUME TypeOK, ThreadsKnown, NEW r \in Requests, pc[r] = "start" \/ r \in Running
  PROVE  thread[r] \in Requests
BY DEF TypeOK, ThreadsKnown, OrNone

LEMMA ForkedType ==
  ASSUME IInv, NEW r \in Requests, pc[r] = "fork"
  PROVE  ForkedContent(point[r]) \in Seq(Requests)
PROOF
<1> DEFINE c == content[point[r].thread]
<1>1. /\ c \in Seq(Requests)
      /\ \E k \in 1 .. Len(c) : ForkedContent(point[r]) = SubSeq(c, 1, k)
  BY ForkFinds
<1> HIDE DEF c
<1>2. PICK k \in 1 .. Len(c) : ForkedContent(point[r]) = SubSeq(c, 1, k) BY <1>1
<1>3. SubSeq(c, 1, k) \in Seq(Requests)
  <2>1. k \in 0 .. Len(c) BY <1>1, <1>2
  <2> QED BY <1>1, <2>1, CutFacts
<1> QED BY <1>2, <1>3

LEMMA TypeStep == IInv /\ [Next]_vars => TypeOK'
PROOF
<1> SUFFICES ASSUME IInv, [Next]_vars PROVE TypeOK' OBVIOUS
<1>1. TypeOK BY DEF IInv
<1>2. CASE UNCHANGED vars BY <1>1, <1>2 DEF vars, cache, server, request, TypeOK
<1> SUFFICES ASSUME Next PROVE TypeOK' BY <1>2
<1>3. env' = env BY DEF Next
<1>4. ASSUME NEW t \in Requests, ThreadUnloaded(t) PROVE TypeOK'
  BY <1>1, <1>3, <1>4 DEF ThreadUnloaded, cache, request, TypeOK
<1>5. ASSUME NEW r \in Requests, InferFromHistory(r) PROVE TypeOK'
  <2>1. PICK n \in answered, works \in Works("lineage") :
          /\ sent' = [sent EXCEPT ![r] = Append(sent[n], n)]
          /\ Extends(r, n)
          /\ Found(r, IF works THEN Checkpoint(lineage[n], n) ELSE NoPoint)
    BY <1>5 DEF InferFromHistory
  <2>2. n \in Requests BY <1>1 DEF TypeOK
  <2>3. Append(sent[n], n) \in Seq(Requests)
    <3>1. sent[n] \in Seq(Requests) BY <1>1, <2>2 DEF TypeOK
    <3> QED BY <2>2, <3>1, AppendProperties
  <2>4. hist' \in [Requests -> Seq(Requests)]
    BY <1>1, <2>1, <2>2, ExtendsType DEF OrNone
  <2>5. (IF works THEN Checkpoint(lineage[n], n) ELSE NoPoint) \in Points
    BY <1>1, <2>2 DEF TypeOK, Checkpoint, NoPoint, Points, OrNone
  <2>6. point' \in [Requests -> Points] /\ \E at \in {"prepare", "active"} : pc' = [pc EXCEPT ![r] = at]
    BY <1>1, <2>1, <2>5, FoundType
  <2>7. sent' \in [Requests -> Seq(Requests)] BY <1>1, <2>1, <2>3 DEF TypeOK
  <2>8. mutex' = r /\ UNCHANGED <<cache, server, thread, answered>>
    BY <1>5 DEF InferFromHistory, Arrive
  <2> QED BY <1>1, <1>3, <2>4, <2>6, <2>7, <2>8 DEF cache, server, TypeOK, OrNone
<1>6. ASSUME NEW r \in Requests, InferFromScope(r) PROVE TypeOK'
  <2>1. PICK works \in Works("session") :
          /\ Extends(r, (IF works THEN session ELSE NoPoint).node)
          /\ Found(r, IF works THEN session ELSE NoPoint)
    BY <1>6 DEF InferFromScope
  <2>2. (IF works THEN session ELSE NoPoint) \in Points
    BY <1>1 DEF TypeOK, Checkpoint, NoPoint, Points, OrNone
  <2>3. (IF works THEN session ELSE NoPoint).node \in OrNone BY <2>2 DEF Points
  <2>4. hist' \in [Requests -> Seq(Requests)] BY <1>1, <2>1, <2>3, ExtendsType
  <2>5. point' \in [Requests -> Points] /\ \E at \in {"prepare", "active"} : pc' = [pc EXCEPT ![r] = at]
    BY <1>1, <2>1, <2>2, FoundType
  <2> QED BY <1>1, <1>3, <1>6, <2>4, <2>5
          DEF InferFromScope, Arrive, cache, server, TypeOK, OrNone
<1>7. ASSUME NEW r \in Requests, CheckActive(r) PROVE TypeOK'
  BY <1>1, <1>3, <1>7 DEF CheckActive, cache, server, TypeOK
<1>8. ASSUME NEW r \in Requests, CheckHead(r) PROVE TypeOK'
  <2>1. point[r].thread \in OrNone BY <1>1 DEF TypeOK, Points
  <2>2. /\ \E at \in {"fork", "prepare"} : pc' = [pc EXCEPT ![r] = at]
        /\ \E t \in OrNone : thread' = [thread EXCEPT ![r] = t]
    BY <1>8, <2>1 DEF CheckHead, OrNone
  <2> QED BY <1>1, <1>3, <1>8, <2>2 DEF CheckHead, cache, server, TypeOK
<1>9. ASSUME NEW r \in Requests, Fork(r) PROVE TypeOK'
  <2>1. CASE UNCHANGED <<content, loaded, thread>>
    BY <1>1, <1>3, <1>9, <2>1 DEF Fork, cache, TypeOK
  <2>2. CASE content' = [content EXCEPT ![r] = ForkedContent(point[r])]
    <3>1. ForkedContent(point[r]) \in Seq(Requests) BY <1>9, ForkedType DEF Fork
    <3>2. content' \in [Requests -> Seq(Requests)] BY <1>1, <2>2, <3>1 DEF TypeOK
    <3>3. /\ pc' = [pc EXCEPT ![r] = "prepare"]
          /\ loaded' \in {loaded, loaded \cup {r}}
          /\ \E t \in OrNone : thread' = [thread EXCEPT ![r] = t]
          /\ UNCHANGED <<cache, active, mutex, sent, hist, point, answered>>
      <4>1. thread[r] \in OrNone BY <1>1 DEF TypeOK
      <4>2. thread' = [thread EXCEPT ![r] = r] \/ thread' = [thread EXCEPT ![r] = thread[r]]
        BY <1>1, <1>9 DEF Fork, TypeOK
      <4> QED BY <1>9, <4>1, <4>2 DEF Fork, OrNone
    <3> QED BY <1>1, <1>3, <3>2, <3>3 DEF cache, TypeOK, OrNone
  <2> QED BY <1>9, <2>1, <2>2 DEF Fork
<1>10. ASSUME NEW r \in Requests, PrepareKnown(r) PROVE TypeOK'
  BY <1>1, <1>3, <1>10 DEF PrepareKnown, cache, TypeOK, OrNone
<1>11. ASSUME NEW r \in Requests, PrepareFresh(r) PROVE TypeOK'
  <2>1. sent[r] \in Seq(Requests) BY <1>1 DEF TypeOK
  <2>2. Append(sent[r], r) \in Seq(Requests) BY <2>1, AppendProperties
  <2>3. content' \in [Requests -> Seq(Requests)] /\ hist' \in [Requests -> Seq(Requests)]
    BY <1>1, <1>11, <2>1, <2>2 DEF PrepareFresh, TypeOK
  <2> QED BY <1>1, <1>3, <1>11, <2>3 DEF PrepareFresh, cache, TypeOK, OrNone
<1>12. ASSUME NEW r \in Requests, Start(r) PROVE TypeOK'
  <2>1. thread[r] \in Requests
    BY <1>12, HasThread DEF Start, IInv
  <2>2. content[thread[r]] \in Seq(Requests) BY <1>1, <2>1 DEF TypeOK
  <2>3. Append(content[thread[r]], r) \in Seq(Requests) BY <2>2, AppendProperties
  <2>4. content' \in [Requests -> Seq(Requests)] BY <1>1, <1>12, <2>3 DEF Start, TypeOK
  <2> QED BY <1>1, <1>3, <1>12, <2>4 DEF Start, cache, TypeOK, OrNone
<1>13. ASSUME NEW r \in Requests, GiveUp(r) PROVE TypeOK'
  BY <1>1, <1>3, <1>13 DEF GiveUp, cache, server, TypeOK, OrNone
<1>14. ASSUME NEW r \in Requests, TurnCompletes(r) \/ TurnAbandoned(r) PROVE TypeOK'
  <2>1. thread[r] \in Requests
    BY <1>14, HasThread DEF TurnCompletes, TurnAbandoned, IInv, Running
  <2> QED BY <1>1, <1>3, <1>14, <2>1 DEF TurnCompletes, TurnAbandoned, cache, TypeOK, OrNone
<1>15. ASSUME NEW r \in Requests, SaveLineage(r) PROVE TypeOK'
  BY <1>1, <1>3, <1>15 DEF SaveLineage, server, TypeOK, OrNone
<1>16. ASSUME NEW r \in Requests, SaveHead(r) PROVE TypeOK'
  <2>1. thread[r] \in Requests BY <1>16, HasThread DEF SaveHead, IInv, Running
  <2>2. head' = head \/ head' = [head EXCEPT ![thread[r]] = r]
    BY <1>16 DEF SaveHead, SetHead
  <2>3. head' \in [Requests -> OrNone] BY <1>1, <2>1, <2>2 DEF TypeOK, OrNone
  <2> QED BY <1>1, <1>3, <1>16, <2>3 DEF SaveHead, server, TypeOK
<1>17. ASSUME NEW r \in Requests, SaveSession(r) PROVE TypeOK'
  <2>1. Checkpoint(thread[r], r) \in Points BY <1>1 DEF TypeOK, Checkpoint, Points, OrNone
  <2> QED BY <1>1, <1>3, <1>17, <2>1 DEF SaveSession, server, TypeOK
<1> QED BY <1>4, <1>5, <1>6, <1>7, <1>8, <1>9, <1>10, <1>11, <1>12, <1>13, <1>14, <1>15,
           <1>16, <1>17 DEF Next, RequestStep
------------------------------------------------------------------------------
(* Requests, threads and reservations.                                         *)

\* What inference gives an arriving request: a checkpoint and the transcript it extends.
LEMMA Arrival ==
  ASSUME IInv, NEW r \in Requests, InferFromHistory(r) \/ InferFromScope(r)
  PROVE  \E p \in Points, n \in OrNone :
           /\ pc[r] = "idle" /\ mutex = None /\ mutex' = r
           /\ env.alone => Locked \cup Running = {}
           /\ pc' = [pc EXCEPT ![r] = IF p.thread = None THEN "prepare" ELSE "active"]
           /\ point' = [point EXCEPT ![r] = p]
           /\ hist' = [hist EXCEPT ![r] = Append(IF n = None THEN <<>> ELSE hist[n], r)]
           /\ sent' = sent \/ \E m \in answered : sent' = [sent EXCEPT ![r] = Append(sent[m], m)]
           /\ UNCHANGED <<lineage, head, session, content, loaded, active, thread, answered>>
           /\ p.thread # None => /\ n = p.node
                                 /\ (n \in answered /\ p.thread = lineage[n]) \/ p = session
PROOF
<1>1. TypeOK BY DEF IInv
<1>2. /\ pc[r] = "idle" /\ mutex = None /\ mutex' = r
      /\ env.alone => Locked \cup Running = {}
      /\ UNCHANGED <<lineage, head, session, content, loaded, active, thread, answered>>
  BY DEF InferFromHistory, InferFromScope, Arrive, MutexFree, Locked, Running, cache, server
<1>3. CASE InferFromHistory(r)
  <2>1. PICK n \in answered, works \in Works("lineage") :
          /\ sent' = [sent EXCEPT ![r] = Append(sent[n], n)]
          /\ Extends(r, n)
          /\ Found(r, IF works THEN Checkpoint(lineage[n], n) ELSE NoPoint)
    BY <1>3 DEF InferFromHistory
  <2> DEFINE p == IF works THEN Checkpoint(lineage[n], n) ELSE NoPoint
  <2>2. n \in OrNone /\ p \in Points
    BY <1>1 DEF TypeOK, Checkpoint, NoPoint, Points, OrNone
  <2>3. /\ pc' = [pc EXCEPT ![r] = IF p.thread = None THEN "prepare" ELSE "active"]
        /\ point' = [point EXCEPT ![r] = p]
        /\ hist' = [hist EXCEPT ![r] = Append(IF n = None THEN <<>> ELSE hist[n], r)]
    BY <2>1 DEF Found, Extends
  <2>4. p.thread # None => n = p.node /\ n \in answered /\ p.thread = lineage[n]
    BY DEF Checkpoint, NoPoint
  <2> HIDE DEF p
  <2> QED BY <1>2, <2>1, <2>2, <2>3, <2>4
<1>4. CASE InferFromScope(r)
  <2>1. PICK works \in Works("session") :
          /\ Extends(r, (IF works THEN session ELSE NoPoint).node)
          /\ Found(r, IF works THEN session ELSE NoPoint)
    BY <1>4 DEF InferFromScope
  <2> DEFINE p == IF works THEN session ELSE NoPoint
  <2>2. p \in Points BY <1>1 DEF TypeOK, Checkpoint, NoPoint, Points, OrNone
  <2>3. p.node \in OrNone BY <2>2 DEF Points
  <2>4. /\ pc' = [pc EXCEPT ![r] = IF p.thread = None THEN "prepare" ELSE "active"]
        /\ point' = [point EXCEPT ![r] = p]
        /\ hist' = [hist EXCEPT ![r] = Append(IF p.node = None THEN <<>> ELSE hist[p.node], r)]
    BY <2>1 DEF Found, Extends
  <2>5. p.thread # None => p = session BY DEF NoPoint, Checkpoint
  <2>6. sent' = sent BY <1>4 DEF InferFromScope
  <2> HIDE DEF p
  <2> QED BY <1>2, <2>2, <2>3, <2>4, <2>5, <2>6
<1> QED BY <1>3, <1>4

Links == InTurn /\ Reserved /\ ThreadsKnown

LEMMA ArriveLinks ==
  ASSUME IInv, NEW r \in Requests, InferFromHistory(r) \/ InferFromScope(r), env' = env
  PROVE  Links'
PROOF
<1> USE DEF IInv, TypeOK, OrNone
<1>1. PICK p \in Points, n \in OrNone :
           /\ pc[r] = "idle" /\ mutex = None /\ mutex' = r
           /\ env.alone => Locked \cup Running = {}
           /\ pc' = [pc EXCEPT ![r] = IF p.thread = None THEN "prepare" ELSE "active"]
           /\ point' = [point EXCEPT ![r] = p]
           /\ UNCHANGED <<lineage, head, session, content, loaded, active, thread, answered>>
           /\ p.thread # None => /\ n = p.node
                                 /\ (n \in answered /\ p.thread = lineage[n]) \/ p = session
  <2> HIDE DEF IInv, TypeOK, OrNone
  <2> QED BY Arrival
<1>2. \E at \in {"prepare", "active"} : pc' = [pc EXCEPT ![r] = at] BY <1>1
<1>3. InTurn' BY <1>1, <1>2 DEF InTurn, Locked, Running
<1>4. thread[r] = None BY <1>1 DEF ThreadsKnown
<1>5. Reserved' BY <1>1, <1>2, <1>4 DEF Reserved, InferredNeverRefused
<1>6. \A t : Known(t) => Known(t)' BY <1>1, <1>2 DEF Known, Started
<1>7. p.thread # None => Known(p.thread)
  BY <1>1 DEF ThreadsKnown
<1>8. pc'[r] = "active" => point'[r].thread = p.thread /\ p.thread # None BY <1>1
<1>9. ThreadsKnown'
  <2>1. ASSUME NEW q \in Requests, pc'[q] \in {"active", "head", "fork"} PROVE Known(point[q].thread)'
    <3>1. CASE q = r BY <3>1, <1>1, <1>6, <1>7, <1>8, <2>1
    <3>2. CASE q # r BY <3>2, <1>1, <1>6, <2>1 DEF ThreadsKnown
    <3> QED BY <3>1, <3>2
  <2> QED BY <1>1, <1>2, <1>4, <1>6, <2>1 DEF ThreadsKnown, Running, Started
<1> QED BY <1>3, <1>5, <1>9 DEF Links

\* A request that looks, forks or prepares holds conversationMu, and its own thread has
\* nobody else.
LEMMA OwnThreadUnknown ==
  ASSUME IInv, NEW r \in Requests, pc[r] \in {"idle", "active", "head", "fork", "prepare", "start"}
  PROVE  /\ ~Known(r)
         /\ \A q \in Requests : (pc[q] \in {"active", "head", "fork"} => point[q].thread # r)
                                /\ (q # r => thread[q] # r) /\ lineage[q] # r /\ head[r] = None
         /\ session.thread # r
         /\ r # thread[r] => active[r] = None
PROOF
<1>1. ~Known(r) BY DEF Known, Started
<1> QED BY <1>1 DEF IInv, ThreadsKnown, Reserved, TypeOK, OrNone

LEMMA LookLinks ==
  ASSUME IInv, NEW r \in Requests, CheckActive(r) \/ CheckHead(r), env' = env
  PROVE  Links'
PROOF
<1> USE DEF IInv, TypeOK, OrNone
<1>1. \A t : Known(t) /\ t # r => Known(t)' BY DEF CheckActive, CheckHead, Known, Started
<1>2. CASE CheckActive(r)
  <2>1. /\ pc[r] = "active" /\ \E at \in {"fork", "head"} : pc' = [pc EXCEPT ![r] = at]
        /\ pc'[r] = "head" => active[point[r].thread] = None
        /\ UNCHANGED <<cache, server, mutex, sent, hist, point, thread, answered>>
    BY <1>2 DEF CheckActive, Busy
  <2>2. InTurn' BY <2>1 DEF InTurn, Locked, Running
  <2>3. Reserved' BY <2>1 DEF Reserved, InferredNeverRefused, server
  <2>4. ThreadsKnown' BY <2>1, <1>1, OwnThreadUnknown DEF ThreadsKnown, Running, cache, Started
  <2> QED BY <2>2, <2>3, <2>4 DEF Links
<1>3. CASE CheckHead(r)
  <2>1. /\ pc[r] = "head"
        /\ UNCHANGED <<cache, server, mutex, sent, hist, point, answered>>
    BY <1>3 DEF CheckHead
  <2>2. PICK at \in {"fork", "prepare"}, t \in OrNone :
          /\ pc' = [pc EXCEPT ![r] = at] /\ thread' = [thread EXCEPT ![r] = t]
          /\ t = IF at = "fork" THEN None ELSE point[r].thread
    BY <1>3 DEF CheckHead, Points
  <2>3. /\ thread[r] = None /\ point[r].thread \in Requests /\ point[r].thread # r
        /\ active[point[r].thread] = None /\ Known(point[r].thread)
    BY <2>1, OwnThreadUnknown DEF ThreadsKnown, Reserved, Known
  <2>4. InTurn' BY <2>1, <2>2 DEF InTurn, Locked, Running
  <2>5. \A q \in Requests \ {r} : pc'[q] = pc[q] /\ thread'[q] = thread[q]
    BY <2>2
  <2>6. pc'[r] = at /\ thread'[r] = t BY <2>2
  <2>7. Reserved'
    <3>1. active' = active /\ point' = point BY <2>1 DEF server
    <3>2. \A q \in Requests : pc'[q] \in {"open", "head", "start"} => q # r BY <2>6
    <3>3. \A q \in Requests : pc'[q] = "prepare" /\ thread'[q] # None => active'[thread'[q]] = None
      BY <2>2, <2>3, <2>5, <2>6, <3>1 DEF Reserved
    <3>4. \A x \in Requests : active'[x] # None => active'[x] # r /\ pc'[active'[x]] = "open"
                                                  /\ thread'[active'[x]] = x
      BY <2>1, <2>5, <3>1 DEF Reserved
    <3>5. \A q \in Requests : pc'[q] = "open" => active'[thread'[q]] = q
      BY <2>5, <3>1, <3>2 DEF Reserved
    <3>6. \A q \in Requests : pc'[q] = "head" => active'[point'[q].thread] = None
      BY <2>5, <3>1, <3>2 DEF Reserved
    <3>7. \A q \in Requests : pc'[q] = "start" => active'[thread'[q]] = None
      BY <2>5, <3>1, <3>2 DEF Reserved, InferredNeverRefused
    <3> HIDE DEF IInv, TypeOK, OrNone
    <3> QED BY <3>3, <3>4, <3>5, <3>6, <3>7 DEF Reserved, InferredNeverRefused
  <2>8. ThreadsKnown'
    <3>1. \A x : Known(x) => Known(x)' BY <1>1, <2>1, <2>3, OwnThreadUnknown
    <3>2. UNCHANGED <<lineage, head, session, point>> BY <2>1 DEF cache
    <3>3. \A q \in Requests :
            /\ pc'[q] \in {"idle", "active", "head", "fork"} => thread'[q] = None
            /\ pc'[q] \in {"active", "head", "fork"} => Known(point[q].thread)
      BY <2>2, <2>3, <2>5, <2>6 DEF ThreadsKnown
    <3>4. \A q \in Requests : pc'[q] = "start" \/ q \in Running' => thread'[q] # None
      BY <2>5, <2>6 DEF ThreadsKnown, Running
    <3>5. \A q \in Requests : thread'[q] \notin {None, q} => Known(thread'[q])
      BY <2>2, <2>3, <2>5, <2>6 DEF ThreadsKnown
    <3>6. \A q \in Requests : head[q] # None => Known(q) /\ pc'[head[q]] \in Started
      BY <2>1, <2>5, <2>6 DEF ThreadsKnown, Started
    <3>7. /\ \A q \in Requests : lineage[q] # None => Known(lineage[q])
          /\ session.thread # None => Known(session.thread)
      BY DEF ThreadsKnown
    <3>8. \A q \in Requests : thread'[q] \notin {None, q} => Known(thread[q])'
      BY <3>1, <3>5 DEF Known
    <3>9. \A q \in Requests :
            /\ pc'[q] \in {"active", "head", "fork"} => Known(point[q].thread)'
            /\ lineage'[q] # None => Known(lineage[q])'
      BY <3>1, <3>2, <3>3, <3>7 DEF Known
    <3>10. session'.thread # None => Known(session.thread)'
      BY <3>1, <3>2, <3>7 DEF Known
    <3>11. \A q \in Requests : head'[q] # None => Known(q)' /\ pc'[head'[q]] \in Started
      BY <3>1, <3>2, <3>6
    <3> HIDE DEF IInv, TypeOK, OrNone
    <3> QED BY <3>3, <3>4, <3>8, <3>9, <3>10, <3>11 DEF ThreadsKnown
  <2> QED BY <2>4, <2>7, <2>8 DEF Links
<1> QED BY <1>2, <1>3

\* A request gets its thread: a fork, the one it found, or a new one.
LEMMA PrepareLinks ==
  ASSUME IInv, NEW r \in Requests, Fork(r) \/ PrepareKnown(r) \/ PrepareFresh(r), env' = env
  PROVE  Links'
PROOF
<1> USE DEF TypeOK, OrNone
<1>0. TypeOK /\ InTurn /\ Reserved /\ ThreadsKnown BY DEF IInv
<1>1. PICK at \in {"prepare", "start"}, t \in OrNone :
        /\ pc[r] \in {"fork", "prepare"} /\ pc' = [pc EXCEPT ![r] = at]
        /\ thread' = [thread EXCEPT ![r] = t] /\ t \in {thread[r], r}
        /\ at = "start" => t # None
        /\ UNCHANGED <<cache, active, mutex, point>>
  <2>1. CASE Fork(r)
    <3>1. /\ pc[r] = "fork" /\ pc' = [pc EXCEPT ![r] = "prepare"]
          /\ UNCHANGED <<cache, active, mutex, point>>
      BY <2>1 DEF Fork
    <3>2. thread' = [thread EXCEPT ![r] = thread[r]] \/ thread' = [thread EXCEPT ![r] = r]
      BY <2>1, <1>0 DEF Fork
    <3> QED BY <3>1, <3>2, <1>0
  <2>2. CASE PrepareKnown(r)
    <3>1. thread' = [thread EXCEPT ![r] = thread[r]] BY <2>2, <1>0 DEF PrepareKnown
    <3> QED BY <2>2, <3>1, <1>0 DEF PrepareKnown
  <2>3. CASE PrepareFresh(r) BY <2>3 DEF PrepareFresh
  <2> QED BY <2>1, <2>2, <2>3
<1>2. /\ pc'[r] = at /\ thread'[r] = t
      /\ \A q \in Requests \ {r} : pc'[q] = pc[q] /\ thread'[q] = thread[q]
  BY <1>0, <1>1
<1>3. active[r] = None /\ (t # None => active[t] = None)
  BY <1>0, <1>1, OwnThreadUnknown DEF Reserved, ThreadsKnown
<1>4. InTurn' BY <1>0, <1>1 DEF InTurn, Locked, Running
<1>5. Reserved'
  <2>1. active' = active /\ point' = point BY <1>1
  <2>2. \A q \in Requests : pc'[q] \in {"open", "head"} => q # r BY <1>1, <1>2
  <2>3. \A q \in Requests : pc'[q] \in {"prepare", "start"} /\ thread'[q] # None =>
          active'[thread'[q]] = None
    BY <1>0, <1>1, <1>2, <1>3, <2>1 DEF Reserved, InferredNeverRefused
  <2>4. \A x \in Requests : active'[x] # None => /\ pc'[active'[x]] = "open"
                                                /\ thread'[active'[x]] = x
    BY <1>0, <1>1, <1>2, <2>1 DEF Reserved
  <2>5. \A q \in Requests : pc'[q] = "open" => active'[thread'[q]] = q
    BY <1>0, <1>2, <2>1, <2>2 DEF Reserved
  <2>6. \A q \in Requests : pc'[q] = "head" => active'[point'[q].thread] = None
    BY <1>0, <1>2, <2>1, <2>2 DEF Reserved
  <2>7. \A q \in Requests : pc'[q] = "start" => thread'[q] # None
    BY <1>0, <1>1, <1>2 DEF ThreadsKnown
  <2> HIDE DEF TypeOK, OrNone
  <2> QED BY <2>3, <2>4, <2>5, <2>6, <2>7 DEF Reserved, InferredNeverRefused
<1>6. \A x : Known(x) => Known(x)' BY <1>1, <1>2 DEF Known, Started
<1>7. ThreadsKnown'
  <2>1. \A q \in Requests : pc'[q] \in {"idle", "active", "head", "fork"} \cup Started =>
          q # r /\ pc'[q] = pc[q] /\ thread'[q] = thread[q]
    BY <1>1, <1>2 DEF Started
  <2>2. \A q \in Requests : thread'[q] \notin {None, q} => Known(thread'[q])
    BY <1>0, <1>1, <1>2 DEF ThreadsKnown
  <2>3. \A q \in Requests : pc'[q] = "start" => thread'[q] # None
    BY <1>0, <1>1, <1>2 DEF ThreadsKnown
  <2>4. \A x \in Requests : pc[x] \in Started => pc'[x] \in Started
    BY <1>1, <1>2 DEF Started
  <2>5. UNCHANGED <<lineage, head, session, point>> BY <1>1 DEF cache
  <2> QED BY <1>0, <1>6, <2>1, <2>2, <2>3, <2>4, <2>5 DEF ThreadsKnown, Running, Started
<1> QED BY <1>4, <1>5, <1>7 DEF Links

LEMMA StartLinks ==
  ASSUME IInv, NEW r \in Requests, Start(r), env' = env
  PROVE  Links'
PROOF
<1> USE DEF TypeOK, OrNone
<1>0. TypeOK /\ InTurn /\ Reserved /\ ThreadsKnown BY DEF IInv
<1>1. /\ pc[r] = "start" /\ pc' = [pc EXCEPT ![r] = "open"] /\ mutex' = None
      /\ active' = [active EXCEPT ![thread[r]] = r]
      /\ active[thread[r]] = None
      /\ UNCHANGED <<cache, point, thread>>
  BY DEF Start
<1>2. thread[r] \in Requests BY <1>0, <1>1, HasThread
<1>3. \A q \in Requests : pc'[q] \in {"active", "head", "fork", "prepare", "start"} => FALSE
  BY <1>0, <1>1 DEF InTurn, Locked
<1>4. InTurn' BY <1>0, <1>1 DEF InTurn, Locked, Running
<1>5. Reserved'
  <2>1. \A q \in Requests : pc'[q] = "open" => active'[thread'[q]] = q
    <3>1. \A q \in Requests : q # r /\ pc'[q] = "open" =>
            pc[q] = "open" /\ thread[q] \in Requests /\ active[thread[q]] = q
      BY <1>0, <1>1, HasThread DEF Reserved, Running
    <3> QED BY <1>0, <1>1, <1>2, <3>1
  <2>2. \A x \in Requests : active'[x] # None => pc'[active'[x]] = "open" /\ thread'[active'[x]] = x
    BY <1>0, <1>1, <1>2 DEF Reserved
  <2> QED BY <1>3, <2>1, <2>2 DEF Reserved, InferredNeverRefused
<1>6. \A x : Known(x) => Known(x)' BY <1>0, <1>1 DEF Known, Started
<1>7. ThreadsKnown'
  <2>1. \A q \in Requests : pc[q] \in Started => pc'[q] \in Started
    BY <1>0, <1>1 DEF Started
  <2>2. \A q \in Requests : pc'[q] \in {"idle", "lineage", "saveHead", "session"} => pc[q] = pc'[q]
    BY <1>0, <1>1
  <2>3. UNCHANGED <<lineage, head, session, point, thread>> BY <1>1 DEF cache
  <2>4. \A q \in Requests : pc'[q] = "open" => q = r \/ pc[q] = "open" BY <1>0, <1>1
  <2> QED BY <1>0, <1>2, <1>3, <1>6, <2>1, <2>2, <2>3, <2>4 DEF ThreadsKnown, Running
<1> QED BY <1>4, <1>5, <1>7 DEF Links

LEMMA UnloadLinks ==
  ASSUME IInv, NEW t \in Requests, ThreadUnloaded(t), env' = env
  PROVE  Links'
BY DEF ThreadUnloaded, cache, request, IInv, Links, InTurn, Locked, Running, Reserved,
       InferredNeverRefused, ThreadsKnown, Known

\* A request ends: it gives up, or its turn completes or is abandoned.
LEMMA EndLinks ==
  ASSUME IInv, NEW r \in Requests, GiveUp(r) \/ TurnCompletes(r) \/ TurnAbandoned(r), env' = env
  PROVE  Links'
PROOF
<1> USE DEF TypeOK, OrNone
<1>0. TypeOK /\ InTurn /\ Reserved /\ ThreadsKnown BY DEF IInv
<1>1. CASE GiveUp(r)
  <2>1. /\ pc[r] \in {"prepare", "start"} /\ pc' = [pc EXCEPT ![r] = "done"] /\ mutex' = None
        /\ UNCHANGED <<cache, active, point, thread>>
    BY <1>1 DEF GiveUp, server
  <2>2. InTurn' BY <1>0, <2>1 DEF InTurn, Locked, Running
  <2>3. Reserved' BY <1>0, <2>1 DEF Reserved, InferredNeverRefused
  <2>4. \A x : Known(x) => Known(x)' BY <1>0, <2>1 DEF Known, Started
  <2>5. ThreadsKnown' BY <1>0, <2>1, <2>4 DEF ThreadsKnown, Running, cache, Started
  <2> QED BY <2>2, <2>3, <2>5 DEF Links
<1>2. CASE TurnCompletes(r) \/ TurnAbandoned(r)
  <2>1. PICK at \in {"lineage", "done"} :
          /\ pc[r] = "open" /\ pc' = [pc EXCEPT ![r] = at]
          /\ active' = [active EXCEPT ![thread[r]] = None]
          /\ UNCHANGED <<cache, mutex, point, thread>>
    BY <1>2 DEF TurnCompletes, TurnAbandoned
  <2>2. thread[r] \in Requests /\ active[thread[r]] = r
    BY <1>0, <2>1, HasThread DEF Running, Reserved
  <2>3. InTurn' BY <1>0, <2>1 DEF InTurn, Locked, Running
  <2>4. Reserved'
    <3>1. /\ pc'[r] = at /\ \A q \in Requests \ {r} : pc'[q] = pc[q]
          /\ active'[thread[r]] = None
          /\ \A x \in Requests \ {thread[r]} : active'[x] = active[x]
      BY <1>0, <2>1, <2>2
    <3>2. \A q \in Requests : pc'[q] = "open" => active'[thread'[q]] = q
      <4>1. \A q \in Requests : pc'[q] = "open" =>
              q # r /\ thread[q] \in Requests /\ active[thread[q]] = q
        BY <1>0, <2>1, <3>1, HasThread DEF Reserved, Running
      <4> QED BY <2>1, <2>2, <3>1, <4>1
    <3>3. \A x \in Requests : active'[x] # None => pc'[active'[x]] = "open" /\ thread'[active'[x]] = x
      BY <1>0, <2>1, <2>2, <3>1 DEF Reserved
    <3>4. \A q \in Requests : pc'[q] = "head" => active'[point'[q].thread] = None
      BY <1>0, <2>1, <3>1 DEF Reserved, ThreadsKnown, Known
    <3>5. \A q \in Requests : pc'[q] \in {"prepare", "start"} /\ thread'[q] # None =>
            active'[thread'[q]] = None
      BY <1>0, <2>1, <3>1 DEF Reserved, InferredNeverRefused
    <3>6. \A q \in Requests : pc'[q] = "start" => thread'[q] # None
      BY <1>0, <2>1, <3>1 DEF ThreadsKnown
    <3> HIDE DEF TypeOK, OrNone
    <3> QED BY <3>2, <3>3, <3>4, <3>5, <3>6 DEF Reserved, InferredNeverRefused
  <2>5. \A x : Known(x) => Known(x)' BY <1>0, <2>1 DEF Known, Started
  <2>6. ThreadsKnown' BY <1>0, <2>1, <2>2, <2>5 DEF ThreadsKnown, Running, cache, Started
  <2> QED BY <2>3, <2>4, <2>6 DEF Links
<1> QED BY <1>1, <1>2

\* The checkpoint is saved, entry by entry.
LEMMA SaveLinks ==
  ASSUME IInv, NEW r \in Requests, SaveLineage(r) \/ SaveHead(r) \/ SaveSession(r), env' = env
  PROVE  Links'
PROOF
<1> USE DEF TypeOK, OrNone
<1>0. TypeOK /\ InTurn /\ Reserved /\ ThreadsKnown BY DEF IInv
<1>1. PICK at \in {"saveHead", "session", "done"} :
        /\ pc[r] \in {"lineage", "saveHead", "session"} /\ pc' = [pc EXCEPT ![r] = at]
        /\ UNCHANGED <<active, mutex, point, thread>>
  BY DEF SaveLineage, SaveHead, SaveSession, server
<1>2. Known(thread[r]) /\ thread[r] \in Requests
  BY <1>0, <1>1, HasThread DEF ThreadsKnown, Running, Known, Started
<1>3. InTurn'
  <2>1. /\ pc'[r] \in {"saveHead", "session", "done"} /\ mutex' = mutex
        /\ \A q \in Requests \ {r} : pc'[q] = pc[q]
    BY <1>0, <1>1
  <2>2. Locked' = Locked BY <1>1, <2>1 DEF Locked
  <2>3. Running' \subseteq Running BY <1>1, <2>1 DEF Running
  <2> HIDE DEF TypeOK, OrNone
  <2> QED BY <1>0, <1>1, <2>1, <2>2, <2>3 DEF InTurn
<1>4. Reserved' BY <1>0, <1>1 DEF Reserved, InferredNeverRefused
<1>5. \A x : Known(x) => Known(x)' BY <1>0, <1>1 DEF Known, Started
<1>6. /\ \A n \in Requests : lineage'[n] \in {lineage[n], thread[r]}
      /\ \A t \in Requests : head'[t] = head[t] \/ (t = thread[r] /\ head'[t] = r)
      /\ session'.thread \in {session.thread, thread[r]}
  BY <1>0, <1>2 DEF SaveLineage, SaveHead, SetHead, SaveSession, server, Checkpoint
<1>7. /\ pc'[r] = at /\ \A q \in Requests \ {r} : pc'[q] = pc[q]
      /\ \A q \in Requests : pc[q] \in Started => pc'[q] \in Started
  BY <1>0, <1>1 DEF Started
<1>8. ThreadsKnown'
  <2>1. ASSUME NEW q \in Requests, head'[q] # None
        PROVE  Known(q)' /\ pc'[head'[q]] \in Started
    <3>1. CASE head'[q] = head[q]
      <4>1. Known(q) /\ head[q] \in Requests /\ pc[head[q]] \in Started
        BY <1>0, <2>1, <3>1 DEF ThreadsKnown
      <4> QED BY <3>1, <4>1, <1>5, <1>7
    <3>2. CASE q = thread[r] /\ head'[q] = r
      <4>1. pc'[r] \in Started BY <1>7 DEF Started
      <4> QED BY <3>2, <4>1, <1>2, <1>5
    <3> QED BY <1>6, <3>1, <3>2
  <2>2. \A q \in Requests : lineage'[q] # None => Known(lineage[q])'
    <3>1. \A q \in Requests : lineage'[q] # None => Known(lineage'[q])
      BY <1>0, <1>2, <1>6 DEF ThreadsKnown
    <3> QED BY <3>1, <1>5 DEF Known
  <2>3. session'.thread # None => Known(session.thread)'
    BY <1>0, <1>2, <1>5, <1>6 DEF ThreadsKnown, Known
  <2>4. \A q \in Requests :
          /\ pc'[q] \in {"idle", "active", "head", "fork", "start"} => q # r /\ pc[q] = pc'[q]
          /\ q \in Running' => q \in Running
    BY <1>0, <1>1, <1>7 DEF Running
  <2> QED BY <1>0, <1>1, <1>5, <2>1, <2>2, <2>3, <2>4 DEF ThreadsKnown, Running
<1> QED BY <1>3, <1>4, <1>8 DEF Links

LEMMA LinksStep == IInv /\ [Next]_vars => Links'
PROOF
<1> SUFFICES ASSUME IInv, [Next]_vars PROVE Links' OBVIOUS
<1>1. CASE UNCHANGED vars
  BY <1>1 DEF vars, cache, server, request, IInv, Links, InTurn, Locked, Running, Reserved,
              InferredNeverRefused, ThreadsKnown, Known
<1>2. CASE Next
  BY <1>2, ArriveLinks, LookLinks, PrepareLinks, StartLinks, UnloadLinks, EndLinks, SaveLinks
     DEF Next, RequestStep
<1> QED BY <1>1, <1>2
------------------------------------------------------------------------------
(* Transcripts.                                                                *)

\* A request changes what is its own; a thread is changed only by the request that
\* holds conversationMu.
LEMMA Frame ==
  ASSUME IInv, NEW r \in Requests, RequestStep(r)
  PROVE  /\ \A q \in Requests \ {r} :
              /\ pc'[q] = pc[q] /\ thread'[q] = thread[q] /\ point'[q] = point[q]
              /\ hist'[q] = hist[q] /\ sent'[q] = sent[q] /\ lineage'[q] = lineage[q]
         /\ pc[r] \notin {"fork", "prepare", "start"} => content' = content
         /\ pc[r] \in {"fork", "prepare"} => \A t \in Requests \ {r} : content'[t] = content[t]
         /\ pc[r] \in Started => pc'[r] \in Started
         /\ pc[r] # "idle" => pc'[r] # "idle"
         /\ pc[r] \notin {"idle", "prepare"} => hist' = hist
         /\ pc[r] # "idle" => sent' = sent
         /\ answered' \in {answered, answered \cup {r}}
         /\ answered' = answered \/ pc'[r] = "lineage"
PROOF
<1> USE DEF TypeOK, Started
<1>0. TypeOK BY DEF IInv
<1>1. CASE InferFromHistory(r) \/ InferFromScope(r)
  <2>1. PICK p \in Points, n \in OrNone :
           /\ pc[r] = "idle" /\ mutex = None /\ mutex' = r
           /\ env.alone => Locked \cup Running = {}
           /\ pc' = [pc EXCEPT ![r] = IF p.thread = None THEN "prepare" ELSE "active"]
           /\ point' = [point EXCEPT ![r] = p]
           /\ hist' = [hist EXCEPT ![r] = Append(IF n = None THEN <<>> ELSE hist[n], r)]
           /\ sent' = sent \/ \E m \in answered : sent' = [sent EXCEPT ![r] = Append(sent[m], m)]
           /\ UNCHANGED <<lineage, head, session, content, loaded, active, thread, answered>>
           /\ p.thread # None => /\ n = p.node
                                 /\ (n \in answered /\ p.thread = lineage[n]) \/ p = session
    <3> HIDE DEF TypeOK, Started
    <3> QED BY <1>1, Arrival
  <2> QED BY <1>0, <2>1
<1>2. CASE CheckActive(r) BY <1>0, <1>2 DEF CheckActive, cache, server
<1>3. CASE CheckHead(r) BY <1>0, <1>3 DEF CheckHead, cache, server
<1>4. CASE Fork(r) BY <1>0, <1>4 DEF Fork, cache
<1>5. CASE PrepareKnown(r) BY <1>0, <1>5 DEF PrepareKnown, cache
<1>6. CASE PrepareFresh(r) BY <1>0, <1>6 DEF PrepareFresh, cache
<1>7. CASE Start(r) BY <1>0, <1>7 DEF Start, cache
<1>8. CASE GiveUp(r) BY <1>0, <1>8 DEF GiveUp, cache, server
<1>9. CASE TurnCompletes(r) \/ TurnAbandoned(r)
  BY <1>0, <1>9 DEF TurnCompletes, TurnAbandoned, cache
<1>10. CASE SaveLineage(r) BY <1>0, <1>10 DEF SaveLineage, server
<1>11. CASE SaveHead(r) BY <1>0, <1>11 DEF SaveHead, server
<1>12. CASE SaveSession(r) BY <1>0, <1>12 DEF SaveSession, server, cache
<1> QED BY <1>1, <1>2, <1>3, <1>4, <1>5, <1>6, <1>7, <1>8, <1>9, <1>10, <1>11, <1>12
        DEF RequestStep

\* A request that starts is not yet in any thread.
LEMMA StartIsNew ==
  ASSUME IInv, NEW r \in Requests, Start(r)
  PROVE  /\ thread[r] \in Requests
         /\ content[thread[r]] \in Seq(Requests) /\ Once(content[thread[r]])
         /\ r \notin ToSet(content[thread[r]])
         /\ content'[thread[r]] = Append(content[thread[r]], r)
         /\ \A t \in Requests \ {thread[r]} : content'[t] = content[t]
PROOF
<1>1. TypeOK /\ ThreadsKnown /\ Transcripts BY DEF IInv
<1>2. thread[r] \in Requests BY <1>1, HasThread DEF Start
<1>3. content[thread[r]] \in Seq(Requests) BY <1>1, <1>2 DEF TypeOK
<1>4. Once(content[thread[r]]) /\ r \notin ToSet(content[thread[r]])
  BY <1>1, <1>2 DEF Transcripts, Start, Started
<1>5. content' = [content EXCEPT ![thread[r]] = Append(content[thread[r]], r)] BY DEF Start
<1> QED BY <1>1, <1>2, <1>3, <1>4, <1>5 DEF TypeOK

\* What threads and transcripts become, once others know of them.
LEMMA Growth ==
  ASSUME IInv, NEW r \in Requests, RequestStep(r), NEW t, NEW n \in Requests,
         Known(t), pc[n] \in Started
  PROVE  /\ hist[n] \in Seq(Requests) /\ hist'[n] = hist[n] /\ pc'[n] \in Started
         /\ Known(t)' /\ t \in Requests /\ content[t] \in Seq(Requests) /\ Once(content[t])
         /\ \/ content'[t] = content[t]
            \/ Start(r) /\ t = thread[r] /\ r \notin ToSet(content[t])
               /\ content'[t] = Append(content[t], r)
PROOF
<1>1. TypeOK /\ Transcripts BY DEF IInv
<1>2. t \in Requests /\ content[t] \in Seq(Requests) /\ Once(content[t])
  BY <1>1 DEF Known, Transcripts, TypeOK
<1>3. hist'[n] = hist[n] /\ pc'[n] \in Started /\ hist[n] \in Seq(Requests)
  BY <1>1, Frame DEF Started, TypeOK
<1>4. thread'[t] = t /\ pc'[t] \in Started
  <2>1. CASE t # r BY <2>1, <1>2, Frame DEF Known
  <2>2. CASE t = r
    <3>1. pc[r] \in Started BY <2>2 DEF Known
    <3>2. thread'[r] = thread[r]
      BY <3>1 DEF RequestStep, InferFromHistory, InferFromScope, Arrive, CheckActive, CheckHead,
                  Fork, PrepareKnown, PrepareFresh, Start, GiveUp, TurnCompletes, TurnAbandoned,
                  SaveLineage, SaveHead, SaveSession, Started
    <3> QED BY <2>2, <3>1, <3>2, Frame DEF Known
  <2> QED BY <2>1, <2>2
<1>5. CASE pc[r] = "start"
  <2>1. Start(r) \/ content' = content
    BY <1>5 DEF RequestStep, InferFromHistory, InferFromScope, Arrive, CheckActive, CheckHead,
                Fork, PrepareKnown, PrepareFresh, GiveUp, server, TurnCompletes, TurnAbandoned,
                SaveLineage, SaveHead, SaveSession
  <2> QED BY <1>2, <1>3, <1>4, <2>1, StartIsNew DEF Known
<1>6. CASE pc[r] # "start"
  <2>1. content'[t] = content[t]
    <3>1. pc[r] \in {"fork", "prepare"} => t # r BY DEF Known, Started
    <3> QED BY <1>2, <1>6, <3>1, Frame
  <2> QED BY <1>2, <1>3, <1>4, <2>1 DEF Known
<1> QED BY <1>5, <1>6

LEMMA TranscriptsStep == IInv /\ [Next]_vars => Transcripts'
PROOF
<1> SUFFICES ASSUME IInv, [Next]_vars PROVE Transcripts' OBVIOUS
<1>1. TypeOK /\ Transcripts BY DEF IInv
<1>2. ASSUME UNCHANGED <<pc, sent, hist, content, answered>> PROVE Transcripts'
  BY <1>1, <1>2 DEF Transcripts, Once, ToSet
<1>3. CASE UNCHANGED vars BY <1>2, <1>3 DEF vars, server, request
<1>4. ASSUME NEW t \in Requests, ThreadUnloaded(t) PROVE Transcripts'
  BY <1>2, <1>4 DEF ThreadUnloaded, request
<1>5. ASSUME NEW r \in Requests, RequestStep(r) PROVE Transcripts'
  <2>1. \A q \in Requests : pc[q] \in Started => pc'[q] \in Started BY <1>5, Frame
  <2>2. \A q \in answered' : pc'[q] \in Started
    <3>1. /\ answered' = answered \/ answered' = answered \cup {r}
          /\ answered' = answered \/ pc'[r] = "lineage"
      BY <1>5, Frame
    <3>2. \A q \in answered : pc'[q] \in Started BY <1>1, <2>1 DEF Transcripts, TypeOK
    <3> QED BY <3>1, <3>2 DEF Started
  <2>3. answered \subseteq answered' /\ (r \in answered' => r \in answered \/ pc'[r] = "lineage")
    BY <1>5, Frame
  \* The transcripts that requests carry.
  <2>4. ASSUME NEW q \in Requests PROVE Once(sent[q])' /\ ToSet(sent[q])' \subseteq answered' \ {q}
    <3>1. CASE sent' = sent
      BY <1>1, <2>3, <3>1 DEF Transcripts, Once, ToSet
    <3>2. CASE q # r
      <4>1. sent'[q] = sent[q] BY <1>5, <3>2, Frame
      <4> QED BY <1>1, <2>3, <4>1 DEF Transcripts, Once, ToSet
    <3>3. CASE q = r /\ sent' # sent
      <4>1. InferFromHistory(r) \/ InferFromScope(r)
        <5>1. pc[r] = "idle" BY <1>5, <3>3, Frame
        <5> QED BY <1>5, <5>1 DEF RequestStep, CheckActive, CheckHead, Fork, PrepareKnown,
                  PrepareFresh, Start, GiveUp, TurnCompletes, TurnAbandoned, SaveLineage,
                  SaveHead, SaveSession
      <4>2. pc[r] = "idle" /\ answered' = answered
        BY <4>1 DEF InferFromHistory, InferFromScope, Arrive
      <4>3. PICK m \in answered : sent' = [sent EXCEPT ![r] = Append(sent[m], m)]
        BY <4>1, <3>3, Arrival
      <4>4. m \in Requests /\ sent[m] \in Seq(Requests) /\ sent'[r] = Append(sent[m], m)
        BY <1>1, <4>3 DEF TypeOK
      <4>5. r \notin answered BY <1>1, <4>2 DEF Transcripts, Started
      <4>6. Once(sent[m]) /\ ToSet(sent[m]) \subseteq answered \ {m} BY <1>1, <4>4 DEF Transcripts
      <4>7. Once(Append(sent[m], m)) BY <4>4, <4>6, OnceAppend
      <4>8. ToSet(Append(sent[m], m)) \subseteq answered \ {r}
        BY <4>3, <4>4, <4>5, <4>6, AppendElements
      <4>9. Once(sent'[r]) /\ ToSet(sent'[r]) \subseteq answered' \ {r}
        BY <4>2, <4>4, <4>7, <4>8
      <4> QED BY <3>3, <4>9 DEF Once, ToSet
    <3> QED BY <3>1, <3>2, <3>3
  \* The transcripts they extend.
  <2>5. ASSUME NEW q \in Requests, pc'[q] # "idle" PROVE hist'[q] # <<>> /\ Last(hist'[q]) = q
    <3>1. CASE q # r BY <1>1, <1>5, <2>5, <3>1, Frame DEF Transcripts
    <3>2. CASE q = r /\ pc[r] \notin {"idle", "prepare"}
      BY <1>1, <1>5, <2>5, <3>2, Frame DEF Transcripts
    <3>3. CASE q = r /\ pc[r] = "idle"
      <4>1. InferFromHistory(r) \/ InferFromScope(r)
        BY <1>5, <3>3 DEF RequestStep, CheckActive, CheckHead, Fork, PrepareKnown,
                  PrepareFresh, Start, GiveUp, TurnCompletes, TurnAbandoned, SaveLineage,
                  SaveHead, SaveSession
      <4>2. PICK n \in OrNone :
              hist' = [hist EXCEPT ![r] = Append(IF n = None THEN <<>> ELSE hist[n], r)]
        BY <4>1, Arrival
      <4> DEFINE h == IF n = None THEN <<>> ELSE hist[n]
      <4>3. h \in Seq(Requests) BY <1>1 DEF TypeOK, OrNone
      <4>4. hist'[r] = Append(h, r) BY <1>1, <4>2 DEF TypeOK
      <4> HIDE DEF h
      <4> QED BY <3>3, <4>3, <4>4, AppendFacts
    <3>4. CASE q = r /\ pc[r] = "prepare"
      <4>1. CASE hist' = hist BY <1>1, <3>4, <4>1 DEF Transcripts
      <4>2. CASE hist' # hist
        <5>1. hist' = [hist EXCEPT ![r] = Append(sent[r], r)]
          BY <1>5, <3>4, <4>2 DEF RequestStep, InferFromHistory, InferFromScope, Arrive,
             CheckActive, CheckHead, Fork, PrepareKnown, PrepareFresh, Start, GiveUp,
             TurnCompletes, TurnAbandoned, SaveLineage, SaveHead, SaveSession
        <5>2. hist'[r] = Append(sent[r], r) /\ sent[r] \in Seq(Requests) BY <1>1, <5>1 DEF TypeOK
        <5> QED BY <3>4, <5>2, AppendFacts
      <4> QED BY <4>1, <4>2
    <3> QED BY <3>1, <3>2, <3>3, <3>4
  \* The turns of threads.
  <2>6. ASSUME NEW t \in Requests
        PROVE  Once(content'[t]) /\ \A q \in ToSet(content'[t]) : pc'[q] \in Started
    <3>0. /\ content[t] \in Seq(Requests) /\ Once(content[t])
          /\ \A q \in ToSet(content[t]) : q \in Requests /\ pc'[q] \in Started
      <4>1. content[t] \in Seq(Requests) BY <1>1 DEF TypeOK
      <4>2. ToSet(content[t]) \subseteq Requests BY <4>1 DEF ToSet
      <4> QED BY <1>1, <2>1, <4>1, <4>2 DEF Transcripts
    <3>1. CASE content'[t] = content[t] BY <3>0, <3>1
    <3>2. CASE Start(r)
      <4>1. pc'[r] \in Started BY <1>1, <3>2 DEF Start, Started, TypeOK
      <4>2. CASE t = thread[r]
        <5>1. content'[t] = Append(content[t], r) /\ r \notin ToSet(content[t])
          BY <3>2, <4>2, StartIsNew
        <5>2. Once(Append(content[t], r)) BY <3>0, <5>1, OnceAppend
        <5>3. ToSet(Append(content[t], r)) = ToSet(content[t]) \cup {r}
          BY <3>0, AppendElements
        <5> QED BY <3>0, <4>1, <5>1, <5>2, <5>3
      <4>3. CASE t # thread[r] BY <3>1, <3>2, <4>3, StartIsNew
      <4> QED BY <4>2, <4>3
    <3>3. CASE ~Start(r) /\ content'[t] # content[t]
      <4>1. t = r /\ (Fork(r) \/ PrepareFresh(r))
        <5>1. pc[r] \in {"fork", "prepare", "start"} BY <1>5, <3>3, Frame
        <5>2. Fork(r) \/ PrepareFresh(r)
          BY <1>5, <3>3, <5>1 DEF RequestStep, InferFromHistory, InferFromScope, Arrive,
             CheckActive, CheckHead, PrepareKnown, GiveUp, server,
             TurnCompletes, TurnAbandoned, SaveLineage, SaveHead, SaveSession
        <5>3. pc[r] \in {"fork", "prepare"} BY <5>2 DEF Fork, PrepareFresh
        <5> QED BY <1>5, <3>3, <5>2, <5>3, Frame
      <4>2. CASE Fork(r)
        <5>1. pc[r] = "fork" /\ content'[r] = ForkedContent(point[r])
          BY <1>1, <3>3, <4>1, <4>2 DEF Fork, TypeOK
        <5> DEFINE c == content[point[r].thread]
        <5>2. /\ c \in Seq(Requests) /\ Once(c) /\ point[r].thread \in Requests
              /\ \E k \in 1 .. Len(c) : ForkedContent(point[r]) = SubSeq(c, 1, k)
          BY <5>1, ForkFinds
        <5>3. ToSet(c) \subseteq Requests /\ \A q \in ToSet(c) : pc[q] \in Started
          <6>1. \A q \in ToSet(c) : pc[q] \in Started BY <1>1, <5>2 DEF Transcripts
          <6>2. ToSet(c) \subseteq Requests BY <5>2 DEF ToSet
          <6> QED BY <6>1, <6>2
        <5> HIDE DEF c
        <5>4. Once(content'[r]) /\ ToSet(content'[r]) \subseteq ToSet(c) BY <5>1, <5>2, ForkFacts
        <5> QED BY <2>1, <4>1, <5>3, <5>4
      <4>3. CASE PrepareFresh(r)
        <5>1. content'[r] = sent[r] BY <1>1, <4>3 DEF PrepareFresh, TypeOK
        <5>2. Once(sent[r]) /\ \A q \in ToSet(sent[r]) : q \in Requests /\ pc[q] \in Started
          BY <1>1 DEF Transcripts, TypeOK
        <5> QED BY <2>1, <4>1, <5>1, <5>2
      <4> QED BY <4>1, <4>2, <4>3
    <3> QED BY <3>1, <3>2, <3>3
  <2> QED BY <2>2, <2>4, <2>5, <2>6 DEF Transcripts
<1> QED BY <1>3, <1>4, <1>5 DEF Next
------------------------------------------------------------------------------
(* Histories.                                                                  *)

\* What a thread keeps of a transcript, it keeps for good.
LEMMA KeptStays ==
  ASSUME IInv, NEW r \in Requests, RequestStep(r), NEW t, NEW n \in Requests,
         Known(t), pc[n] \in Started, Keeps(content[t], hist[n])
  PROVE  pc'[n] \in Started /\ hist'[n] = hist[n] /\ Keeps(content'[t], hist'[n])
PROOF
<1>1. /\ hist[n] \in Seq(Requests) /\ hist'[n] = hist[n] /\ pc'[n] \in Started
      /\ content[t] \in Seq(Requests)
      /\ \/ content'[t] = content[t]
         \/ r \notin ToSet(content[t]) /\ content'[t] = Append(content[t], r)
  BY Growth
<1> QED BY <1>1, KeepsAppend

\* A thread that a request runs on is known by then.
LEMMA RunsOnKnown ==
  ASSUME IInv, NEW q \in Requests, q \in Running
  PROVE  Known(thread[q]) /\ pc[q] \in Started
PROOF
<1>1. pc[q] \in Started BY DEF Running, Started
<1>2. thread[q] \in Requests BY HasThread DEF IInv
<1>3. CASE thread[q] = q BY <1>1, <1>3 DEF Known
<1>4. CASE thread[q] # q
  <2>1. thread[q] \notin {None, q} BY <1>2, <1>4
  <2> QED BY <1>1, <2>1 DEF IInv, ThreadsKnown
<1> QED BY <1>1, <1>3, <1>4

\* While a request holds conversationMu, the others leave its thread alone.
LEMMA LockedAlone ==
  ASSUME IInv, NEW r \in Requests, RequestStep(r), NEW q \in Locked, q # r
  PROVE  content' = content /\ r \notin Locked
PROOF
<1>1. r \notin Locked BY DEF IInv, InTurn
<1> QED BY <1>1, Frame DEF Locked

LEMMA HistoryStep == IInv /\ [Next]_vars => HistoryKept'
PROOF
<1> SUFFICES ASSUME IInv, [Next]_vars PROVE HistoryKept' OBVIOUS
<1>1. TypeOK /\ InTurn /\ ThreadsKnown /\ Transcripts /\ HistoryKept /\ HistoryComplete
  BY DEF IInv, HistoryKept
<1>2. ASSUME UNCHANGED <<pc, thread, point, hist, content, lineage, session>> PROVE HistoryKept'
  BY <1>1, <1>2 DEF HistoryKept, HistoryComplete, Running, Holds
<1>3. CASE UNCHANGED vars BY <1>2, <1>3 DEF vars, server, request, cache
<1>4. ASSUME NEW t \in Requests, ThreadUnloaded(t) PROVE HistoryKept'
  BY <1>2, <1>4 DEF ThreadUnloaded, request, cache
<1>5. ASSUME NEW r \in Requests, RequestStep(r) PROVE HistoryKept'
  \* Requests that have a checkpoint.
  <2>1. ASSUME NEW q \in Requests, pc'[q] \in {"active", "head", "fork"}
        PROVE  /\ point'[q].node \in Requests /\ pc'[point'[q].node] \in Started
               /\ Front(hist'[q]) = hist'[point'[q].node]
               /\ Keeps(content'[point'[q].thread], hist'[point'[q].node])
    <3>1. CASE pc[q] \in {"active", "head", "fork"} /\ point'[q] = point[q] /\ hist'[q] = hist[q]
      <4>1. /\ point[q].node \in Requests /\ pc[point[q].node] \in Started
            /\ Front(hist[q]) = hist[point[q].node]
            /\ Keeps(content[point[q].thread], hist[point[q].node])
            /\ Known(point[q].thread)
        BY <1>1, <3>1 DEF HistoryKept, ThreadsKnown, Holds
      <4>2. /\ pc'[point[q].node] \in Started /\ hist'[point[q].node] = hist[point[q].node]
            /\ Keeps(content'[point[q].thread], hist'[point[q].node])
        BY <1>5, <4>1, KeptStays
      <4> QED BY <3>1, <4>1, <4>2
    <3>2. CASE InferFromHistory(r) \/ InferFromScope(r)
      <4>1. PICK p \in Points, n \in OrNone :
               /\ pc[r] = "idle"
               /\ pc' = [pc EXCEPT ![r] = IF p.thread = None THEN "prepare" ELSE "active"]
               /\ point' = [point EXCEPT ![r] = p]
               /\ hist' = [hist EXCEPT ![r] = Append(IF n = None THEN <<>> ELSE hist[n], r)]
               /\ UNCHANGED <<lineage, session, content, answered>>
               /\ p.thread # None => /\ n = p.node
                                     /\ (n \in answered /\ p.thread = lineage[n]) \/ p = session
        BY <3>2, Arrival
      <4>2. CASE q # r BY <1>5, <2>1, <3>1, <4>2, Frame
      <4>3. CASE q = r
        <5>1. p.thread # None /\ point'[r] = p BY <1>1, <2>1, <4>1, <4>3 DEF TypeOK
        <5>2. n \in Requests /\ pc[n] \in Started /\ Known(p.thread)
              /\ Keeps(content[p.thread], hist[n])
          BY <1>1, <4>1, <5>1 DEF TypeOK, Transcripts, HistoryKept, HistoryComplete, Holds, ThreadsKnown
        <5>3. n # None BY <5>2
        <5>4. hist'[r] = Append(hist[n], r) /\ hist[n] \in Seq(Requests)
          BY <1>1, <4>1, <5>2, <5>3 DEF TypeOK
        <5>5. Front(hist'[r]) = hist[n] BY <5>4, AppendFacts
        <5>6. pc'[n] \in Started /\ hist'[n] = hist[n] /\ Keeps(content'[p.thread], hist'[n])
          BY <1>5, <5>2, KeptStays
        <5> QED BY <4>1, <4>3, <5>1, <5>2, <5>5, <5>6
      <4> QED BY <4>2, <4>3
    <3>3. CASE q # r BY <1>5, <2>1, <3>1, <3>3, Frame
    <3>4. CASE q = r /\ (CheckActive(r) \/ CheckHead(r))
      <4>1. pc[r] \in {"active", "head"} /\ point' = point /\ hist' = hist
        BY <3>4 DEF CheckActive, CheckHead
      <4> QED BY <3>1, <3>4, <4>1
    <3>5. q = r => \/ InferFromHistory(r) \/ InferFromScope(r) \/ CheckActive(r) \/ CheckHead(r)
      BY <1>1, <1>5, <2>1 DEF RequestStep, Fork, PrepareKnown, PrepareFresh, Start, GiveUp,
         TurnCompletes, TurnAbandoned, SaveLineage, SaveHead, SaveSession, TypeOK
    <3> QED BY <3>2, <3>3, <3>4, <3>5
  \* Requests that have a thread and not yet a turn.
  <2>2. ASSUME NEW q \in Requests, pc'[q] \in {"prepare", "start"}, thread'[q] # None
        PROVE  Keeps(content'[thread'[q]], Front(hist'[q]))
    <3>1. CASE /\ pc[q] \in {"prepare", "start"} /\ thread'[q] = thread[q] /\ hist'[q] = hist[q]
               /\ content' = content
      BY <1>1, <2>2, <3>1 DEF HistoryKept
    <3>2. CASE q # r
      <4>1. pc'[q] = pc[q] /\ thread'[q] = thread[q] /\ hist'[q] = hist[q] BY <1>5, <3>2, Frame
      <4>2. q \in Locked BY <2>2, <4>1 DEF Locked
      <4>3. content' = content BY <1>5, <3>2, <4>2, LockedAlone
      <4> QED BY <2>2, <3>1, <4>1, <4>3
    <3>3. CASE q = r /\ PrepareKnown(r)
      <4>1. pc[r] = "prepare" /\ UNCHANGED <<content, thread, hist>> BY <3>3 DEF PrepareKnown
      <4> QED BY <3>1, <3>3, <4>1
    <3>4. CASE q = r /\ CheckHead(r)
      <4>1. /\ pc[r] = "head" /\ UNCHANGED <<content, hist, point>>
            /\ thread'[r] = point[r].thread
        BY <1>1, <2>2, <3>4 DEF CheckHead, TypeOK, server
      <4> QED BY <1>1, <3>4, <4>1 DEF HistoryKept, Holds
    <3>5. CASE q = r /\ Fork(r)
      <4>1. pc[r] = "fork" /\ hist' = hist /\ thread[r] = None
        BY <1>1, <3>5 DEF Fork, ThreadsKnown
      <4>2. content'[r] = ForkedContent(point[r]) /\ thread'[r] = r
        BY <1>1, <2>2, <3>5, <4>1 DEF Fork, TypeOK
      <4> DEFINE c == content[point[r].thread]
                 h == hist[point[r].node]
      <4>3. /\ c \in Seq(Requests) /\ Once(c) /\ h \in Seq(Requests) /\ h # <<>> /\ Keeps(c, h)
            /\ \E k \in 1 .. Len(c) : c[k] = Last(h) /\ ForkedContent(point[r]) = SubSeq(c, 1, k)
        BY <4>1, ForkFinds
      <4>4. Front(hist[r]) = h BY <1>1, <4>1 DEF HistoryKept
      <4> HIDE DEF c, h
      <4>5. Keeps(ForkedContent(point[r]), h) BY <4>3, KeepsFork
      <4> QED BY <3>5, <4>1, <4>2, <4>4, <4>5
    <3>6. CASE q = r /\ PrepareFresh(r)
      <4>1. content'[r] = sent[r] /\ hist'[r] = Append(sent[r], r) /\ thread'[r] = r
        BY <1>1, <3>6 DEF PrepareFresh, TypeOK
      <4>2. sent[r] \in Seq(Requests) /\ Once(sent[r]) BY <1>1 DEF TypeOK, Transcripts
      <4>3. Front(Append(sent[r], r)) = sent[r] BY <4>2, AppendFacts
      <4> QED BY <3>6, <4>1, <4>2, <4>3, KeepsItself
    <3>7. q = r => CheckHead(r) \/ Fork(r) \/ PrepareKnown(r) \/ PrepareFresh(r)
      <4>1. ASSUME InferFromHistory(r) \/ InferFromScope(r) PROVE thread'[r] = None
        <5>1. pc[r] = "idle" /\ thread' = thread
          BY <4>1 DEF InferFromHistory, InferFromScope, Arrive
        <5> QED BY <1>1, <5>1 DEF ThreadsKnown
      <4> QED
        BY <1>1, <1>5, <2>2, <4>1 DEF RequestStep, CheckActive, Start, GiveUp,
           TurnCompletes, TurnAbandoned, SaveLineage, SaveHead, SaveSession, TypeOK
    <3> QED BY <3>2, <3>3, <3>4, <3>5, <3>6, <3>7
  \* Requests that run.
  <2>3. ASSUME NEW q \in Requests, q \in Running' PROVE Keeps(content'[thread'[q]], hist'[q])
    <3>1. CASE q \in Running /\ thread'[q] = thread[q]
      <4>1. Known(thread[q]) /\ pc[q] \in Started /\ Keeps(content[thread[q]], hist[q])
        BY <1>1, <3>1, RunsOnKnown DEF HistoryKept, Holds
      <4> QED BY <1>5, <3>1, <4>1, KeptStays
    <3>2. CASE q # r
      <4>1. pc'[q] = pc[q] /\ thread'[q] = thread[q] BY <1>5, <3>2, Frame
      <4> QED BY <2>3, <3>1, <4>1 DEF Running
    <3>3. CASE q = r /\ Start(r)
      <4>1. pc[r] = "start" /\ thread' = thread /\ hist' = hist BY <3>3 DEF Start
      <4> DEFINE c == content[thread[r]]
                 h == Front(hist[r])
      <4>2. /\ c \in Seq(Requests) /\ r \notin ToSet(c) /\ content'[thread[r]] = Append(c, r)
            /\ thread[r] \in Requests
        BY <3>3, StartIsNew
      <4>3. hist[r] \in Seq(Requests) /\ hist[r] # <<>> /\ Last(hist[r]) = r
        BY <1>1, <4>1 DEF Transcripts, TypeOK
      <4>4. hist[r] = Append(h, r) /\ h \in Seq(Requests) BY <4>3, LastAppended
      <4>5. Keeps(c, h)
        <5>1. thread[r] # None BY <4>2
        <5> QED BY <1>1, <4>1, <5>1 DEF HistoryKept
      <4> HIDE DEF c, h
      <4>6. Keeps(Append(c, r), Append(h, r)) BY <4>2, <4>4, <4>5, KeepsAppend
      <4> QED BY <3>3, <4>1, <4>2, <4>4, <4>6
    <3>4. CASE q = r /\ ~Start(r)
      <4>1. pc[r] \in {"open", "lineage", "saveHead"} /\ thread' = thread
        <5>1. pc'[r] \in {"open", "lineage", "saveHead", "session"} BY <2>3, <3>4 DEF Running
        <5>2. ASSUME InferFromHistory(r) \/ InferFromScope(r) PROVE pc'[r] \in {"prepare", "active"}
          <6>1. PICK p \in Points :
                  pc' = [pc EXCEPT ![r] = IF p.thread = None THEN "prepare" ELSE "active"]
            BY <5>2, Arrival
          <6> QED BY <1>1, <6>1 DEF TypeOK
        <5> QED
          BY <1>1, <1>5, <3>4, <5>1, <5>2 DEF RequestStep, CheckActive, CheckHead, Fork, PrepareKnown,
             PrepareFresh, GiveUp, TurnCompletes, TurnAbandoned, SaveLineage, SaveHead,
             SaveSession, TypeOK
      <4> QED BY <3>1, <3>4, <4>1 DEF Running
    <3> QED BY <3>2, <3>3, <3>4
  \* Checkpoints.
  <2>4. ASSUME NEW q \in Requests, lineage'[q] # None
        PROVE  pc'[q] \in Started /\ Keeps(content'[lineage'[q]], hist'[q])
    <3>1. CASE lineage'[q] = lineage[q]
      <4>1. Known(lineage[q]) /\ pc[q] \in Started /\ Keeps(content[lineage[q]], hist[q])
        BY <1>1, <2>4, <3>1 DEF HistoryKept, HistoryComplete, Holds, ThreadsKnown
      <4> QED BY <1>5, <3>1, <4>1, KeptStays
    <3>2. CASE lineage'[q] # lineage[q]
      <4>1. q = r BY <1>5, <3>2, Frame
      <4>2. SaveLineage(r)
        <5>1. lineage' # lineage BY <3>2
        <5> QED BY <1>5, <5>1 DEF RequestStep, InferFromHistory, InferFromScope, Arrive, CheckActive,
              CheckHead, Fork, PrepareKnown, PrepareFresh, Start, GiveUp, TurnCompletes,
              TurnAbandoned, SaveHead, SaveSession, cache
      <4>3. pc[r] = "lineage" /\ lineage'[r] = thread[r]
        BY <1>1, <3>2, <4>1, <4>2 DEF SaveLineage, TypeOK
      <4>4. r \in Running BY <4>3 DEF Running
      <4>5. Known(thread[r]) /\ pc[r] \in Started /\ Keeps(content[thread[r]], hist[r])
        BY <1>1, <4>4, RunsOnKnown DEF HistoryKept, Holds
      <4> QED BY <1>5, <4>1, <4>3, <4>5, KeptStays
    <3> QED BY <3>1, <3>2
  <2>5. ASSUME session'.thread # None
        PROVE  /\ session'.node \in Requests /\ pc'[session'.node] \in Started
               /\ Keeps(content'[session'.thread], hist'[session'.node])
    <3>1. CASE session' = session
      <4>1. /\ session.node \in Requests /\ pc[session.node] \in Started /\ Known(session.thread)
            /\ Keeps(content[session.thread], hist[session.node])
        BY <1>1, <2>5, <3>1 DEF HistoryKept, HistoryComplete, Holds, ThreadsKnown
      <4> QED BY <1>5, <3>1, <4>1, KeptStays
    <3>2. CASE session' # session
      <4>1. SaveSession(r)
        BY <1>5, <3>2 DEF RequestStep, InferFromHistory, InferFromScope, Arrive, CheckActive,
              CheckHead, Fork, PrepareKnown, PrepareFresh, Start, GiveUp, TurnCompletes,
              TurnAbandoned, SaveHead, SaveLineage, cache
      <4>2. pc[r] = "session" /\ session' = Checkpoint(thread[r], r)
        BY <3>2, <4>1 DEF SaveSession
      <4>3. session'.thread = thread[r] /\ session'.node = r BY <4>2 DEF Checkpoint
      <4>4. r \in Running BY <4>2 DEF Running
      <4>5. Known(thread[r]) /\ pc[r] \in Started /\ Keeps(content[thread[r]], hist[r])
        BY <1>1, <4>4, RunsOnKnown DEF HistoryKept, Holds
      <4>6. pc'[r] \in Started /\ Keeps(content'[thread[r]], hist'[r])
        BY <1>5, <4>5, KeptStays
      <4> QED BY <4>3, <4>6
    <3> QED BY <3>1, <3>2
  <2>6. HistoryComplete' BY <2>3, <2>4, <2>5 DEF HistoryComplete, Holds, Running
  <2> QED BY <2>1, <2>2, <2>3, <2>4, <2>5, <2>6 DEF HistoryKept, Holds
<1> QED BY <1>3, <1>4, <1>5 DEF Next
------------------------------------------------------------------------------
(* Calm conditions.                                                            *)

\* A thread that begins with a transcript goes on to.
LEMMA PrefixStays ==
  ASSUME IInv, NEW r \in Requests, RequestStep(r), NEW t, NEW n \in Requests,
         Known(t), pc[n] \in Started, IsPrefix(hist[n], content[t])
  PROVE  hist'[n] = hist[n] /\ IsPrefix(hist'[n], content'[t])
PROOF
<1>1. /\ hist[n] \in Seq(Requests) /\ hist'[n] = hist[n] /\ content[t] \in Seq(Requests)
      /\ content'[t] = content[t] \/ content'[t] = Append(content[t], r)
  BY Growth
<1> QED BY <1>1, PrefixAppend

\* A thread that has a head entry keeps one; in calm conditions saving it works.
LEMMA HeadStays ==
  ASSUME IInv, NEW r \in Requests, RequestStep(r), NEW t \in Requests
  PROVE  /\ head'[t] = head[t] \/ (SaveHead(r) /\ t = thread[r] /\ head'[t] = r)
         /\ head[t] # None => head'[t] # None
         /\ Calm /\ SaveHead(r) => head'[thread[r]] = r
PROOF
<1>1. TypeOK /\ ThreadsKnown BY DEF IInv
<1>2. CASE ~SaveHead(r)
  BY <1>2 DEF RequestStep, InferFromHistory, InferFromScope, Arrive, CheckActive, CheckHead, Fork,
     PrepareKnown, PrepareFresh, Start, GiveUp, TurnCompletes, TurnAbandoned, SaveLineage,
     SaveSession, cache
<1>3. CASE SaveHead(r)
  <2>1. pc[r] = "saveHead" /\ (head' = head \/ head' = [head EXCEPT ![thread[r]] = r])
    BY <1>3 DEF SaveHead, SetHead
  <2>2. thread[r] \in Requests BY <1>1, <2>1, HasThread DEF Running
  <2>3. Calm => head' = [head EXCEPT ![thread[r]] = r]
    BY <1>3 DEF Calm, SaveHead, SetHead, Works
  <2> QED BY <1>1, <1>3, <2>1, <2>2, <2>3 DEF TypeOK
<1> QED BY <1>2, <1>3

\* When requests come one by one, the one that moves is alone.
LEMMA AloneNow ==
  ASSUME IInv, Calm, NEW r \in Requests, RequestStep(r), NEW q \in Requests, q # r
  PROVE  q \notin Locked \cup Running /\ q \notin Locked' \cup Running'
PROOF
<1>1. env.alone /\ InTurn BY DEF Calm, IInv
<1>2. CASE InferFromHistory(r) \/ InferFromScope(r)
  <2>1. env.alone => Locked \cup Running = {} BY <1>2, Arrival
  <2>2. pc'[q] = pc[q] BY Frame
  <2> QED BY <1>1, <2>1, <2>2 DEF Locked, Running
<1>3. CASE ~(InferFromHistory(r) \/ InferFromScope(r))
  <2>1. r \in Locked \cup Running
    BY <1>3 DEF RequestStep, CheckActive, CheckHead, Fork, PrepareKnown, PrepareFresh, Start,
       GiveUp, TurnCompletes, TurnAbandoned, SaveLineage, SaveHead, SaveSession, Locked, Running
  <2>2. pc'[q] = pc[q] BY Frame
  <2> QED BY <1>1, <2>1, <2>2 DEF InTurn, Locked, Running
<1> QED BY <1>2, <1>3

LEMMA CalmStep == IInv /\ [Next]_vars => (Calm => CalmHistory)'
PROOF
<1> SUFFICES ASSUME IInv, [Next]_vars, Calm' PROVE CalmHistory' OBVIOUS
<1>0. env' = env BY DEF Next, vars
<1>1. /\ TypeOK /\ InTurn /\ ThreadsKnown /\ Transcripts /\ HistoryKept
      /\ Calm /\ CalmHistory
  BY <1>0 DEF IInv, Calm
<1>2. ASSUME UNCHANGED <<pc, thread, point, hist, content, cache>> PROVE CalmHistory'
  BY <1>1, <1>2 DEF CalmHistory, CalmCheckpoint, Running, cache
<1>3. CASE UNCHANGED vars BY <1>2, <1>3 DEF vars, server, request
<1>4. ASSUME NEW t \in Requests, ThreadUnloaded(t) PROVE CalmHistory'
  BY <1>2, <1>4 DEF ThreadUnloaded, request
<1>5. ASSUME NEW r \in Requests, RequestStep(r) PROVE CalmHistory'
  <2>0. \A q \in Requests : q # r =>
          pc[q] \notin {"active", "head", "fork", "prepare", "start", "open", "lineage", "saveHead", "session"}
          /\ pc'[q] \notin {"active", "head", "fork", "prepare", "start", "open", "lineage", "saveHead", "session"}
    BY <1>1, <1>5, AloneNow DEF Locked, Running
  <2>1. ASSUME NEW q \in Requests, pc'[q] \in {"active", "head", "fork"}
        PROVE  /\ IsPrefix(hist'[point'[q].node], content'[point'[q].thread])
               /\ head'[point'[q].thread] # None
    <3>0. q = r BY <2>0, <2>1
    <3>1. CASE CheckActive(r) \/ CheckHead(r)
      <4>1. pc[r] \in {"active", "head"} /\ point' = point
        BY <3>1 DEF CheckActive, CheckHead
      <4>2. /\ Known(point[r].thread) /\ point[r].node \in Requests /\ pc[point[r].node] \in Started
            /\ IsPrefix(hist[point[r].node], content[point[r].thread])
            /\ head[point[r].thread] # None
        BY <1>1, <4>1 DEF ThreadsKnown, HistoryKept, CalmHistory, CalmCheckpoint
      <4>3. point[r].thread \in Requests BY <4>2 DEF Known
      <4>4. IsPrefix(hist'[point[r].node], content'[point[r].thread])
        BY <1>5, <4>2, PrefixStays
      <4>5. head'[point[r].thread] # None BY <1>5, <4>2, <4>3, HeadStays
      <4> QED BY <3>0, <4>1, <4>4, <4>5
    <3>2. CASE InferFromHistory(r) \/ InferFromScope(r)
      <4>1. PICK p \in Points, n \in OrNone :
               /\ pc[r] = "idle"
               /\ pc' = [pc EXCEPT ![r] = IF p.thread = None THEN "prepare" ELSE "active"]
               /\ point' = [point EXCEPT ![r] = p]
               /\ UNCHANGED <<lineage, head, session, content, answered>>
               /\ p.thread # None => /\ n = p.node
                                     /\ (n \in answered /\ p.thread = lineage[n]) \/ p = session
        BY <3>2, Arrival
      <4>2. p.thread # None /\ point'[r] = p BY <1>1, <2>1, <3>0, <4>1 DEF TypeOK
      <4>3. n \in Requests /\ pc[n] \in Started /\ Known(p.thread)
        BY <1>1, <4>1, <4>2 DEF TypeOK, Transcripts, HistoryKept, ThreadsKnown
      <4>4. pc[n] # "saveHead"
        <5>1. n # r BY <4>1, <4>3 DEF Started
        <5> QED BY <2>0, <4>3, <5>1
      <4>5. IsPrefix(hist[n], content[p.thread]) /\ head[p.thread] # None
        BY <1>1, <4>1, <4>2, <4>3, <4>4 DEF CalmHistory, CalmCheckpoint
      <4>6. IsPrefix(hist'[n], content'[p.thread]) BY <1>5, <4>3, <4>5, PrefixStays
      <4> QED BY <3>0, <4>1, <4>2, <4>5, <4>6
    <3>3. InferFromHistory(r) \/ InferFromScope(r) \/ CheckActive(r) \/ CheckHead(r)
      BY <1>1, <1>5, <2>1, <3>0 DEF RequestStep, Fork, PrepareKnown, PrepareFresh, Start, GiveUp,
         TurnCompletes, TurnAbandoned, SaveLineage, SaveHead, SaveSession, TypeOK
    <3> QED BY <3>1, <3>2, <3>3
  <2>2. ASSUME NEW q \in Requests, pc'[q] \in {"prepare", "start"}, thread'[q] # None
        PROVE  content'[thread'[q]] = Front(hist'[q])
    <3>0. q = r BY <2>0, <2>2
    <3>1. CASE PrepareKnown(r)
      <4>1. pc[r] = "prepare" /\ UNCHANGED <<content, thread, hist>> BY <3>1 DEF PrepareKnown
      <4> QED BY <1>1, <2>2, <3>0, <4>1 DEF CalmHistory
    <3>2. CASE CheckHead(r)
      <4> DEFINE t == point[r].thread
                 n == point[r].node
      <4>1. /\ pc[r] = "head" /\ UNCHANGED <<content, hist, point>> /\ thread'[r] = t
            /\ pc'[r] = "prepare"
        BY <1>1, <2>2, <3>0, <3>2 DEF CheckHead, TypeOK, server
      <4>2. head[t] \in {None, n}
        <5>1. PICK works \in Works("head") :
                pc' = [pc EXCEPT ![r] = IF works /\ Moved(point[r], head[t]) THEN "fork" ELSE "prepare"]
          BY <3>2 DEF CheckHead
        <5>2. works = TRUE BY <1>1 DEF Calm, Works
        <5>3. ~Moved(point[r], head[t]) BY <1>1, <4>1, <5>1, <5>2 DEF TypeOK
        <5> QED BY <5>3 DEF Moved
      <4>3. head[t] # None /\ t \in Requests /\ n \in Requests /\ Front(hist[r]) = hist[n]
        BY <1>1, <4>1 DEF CalmHistory, CalmCheckpoint, ThreadsKnown, Known, HistoryKept
      <4>4. \A x \in Requests : pc[x] \notin {"open", "lineage", "saveHead"}
        BY <2>0, <4>1
      <4>5. content[t] = hist[n] BY <1>1, <4>2, <4>3, <4>4 DEF CalmHistory
      <4> QED BY <3>0, <4>1, <4>3, <4>5
    <3>3. CASE Fork(r)
      <4>1. pc[r] = "fork" /\ hist' = hist /\ thread[r] = None
        BY <1>1, <3>3 DEF Fork, ThreadsKnown
      <4>2. content'[r] = ForkedContent(point[r]) /\ thread'[r] = r
        BY <1>1, <2>2, <3>0, <3>3, <4>1 DEF Fork, TypeOK
      <4> DEFINE c == content[point[r].thread]
                 h == hist[point[r].node]
      <4>3. /\ c \in Seq(Requests) /\ Once(c) /\ h \in Seq(Requests) /\ h # <<>>
            /\ \E k \in 1 .. Len(c) : c[k] = Last(h) /\ ForkedContent(point[r]) = SubSeq(c, 1, k)
        BY <4>1, ForkFinds
      <4>4. Front(hist[r]) = h BY <1>1, <4>1 DEF HistoryKept
      <4>5. IsPrefix(h, c) BY <1>1, <4>1 DEF CalmHistory, CalmCheckpoint
      <4> HIDE DEF c, h
      <4>6. ForkedContent(point[r]) = h BY <4>3, <4>5, PrefixFork
      <4> QED BY <3>0, <4>1, <4>2, <4>4, <4>6
    <3>4. CASE PrepareFresh(r)
      <4>1. content'[r] = sent[r] /\ hist'[r] = Append(sent[r], r) /\ thread'[r] = r
        BY <1>1, <3>4 DEF PrepareFresh, TypeOK
      <4>2. sent[r] \in Seq(Requests) BY <1>1 DEF TypeOK
      <4>3. Front(Append(sent[r], r)) = sent[r] BY <4>2, AppendFacts
      <4> QED BY <3>0, <4>1, <4>3
    <3>5. CheckHead(r) \/ Fork(r) \/ PrepareKnown(r) \/ PrepareFresh(r)
      <4>1. ASSUME InferFromHistory(r) \/ InferFromScope(r) PROVE thread'[r] = None
        <5>1. pc[r] = "idle" /\ thread' = thread
          BY <4>1 DEF InferFromHistory, InferFromScope, Arrive
        <5> QED BY <1>1, <5>1 DEF ThreadsKnown
      <4> QED
        BY <1>1, <1>5, <2>2, <3>0, <4>1 DEF RequestStep, CheckActive, Start, GiveUp,
           TurnCompletes, TurnAbandoned, SaveLineage, SaveHead, SaveSession, TypeOK
    <3> QED BY <3>1, <3>2, <3>3, <3>4, <3>5
  <2>3. r \in Running' /\ ~Start(r) => /\ pc[r] \in {"open", "lineage", "saveHead"}
                                       /\ UNCHANGED <<thread, content, hist>>
    <3> SUFFICES ASSUME r \in Running', ~Start(r)
                 PROVE  pc[r] \in {"open", "lineage", "saveHead"} /\ UNCHANGED <<thread, content, hist>>
      OBVIOUS
    <3>1. pc'[r] \in {"open", "lineage", "saveHead", "session"} BY DEF Running
    <3>2. ASSUME InferFromHistory(r) \/ InferFromScope(r) PROVE pc'[r] \in {"prepare", "active"}
      <4>1. PICK p \in Points :
              pc' = [pc EXCEPT ![r] = IF p.thread = None THEN "prepare" ELSE "active"]
        BY <3>2, Arrival
      <4> QED BY <1>1, <4>1 DEF TypeOK
    <3> QED
      BY <1>1, <1>5, <3>1, <3>2 DEF RequestStep, CheckActive, CheckHead, Fork, PrepareKnown,
         PrepareFresh, GiveUp, TurnCompletes, TurnAbandoned, SaveLineage, SaveHead,
         SaveSession, TypeOK, server
  <2>4. ASSUME NEW q \in Requests, q \in Running' PROVE content'[thread'[q]] = hist'[q]
    <3>0. q = r BY <2>0, <2>4 DEF Running
    <3>1. CASE Start(r)
      <4>1. pc[r] = "start" /\ thread' = thread /\ hist' = hist BY <3>1 DEF Start
      <4>2. content'[thread[r]] = Append(content[thread[r]], r) /\ thread[r] \in Requests
        BY <3>1, StartIsNew
      <4>3. hist[r] \in Seq(Requests) /\ hist[r] # <<>> /\ Last(hist[r]) = r
        BY <1>1, <4>1 DEF Transcripts, TypeOK
      <4>4. hist[r] = Append(Front(hist[r]), r) BY <4>3, LastAppended
      <4>5. content[thread[r]] = Front(hist[r])
        <5>1. thread[r] # None BY <4>2
        <5> QED BY <1>1, <4>1, <5>1 DEF CalmHistory
      <4> QED BY <3>0, <4>1, <4>2, <4>4, <4>5
    <3>2. CASE ~Start(r)
      <4>1. r \in Running /\ UNCHANGED <<thread, content, hist>>
        BY <2>3, <2>4, <3>0, <3>2 DEF Running
      <4> QED BY <1>1, <3>0, <4>1 DEF CalmHistory
    <3> QED BY <3>1, <3>2
  <2>5. ASSUME NEW q \in Requests, pc'[q] = "session" PROVE head'[thread'[q]] = q
    <3>0. q = r BY <2>0, <2>5
    <3>1. r \in Running' /\ ~Start(r) BY <1>1, <2>5, <3>0 DEF Running, Start, TypeOK
    <3>2. pc[r] \in {"open", "lineage", "saveHead"} /\ thread' = thread BY <2>3, <3>1
    <3>3. SaveHead(r)
      BY <1>1, <1>5, <2>5, <3>0, <3>1, <3>2 DEF RequestStep, InferFromHistory, InferFromScope, Arrive,
         CheckActive, CheckHead, Fork, PrepareKnown, PrepareFresh, GiveUp, TurnCompletes, TurnAbandoned,
         SaveLineage, SaveSession, TypeOK
    <3> QED BY <1>1, <1>5, <3>0, <3>2, <3>3, HeadStays
  <2>6. ASSUME NEW q \in Requests, lineage'[q] # None
        PROVE  /\ IsPrefix(hist'[q], content'[lineage'[q]])
               /\ \/ head'[lineage'[q]] # None
                  \/ pc'[q] = "saveHead" /\ thread'[q] = lineage'[q]
    <3>1. CASE lineage'[q] = lineage[q]
      <4>1. Known(lineage[q]) /\ lineage[q] \in Requests /\ pc[q] \in Started
        BY <1>1, <2>6, <3>1 DEF ThreadsKnown, HistoryKept, Known
      <4>2. IsPrefix(hist[q], content[lineage[q]]) BY <1>1, <2>6, <3>1 DEF CalmHistory
      <4>3. IsPrefix(hist'[q], content'[lineage[q]]) BY <1>5, <4>1, <4>2, PrefixStays
      <4>4. CASE head[lineage[q]] # None
        <5>1. head'[lineage[q]] # None BY <1>5, <4>1, <4>4, HeadStays
        <5> QED BY <3>1, <4>3, <5>1
      <4>5. CASE pc[q] = "saveHead" /\ thread[q] = lineage[q]
        <5>1. q = r BY <2>0, <4>5
        <5>2. SaveHead(r)
          BY <1>5, <4>5, <5>1 DEF RequestStep, InferFromHistory, InferFromScope, Arrive,
             CheckActive, CheckHead, Fork, PrepareKnown, PrepareFresh, Start, GiveUp, TurnCompletes,
             TurnAbandoned, SaveLineage, SaveSession
        <5>3. head'[lineage[q]] = r BY <1>1, <1>5, <4>1, <4>5, <5>1, <5>2, HeadStays
        <5> QED BY <3>1, <4>3, <5>3
      <4> QED BY <1>1, <2>6, <3>1, <4>4, <4>5 DEF CalmHistory
    <3>2. CASE lineage'[q] # lineage[q]
      <4>1. q = r BY <1>5, <3>2, Frame
      <4>2. SaveLineage(r)
        <5>1. lineage' # lineage BY <3>2
        <5> QED BY <1>5, <5>1 DEF RequestStep, InferFromHistory, InferFromScope, Arrive, CheckActive,
              CheckHead, Fork, PrepareKnown, PrepareFresh, Start, GiveUp, TurnCompletes,
              TurnAbandoned, SaveHead, SaveSession, cache
      <4>3. /\ pc[r] = "lineage" /\ lineage'[r] = thread[r] /\ pc'[r] = "saveHead"
            /\ UNCHANGED <<thread, content, hist>>
        BY <1>1, <3>2, <4>1, <4>2 DEF SaveLineage, TypeOK, server
      <4>4. content[thread[r]] = hist[r] /\ hist[r] \in Seq(Requests)
        BY <1>1, <4>3 DEF CalmHistory, Running, TypeOK
      <4>5. IsPrefix(hist[r], hist[r]) BY <4>4, PrefixItself
      <4> QED BY <4>1, <4>3, <4>4, <4>5
    <3> QED BY <3>1, <3>2
  <2>7. ASSUME NEW t \in Requests, head'[t] # None
        PROVE  \/ content'[t] = hist'[head'[t]]
               \/ \E q \in Requests : thread'[q] = t /\ pc'[q] \in {"open", "lineage", "saveHead"}
    <3>1. CASE SaveHead(r) /\ t = thread[r]
      <4>1. pc[r] = "saveHead" /\ UNCHANGED <<thread, content, hist>> BY <3>1 DEF SaveHead, server
      <4>2. head'[t] = r BY <1>1, <1>5, <3>1, HeadStays
      <4>3. content[thread[r]] = hist[r] BY <1>1, <4>1 DEF CalmHistory, Running
      <4> QED BY <3>1, <4>1, <4>2, <4>3
    <3>2. CASE ~(SaveHead(r) /\ t = thread[r])
      <4>1. head'[t] = head[t] /\ head[t] # None BY <1>5, <2>7, <3>2, HeadStays
      <4>2. Known(t) /\ pc[head[t]] \in Started /\ head[t] \in Requests
        BY <1>1, <4>1 DEF ThreadsKnown, TypeOK, OrNone
      <4>3. CASE content[t] = hist[head[t]]
        <5>1. /\ hist'[head[t]] = hist[head[t]]
              /\ content'[t] = content[t] \/ (Start(r) /\ t = thread[r])
          BY <1>5, <4>2, Growth
        <5>2. Start(r) => pc'[r] = "open" /\ thread' = thread BY <1>1 DEF Start, TypeOK
        <5> QED BY <4>1, <4>3, <5>1, <5>2
      <4>4. ASSUME NEW q \in Requests, thread[q] = t, pc[q] \in {"open", "lineage", "saveHead"}
            PROVE  thread'[q] = t /\ pc'[q] \in {"open", "lineage", "saveHead"}
        <5>1. q = r BY <2>0, <4>4
        <5>2. TurnCompletes(r) \/ SaveLineage(r)
          BY <1>1, <1>5, <3>2, <4>4, <5>1 DEF RequestStep, InferFromHistory, InferFromScope, Arrive,
             CheckActive, CheckHead, Fork, PrepareKnown, PrepareFresh, Start, GiveUp, TurnAbandoned,
             SaveSession, Calm
        <5> QED BY <1>1, <4>4, <5>1, <5>2 DEF TurnCompletes, SaveLineage, TypeOK
      <4> QED BY <1>1, <4>1, <4>3, <4>4 DEF CalmHistory
    <3> QED BY <3>1, <3>2
  <2>8. ASSUME session'.thread # None
        PROVE  IsPrefix(hist'[session'.node], content'[session'.thread]) /\ head'[session'.thread] # None
    <3>1. CASE session' = session
      <4>1. /\ session.node \in Requests /\ pc[session.node] \in Started /\ Known(session.thread)
            /\ IsPrefix(hist[session.node], content[session.thread]) /\ head[session.thread] # None
        BY <1>1, <2>8, <3>1 DEF HistoryKept, ThreadsKnown, CalmHistory, CalmCheckpoint
      <4>2. session.thread \in Requests BY <4>1 DEF Known
      <4>3. IsPrefix(hist'[session.node], content'[session.thread]) BY <1>5, <4>1, PrefixStays
      <4>4. head'[session.thread] # None BY <1>5, <4>1, <4>2, HeadStays
      <4> QED BY <3>1, <4>3, <4>4
    <3>2. CASE session' # session
      <4>1. SaveSession(r)
        BY <1>5, <3>2 DEF RequestStep, InferFromHistory, InferFromScope, Arrive, CheckActive,
              CheckHead, Fork, PrepareKnown, PrepareFresh, Start, GiveUp, TurnCompletes,
              TurnAbandoned, SaveHead, SaveLineage, cache
      <4>2. /\ pc[r] = "session" /\ session' = Checkpoint(thread[r], r)
            /\ UNCHANGED <<content, hist, head>>
        BY <3>2, <4>1 DEF SaveSession, server
      <4>3. session'.thread = thread[r] /\ session'.node = r BY <4>2 DEF Checkpoint
      <4>4. content[thread[r]] = hist[r] /\ hist[r] \in Seq(Requests) /\ head[thread[r]] = r
        BY <1>1, <4>2 DEF CalmHistory, Running, TypeOK
      <4>5. IsPrefix(hist[r], hist[r]) BY <4>4, PrefixItself
      <4> QED BY <4>2, <4>3, <4>4, <4>5
    <3> QED BY <3>1, <3>2
  <2> QED BY <2>1, <2>2, <2>4, <2>5, <2>6, <2>7, <2>8 DEF CalmHistory, CalmCheckpoint
<1> QED BY <1>3, <1>4, <1>5 DEF Next

------------------------------------------------------------------------------
(* The theorems.                                                               *)

\* The inductive invariant of the checkpoints.
THEOREM Invariance == Spec => []IInv
PROOF
<1>1. IInv /\ [Next]_vars => IInv'
  BY TypeStep, LinksStep, TranscriptsStep, HistoryStep, CalmStep DEF IInv, Links
<1> QED BY InitInv, <1>1, PTL DEF Spec

\* Inference never leads a request to a thread that another turn holds.
THEOREM InferenceIsNotRefused == Spec => []InferredNeverRefused
PROOF
<1>1. IInv => InferredNeverRefused BY DEF IInv, Reserved
<1> QED BY Invariance, <1>1, PTL

\* Whatever fails, is abandoned or overlaps, a turn runs on a thread that has the turns
\* of the transcript it extends, in order.
THEOREM NoTurnIsMissing == Spec => []HistoryComplete
PROOF
<1>1. IInv => HistoryComplete BY DEF IInv, HistoryKept
<1> QED BY Invariance, <1>1, PTL

\* In calm conditions it runs on exactly the transcript it extends, and the head entry of
\* a thread names its last turn.
THEOREM HistoryIsExact == Spec => []HistoryWhenCalm
PROOF
<1>1. IInv => HistoryWhenCalm
  <2> SUFFICES ASSUME IInv, Calm PROVE RightHistory /\ HeadIsLastTurn
    BY DEF HistoryWhenCalm
  <2>1. TypeOK /\ CalmHistory /\ ThreadsKnown /\ Transcripts BY DEF IInv
  <2>2. RightHistory BY <2>1 DEF RightHistory, CalmHistory, Running
  <2>3. ASSUME NEW t \in Requests, head[t] # None, content[t] = hist[head[t]]
        PROVE  head[t] = Last(content[t])
    <3>1. head[t] \in Requests /\ pc[head[t]] \in Started
      BY <2>1, <2>3 DEF ThreadsKnown, TypeOK, OrNone
    <3>2. Last(hist[head[t]]) = head[t] BY <2>1, <3>1 DEF Transcripts, Started
    <3> QED BY <2>3, <3>2
  <2>4. HeadIsLastTurn BY <2>1, <2>3 DEF HeadIsLastTurn, CalmHistory
  <2> QED BY <2>2, <2>4
<1> QED BY Invariance, <1>1, PTL

------------------------------------------------------------------------------
(* The conversation cache.  Lists without repetitions: removing, moving to the     *)
(* front, dropping the last.                                                      *)

\* a stands before b
Before(q, a, b) == \E m, n \in DOMAIN q : m < n /\ q[m] = a /\ q[n] = b

\* A sequence without its n-th element.
LEMMA RemoveAtFacts ==
  ASSUME NEW S, NEW q \in Seq(S), NEW n \in 1 .. Len(q)
  PROVE  /\ RemoveAt(q, n) \in Seq(S) /\ Len(RemoveAt(q, n)) = Len(q) - 1
         /\ \A i \in 1 .. Len(q) - 1 :
              RemoveAt(q, n)[i] = IF i < n THEN q[i] ELSE q[i + 1]
PROOF
<1> DEFINE a == SubSeq(q, 1, n - 1)
           b == SubSeq(q, n + 1, Len(q))
           r == RemoveAt(q, n)
<1>1. /\ a \in Seq(S) /\ Len(a) = n - 1 /\ Len(q) \in Nat
      /\ \A i \in 1 .. n - 1 : a[i] = q[i]
  OBVIOUS
<1>2. /\ b \in Seq(S) /\ Len(b) = Len(q) - n
      /\ \A i \in 1 .. Len(q) - n : b[i] = q[i + n]
  OBVIOUS
<1>3. r = a \o b BY DEF RemoveAt
<1> HIDE DEF a, b, r
<1>4. /\ r \in Seq(S) /\ Len(r) = Len(a) + Len(b)
      /\ \A i \in 1 .. Len(a) + Len(b) : r[i] = IF i <= Len(a) THEN a[i] ELSE b[i - Len(a)]
  <2>1. a \in Seq(S) /\ b \in Seq(S) BY <1>1, <1>2
  <2>2. /\ a \o b \in Seq(S) /\ Len(a \o b) = Len(a) + Len(b)
        /\ \A i \in 1 .. Len(a) + Len(b) :
             (a \o b)[i] = IF i <= Len(a) THEN a[i] ELSE b[i - Len(a)]
    BY ONLY <2>1, ConcatProperties, Zenon
  <2> QED BY ONLY <2>2, <1>3, Zenon
<1>5. Len(q) \in Nat /\ n \in 1 .. Len(q) /\ Len(a) = n - 1 /\ Len(b) = Len(q) - n
  BY <1>1, <1>2
<1>6. ASSUME NEW i \in 1 .. Len(q) - 1
      PROVE  r[i] = IF i < n THEN q[i] ELSE q[i + 1]
  <2>1. CASE i < n
    <3>1. i \in 1 .. n - 1 /\ i <= Len(a) /\ i \in 1 .. Len(a) + Len(b)
      BY ONLY <2>1, <1>5, <1>6
    <3> QED BY <2>1, <3>1, <1>4, <1>1
  <2>2. CASE i >= n
    <3>1. /\ i - Len(a) \in 1 .. Len(q) - n /\ (i - Len(a)) + n = i + 1
          /\ i \in 1 .. Len(a) + Len(b) /\ ~(i <= Len(a)) /\ ~(i < n)
      BY ONLY <2>2, <1>5, <1>6
    <3> QED BY <3>1, <1>4, <1>2
  <2> QED BY ONLY <2>1, <2>2, <1>5, <1>6
<1> QED
  <2>1. Len(r) = Len(q) - 1 BY ONLY <1>4, <1>5
  <2> QED BY <2>1, <1>4, <1>6 DEF r

\* Removing a key keeps the others in their order.
LEMMA RemoveFirstFacts ==
  ASSUME NEW S, NEW q \in Seq(S), NEW k, Once(q)
  PROVE  /\ RemoveFirst(q, k) \in Seq(S) /\ Once(RemoveFirst(q, k))
         /\ ToSet(RemoveFirst(q, k)) = ToSet(q) \ {k}
         /\ \A a, b : Before(RemoveFirst(q, k), a, b) => Before(q, a, b)
PROOF
<1>1. CASE k \notin ToSet(q)
  <2>1. RemoveFirst(q, k) = q BY <1>1 DEF RemoveFirst, ToSet
  <2> QED BY <2>1, <1>1
<1>2. CASE k \in ToSet(q)
  <2> DEFINE P == {i \in 1 .. Len(q) : q[i] = k}
             n == Min(P)
             r == RemoveAt(q, n)
  <2>1. \E i \in 1 .. Len(q) : q[i] = k BY <1>2 DEF ToSet
  <2>2. RemoveFirst(q, k) = r
    BY <2>1 DEF RemoveFirst, SelectInSeq
  <2>3. n \in 1 .. Len(q) /\ q[n] = k
    <3>1. PICK i \in 1 .. Len(q) : q[i] = k BY <2>1
    <3>2. P = {i} BY <3>1 DEF Once
    <3>3. n = i
      <4>1. i \in P /\ \A y \in P : i <= y BY <3>2, <3>1
      <4> QED BY <4>1, <3>2 DEF Min
    <3> QED BY <3>1, <3>3
  <2> HIDE DEF n, P
  <2>4. /\ r \in Seq(S) /\ Len(r) = Len(q) - 1 /\ Len(q) \in Nat
        /\ DOMAIN r = 1 .. Len(q) - 1 /\ DOMAIN q = 1 .. Len(q)
        /\ \A i \in 1 .. Len(q) - 1 : r[i] = IF i < n THEN q[i] ELSE q[i + 1]
    <3>1. /\ r \in Seq(S) /\ Len(r) = Len(q) - 1
          /\ \A i \in 1 .. Len(q) - 1 : r[i] = IF i < n THEN q[i] ELSE q[i + 1]
      BY <2>3, RemoveAtFacts
    <3> HIDE DEF r
    <3> QED BY <3>1
  <2> HIDE DEF r
  <2> DEFINE Old(i) == IF i < n THEN i ELSE i + 1
  <2>5. \A i \in DOMAIN r : Old(i) \in DOMAIN q /\ Old(i) # n /\ r[i] = q[Old(i)]
    BY <2>3, <2>4
  <2>6. \A i, j \in DOMAIN r : (i < j => Old(i) < Old(j)) /\ (Old(i) = Old(j) => i = j)
    BY <2>3, <2>4
  <2>7. Once(r)
    <3> HIDE DEF Old
    <3> QED BY <2>5, <2>6 DEF Once
  <2>8. ToSet(r) \subseteq ToSet(q) \ {k}
    <3> HIDE DEF Old
    <3> QED BY <2>3, <2>4, <2>5 DEF Once, ToSet
  <2>9. ASSUME NEW i \in DOMAIN q, q[i] # k PROVE q[i] \in ToSet(r)
    <3>1. CASE i < n
      <4>1. i \in DOMAIN r /\ r[i] = q[i] BY <3>1, <2>3, <2>4
      <4> QED BY <4>1 DEF ToSet
    <3>2. CASE i > n
      <4>1. i - 1 \in DOMAIN r /\ r[i - 1] = q[i] BY <3>2, <2>3, <2>4
      <4> QED BY <4>1 DEF ToSet
    <3>3. i \in Nat /\ n \in Nat /\ i # n BY <2>3, <2>4, <2>9
    <3> QED BY <3>1, <3>2, <3>3
  <2>10. ToSet(q) \ {k} \subseteq ToSet(r) BY <2>9 DEF ToSet
  <2>11. ASSUME NEW a, NEW b, Before(r, a, b) PROVE Before(q, a, b)
    <3>1. PICK i, j \in DOMAIN r : i < j /\ r[i] = a /\ r[j] = b
      BY <2>11 DEF Before
    <3>2. /\ Old(i) \in DOMAIN q /\ Old(j) \in DOMAIN q /\ Old(i) < Old(j)
          /\ q[Old(i)] = a /\ q[Old(j)] = b
      BY <3>1, <2>5, <2>6
    <3> HIDE DEF Old
    <3> QED BY <3>2 DEF Before
  <2> QED BY <2>2, <2>4, <2>7, <2>8, <2>10, <2>11
<1> QED BY <1>1, <1>2

\* A key at the front of the others.
LEMMA ToFrontFacts ==
  ASSUME NEW S, NEW q \in Seq(S), NEW k \in S, Once(q)
  PROVE  /\ ToFront(q, k) \in Seq(S) /\ Once(ToFront(q, k)) /\ ToFront(q, k) # <<>>
         /\ ToSet(ToFront(q, k)) = ToSet(q) \cup {k}
         /\ \A a, b : Before(ToFront(q, k), a, b) =>
              b # k /\ (a = k \/ (a # k /\ Before(q, a, b)))
PROOF
<1> DEFINE r == RemoveFirst(q, k)
           f == ToFront(q, k)
<1>1. /\ r \in Seq(S) /\ Once(r) /\ ToSet(r) = ToSet(q) \ {k}
      /\ \A a, b : Before(r, a, b) => Before(q, a, b)
  BY RemoveFirstFacts
<1>2. f = <<k>> \o r BY DEF ToFront
<1> HIDE DEF r, f
<1>3. /\ f \in Seq(S) /\ Len(r) \in Nat /\ DOMAIN r = 1 .. Len(r)
      /\ Len(f) = Len(r) + 1 /\ DOMAIN f = 1 .. Len(r) + 1 /\ f[1] = k
      /\ \A i \in 2 .. Len(r) + 1 : f[i] = r[i - 1]
  BY <1>1, <1>2
<1>4. \A i \in DOMAIN f : i = 1 \/ (i > 1 /\ i - 1 \in DOMAIN r /\ f[i] = r[i - 1])
  BY <1>3
<1>5. \A i \in DOMAIN r : r[i] # k /\ r[i] \in ToSet(q) BY <1>1 DEF ToSet
<1>6. Once(f)
  <2> SUFFICES ASSUME NEW i \in DOMAIN f, NEW j \in DOMAIN f, f[i] = f[j] PROVE i = j
    BY DEF Once
  <2>1. CASE i = 1 \/ j = 1 BY <2>1, <1>3, <1>4, <1>5
  <2>2. CASE i # 1 /\ j # 1
    <3>1. r[i - 1] = r[j - 1] /\ i - 1 \in DOMAIN r /\ j - 1 \in DOMAIN r BY <2>2, <1>4
    <3>2. i - 1 = j - 1 BY <3>1, <1>1 DEF Once
    <3> QED BY <3>2, <1>3
  <2> QED BY <2>1, <2>2
<1>7. ToSet(f) \subseteq ToSet(q) \cup {k} BY <1>3, <1>4, <1>5 DEF ToSet
<1>8. k \in ToSet(f) BY <1>3 DEF ToSet
<1>9. ToSet(r) \subseteq ToSet(f)
  <2> SUFFICES ASSUME NEW i \in DOMAIN r PROVE r[i] \in ToSet(f) BY DEF ToSet
  <2>1. i + 1 \in DOMAIN f /\ f[i + 1] = r[i] BY <1>3
  <2> QED BY <2>1 DEF ToSet
<1>10. ASSUME NEW a, NEW b, Before(f, a, b)
       PROVE  b # k /\ (a = k \/ (a # k /\ Before(q, a, b)))
  <2>1. PICK m, n \in DOMAIN f : m < n /\ f[m] = a /\ f[n] = b BY <1>10 DEF Before
  <2>2. n # 1 BY <2>1, <1>3
  <2>3. n - 1 \in DOMAIN r /\ b = r[n - 1] BY <2>1, <2>2, <1>4
  <2>4. CASE m = 1 BY <2>1, <2>3, <2>4, <1>3, <1>5
  <2>5. CASE m # 1
    <3>1. m - 1 \in DOMAIN r /\ a = r[m - 1] /\ m - 1 < n - 1 BY <2>1, <2>5, <1>3, <1>4
    <3>2. Before(r, a, b) BY <3>1, <2>3 DEF Before
    <3> QED BY <3>1, <3>2, <2>3, <1>1, <1>5
  <2> QED BY <2>4, <2>5
<1>11. f # <<>> BY <1>3
<1> QED BY <1>1, <1>3, <1>6, <1>7, <1>8, <1>9, <1>10, <1>11 DEF f

\* A list without its last key: every other key stands before that one.
LEMMA FrontOfList ==
  ASSUME NEW S, NEW q \in Seq(S), Once(q), q # <<>>
  PROVE  /\ Front(q) \in Seq(S) /\ Once(Front(q)) /\ Last(q) \in ToSet(q)
         /\ ToSet(Front(q)) = ToSet(q) \ {Last(q)}
         /\ \A a, b : Before(Front(q), a, b) => Before(q, a, b)
         /\ \A a \in ToSet(Front(q)) : Before(q, a, Last(q))
PROOF
<1> DEFINE f == Front(q)
<1>1. /\ f \in Seq(S) /\ Len(q) \in Nat \ {0} /\ DOMAIN q = 1 .. Len(q)
      /\ Len(f) = Len(q) - 1
      /\ \A i \in 1 .. Len(q) - 1 : f[i] = q[i]
  <2>1. Len(q) \in Nat \ {0} BY EmptySeq
  <2>2. \A i \in 1 .. Len(q) - 1 : q[i] \in S BY <2>1
  <2>3. /\ f \in Seq(S) /\ Len(f) = IF 1 <= Len(q) - 1 THEN Len(q) - 1 - 1 + 1 ELSE 0
        /\ \A i \in 1 .. Len(q) - 1 - 1 + 1 : f[i] = q[1 + i - 1]
    BY <2>1, <2>2, SubSeqProperties DEF Front
  <2> HIDE DEF f
  <2>4. DOMAIN q = 1 .. Len(q) OBVIOUS
  <2>5. Len(f) = Len(q) - 1
    <3>1. CASE 1 <= Len(q) - 1 BY <2>1, <2>3, <3>1
    <3>2. CASE ~(1 <= Len(q) - 1)
      <4>1. \A n \in Nat \ {0} : ~(1 <= n - 1) => n - 1 = 0 OBVIOUS
      <4>2. Len(q) - 1 = 0 BY ONLY <4>1, <2>1, <3>2, Zenon
      <4> QED BY <2>3, <3>2, <4>2
    <3> QED BY <3>1, <3>2
  <2>6. \A i \in 1 .. Len(q) - 1 : f[i] = q[i] BY <2>1, <2>3
  <2> QED BY <2>1, <2>3, <2>4, <2>5, <2>6
<1> HIDE DEF f
<1>2. DOMAIN f = 1 .. Len(q) - 1 BY <1>1
<1>3. \A i \in DOMAIN q : i = Len(q) \/ i \in DOMAIN f BY <1>1, <1>2
<1>4. \A i \in DOMAIN f : i \in DOMAIN q /\ i < Len(q) /\ f[i] = q[i] BY <1>1, <1>2
<1>5. Len(q) \in DOMAIN q /\ Last(q) = q[Len(q)] BY <1>1 DEF Last
<1>6. Once(f) BY <1>4 DEF Once
<1>7. ToSet(f) = ToSet(q) \ {Last(q)} BY <1>1, <1>3, <1>4, <1>5 DEF Once, ToSet
<1>8. \A a, b : Before(f, a, b) => Before(q, a, b) BY <1>4 DEF Before
<1>9. \A a \in ToSet(f) : Before(q, a, Last(q)) BY <1>4, <1>5 DEF ToSet, Before
<1>10. Last(q) \in ToSet(q) BY <1>5 DEF ToSet
<1> QED BY <1>1, <1>6, <1>7, <1>8, <1>9, <1>10 DEF f

\* A list without repetitions is as long as the set of its elements.
LEMMA ListCardinality ==
  ASSUME NEW S, NEW q \in Seq(S), Once(q)
  PROVE  IsFiniteSet(ToSet(q)) /\ Cardinality(ToSet(q)) = Len(q)
PROOF
<1>1. Len(q) \in Nat /\ DOMAIN q = 1 .. Len(q) OBVIOUS
<1>2. q \in Bijection(1 .. Len(q), ToSet(q))
  BY <1>1 DEF Once, ToSet, Bijection, Injection, Surjection, IsInjective
<1>3. ExistsBijection(1 .. Len(q), ToSet(q)) BY <1>2 DEF ExistsBijection
<1>4. IsFiniteSet(1 .. Len(q)) BY <1>1, FS_Interval
<1> QED BY <1>1, <1>3, <1>4, FS_Bijection, FS_CountingElements

------------------------------------------------------------------------------
(* The inductive invariant of the cache, kept by each of its operations.           *)

CacheTypeOK ==
  /\ DOMAIN entries \subseteq Keys /\ DOMAIN promised \subseteq Keys
  /\ \A k \in DOMAIN promised : promised[k].expires \in Nat \cup {Forever}
  /\ lru \in Seq(Keys) /\ clock \in Nat
  /\ after \in [Keys -> SUBSET Keys]
  /\ \A k \in Keys : IsFiniteSet(after[k])

\* An entry has the value its key was last set to.
Truthful == \A k \in DOMAIN entries : Held(promised, k) /\ entries[k] = promised[k]

\* A key that was set and not deleted is there, or expired, or MaxEntries others were used.
Excused(k) == Expired(promised[k]) \/ Cardinality(after[k]) >= MaxEntries
Forgotten == \A k \in DOMAIN promised : Held(entries, k) \/ Excused(k)

Listed == Once(lru) /\ ToSet(lru) = DOMAIN entries /\ Len(lru) <= MaxEntries

\* What stands before a key was used after it.
InOrder == \A a, b \in Keys : Before(lru, a, b) => a \in after[b]

CacheInv == CacheTypeOK /\ Truthful /\ Forgotten /\ Listed /\ InOrder

LEMMA CacheInitInv == CacheInit => CacheInv
PROOF
<1> SUFFICES ASSUME CacheInit PROVE CacheInv OBVIOUS
<1> USE DEF CacheInit
<1>1. DOMAIN Nothing = {} BY DEF Nothing
<1>2. CacheTypeOK BY <1>1, FS_EmptySet DEF CacheTypeOK
<1>3. Truthful /\ Forgotten BY <1>1 DEF Truthful, Forgotten
<1>4. Listed BY <1>1, MaxEntriesAssumption DEF Listed, Once, ToSet
<1>5. InOrder BY DEF InOrder, Before
<1> QED BY <1>2, <1>3, <1>4, <1>5 DEF CacheInv

\* Using a key adds it to what was used after the others.
LEMMA UsedFacts ==
  ASSUME CacheTypeOK, NEW k \in Keys, Used(k)
  PROVE  /\ after' \in [Keys -> SUBSET Keys] /\ after'[k] = {}
         /\ \A j \in Keys : IsFiniteSet(after'[j])
         /\ \A j \in Keys \ {k} :
              /\ after'[j] = after[j] \cup {k}
              /\ Cardinality(after[j]) >= MaxEntries => Cardinality(after'[j]) >= MaxEntries
PROOF
<1>1. after' \in [Keys -> SUBSET Keys] /\ after'[k] = {}
  BY DEF CacheTypeOK, Used
<1>2. \A j \in Keys \ {k} : after'[j] = after[j] \cup {k}
  BY DEF CacheTypeOK, Used
<1>3. ASSUME NEW j \in Keys \ {k}
      PROVE  /\ IsFiniteSet(after'[j])
             /\ Cardinality(after[j]) >= MaxEntries => Cardinality(after'[j]) >= MaxEntries
  <2>1. IsFiniteSet(after[j]) BY <1>3 DEF CacheTypeOK
  <2>2. IsFiniteSet(after[j] \cup {k}) BY <2>1, FS_AddElement
  <2>3. Cardinality(after[j]) \in Nat /\ Cardinality(after[j] \cup {k}) \in Nat
    BY <2>1, <2>2, FS_CardinalityType
  <2>4. Cardinality(after[j]) <= Cardinality(after[j] \cup {k})
    <3>1. after[j] \subseteq after[j] \cup {k} OBVIOUS
    <3> QED BY <2>2, <3>1, FS_Subset
  <2>5. after'[j] = after[j] \cup {k} BY <1>2, <1>3
  <2> QED BY <2>2, <2>3, <2>4, <2>5, MaxEntriesAssumption
<1>4. IsFiniteSet(after'[k]) BY <1>1, FS_EmptySet
<1> QED BY <1>1, <1>2, <1>3, <1>4

\* With the key at the front, the list is in the order of use again.
LEMMA FrontIsLatest ==
  ASSUME CacheInv, NEW k \in Keys, Used(k)
  PROVE  /\ ToFront(lru, k) \in Seq(Keys) /\ Once(ToFront(lru, k))
         /\ ToFront(lru, k) # <<>>
         /\ ToSet(ToFront(lru, k)) = DOMAIN entries \cup {k}
         /\ \A a, b \in Keys : Before(ToFront(lru, k), a, b) => a \in after'[b] /\ b # k
PROOF
<1>1. lru \in Seq(Keys) /\ Once(lru) /\ ToSet(lru) = DOMAIN entries
  BY DEF CacheInv, CacheTypeOK, Listed
<1>2. /\ ToFront(lru, k) \in Seq(Keys) /\ Once(ToFront(lru, k))
      /\ ToFront(lru, k) # <<>>
      /\ ToSet(ToFront(lru, k)) = ToSet(lru) \cup {k}
      /\ \A a, b : Before(ToFront(lru, k), a, b) =>
           b # k /\ (a = k \/ (a # k /\ Before(lru, a, b)))
  BY <1>1, ToFrontFacts
<1>3. \A j \in Keys \ {k} : after'[j] = after[j] \cup {k} BY UsedFacts DEF CacheInv
<1>4. \A a, b \in Keys : Before(lru, a, b) => a \in after[b] BY DEF CacheInv, InOrder
<1> QED BY <1>1, <1>2, <1>3, <1>4

\* An entry is dropped: the list keeps its order.
LEMMA DropFacts ==
  ASSUME CacheInv, NEW k \in Keys, entries' = Dropped(entries, k),
         lru' = RemoveFirst(lru, k), UNCHANGED after
  PROVE  /\ Listed' /\ InOrder' /\ lru' \in Seq(Keys)
         /\ DOMAIN entries' = DOMAIN entries \ {k}
         /\ \A j \in DOMAIN entries' : entries'[j] = entries[j]
PROOF
<1>1. lru \in Seq(Keys) /\ Once(lru) /\ ToSet(lru) = DOMAIN entries /\ Len(lru) <= MaxEntries
  BY DEF CacheInv, CacheTypeOK, Listed
<1>2. /\ lru' \in Seq(Keys) /\ Once(lru') /\ ToSet(lru') = ToSet(lru) \ {k}
      /\ \A a, b : Before(lru', a, b) => Before(lru, a, b)
  BY <1>1, RemoveFirstFacts
<1>3. /\ DOMAIN entries' = DOMAIN entries \ {k}
      /\ \A j \in DOMAIN entries' : entries'[j] = entries[j]
  BY DEF Dropped
<1>4. Len(lru') <= MaxEntries
  <2>1. /\ IsFiniteSet(ToSet(lru)) /\ Cardinality(ToSet(lru)) = Len(lru)
        /\ Cardinality(ToSet(lru')) = Len(lru')
    BY <1>1, <1>2, ListCardinality
  <2>2. ToSet(lru') \subseteq ToSet(lru) BY <1>2
  <2>3. Cardinality(ToSet(lru')) <= Cardinality(ToSet(lru)) BY <2>1, <2>2, FS_Subset
  <2>4. Len(lru) \in Nat /\ Len(lru') \in Nat BY <1>1, <1>2
  <2> QED BY <1>1, <2>1, <2>3, <2>4, MaxEntriesAssumption
<1>5. Listed' BY <1>1, <1>2, <1>3, <1>4 DEF Listed, Once
<1>6. InOrder' BY <1>2 DEF CacheInv, InOrder, Before
<1> QED BY <1>2, <1>3, <1>5, <1>6

LEMMA GetInv == ASSUME CacheInv, NEW k \in Keys, Get(k) PROVE CacheInv'
PROOF
<1> USE DEF CacheInv
<1>1. CASE ~Held(entries, k)
  <2>1. UNCHANGED cacheVars BY <1>1 DEF Get, cacheVars
  <2> QED
    BY <2>1 DEF cacheVars, CacheTypeOK, Truthful, Forgotten, Listed, InOrder, Once, Held,
                Expired, Excused, Before
<1>2. CASE Held(entries, k) /\ Expired(entries[k])
  <2>1. /\ entries' = Dropped(entries, k) /\ lru' = RemoveFirst(lru, k)
        /\ UNCHANGED <<after, clock, promised>>
    BY <1>2 DEF Get
  <2>2. /\ Listed' /\ InOrder' /\ lru' \in Seq(Keys)
        /\ DOMAIN entries' = DOMAIN entries \ {k}
        /\ \A j \in DOMAIN entries' : entries'[j] = entries[j]
    BY <2>1, DropFacts
  <2>3. CacheTypeOK' BY <2>1, <2>2 DEF CacheTypeOK
  <2>4. Truthful' BY <2>1, <2>2 DEF Truthful, Held
  <2>5. Expired(promised[k])' BY <1>2, <2>1 DEF Truthful, Held, Expired
  <2>6. Forgotten' BY <2>1, <2>2, <2>5 DEF Forgotten, Held, Excused, Expired
  <2> QED BY <2>2, <2>3, <2>4, <2>6
<1>3. CASE Held(entries, k) /\ ~Expired(entries[k])
  <2>1. /\ lru' = ToFront(lru, k) /\ Used(k) /\ UNCHANGED <<entries, clock, promised>>
    BY <1>3 DEF Get
  <2>2. /\ lru' \in Seq(Keys) /\ Once(lru') /\ ToSet(lru') = DOMAIN entries
        /\ \A a, b \in Keys : Before(lru', a, b) => a \in after'[b]
    BY <1>3, <2>1, FrontIsLatest DEF Held
  <2>3. /\ after' \in [Keys -> SUBSET Keys] /\ \A j \in Keys : IsFiniteSet(after'[j])
        /\ \A j \in Keys \ {k} :
             Cardinality(after[j]) >= MaxEntries => Cardinality(after'[j]) >= MaxEntries
    BY <2>1, UsedFacts
  <2>4. CacheTypeOK' BY <2>1, <2>2, <2>3 DEF CacheTypeOK
  <2>5. Truthful' BY <2>1 DEF Truthful, Held
  <2>6. Forgotten'
    BY <1>3, <2>1, <2>3 DEF CacheTypeOK, Forgotten, Held, Excused, Expired
  <2>7. Listed'
    <3>1. Cardinality(ToSet(lru')) = Len(lru') BY <2>2, ListCardinality
    <3>2. Cardinality(ToSet(lru)) = Len(lru) BY ListCardinality DEF CacheTypeOK, Listed
    <3>3. Len(lru') <= MaxEntries BY <2>2, <3>1, <3>2 DEF Listed
    <3> QED BY <2>1, <2>2, <3>3 DEF Listed, Once
  <2>8. InOrder' BY <2>2 DEF InOrder, Before
  <2> QED BY <2>4, <2>5, <2>6, <2>7, <2>8
<1> QED BY <1>1, <1>2, <1>3

LEMMA DeleteInv == ASSUME CacheInv, NEW k \in Keys, Delete(k) PROVE CacheInv'
PROOF
<1> USE DEF CacheInv
<1>1. /\ entries' = Dropped(entries, k) /\ lru' = RemoveFirst(lru, k)
      /\ promised' = Dropped(promised, k) /\ UNCHANGED <<after, clock>>
  BY DEF Delete
<1>2. /\ Listed' /\ InOrder' /\ lru' \in Seq(Keys)
      /\ DOMAIN entries' = DOMAIN entries \ {k}
      /\ \A j \in DOMAIN entries' : entries'[j] = entries[j]
  BY <1>1, DropFacts
<1>3. /\ DOMAIN promised' = DOMAIN promised \ {k}
      /\ \A j \in DOMAIN promised' : promised'[j] = promised[j]
  BY <1>1 DEF Dropped
<1>4. CacheTypeOK' BY <1>1, <1>2, <1>3 DEF CacheTypeOK
<1>5. Truthful' BY <1>2, <1>3 DEF Truthful, Held
<1>6. Forgotten' BY <1>1, <1>2, <1>3 DEF Forgotten, Held, Excused, Expired
<1> QED BY <1>2, <1>4, <1>5, <1>6

\* A key that was set: its entry is in the list, and what was pushed out had MaxEntries
\* others used after it.
LEMMA SetInv ==
  ASSUME CacheInv, NEW k \in Keys, NEW v, NEW t \in Nat \cup {Forever}, Set(k, v, t)
  PROVE  CacheInv'
PROOF
<1> DEFINE entry == [value |-> v, expires |-> t]
           written == SetAt(entries, k, entry)
           list == ToFront(lru, k)
           full == Cardinality(DOMAIN written) > MaxEntries
<1> USE DEF CacheInv
<1>1. /\ promised' = SetAt(promised, k, entry) /\ Used(k) /\ UNCHANGED clock
      /\ IF ~Held(entries, k) /\ full
         THEN entries' = Dropped(written, Last(list)) /\ lru' = Front(list)
         ELSE entries' = written /\ lru' = list
  BY DEF Set
<1>2. /\ list \in Seq(Keys) /\ Once(list) /\ list # <<>>
      /\ ToSet(list) = DOMAIN entries \cup {k}
      /\ \A a, b \in Keys : Before(list, a, b) => a \in after'[b] /\ b # k
  BY <1>1, FrontIsLatest
<1>3. /\ after' \in [Keys -> SUBSET Keys] /\ \A j \in Keys : IsFiniteSet(after'[j])
      /\ \A j \in Keys \ {k} :
           Cardinality(after[j]) >= MaxEntries => Cardinality(after'[j]) >= MaxEntries
  BY <1>1, UsedFacts
<1>4. /\ DOMAIN promised' = DOMAIN promised \cup {k} /\ promised'[k] = entry
      /\ \A j \in DOMAIN promised : j # k => promised'[j] = promised[j]
  BY <1>1 DEF SetAt
<1>5. /\ DOMAIN written = DOMAIN entries \cup {k} /\ written[k] = entry
      /\ \A j \in DOMAIN entries : j # k => written[j] = entries[j]
  BY DEF SetAt
<1>6. entry.expires = t OBVIOUS
<1>7. ASSUME NEW j \in DOMAIN promised, j # k, Excused(j) PROVE Excused(j)'
  BY <1>1, <1>3, <1>4, <1>7 DEF CacheTypeOK, Excused, Expired
<1>8. /\ IsFiniteSet(DOMAIN entries) /\ Cardinality(DOMAIN entries) = Len(lru)
      /\ Len(lru) \in Nat /\ Len(lru) <= MaxEntries /\ MaxEntries \in Nat \ {0}
  <2>1. lru \in Seq(Keys) /\ Once(lru) /\ ToSet(lru) = DOMAIN entries /\ Len(lru) <= MaxEntries
    BY DEF CacheTypeOK, Listed
  <2>2. IsFiniteSet(ToSet(lru)) /\ Cardinality(ToSet(lru)) = Len(lru)
    BY <2>1, ListCardinality
  <2> QED BY <2>1, <2>2, MaxEntriesAssumption
<1>9. /\ IsFiniteSet(ToSet(list)) /\ Cardinality(ToSet(list)) = Len(list)
  BY <1>2, ListCardinality
<1> HIDE DEF entry, written, list
<1>10. CASE ~(~Held(entries, k) /\ full)
  <2>1. entries' = written /\ lru' = list BY <1>1, <1>10
  <2>2. Len(list) <= MaxEntries
    <3>1. CASE k \in DOMAIN entries
      <4>1. ToSet(list) = DOMAIN entries BY <1>2, <3>1
      <4> QED BY <4>1, <1>8, <1>9
    <3>2. CASE k \notin DOMAIN entries
      <4>1. ~(Len(list) > MaxEntries) BY <1>2, <1>5, <1>9, <1>10, <3>2 DEF Held
      <4>2. Len(list) \in Nat BY <1>2
      <4> QED BY <4>1, <4>2, <1>8
    <3> QED BY <3>1, <3>2
  <2>3. CacheTypeOK'
    BY <1>1, <1>2, <1>3, <1>4, <1>5, <1>6, <2>1 DEF CacheTypeOK
  <2>4. Truthful' BY <1>4, <1>5, <2>1 DEF Truthful, Held
  <2>5. Forgotten' BY <1>4, <1>5, <1>7, <2>1 DEF Forgotten, Held
  <2>6. Listed' BY <1>2, <1>5, <2>1, <2>2 DEF Listed, Once
  <2>7. InOrder' BY <1>2, <2>1 DEF InOrder, Before
  <2> QED BY <2>3, <2>4, <2>5, <2>6, <2>7
<1>11. CASE ~Held(entries, k) /\ full
  <2> DEFINE z == Last(list)
             f == Front(list)
  <2>1. entries' = Dropped(written, z) /\ lru' = f BY <1>1, <1>11
  <2>2. /\ f \in Seq(Keys) /\ Once(f) /\ z \in ToSet(list) /\ ToSet(f) = ToSet(list) \ {z}
        /\ \A a, b : Before(f, a, b) => Before(list, a, b)
        /\ \A a \in ToSet(f) : Before(list, a, z)
    BY <1>2, FrontOfList
  <2> HIDE DEF z, f
  <2>3. IsFiniteSet(ToSet(f)) /\ Cardinality(ToSet(f)) = Len(f) /\ Len(f) \in Nat
    <3>1. IsFiniteSet(ToSet(f)) /\ Cardinality(ToSet(f)) = Len(f) BY <2>2, ListCardinality
    <3>2. Len(f) \in Nat BY <2>2
    <3> QED BY <3>1, <3>2
  <2>4. Len(f) = MaxEntries
    <3>1. Cardinality(ToSet(list)) = Cardinality(DOMAIN entries) + 1
      BY <1>2, <1>8, <1>11, FS_AddElement DEF Held
    <3>2. Cardinality(ToSet(f)) = Cardinality(ToSet(list)) - 1
      BY <1>9, <2>2, FS_RemoveElement
    <3>3. Cardinality(ToSet(list)) > MaxEntries BY <1>2, <1>5, <1>11
    <3> QED BY <3>1, <3>2, <3>3, <1>8, <2>3
  <2>5. DOMAIN entries \cup {k} \subseteq Keys BY DEF CacheTypeOK
  <2>6. z \in Keys /\ ToSet(f) \subseteq Keys BY <1>2, <2>2, <2>5
  <2>7. z # k
    <3>1. ToSet(f) # {} BY <1>8, <2>3, <2>4, FS_EmptySet
    <3>2. PICK a \in ToSet(f) : TRUE BY <3>1
    <3> QED BY <3>2, <1>2, <2>2, <2>6
  <2>8. Cardinality(after'[z]) >= MaxEntries
    <3>1. ToSet(f) \subseteq after'[z] BY <1>2, <2>2, <2>6
    <3>2. IsFiniteSet(after'[z]) BY <1>3, <2>6
    <3>3. Cardinality(ToSet(f)) <= Cardinality(after'[z]) BY <3>1, <3>2, FS_Subset
    <3>4. Cardinality(after'[z]) \in Nat BY <3>2, FS_CardinalityType
    <3> QED BY <3>3, <3>4, <2>3, <2>4, <1>8
  <2>9. /\ DOMAIN entries' = (DOMAIN entries \cup {k}) \ {z}
        /\ \A j \in DOMAIN entries' : entries'[j] = written[j]
    BY <1>5, <2>1 DEF Dropped
  <2>10. CacheTypeOK'
    BY <1>1, <1>3, <1>4, <1>6, <2>1, <2>2, <2>5, <2>9 DEF CacheTypeOK
  <2>11. Truthful' BY <1>4, <1>5, <2>9 DEF Truthful, Held
  <2>12. Forgotten'
    <3> SUFFICES ASSUME NEW j \in DOMAIN promised' PROVE Held(entries, j)' \/ Excused(j)'
      BY DEF Forgotten
    <3>1. CASE j = k BY <3>1, <2>7, <2>9 DEF Held
    <3>2. CASE j = z BY <3>2, <2>8 DEF Excused
    <3>3. CASE j # k /\ j # z BY <3>3, <1>4, <1>7, <2>9 DEF Forgotten, Held
    <3> QED BY <3>1, <3>2, <3>3
  <2>13. Listed' BY <1>2, <1>8, <2>1, <2>2, <2>4, <2>9 DEF Listed, Once
  <2>14. InOrder' BY <1>2, <2>1, <2>2 DEF InOrder, Before
  <2> QED BY <2>10, <2>11, <2>12, <2>13, <2>14
<1> QED BY <1>10, <1>11

LEMMA CacheStep == CacheInv /\ [CacheNext]_cacheVars => CacheInv'
PROOF
<1> SUFFICES ASSUME CacheInv, [CacheNext]_cacheVars PROVE CacheInv' OBVIOUS
<1>1. ASSUME NEW k \in Keys, Get(k) PROVE CacheInv' BY <1>1, GetInv
<1>2. ASSUME NEW k \in Keys, Delete(k) PROVE CacheInv' BY <1>2, DeleteInv
<1>3. ASSUME NEW k \in Keys, NEW v \in Values, NEW t \in {clock, Forever}, Set(k, v, t)
      PROVE  CacheInv'
  <2>1. t \in Nat \cup {Forever} BY DEF CacheInv, CacheTypeOK
  <2> QED BY <1>3, <2>1, SetInv
<1>4. CASE CloseCache
  <2>1. DOMAIN Nothing = {} BY DEF Nothing
  <2>2. entries' = Nothing /\ lru' = <<>> /\ promised' = Nothing /\ UNCHANGED <<clock, after>>
    BY <1>4 DEF CloseCache
  <2>3. CacheTypeOK' BY <2>1, <2>2 DEF CacheInv, CacheTypeOK
  <2>4. Truthful' /\ Forgotten' BY <2>1, <2>2 DEF Truthful, Forgotten
  <2>5. Listed' BY <2>1, <2>2, MaxEntriesAssumption DEF Listed, Once, ToSet
  <2>6. InOrder' BY <2>2 DEF InOrder, Before
  <2> QED BY <2>3, <2>4, <2>5, <2>6 DEF CacheInv
<1>5. CASE TimePasses
  <2>1. clock' = clock + 1 /\ UNCHANGED <<entries, lru, promised, after>>
    BY <1>5 DEF TimePasses
  <2>2. CacheTypeOK' BY <2>1 DEF CacheInv, CacheTypeOK
  <2>3. ASSUME NEW k \in DOMAIN promised, Expired(promised[k]) PROVE Expired(promised[k])'
    BY <2>1, <2>3 DEF CacheInv, CacheTypeOK, Expired
  <2>4. Forgotten' BY <2>1, <2>3 DEF CacheInv, Forgotten, Held, Excused
  <2>5. Truthful' /\ Listed' /\ InOrder'
    BY <2>1 DEF CacheInv, Truthful, Held, Listed, Once, InOrder, Before
  <2> QED BY <2>2, <2>4, <2>5 DEF CacheInv
<1>6. CASE UNCHANGED cacheVars
  BY <1>6 DEF cacheVars, CacheInv, CacheTypeOK, Truthful, Forgotten, Listed, InOrder, Once,
              Held, Expired, Excused, Before
<1> QED BY <1>1, <1>2, <1>3, <1>4, <1>5, <1>6 DEF CacheNext

\* The cache forgets only what was deleted, expired or pushed out by MaxEntries later keys,
\* and never mixes entries up.
THEOREM CacheForgetsOnlyOld == CacheSpec => []CacheOnlyForgets
PROOF
<1>1. CacheInv => CacheOnlyForgets
  <2> SUFFICES ASSUME CacheInv PROVE CacheOnlyForgets OBVIOUS
  <2>1. \A k \in DOMAIN entries : Held(promised, k) /\ entries[k] = promised[k]
    BY DEF CacheInv, Truthful
  <2>2. ASSUME NEW k \in DOMAIN promised, ~Expired(promised[k]),
               Cardinality(after[k]) < MaxEntries
        PROVE  Held(entries, k)
    <3>1. Cardinality(after[k]) \in Nat
      BY FS_CardinalityType DEF CacheInv, CacheTypeOK
    <3> QED BY <2>2, <3>1, MaxEntriesAssumption DEF CacheInv, Forgotten, Excused
  <2>3. ToSet(lru) = DOMAIN entries /\ Len(lru) = Cardinality(ToSet(lru))
        /\ Len(lru) <= MaxEntries
    BY ListCardinality DEF CacheInv, CacheTypeOK, Listed
  <2> QED BY <2>1, <2>2, <2>3 DEF CacheOnlyForgets, ToSet
<1>2. CacheInv /\ [CacheNext]_cacheVars => CacheInv' BY CacheStep
<1> QED BY CacheInitInv, <1>1, <1>2, PTL DEF CacheSpec
==============================================================================
