------------------------------- MODULE LruCache ------------------------------
(* The in-process conversation cache (providers/codex/conversation_cache.go): a  *)
(* map and a list of entries under one mutex, bounded, least recently used first  *)
(* to go, with a time to live for each entry.                                     *)
EXTENDS Naturals, Sequences, FiniteSets, SequencesExt

CONSTANTS Keys,
          Values,
          MaxEntries,    \* the bound of the cache
          MaxClock,      \* bound on the clock
          Forever        \* the zero time.Time: an entry without a time to live

\* NewMemoryConversationCache takes its default for a bound that is not positive.
ASSUME MaxEntriesAssumption == MaxEntries \in Nat \ {0}

VARIABLES
  entries,   \* the entries in the map: key -> [value, expires]
  lru,       \* the list of keys, the most recently used first
  clock,
  cacheShut, \* closed
  promised,  \* what each key was last set to, if nothing deleted it: [value, expires]
  after      \* the keys used since a key was last used

cacheVars == <<entries, lru, clock, cacheShut, promised, after>>

Nothing  == [k \in {} |-> Forever]
Held(f, k) == k \in DOMAIN f
SetAt(f, k, v) == [j \in DOMAIN f \cup {k} |-> IF j = k THEN v ELSE f[j]]
Dropped(f, k)  == [j \in DOMAIN f \ {k} |-> f[j]]

CacheInit ==
  /\ entries = Nothing /\ lru = <<>> /\ clock = 0 /\ cacheShut = FALSE
  /\ promised = Nothing /\ after = [k \in Keys |-> {}]

\* time.Now().After(expiresAt)
Expired(entry) == entry.expires # Forever /\ clock > entry.expires

\* mutant: an entry that was read stays where it is
LeftInPlace(list, k) == IF k \in {list[n] : n \in DOMAIN list} THEN list ELSE <<k>> \o list

\* MoveToFront and PushFront.
ToFront(list, k) == <<k>> \o RemoveFirst(list, k)

\* What was used is now the latest.
Used(k) == after' = [j \in Keys |-> IF j = k THEN {} ELSE after[j] \cup {k}]

Get(k) ==
  /\ ~cacheShut
  /\ \/ ~Held(entries, k) /\ UNCHANGED <<entries, lru, after>>
     \/ /\ Held(entries, k) /\ Expired(entries[k])
        /\ entries' = Dropped(entries, k) /\ lru' = RemoveFirst(lru, k) /\ UNCHANGED after
     \/ /\ Held(entries, k) /\ ~Expired(entries[k])
        /\ lru' = ToFront(lru, k) /\ Used(k) /\ UNCHANGED entries
  /\ UNCHANGED <<clock, cacheShut, promised>>

\* An entry that is there is overwritten and moved; a new one pushes the last ones out.
Set(k, v, expires) ==
  /\ ~cacheShut
  /\ LET written == SetAt(entries, k, [value |-> v, expires |-> expires])
         list    == ToFront(lru, k)
         full    == Cardinality(DOMAIN written) > MaxEntries
     IN IF ~Held(entries, k) /\ full
        THEN entries' = Dropped(written, Last(list)) /\ lru' = Front(list)
        ELSE entries' = written /\ lru' = list
  /\ promised' = SetAt(promised, k, [value |-> v, expires |-> expires])
  /\ Used(k)
  /\ UNCHANGED <<clock, cacheShut>>

Delete(k) ==
  /\ ~cacheShut
  /\ entries' = Dropped(entries, k) /\ lru' = RemoveFirst(lru, k)
  /\ promised' = Dropped(promised, k)
  /\ UNCHANGED <<clock, cacheShut, after>>

CloseCache ==
  /\ cacheShut' = TRUE
  /\ entries' = Nothing /\ lru' = <<>> /\ promised' = Nothing
  /\ UNCHANGED <<clock, after>>

TimePasses ==
  /\ clock < MaxClock
  /\ clock' = clock + 1
  /\ UNCHANGED <<entries, lru, cacheShut, promised, after>>

CacheNext ==
  \/ \E k \in Keys : Get(k) \/ Delete(k)
  \/ \E k \in Keys, v \in Values, t \in {clock, Forever} : Set(k, v, t)
  \/ CloseCache \/ TimePasses

CacheSpec == CacheInit /\ [][CacheNext]_cacheVars

------------------------------------------------------------------------------
(* Property.                                                                   *)

\* The cache forgets but does not lie: an entry has the value its key was last set to,
\* one that has not expired is gone only when MaxEntries other keys were used after it,
\* and the map and the list hold the same keys, each once and within the bound
\* (conversation_cache.go:64-120).
CacheOnlyForgets ==
  /\ \A k \in DOMAIN entries : Held(promised, k) /\ entries[k] = promised[k]
  /\ \A k \in DOMAIN promised :
       ~Expired(promised[k]) /\ Cardinality(after[k]) < MaxEntries => Held(entries, k)
  /\ {lru[n] : n \in DOMAIN lru} = DOMAIN entries
  /\ Len(lru) = Cardinality(DOMAIN entries) /\ Len(lru) <= MaxEntries
==============================================================================
