---------------------------- MODULE SortedIndexes ----------------------------
(* sort.Ints over the indexes of a map: where gateway/responses.go and            *)
(* providers/chatgpt/provider.go put the items of an answer in order.             *)
EXTENDS Naturals, FiniteSets

\* The elements of a finite set of numbers, each once, from the least to the greatest.
Ascending(S) ==
  CHOOSE s \in [1 .. Cardinality(S) -> S] :
    \A m, n \in 1 .. Cardinality(S) : m < n => s[m] < s[n]
==============================================================================
