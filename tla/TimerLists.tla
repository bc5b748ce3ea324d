----------------------------- MODULE TimerLists -----------------------------
(***************************************************************************)
(* The list operations timer.py performs on timer_list: insort (bisect),   *)
(* list.remove and list.sort.  `key' gives every entry's                   *)
(* getNextActivation(), the only thing TimerEntry.__lt__ compares.         *)
(*                                                                         *)
(* insort is a binary search, so on a list that is out of order it ends at *)
(* SOME position whose left neighbour is not greater and whose right       *)
(* neighbour is greater; on a sorted list there is one such position.      *)
(***************************************************************************)
EXTENDS Integers, Sequences, SequencesExt, Functions

\* Where insort(s, x) may put x: after the first k elements.
InsortPoints(key, s, x) ==
  {k \in 0 .. Len(s) : /\ k = 0 \/ key[s[k]] <= key[x]
                       /\ k = Len(s) \/ key[x] < key[s[k + 1]]}

Insorted(key, s, x) == {InsertAt(s, k + 1, x) : k \in InsortPoints(key, s, x)}

IndexOf(s, x) == CHOOSE i \in DOMAIN s : s[i] = x /\ \A j \in DOMAIN s : s[j] = x => i <= j

\* Mutant of Without: the entry is not taken out.
NotRemoved(s, x) == s

\* s.remove(x) where x is in s.
Without(s, x) == RemoveAt(s, IndexOf(s, x))

\* s.sort(): a stable sort by key (the set has one element).
SortsOf(key, s) ==
  {[i \in DOMAIN s |-> s[p[i]]] :
     p \in {q \in Bijection(DOMAIN s, DOMAIN s) :
              \A i, j \in DOMAIN s :
                i < j => \/ key[s[q[i]]] < key[s[q[j]]]
                         \/ key[s[q[i]]] = key[s[q[j]]] /\ q[i] < q[j]}}
=============================================================================
