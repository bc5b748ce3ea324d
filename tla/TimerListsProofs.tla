-------------------------- MODULE TimerListsProofs --------------------------
(***************************************************************************)
(* What the list operations of TimerLists keep.                            *)
(***************************************************************************)
EXTENDS TimerLists, SequenceTheorems, TLAPS

Distinct(s) == \A i, j \in DOMAIN s : s[i] = s[j] => i = j

LEMMA IndexOfEntry ==
  ASSUME NEW T, NEW s \in Seq(T), Distinct(s), NEW x \in Range(s)
  PROVE  IndexOf(s, x) \in 1 .. Len(s) /\ s[IndexOf(s, x)] = x
<1>1. PICK i \in DOMAIN s : s[i] = x
  BY DEF Range
<1>2. \A j \in DOMAIN s : s[j] = x => i <= j
  BY <1>1 DEF Distinct
<1>3. IndexOf(s, x) \in DOMAIN s /\ s[IndexOf(s, x)] = x
  BY <1>1, <1>2 DEF IndexOf
<1> QED BY <1>3

LEMMA RemovalElements ==
  ASSUME NEW T, NEW s \in Seq(T), NEW k \in 1 .. Len(s)
  PROVE  /\ RemoveAt(s, k) \in Seq(T)
         /\ Len(RemoveAt(s, k)) = Len(s) - 1
         /\ \A i \in 1 .. Len(s) - 1 :
              RemoveAt(s, k)[i] = IF i < k THEN s[i] ELSE s[i + 1]
<1> DEFINE a == SubSeq(s, 1, k - 1)
           b == SubSeq(s, k + 1, Len(s))
<1>1. Len(s) \in Nat /\ \A i \in 1 .. Len(s) : s[i] \in T
  OBVIOUS
<1>2. /\ a \in Seq(T) /\ Len(a) = k - 1
      /\ \A i \in 1 .. k - 1 : a[i] = s[i]
  BY <1>1, SubSeqProperties
<1>3. /\ b \in Seq(T) /\ Len(b) = Len(s) - k
      /\ \A i \in 1 .. Len(s) - k : b[i] = s[k + i]
  BY <1>1, SubSeqProperties
<1> HIDE DEF a, b
<1>4. /\ a \o b \in Seq(T) /\ Len(a \o b) = Len(s) - 1
      /\ \A i \in 1 .. Len(s) - 1 :
           (a \o b)[i] = IF i < k THEN s[i] ELSE s[i + 1]
  <2>1. /\ a \o b \in Seq(T) /\ Len(a \o b) = Len(a) + Len(b)
        /\ \A i \in 1 .. Len(a) + Len(b) :
             (a \o b)[i] = IF i <= Len(a) THEN a[i] ELSE b[i - Len(a)]
    BY <1>2, <1>3, ConcatProperties
  <2>2. Len(a) + Len(b) = Len(s) - 1
    BY <1>1, <1>2, <1>3
  <2>3. ASSUME NEW i \in 1 .. Len(s) - 1
        PROVE  (a \o b)[i] = IF i < k THEN s[i] ELSE s[i + 1]
    <3>1. CASE i < k
      BY <3>1, <2>1, <2>2, <1>1, <1>2
    <3>2. CASE ~(i < k)
      <4>1. i - (k - 1) \in 1 .. Len(s) - k /\ k + (i - (k - 1)) = i + 1
        BY <3>2, <1>1
      <4>2. (a \o b)[i] = b[i - (k - 1)]
        BY <3>2, <2>1, <2>2, <1>1, <1>2
      <4> QED BY <3>2, <4>1, <4>2, <1>3
    <3> QED BY <3>1, <3>2
  <2> QED BY <2>1, <2>2, <2>3
<1> QED BY <1>4 DEF RemoveAt, a, b

LEMMA ConcatElements ==
  ASSUME NEW T, NEW c \in Seq(T), NEW b \in Seq(T)
  PROVE  /\ c \o b \in Seq(T)
         /\ Len(c \o b) = Len(c) + Len(b)
         /\ \A i \in 1 .. Len(c) : (c \o b)[i] = c[i]
         /\ \A i \in 1 .. Len(b) : (c \o b)[Len(c) + i] = b[i]
<1>1. /\ c \o b \in Seq(T) /\ Len(c \o b) = Len(c) + Len(b)
      /\ \A i \in 1 .. Len(c) + Len(b) :
           (c \o b)[i] = IF i <= Len(c) THEN c[i] ELSE b[i - Len(c)]
  BY ConcatProperties
<1>2. Len(b) \in Nat /\ Len(c) \in Nat
  OBVIOUS
<1>3. ASSUME NEW i \in 1 .. Len(b) PROVE (c \o b)[Len(c) + i] = b[i]
  <2>1. /\ Len(c) + i \in 1 .. Len(c) + Len(b)
        /\ ~(Len(c) + i <= Len(c)) /\ (Len(c) + i) - Len(c) = i
    BY <1>2
  <2> QED BY <2>1, <1>1
<1> QED BY <1>1, <1>2, <1>3

\* r is a, m and b one after the other.
Joins(T, r, a, m, b) ==
  /\ r \in Seq(T)
  /\ Len(r) = Len(a) + Len(m) + Len(b)
  /\ \A i \in 1 .. Len(a) : r[i] = a[i]
  /\ \A i \in 1 .. Len(m) : r[Len(a) + i] = m[i]
  /\ \A i \in 1 .. Len(b) : r[Len(a) + Len(m) + i] = b[i]

LEMMA MiddleElements ==
  ASSUME NEW T, NEW a \in Seq(T), NEW m \in Seq(T), NEW b \in Seq(T)
  PROVE  Joins(T, (a \o m) \o b, a, m, b)
<1>1. /\ a \o m \in Seq(T) /\ Len(a \o m) = Len(a) + Len(m)
      /\ \A i \in 1 .. Len(a) : (a \o m)[i] = a[i]
      /\ \A i \in 1 .. Len(m) : (a \o m)[Len(a) + i] = m[i]
  BY ConcatElements
<1>2. \A c \in Seq(T) :
        /\ c \o b \in Seq(T) /\ Len(c \o b) = Len(c) + Len(b)
        /\ \A i \in 1 .. Len(c) : (c \o b)[i] = c[i]
        /\ \A i \in 1 .. Len(b) : (c \o b)[Len(c) + i] = b[i]
  BY ConcatElements
<1>3. Len(a) \in Nat /\ Len(m) \in Nat
  OBVIOUS
<1>4. \A i \in 1 .. Len(m) : ((a \o m) \o b)[Len(a) + i] = m[i]
  <2>1. \A i \in 1 .. Len(m) : Len(a) + i \in 1 .. Len(a \o m)
    BY <1>1, <1>3
  <2> QED BY <2>1, <1>1, <1>2
<1>5. \A i \in 1 .. Len(a) : ((a \o m) \o b)[i] = a[i]
  <2>1. \A i \in 1 .. Len(a) : i \in 1 .. Len(a \o m)
    BY <1>1, <1>3
  <2> QED BY <2>1, <1>1, <1>2
<1> QED BY <1>1, <1>2, <1>4, <1>5 DEF Joins

\* r is s with x after its first k elements.
Inserts(T, r, s, k, x) ==
  /\ r \in Seq(T)
  /\ Len(r) = Len(s) + 1
  /\ \A i \in 1 .. k : r[i] = s[i]
  /\ r[k + 1] = x
  /\ \A i \in 1 .. Len(s) - k : r[k + 1 + i] = s[k + i]

\* insort's list.insert.
LEMMA InsertionElements ==
  ASSUME NEW T, NEW s \in Seq(T), NEW x \in T, NEW k \in 0 .. Len(s)
  PROVE  Inserts(T, InsertAt(s, k + 1, x), s, k, x)
<1> DEFINE a == SubSeq(s, 1, (k + 1) - 1)
           b == SubSeq(s, k + 1, Len(s))
           m == <<x>>
<1>1. Len(s) \in Nat /\ \A i \in 1 .. Len(s) : s[i] \in T
  OBVIOUS
<1>2. a \in Seq(T) /\ Len(a) = k /\ \A i \in 1 .. k : a[i] = s[i]
  BY <1>1, SubSeqProperties
<1>3. /\ b \in Seq(T) /\ Len(b) = Len(s) - k
      /\ \A i \in 1 .. Len(s) - k : b[i] = s[k + i]
  BY <1>1, SubSeqProperties
<1>4. m \in Seq(T) /\ Len(m) = 1 /\ m[1] = x
  OBVIOUS
<1>5. InsertAt(s, k + 1, x) = (a \o m) \o b
  BY SMT DEF InsertAt
<1> HIDE DEF a, b, m
<1> DEFINE r == (a \o m) \o b
<1>6. Joins(T, r, a, m, b)
  <2>1. a \in Seq(T) /\ m \in Seq(T) /\ b \in Seq(T)
    BY <1>2, <1>3, <1>4
  <2> QED BY <2>1, MiddleElements
<1>7. /\ r \in Seq(T) /\ Len(r) = Len(s) + 1
      /\ \A i \in 1 .. k : r[i] = s[i]
      /\ r[k + 1] = x
      /\ \A i \in 1 .. Len(s) - k : r[k + 1 + i] = s[k + i]
  <2> HIDE DEF r
  <2>1. /\ r \in Seq(T) /\ Len(r) = Len(a) + Len(m) + Len(b)
        /\ \A i \in 1 .. Len(a) : r[i] = a[i]
        /\ \A i \in 1 .. Len(m) : r[Len(a) + i] = m[i]
        /\ \A i \in 1 .. Len(b) : r[Len(a) + Len(m) + i] = b[i]
    BY <1>6 DEF Joins
  <2>2. Len(a) = k /\ Len(m) = 1 /\ Len(b) = Len(s) - k /\ 1 \in 1 .. Len(m)
    BY <1>2, <1>3, <1>4
  <2>3. Len(r) = Len(s) + 1 /\ \A i \in 1 .. k : r[i] = s[i]
    BY <2>1, <2>2, <1>1, <1>2
  <2>4. r[k + 1] = x
    BY <2>1, <2>2, <1>4
  <2>5. \A i \in 1 .. Len(s) - k : r[k + 1 + i] = s[k + i]
    BY <2>1, <2>2, <1>3
  <2> QED BY <2>1, <2>3, <2>4, <2>5
<1> QED BY <1>5, <1>7 DEF Inserts

\* list.remove takes out the entry and nothing else.
LEMMA WithoutEntry ==
  ASSUME NEW T, NEW s \in Seq(T), Distinct(s), NEW x \in Range(s)
  PROVE  /\ Without(s, x) \in Seq(T)
         /\ Distinct(Without(s, x))
         /\ Range(Without(s, x)) = Range(s) \ {x}
<1> DEFINE k == IndexOf(s, x)
           r == RemoveAt(s, k)
<1>1. k \in 1 .. Len(s) /\ s[k] = x
  BY IndexOfEntry
<1> HIDE DEF k
<1>2. /\ r \in Seq(T) /\ Len(r) = Len(s) - 1
      /\ \A i \in 1 .. Len(s) - 1 : r[i] = IF i < k THEN s[i] ELSE s[i + 1]
  BY <1>1, RemovalElements
<1> HIDE DEF r
<1>3. DOMAIN r = 1 .. Len(s) - 1 /\ DOMAIN s = 1 .. Len(s) /\ Len(s) \in Nat
  BY <1>2
<1>4. Distinct(r)
  <2> SUFFICES ASSUME NEW i \in 1 .. Len(s) - 1, NEW j \in 1 .. Len(s) - 1, r[i] = r[j]
               PROVE  i = j
    BY <1>3 DEF Distinct
  <2> DEFINE at(n) == IF n < k THEN n ELSE n + 1
  <2>1. at(i) \in DOMAIN s /\ at(j) \in DOMAIN s
    BY <1>1, <1>3
  <2>2. s[at(i)] = r[i] /\ s[at(j)] = r[j]
    BY <1>2
  <2>3. at(i) = at(j)
    BY <2>1, <2>2 DEF Distinct
  <2> QED BY <1>1, <1>3, <2>3
<1>5. Range(r) \subseteq Range(s) \ {x}
  BY <1>1, <1>2, <1>3 DEF Range, Distinct
<1>6. ASSUME NEW y \in Range(s) \ {x} PROVE y \in Range(r)
  <2>1. PICK i \in 1 .. Len(s) : s[i] = y
    BY <1>3 DEF Range
  <2>2. CASE i < k
    <3>1. i \in DOMAIN r /\ r[i] = y
      BY <2>1, <2>2, <1>1, <1>2, <1>3
    <3> QED BY <3>1 DEF Range
  <2>3. CASE i > k
    <3>1. i - 1 \in DOMAIN r /\ r[i - 1] = y
      BY <2>1, <2>3, <1>1, <1>2, <1>3
    <3> QED BY <3>1 DEF Range
  <2> QED BY <2>1, <2>2, <2>3, <1>1
<1> QED BY <1>2, <1>4, <1>5, <1>6 DEF Without, r, k

\* t has the elements of s, and x.
Adds(T, t, s, x) ==
  /\ t \in Seq(T)
  /\ Distinct(s) /\ x \notin Range(s) => Distinct(t)
  /\ Range(t) = Range(s) \cup {x}

\* An entry inserted anywhere: the list has it, and is otherwise as it was.
LEMMA InsertedEntry ==
  ASSUME NEW T, NEW s \in Seq(T), NEW x \in T, NEW k \in 0 .. Len(s)
  PROVE  Adds(T, InsertAt(s, k + 1, x), s, x)
<1> DEFINE t == InsertAt(s, k + 1, x)
<1>2. /\ t \in Seq(T) /\ Len(t) = Len(s) + 1 /\ t[k + 1] = x
      /\ \A i \in 1 .. k : t[i] = s[i]
      /\ \A i \in 1 .. Len(s) - k : t[k + 1 + i] = s[k + i]
  <2>1. Inserts(T, InsertAt(s, k + 1, x), s, k, x)
    BY InsertionElements
  <2> QED BY <2>1 DEF Inserts
<1> HIDE DEF t
<1>3. DOMAIN t = 1 .. Len(s) + 1 /\ DOMAIN s = 1 .. Len(s) /\ Len(s) \in Nat
  BY <1>2
<1>3a. \A i \in k + 1 .. Len(s) : t[i + 1] = s[i]
  <2> SUFFICES ASSUME NEW i \in k + 1 .. Len(s) PROVE t[i + 1] = s[i]
    OBVIOUS
  <2>1. i - k \in 1 .. Len(s) - k /\ k + 1 + (i - k) = i + 1 /\ k + (i - k) = i
    BY <1>3
  <2>2. t[k + 1 + (i - k)] = s[k + (i - k)]
    BY <2>1, <1>2
  <2> QED BY <2>1, <2>2
<1> DEFINE back(i) == IF i <= k THEN i ELSE i - 1
<1>4. \A i \in DOMAIN t : i # k + 1 => back(i) \in DOMAIN s /\ t[i] = s[back(i)]
  <2> SUFFICES ASSUME NEW i \in DOMAIN t, i # k + 1
               PROVE  back(i) \in DOMAIN s /\ t[i] = s[back(i)]
    OBVIOUS
  <2>1. CASE i <= k
    BY <2>1, <1>2, <1>3
  <2>2. CASE i > k + 1
    <3>1. i - 1 \in k + 1 .. Len(s) /\ (i - 1) + 1 = i /\ back(i) = i - 1
      BY <2>2, <1>3
    <3>2. t[(i - 1) + 1] = s[i - 1]
      BY <3>1, <1>3a
    <3> QED BY <3>1, <3>2, <1>3
  <2> QED BY <2>1, <2>2, <1>3
<1>5. \A i, j \in DOMAIN t :
        i # k + 1 /\ j # k + 1 /\ back(i) = back(j) => i = j
  BY <1>3
<1> HIDE DEF back
<1>6. ASSUME Distinct(s), x \notin Range(s) PROVE Distinct(t)
  <2>1. \A i \in DOMAIN s : s[i] # x
    BY <1>6 DEF Range
  <2> SUFFICES ASSUME NEW i \in DOMAIN t, NEW j \in DOMAIN t, t[i] = t[j]
               PROVE  i = j
    BY DEF Distinct
  <2>2. CASE i = k + 1 \/ j = k + 1
    BY <2>1, <2>2, <1>2, <1>4
  <2>3. CASE i # k + 1 /\ j # k + 1
    BY <2>3, <1>4, <1>5, <1>6 DEF Distinct
  <2> QED BY <2>2, <2>3
<1>7. Range(t) \subseteq Range(s) \cup {x}
  BY <1>2, <1>4 DEF Range
<1>8. x \in Range(t)
  BY <1>2, <1>3 DEF Range
<1>9. ASSUME NEW y \in Range(s) PROVE y \in Range(t)
  <2>1. PICK i \in 1 .. Len(s) : s[i] = y
    BY <1>3 DEF Range
  <2>2. CASE i <= k
    <3>1. i \in DOMAIN t /\ t[i] = y
      BY <2>1, <2>2, <1>2, <1>3
    <3> QED BY <3>1 DEF Range
  <2>3. CASE i > k
    <3>1. i + 1 \in DOMAIN t /\ t[i + 1] = y
      BY <2>1, <2>3, <1>3, <1>3a
    <3> QED BY <3>1 DEF Range
  <2> QED BY <2>1, <2>2, <2>3
<1> QED BY <1>2, <1>6, <1>7, <1>8, <1>9 DEF Adds, t

\* insort puts the entry somewhere in the list and changes nothing else.
LEMMA InsortedEntry ==
  ASSUME NEW T, NEW s \in Seq(T), NEW x \in T, NEW key, NEW t \in Insorted(key, s, x)
  PROVE  /\ t \in Seq(T)
         /\ Distinct(s) /\ x \notin Range(s) => Distinct(t)
         /\ Range(t) = Range(s) \cup {x}
<1>1. PICK k \in 0 .. Len(s) : t = InsertAt(s, k + 1, x)
  BY DEF Insorted, InsortPoints
<1>2. Adds(T, InsertAt(s, k + 1, x), s, x)
  BY InsertedEntry
<1> QED BY <1>1, <1>2 DEF Adds

\* list.sort only reorders.
LEMMA SortedEntries ==
  ASSUME NEW T, NEW s \in Seq(T), NEW key, NEW t \in SortsOf(key, s)
  PROVE  /\ t \in Seq(T)
         /\ Distinct(s) => Distinct(t)
         /\ Range(t) = Range(s)
<1>1. PICK q \in Bijection(DOMAIN s, DOMAIN s) : t = [i \in DOMAIN s |-> s[q[i]]]
  BY DEF SortsOf
<1>2. /\ q \in [DOMAIN s -> DOMAIN s]
      /\ \A i, j \in DOMAIN s : q[i] = q[j] => i = j
      /\ \A i \in DOMAIN s : \E j \in DOMAIN s : q[j] = i
  BY DEF Bijection, Injection, IsInjective, Surjection
<1>3. DOMAIN s = 1 .. Len(s) /\ Len(s) \in Nat
  OBVIOUS
<1>4. t \in Seq(T) /\ DOMAIN t = DOMAIN s
  BY <1>1, <1>2, <1>3
<1>5. Distinct(s) => Distinct(t)
  BY <1>1, <1>2, <1>4 DEF Distinct
<1>6. Range(t) = Range(s)
  BY <1>1, <1>2, <1>4 DEF Range
<1> QED BY <1>4, <1>5, <1>6

-----------------------------------------------------------------------------
(* Lists in order *)

Ordered(key, s) == \A i, j \in DOMAIN s : i < j => key[s[i]] <= key[s[j]]

\* What is taken out leaves the rest in order.
LEMMA RemovalOrder ==
  ASSUME NEW T, NEW s \in Seq(T), NEW k \in 1 .. Len(s), NEW key, Ordered(key, s)
  PROVE  Ordered(key, RemoveAt(s, k))
<1> DEFINE r == RemoveAt(s, k)
<1>1. /\ r \in Seq(T) /\ Len(r) = Len(s) - 1
      /\ \A i \in 1 .. Len(s) - 1 : r[i] = IF i < k THEN s[i] ELSE s[i + 1]
  BY RemovalElements
<1> HIDE DEF r
<1> SUFFICES ASSUME NEW i \in DOMAIN r, NEW j \in DOMAIN r, i < j
             PROVE  key[r[i]] <= key[r[j]]
  BY DEF Ordered, r
<1> DEFINE at(n) == IF n < k THEN n ELSE n + 1
<1>2. DOMAIN r = 1 .. Len(s) - 1 /\ DOMAIN s = 1 .. Len(s) /\ Len(s) \in Nat
  BY <1>1
<1>3. at(i) \in DOMAIN s /\ at(j) \in DOMAIN s /\ at(i) < at(j)
  BY <1>2
<1>4. r[i] = s[at(i)] /\ r[j] = s[at(j)]
  BY <1>1, <1>2
<1> QED BY <1>3, <1>4 DEF Ordered

\* Where x fits between its neighbours: after the first k.
Fits(key, s, x, k) ==
  /\ k = 0 \/ key[s[k]] <= key[x]
  /\ k = Len(s) \/ key[x] <= key[s[k + 1]]

\* What comes between a smaller and a greater one leaves the list in order.
LEMMA InsertionOrder ==
  ASSUME NEW T, NEW s \in Seq(T), NEW x \in T, NEW k \in 0 .. Len(s),
         NEW key \in [T -> Int], Ordered(key, s), Fits(key, s, x, k)
  PROVE  Ordered(key, InsertAt(s, k + 1, x))
<1> DEFINE t == InsertAt(s, k + 1, x)
<1>1. /\ t \in Seq(T) /\ Len(t) = Len(s) + 1 /\ t[k + 1] = x
      /\ \A i \in 1 .. k : t[i] = s[i]
      /\ \A i \in 1 .. Len(s) - k : t[k + 1 + i] = s[k + i]
  <2>1. Inserts(T, InsertAt(s, k + 1, x), s, k, x)
    BY InsertionElements
  <2> QED BY <2>1 DEF Inserts
<1> HIDE DEF t
<1>2. DOMAIN t = 1 .. Len(s) + 1 /\ DOMAIN s = 1 .. Len(s) /\ Len(s) \in Nat
  BY <1>1
<1>3. \A i \in 1 .. Len(s) : s[i] \in T /\ key[s[i]] \in Int
  OBVIOUS
<1>4. \A i \in DOMAIN t : i > k + 1 => i - 1 \in k + 1 .. Len(s) /\ t[i] = s[i - 1]
  <2> SUFFICES ASSUME NEW i \in DOMAIN t, i > k + 1
               PROVE  i - 1 \in k + 1 .. Len(s) /\ t[i] = s[i - 1]
    OBVIOUS
  <2> DEFINE n == Len(s)
             d == i - k - 1
  <2>0. n \in Nat /\ k \in 0 .. n /\ i \in 1 .. n + 1 /\ i > k + 1
    BY <1>2
  <2>1. d \in 1 .. n - k /\ k + 1 + d = i /\ k + d = i - 1 /\ i - 1 \in k + 1 .. n
    <3> HIDE DEF n
    <3>1. d \in 1 .. n - k
      BY ONLY <2>0
    <3>2. i \in Int /\ k \in Int /\ n \in Int /\ i <= n + 1
      BY ONLY <2>0
    <3>3. k + 1 + d = i
      BY ONLY <3>2
    <3>4. k + d = i - 1
      BY ONLY <3>2
    <3>5. i - 1 \in k + 1 .. n
      BY ONLY <3>2, <2>0
    <3> QED BY <3>1, <3>3, <3>4, <3>5
  <2> HIDE DEF d
  <2>2. t[k + 1 + d] = s[k + d]
    BY <2>1, <1>1
  <2> QED BY <2>1, <2>2
<1>5. \A i \in 1 .. k : key[s[i]] <= key[x]
  <2> SUFFICES ASSUME NEW i \in 1 .. k PROVE key[s[i]] <= key[x]
    OBVIOUS
  <2>1. k \in 1 .. Len(s) /\ i \in DOMAIN s /\ k \in DOMAIN s
    BY <1>2
  <2>2. key[s[i]] <= key[s[k]]
    <3>1. CASE i = k
      BY <3>1, <2>1, <1>3
    <3>2. CASE i < k
      BY <3>2, <2>1 DEF Ordered
    <3> QED BY <3>1, <3>2
  <2>3. key[s[k]] <= key[x]
    BY <2>1 DEF Fits
  <2> QED BY <2>1, <2>2, <2>3, <1>3
<1>6. \A i \in k + 1 .. Len(s) : key[x] <= key[s[i]]
  <2> SUFFICES ASSUME NEW i \in k + 1 .. Len(s) PROVE key[x] <= key[s[i]]
    OBVIOUS
  <2> DEFINE n == Len(s)
  <2>0. n \in Nat /\ k \in 0 .. n /\ i \in k + 1 .. n
    BY <1>2
  <2>1. k + 1 \in 1 .. Len(s) /\ i \in DOMAIN s /\ k + 1 \in DOMAIN s /\ k # Len(s)
    <3> HIDE DEF n
    <3>1. k + 1 \in 1 .. n /\ i \in 1 .. n /\ k # n
      BY ONLY <2>0
    <3> QED BY <3>1, <1>2 DEF n
  <2>2. key[s[k + 1]] <= key[s[i]]
    <3>1. CASE i = k + 1
      BY <3>1, <2>1, <1>3
    <3>2. CASE k + 1 < i
      BY <3>2, <2>1 DEF Ordered
    <3> QED BY <3>1, <3>2
  <2>3. key[x] <= key[s[k + 1]]
    BY <2>1 DEF Fits
  <2> QED BY <2>1, <2>2, <2>3, <1>3
<1> SUFFICES ASSUME NEW i \in DOMAIN t, NEW j \in DOMAIN t, i < j
             PROVE  key[t[i]] <= key[t[j]]
  BY DEF Ordered, t
<1>7. CASE j <= k
  <2>1. i \in 1 .. k /\ j \in 1 .. k /\ 1 .. k \subseteq DOMAIN s
    BY ONLY <1>7, <1>2, i \in DOMAIN t, j \in DOMAIN t, i < j, k \in 0 .. Len(s)
  <2>2. t[i] = s[i] /\ t[j] = s[j]
    BY <2>1, <1>1
  <2> QED BY <2>1, <2>2 DEF Ordered
<1>8. CASE j = k + 1
  <2>1. i \in 1 .. k /\ t[i] = s[i]
    BY <1>8, <1>1, <1>2
  <2> QED BY <2>1, <1>8, <1>1, <1>5
<1>9. CASE j > k + 1 /\ i <= k
  <2>1. i \in DOMAIN s /\ j - 1 \in DOMAIN s /\ t[i] = s[i] /\ t[j] = s[j - 1] /\ i < j - 1
    BY <1>9, <1>1, <1>2, <1>4
  <2> QED BY <2>1 DEF Ordered
<1>10. CASE j > k + 1 /\ i = k + 1
  BY <1>10, <1>1, <1>4, <1>6
<1>11. CASE j > k + 1 /\ i > k + 1
  <2>1. i - 1 \in DOMAIN s /\ j - 1 \in DOMAIN s /\ t[i] = s[i - 1] /\ t[j] = s[j - 1] /\ i - 1 < j - 1
    BY <1>11, <1>2, <1>4
  <2> QED BY <2>1 DEF Ordered
<1>12. \/ j <= k
       \/ j = k + 1
       \/ j > k + 1 /\ i <= k
       \/ j > k + 1 /\ i = k + 1
       \/ j > k + 1 /\ i > k + 1
  BY ONLY <1>2, i \in DOMAIN t, j \in DOMAIN t, k \in 0 .. Len(s)
<1> QED BY <1>7, <1>8, <1>9, <1>10, <1>11, <1>12

\* The first is the least.
LEMMA HeadIsLeast ==
  ASSUME NEW T, NEW s \in Seq(T), s # <<>>, NEW key \in [T -> Int], Ordered(key, s),
         NEW x \in Range(s)
  PROVE  key[Head(s)] <= key[x]
<1>1. PICK i \in DOMAIN s : s[i] = x
  BY DEF Range
<1>2. DOMAIN s = 1 .. Len(s) /\ Len(s) \in Nat /\ Len(s) > 0 /\ Head(s) = s[1]
  OBVIOUS
<1>3. \A j \in DOMAIN s : key[s[j]] \in Int
  OBVIOUS
<1>4. CASE i = 1
  BY <1>4, <1>1, <1>2, <1>3
<1>5. CASE i > 1
  BY <1>5, <1>1, <1>2 DEF Ordered
<1> QED BY <1>4, <1>5, <1>2

\* The others come after the first.
LEMMA TailEntries ==
  ASSUME NEW T, NEW s \in Seq(T), s # <<>>, Distinct(s)
  PROVE  /\ Tail(s) \in Seq(T) /\ Distinct(Tail(s))
         /\ Range(Tail(s)) = Range(s) \ {Head(s)}
         /\ \A key : Ordered(key, s) => Ordered(key, Tail(s))
<1> DEFINE r == Tail(s)
<1>1. /\ r \in Seq(T) /\ Len(r) = Len(s) - 1
      /\ \A i \in 1 .. Len(s) - 1 : r[i] = s[i + 1]
  OBVIOUS
<1> HIDE DEF r
<1>2. /\ DOMAIN s = 1 .. Len(s) /\ Len(s) \in Nat /\ Len(s) > 0 /\ Head(s) = s[1]
      /\ DOMAIN r = 1 .. Len(s) - 1
  BY <1>1
<1>3. \A i \in DOMAIN r : i + 1 \in DOMAIN s /\ r[i] = s[i + 1] /\ i + 1 # 1
  BY <1>1, <1>2
<1>4. Distinct(r)
  BY <1>2, <1>3 DEF Distinct
<1>5. Range(r) \subseteq Range(s) \ {Head(s)}
  BY <1>2, <1>3 DEF Range, Distinct
<1>6. ASSUME NEW y \in Range(s) \ {Head(s)} PROVE y \in Range(r)
  <2>1. PICK i \in DOMAIN s : s[i] = y
    BY DEF Range
  <2>2. i - 1 \in DOMAIN r /\ r[i - 1] = y
    BY <2>1, <1>1, <1>2
  <2> QED BY <2>2 DEF Range
<1>7. ASSUME NEW key, Ordered(key, s) PROVE Ordered(key, r)
  BY <1>7, <1>2, <1>3 DEF Ordered
<1> QED BY <1>1, <1>4, <1>5, <1>6, <1>7 DEF r

\* Keys that agree on a list put it in the same order.
LEMMA SameOrder ==
  ASSUME NEW s, NEW key, NEW k2, Ordered(key, s), \A y \in Range(s) : k2[y] = key[y]
  PROVE  Ordered(k2, s)
<1>1. \A i \in DOMAIN s : s[i] \in Range(s)
  BY DEF Range
<1> QED BY <1>1 DEF Ordered

LEMMA InsortedOrder ==
  ASSUME NEW T, NEW s \in Seq(T), NEW x \in T, NEW key \in [T -> Int], Ordered(key, s),
         NEW t \in Insorted(key, s, x)
  PROVE  Ordered(key, t)
<1>1. PICK k \in InsortPoints(key, s, x) : t = InsertAt(s, k + 1, x)
  BY DEF Insorted
<1>2. /\ k \in 0 .. Len(s) /\ Len(s) \in Nat
      /\ k = 0 \/ key[s[k]] <= key[x]
      /\ k = Len(s) \/ key[x] < key[s[k + 1]]
  BY <1>1 DEF InsortPoints
<1>3. k = Len(s) \/ key[x] <= key[s[k + 1]]
  <2>1. CASE k # Len(s)
    <3>1. k + 1 \in 1 .. Len(s)
      BY <1>2, <2>1
    <3>2. s[k + 1] \in T
      BY <3>1
    <3>3. key[s[k + 1]] \in Int /\ key[x] \in Int
      BY <3>2
    <3>4. key[x] < key[s[k + 1]]
      BY <1>2, <2>1
    <3> QED BY <3>3, <3>4
  <2> QED BY <2>1
<1>4. Fits(key, s, x, k)
  BY <1>2, <1>3 DEF Fits
<1> QED BY <1>1, <1>2, <1>4, InsertionOrder

LEMMA WithoutOrder ==
  ASSUME NEW T, NEW s \in Seq(T), Distinct(s), NEW x \in Range(s), NEW key, Ordered(key, s)
  PROVE  Ordered(key, Without(s, x))
<1>1. IndexOf(s, x) \in 1 .. Len(s)
  BY IndexOfEntry
<1> QED BY <1>1, RemovalOrder DEF Without

LEMMA SortedOrder ==
  ASSUME NEW T, NEW s \in Seq(T), NEW key \in [T -> Int], NEW t \in SortsOf(key, s)
  PROVE  Ordered(key, t)
<1>1. PICK q \in Bijection(DOMAIN s, DOMAIN s) :
        /\ t = [i \in DOMAIN s |-> s[q[i]]]
        /\ \A i, j \in DOMAIN s :
             i < j => \/ key[s[q[i]]] < key[s[q[j]]]
                      \/ key[s[q[i]]] = key[s[q[j]]] /\ q[i] < q[j]
  BY DEF SortsOf
<1>2. q \in [DOMAIN s -> DOMAIN s]
  BY DEF Bijection, Injection
<1>3. \A i \in DOMAIN s : key[s[q[i]]] \in Int
  BY <1>2
<1>4. DOMAIN t = DOMAIN s /\ \A i \in DOMAIN s : t[i] = s[q[i]]
  BY <1>1
<1>5. ASSUME NEW i \in DOMAIN t, NEW j \in DOMAIN t, i < j PROVE key[t[i]] <= key[t[j]]
  <2>1. key[s[q[i]]] \in Int /\ key[s[q[j]]] \in Int
    BY <1>3, <1>4
  <2>2. key[s[q[i]]] < key[s[q[j]]] \/ key[s[q[i]]] = key[s[q[j]]]
    BY <1>1, <1>4, <1>5
  <2>3. key[s[q[i]]] <= key[s[q[j]]]
    BY ONLY <2>1, <2>2
  <2> QED BY <1>4, <2>3
<1> QED BY <1>5 DEF Ordered

=============================================================================
