------------------------- MODULE Subsequences_proofs -------------------------
(* Proofs about Subsequences, from the principle of the least element: what *)
(* a filter or a loop over the front of a sequence leaves of it, and what   *)
(* is the first and what is ahead of what in it.                            *)
EXTENDS Subsequences, SequenceTheorems, FiniteSetTheorems, WellFoundedInduction, TLAPS

(* A set of naturals that is not empty has a least element.                 *)
LEMMA Least ==
  ASSUME NEW T \in SUBSET Nat, T # {}
  PROVE  \E m \in T : \A k \in T : m <= k
<1>1. PICK x \in T : \A y \in T : ~ (<<y, x>> \in OpToRel(<, Nat))
  BY NatLessThanWellFounded, WFMin
<1>2. ASSUME NEW y \in T PROVE ~(y < x)
  <2>1. <<y, x>> \notin OpToRel(<, Nat)
    BY <1>1
  <2>2. <<y, x>> \in Nat \X Nat
    OBVIOUS
  <2> QED
    BY <2>1, <2>2 DEF OpToRel
<1> QED
  BY <1>2

(* Induction over the naturals, with a set for the predicate.               *)
LEMMA Induction ==
  ASSUME NEW T \in SUBSET Nat, 0 \in T, \A n \in T : n + 1 \in T
  PROVE  T = Nat
<1> SUFFICES ASSUME T # Nat PROVE FALSE
  OBVIOUS
<1>1. PICK m \in Nat \ T : \A k \in Nat \ T : m <= k
  BY Least
<1>2. m # 0 /\ m - 1 \in T
  BY <1>1
<1> QED
  BY <1>1, <1>2

(* The run of a sequence is determined: there is a first element outside S, *)
(* or none.                                                                 *)
LEMMA RunLengthProperties ==
  ASSUME NEW E, NEW s \in Seq(E), NEW S
  PROVE  /\ RunLength(s, S) \in 0..Len(s)
         /\ \A k \in 1..RunLength(s, S) : s[k] \in S
         /\ RunLength(s, S) < Len(s) => s[RunLength(s, S) + 1] \notin S
<1> DEFINE T == {i \in 0..Len(s) : i < Len(s) => s[i + 1] \notin S}
<1>1. T \in SUBSET Nat /\ Len(s) \in T
  OBVIOUS
<1>2. PICK m \in T : \A k \in T : m <= k
  BY <1>1, Least
<1>3. ASSUME NEW k \in 1..m PROVE s[k] \in S
  <2>1. m \in 0..Len(s)
    OBVIOUS
  <2>2. k - 1 \in 0..Len(s) /\ k - 1 < Len(s) /\ ~(m <= k - 1) /\ (k - 1) + 1 = k
    BY <2>1
  <2>3. k - 1 \notin T
    <3> HIDE DEF T
    <3> QED
      BY <1>2, <2>2
  <2>4. s[(k - 1) + 1] \in S
    BY <2>2, <2>3, Zenon
  <2> QED
    BY <2>2, <2>4
<1>4. m \in 0..Len(s) /\ (m < Len(s) => s[m + 1] \notin S)
  OBVIOUS
<1> QED
  BY <1>3, <1>4 DEF RunLength

(* What is left after the run: the elements from the first outside S on.    *)
LEMMA DropWhileProperties ==
  ASSUME NEW E, NEW s \in Seq(E), NEW S
  PROVE  \E r \in 0..Len(s) :
            /\ DropWhile(s, S) \in Seq(E)
            /\ Len(DropWhile(s, S)) = Len(s) - r
            /\ \A k \in 1..(Len(s) - r) : DropWhile(s, S)[k] = s[r + k]
            /\ \A k \in 1..r : s[k] \in S
            /\ r < Len(s) => s[r + 1] \notin S
<1> DEFINE r == RunLength(s, S)
<1>1. /\ r \in 0..Len(s)
      /\ \A k \in 1..r : s[k] \in S
      /\ r < Len(s) => s[r + 1] \notin S
  BY RunLengthProperties
<1> HIDE DEF r
<1>2. /\ r + 1 \in Int /\ Len(s) \in Int
      /\ \A i \in (r + 1)..Len(s) : s[i] \in E
  BY <1>1
<1> DEFINE d == SubSeq(s, r + 1, Len(s))
<1>3. /\ d \in Seq(E)
      /\ Len(d) = IF r + 1 <= Len(s) THEN Len(s) - (r + 1) + 1 ELSE 0
      /\ \A i \in 1..(Len(s) - (r + 1) + 1) : d[i] = s[(r + 1) + i - 1]
  BY <1>2, SubSeqProperties
<1> HIDE DEF d
<1>4. Len(d) = Len(s) - r /\ \A k \in 1..(Len(s) - r) : d[k] = s[r + k]
  BY <1>1, <1>3
<1>5. DropWhile(s, S) = d
  BY DEF DropWhile, d, r
<1> QED
  BY <1>1, <1>3, <1>4, <1>5

(* The loop takes what it passes and leaves what is left, in their order.   *)
LEMMA SplitProperties ==
  ASSUME NEW E, NEW s \in Seq(E), NEW S
  PROVE  \E r \in 0..Len(s) :
            /\ TakeWhile(s, S) \in Seq(E) /\ Len(TakeWhile(s, S)) = r
            /\ \A k \in 1..r : TakeWhile(s, S)[k] = s[k]
            /\ DropWhile(s, S) \in Seq(E) /\ Len(DropWhile(s, S)) = Len(s) - r
            /\ \A k \in 1..(Len(s) - r) : DropWhile(s, S)[k] = s[r + k]
            /\ \A k \in 1..r : s[k] \in S
            /\ r < Len(s) => s[r + 1] \notin S
<1> DEFINE r == RunLength(s, S)
<1>1. /\ r \in 0..Len(s)
      /\ \A k \in 1..r : s[k] \in S
      /\ r < Len(s) => s[r + 1] \notin S
  BY RunLengthProperties
<1> HIDE DEF r
<1>2. /\ r \in Int /\ 1 \in Int /\ Len(s) \in Int
      /\ \A i \in 1..r : s[i] \in E
  BY <1>1
<1> DEFINE d == SubSeq(s, 1, r)
<1>3. /\ d \in Seq(E)
      /\ Len(d) = IF 1 <= r THEN r - 1 + 1 ELSE 0
      /\ \A i \in 1..(r - 1 + 1) : d[i] = s[1 + i - 1]
  BY <1>2, SubSeqProperties
<1> HIDE DEF d
<1>4. Len(d) = r /\ \A k \in 1..r : d[k] = s[k]
  BY <1>1, <1>3
<1>5. TakeWhile(s, S) = d
  BY DEF TakeWhile, d, r
<1>6. /\ r + 1 \in Int
      /\ \A i \in (r + 1)..Len(s) : s[i] \in E
  BY <1>1
<1> DEFINE e == SubSeq(s, r + 1, Len(s))
<1>7. /\ e \in Seq(E)
      /\ Len(e) = IF r + 1 <= Len(s) THEN Len(s) - (r + 1) + 1 ELSE 0
      /\ \A i \in 1..(Len(s) - (r + 1) + 1) : e[i] = s[(r + 1) + i - 1]
  BY <1>2, <1>6, SubSeqProperties
<1> HIDE DEF e
<1>8. Len(e) = Len(s) - r /\ \A k \in 1..(Len(s) - r) : e[k] = s[r + k]
  BY <1>1, <1>7
<1>9. DropWhile(s, S) = e
  BY DEF DropWhile, e, r
<1> QED
  BY <1>1, <1>3, <1>4, <1>5, <1>7, <1>8, <1>9

(* One step of the filter: what is kept of the first n elements, by g.      *)

Kept(s, S, g, n) ==
    IF n = 0 THEN <<>>
    ELSE IF s[n] \in S THEN Append(g[n - 1], s[n]) ELSE g[n - 1]

(* The recursive function that Only is defined by exists on every prefix.   *)
LEMMA PrefixesExist ==
  ASSUME NEW s, NEW S, NEW m \in Nat
  PROVE  \E g : g = [n \in 0..m |-> Kept(s, S, g, n)]
<1> DEFINE T == {k \in Nat : \E g : g = [n \in 0..k |-> Kept(s, S, g, n)]}
<1>1. 0 \in T
  <2> DEFINE g == [n \in 0..0 |-> <<>>]
  <2>1. g = [n \in 0..0 |-> Kept(s, S, g, n)]
    BY DEF Kept
  <2> QED
    BY <2>1
<1>2. ASSUME NEW k \in T PROVE k + 1 \in T
  <2>1. PICK g : g = [n \in 0..k |-> Kept(s, S, g, n)]
    OBVIOUS
  <2> DEFINE h == [n \in 0..(k + 1) |-> IF n = k + 1 THEN Kept(s, S, g, n) ELSE g[n]]
  <2>2. ASSUME NEW n \in 0..(k + 1) PROVE h[n] = Kept(s, S, h, n)
    <3>1. CASE n = k + 1
      <4>1. h[n] = Kept(s, S, g, n) /\ n # 0 /\ n - 1 = k /\ h[n - 1] = g[n - 1]
        BY <3>1
      <4> QED
        BY <4>1 DEF Kept
    <3>2. CASE n \in 0..k /\ n # k + 1
      <4>1. h[n] = g[n]
        BY <3>2
      <4>2. g[n] = Kept(s, S, g, n)
        BY <2>1, <3>2
      <4>3. n # 0 => h[n - 1] = g[n - 1]
        BY <3>2
      <4> HIDE DEF h
      <4> QED
        BY <4>1, <4>2, <4>3 DEF Kept
    <3> QED
      BY <3>1, <3>2
  <2>3. h = [n \in 0..(k + 1) |-> Kept(s, S, h, n)]
    BY <2>2
  <2> HIDE DEF h
  <2> QED
    BY <2>3
<1> HIDE DEF T
<1>3. T = Nat
  BY <1>1, <1>2, Induction DEF T
<1> QED
  BY <1>3 DEF T

(* The helper of Only: what it has kept of the first n elements.            *)
LEMMA OnlyUnfolds ==
  ASSUME NEW E, NEW s \in Seq(E), NEW S
  PROVE  \E g : /\ Only(s, S) = g[Len(s)]
                /\ g[0] = <<>>
                /\ \A n \in 0..(Len(s) - 1) :
                      g[n + 1] = IF s[n + 1] \in S THEN Append(g[n], s[n + 1]) ELSE g[n]
<1>1. \E g : g = [n \in 0..Len(s) |-> Kept(s, S, g, n)]
  <2>1. Len(s) \in Nat
    OBVIOUS
  <2> QED
    BY <2>1, PrefixesExist
<1>2. \E g : /\ g = [n \in 0..Len(s) |-> Kept(s, S, g, n)]
             /\ Only(s, S) = g[Len(s)]
  BY <1>1, Zenon DEF Only, Kept
<1>3. PICK g : /\ g = [n \in 0..Len(s) |-> Kept(s, S, g, n)]
               /\ Only(s, S) = g[Len(s)]
  BY <1>2
<1>4. g[0] = <<>>
  BY <1>3 DEF Kept
<1>5. ASSUME NEW n \in 0..(Len(s) - 1)
      PROVE  g[n + 1] = IF s[n + 1] \in S THEN Append(g[n], s[n + 1]) ELSE g[n]
  <2>1. n + 1 \in 0..Len(s) /\ n + 1 # 0 /\ (n + 1) - 1 = n
    OBVIOUS
  <2>2. g[n + 1] = Kept(s, S, g, n + 1)
    BY <1>3, <2>1
  <2> QED
    BY <2>1, <2>2 DEF Kept
<1> QED
  BY <1>3, <1>4, <1>5

(* The elements of s that are in S are kept, each of them once and in their *)
(* order: at increasing positions of s, and at all positions that qualify.  *)
Picks(f, t, s, S) ==
    /\ f \in [1..Len(t) -> 1..Len(s)]
    /\ \A k \in 1..Len(t) : t[k] = s[f[k]] /\ s[f[k]] \in S
    /\ \A j, k \in 1..Len(t) : j < k => f[j] < f[k]
    /\ \A i \in 1..Len(s) : s[i] \in S => \E k \in 1..Len(t) : f[k] = i

(* One more element is picked when it is in S, and else nothing changes.    *)
LEMMA PicksAppend ==
  ASSUME NEW E, NEW s \in Seq(E), NEW t \in Seq(E), NEW S, NEW x \in E, NEW f,
         Picks(f, t, s, S)
  PROVE  \E h : Picks(h, IF x \in S THEN Append(t, x) ELSE t, Append(s, x), S)
<1> DEFINE u == Append(s, x)
           m == Len(t) + 1
<1>1. /\ u \in Seq(E) /\ Len(u) = Len(s) + 1 /\ u[Len(s) + 1] = x
      /\ \A i \in 1..Len(s) : u[i] = s[i]
      /\ Len(s) \in Nat /\ Len(t) \in Nat
  OBVIOUS
<1>2. \A k \in 1..Len(t) : f[k] \in 1..Len(s) /\ f[k] \in 1..Len(u) /\ u[f[k]] = s[f[k]]
  <2> HIDE DEF u
  <2> QED
    BY <1>1 DEF Picks
<1>3. \A i \in 1..Len(u) : i \in 1..Len(s) \/ i = Len(s) + 1
  <2> HIDE DEF u
  <2> QED
    BY <1>1
<1>4. CASE x \notin S
  <2> HIDE DEF u
  <2>1. f \in [1..Len(t) -> 1..Len(u)]
    BY <1>2 DEF Picks
  <2>2. ASSUME NEW i \in 1..Len(u), u[i] \in S PROVE \E k \in 1..Len(t) : f[k] = i
    <3>1. i \in 1..Len(s) /\ s[i] \in S
      BY <1>1, <1>3, <1>4, <2>2
    <3> QED
      BY <3>1 DEF Picks
  <2>3. Picks(f, t, u, S)
    BY <1>2, <2>1, <2>2 DEF Picks
  <2> QED
    BY <1>4, <2>3 DEF u
<1>5. CASE x \in S
  <2> DEFINE v == Append(t, x)
             h == [k \in 1..m |-> IF k = m THEN Len(s) + 1 ELSE f[k]]
  <2>1. /\ v \in Seq(E) /\ Len(v) = m /\ v[m] = x
        /\ \A k \in 1..Len(t) : v[k] = t[k]
    OBVIOUS
  <2>2. \A k \in 1..m : k \in 1..Len(t) \/ k = m
    BY <1>1
  <2>3. m \in 1..m /\ 1..Len(t) \subseteq 1..m /\ m \notin 1..Len(t)
    BY <1>1
  <2>4. h[m] = Len(s) + 1 /\ \A k \in 1..Len(t) : h[k] = f[k]
    BY <2>3
  <2> HIDE DEF u, v
  <2>5. \A k \in 1..m : h[k] \in 1..Len(u)
    <3> HIDE DEF h, m
    <3> QED
      BY <1>1, <1>2, <2>2, <2>4
  <2>6. h \in [1..m -> 1..Len(u)]
    BY <2>5
  <2> HIDE DEF h
  <2>7. ASSUME NEW k \in 1..m PROVE v[k] = u[h[k]] /\ u[h[k]] \in S
    <3>1. CASE k = m
      BY <1>1, <1>5, <2>1, <2>4, <3>1
    <3>2. CASE k \in 1..Len(t)
      BY <1>2, <2>1, <2>4, <3>2 DEF Picks
    <3> QED
      BY <2>2, <3>1, <3>2
  <2>8. ASSUME NEW j \in 1..m, NEW k \in 1..m, j < k PROVE h[j] < h[k]
    <3>1. j \in 1..Len(t) /\ h[j] = f[j] /\ f[j] \in 1..Len(s)
      BY <1>1, <1>2, <2>2, <2>4, <2>8
    <3>2. CASE k = m
      BY <1>1, <2>4, <3>1, <3>2
    <3>3. CASE k \in 1..Len(t)
      BY <2>4, <2>8, <3>1, <3>3 DEF Picks
    <3> QED
      BY <2>2, <3>2, <3>3
  <2>9. ASSUME NEW i \in 1..Len(u), u[i] \in S PROVE \E k \in 1..m : h[k] = i
    <3>1. CASE i = Len(s) + 1
      BY <2>3, <2>4, <3>1
    <3>2. CASE i \in 1..Len(s)
      <4>1. PICK k \in 1..Len(t) : f[k] = i
        BY <1>1, <2>9, <3>2 DEF Picks
      <4> QED
        BY <2>3, <2>4, <4>1
    <3> QED
      BY <1>3, <3>1, <3>2
  <2>10. Picks(h, v, u, S)
    BY <2>1, <2>6, <2>7, <2>8, <2>9 DEF Picks
  <2> QED
    BY <1>5, <2>10 DEF u, v
<1> QED
  BY <1>4, <1>5

(* What a filter leaves: the elements of s in S, each once, in their order. *)
LEMMA OnlyProperties ==
  ASSUME NEW E, NEW s \in Seq(E), NEW S
  PROVE  /\ Only(s, S) \in Seq(E)
         /\ \E f : Picks(f, Only(s, S), s, S)
<1>1. PICK g : /\ Only(s, S) = g[Len(s)]
               /\ g[0] = <<>>
               /\ \A n \in 0..(Len(s) - 1) :
                     g[n + 1] = IF s[n + 1] \in S THEN Append(g[n], s[n + 1]) ELSE g[n]
  BY OnlyUnfolds
<1> DEFINE front(n) == SubSeq(s, 1, n)
           P(n) == g[n] \in Seq(E) /\ \E f : Picks(f, g[n], front(n), S)
           T == {n \in Nat : n <= Len(s) => P(n)}
<1>2. ASSUME NEW n \in Nat, n <= Len(s)
      PROVE  /\ front(n) \in Seq(E) /\ Len(front(n)) = n
             /\ \A k \in 1..n : front(n)[k] = s[k]
  <2>1. /\ n \in Int /\ 1 \in Int
        /\ \A i \in 1..n : s[i] \in E
    BY <1>2
  <2> DEFINE d == SubSeq(s, 1, n)
  <2>2. /\ d \in Seq(E)
        /\ Len(d) = IF 1 <= n THEN n - 1 + 1 ELSE 0
        /\ \A i \in 1..(n - 1 + 1) : d[i] = s[1 + i - 1]
    BY <2>1, SubSeqProperties
  <2> HIDE DEF d
  <2>3. Len(d) = n /\ \A k \in 1..n : d[k] = s[k]
    BY <1>2, <2>2
  <2> QED
    BY <2>2, <2>3 DEF d
<1> HIDE DEF front
<1>3. P(0)
  <2>1. front(0) \in Seq(E) /\ Len(front(0)) = 0
    BY <1>2
  <2>2. g[0] \in Seq(E) /\ Len(g[0]) = 0
    BY <1>1, EmptySeq
  <2> DEFINE f == [k \in 1..0 |-> 0]
  <2>3. Picks(f, g[0], front(0), S)
    BY <2>1, <2>2 DEF Picks
  <2> QED
    BY <2>2, <2>3
<1>4. ASSUME NEW n \in Nat, n + 1 <= Len(s), P(n) PROVE P(n + 1)
  <2> DEFINE x == s[n + 1]
  <2>1. n \in 0..(Len(s) - 1) /\ n <= Len(s) /\ n + 1 \in Nat /\ n + 1 \in 1..Len(s)
    BY <1>4
  <2>2. x \in E
    BY <2>1
  <2>3. front(n + 1) = Append(front(n), x)
    <3>1. /\ front(n) \in Seq(E) /\ Len(front(n)) = n
          /\ \A k \in 1..n : front(n)[k] = s[k]
      BY <1>2, <2>1
    <3>2. /\ front(n + 1) \in Seq(E) /\ Len(front(n + 1)) = n + 1
          /\ \A k \in 1..(n + 1) : front(n + 1)[k] = s[k]
      BY <1>2, <1>4, <2>1
    <3> DEFINE a == front(n)
               b == front(n + 1)
               c == Append(a, x)
    <3>3. /\ c \in Seq(E) /\ Len(c) = n + 1 /\ c[n + 1] = x
          /\ \A k \in 1..n : c[k] = a[k]
      BY <2>2, <3>1, AppendProperties
    <3> HIDE DEF a, b, c
    <3>4. ASSUME NEW k \in 1..(n + 1) PROVE b[k] = c[k]
      <4>1. k \in 1..n \/ k = n + 1
        OBVIOUS
      <4> QED
        BY <3>1, <3>2, <3>3, <4>1 DEF a, b
    <3>5. b = c
      BY <3>2, <3>3, <3>4, SeqEqual DEF b
    <3> QED
      BY <3>5 DEF a, b, c
  <2>4. g[n + 1] = IF x \in S THEN Append(g[n], x) ELSE g[n]
    BY <1>1, <2>1
  <2>5. g[n + 1] \in Seq(E)
    BY <1>4, <2>2, <2>4, AppendProperties
  <2>6. PICK f : Picks(f, g[n], front(n), S)
    BY <1>4
  <2>7. front(n) \in Seq(E)
    BY <1>2, <2>1
  <2> HIDE DEF x
  <2>8. \E h : Picks(h, IF x \in S THEN Append(g[n], x) ELSE g[n], Append(front(n), x), S)
    BY <1>4, <2>2, <2>6, <2>7, PicksAppend
  <2>9. \E h : Picks(h, g[n + 1], front(n + 1), S)
    BY <2>3, <2>4, <2>8 DEF x
  <2> QED
    BY <2>5, <2>9
<1> HIDE DEF P
<1>5. 0 \in T /\ \A n \in T : n + 1 \in T
  BY <1>3, <1>4
<1>6. Len(s) \in T
  <2> HIDE DEF T
  <2>1. T \in SUBSET Nat
    BY DEF T
  <2>2. Len(s) \in Nat
    OBVIOUS
  <2> QED
    BY <1>5, <2>1, <2>2, Induction
<1>7. P(Len(s))
  BY <1>6
<1>8. front(Len(s)) = s
  <2>1. /\ front(Len(s)) \in Seq(E) /\ Len(front(Len(s))) = Len(s)
        /\ \A k \in 1..Len(s) : front(Len(s))[k] = s[k]
    BY <1>2
  <2> QED
    BY <2>1, SeqEqual
<1> QED
  BY <1>1, <1>7, <1>8 DEF P

(* What a sequence has somewhere.                                           *)
Elements(s) == {s[i] : i \in DOMAIN s}

(* An element is at some place.                                             *)
LEMMA ElementOf ==
  ASSUME NEW E, NEW s \in Seq(E), NEW x
  PROVE  x \in Elements(s) <=> \E i \in 1..Len(s) : s[i] = x
<1>1. DOMAIN s = 1..Len(s)
  OBVIOUS
<1> QED
  BY <1>1, Zenon DEF Elements

(* A filter keeps the elements in S, in their order.                        *)
LEMMA OnlyElements ==
  ASSUME NEW E, NEW s \in Seq(E), NEW S
  PROVE  /\ Only(s, S) \in Seq(E)
         /\ Elements(Only(s, S)) = Elements(s) \cap S
<1> DEFINE t == Only(s, S)
<1>1. t \in Seq(E) /\ \E f : Picks(f, t, s, S)
  BY OnlyProperties
<1> HIDE DEF t
<1>2. PICK f : Picks(f, t, s, S)
  BY <1>1
<1>3. DOMAIN t = 1..Len(t) /\ DOMAIN s = 1..Len(s)
  BY <1>1
<1>4. \A i \in 1..Len(t) : f[i] \in 1..Len(s) /\ t[i] = s[f[i]] /\ s[f[i]] \in S
  BY <1>2 DEF Picks
<1>5. \A i \in 1..Len(s) : s[i] \in S => \E k \in 1..Len(t) : t[k] = s[i]
  BY <1>2 DEF Picks
<1>6. Elements(t) = Elements(s) \cap S
  <2>1. ASSUME NEW x PROVE x \in Elements(t) <=> x \in Elements(s) /\ x \in S
    <3>1. x \in Elements(t) <=> \E i \in 1..Len(t) : t[i] = x
      BY <1>1, ElementOf
    <3>2. x \in Elements(s) <=> \E i \in 1..Len(s) : s[i] = x
      BY ElementOf
    <3> QED
      BY <1>4, <1>5, <3>1, <3>2, Zenon
  <2> QED
    BY <2>1
<1> QED
  BY <1>1, <1>6 DEF t

(* Firsts has every element, each at its first place, in their order.       *)
FirstPlaces(f, t, s) ==
    /\ f \in [1..Len(t) -> 1..Len(s)]
    /\ \A k \in 1..Len(t) : t[k] = s[f[k]]
    /\ \A j, k \in 1..Len(t) : j < k => f[j] < f[k]
    /\ \A j, k \in 1..Len(t) : t[j] = t[k] => j = k

(* Firsts keeps one place of each element (flatten_groups(),                *)
(* job_grouping.py).                                                        *)
LEMMA FirstsProperties ==
  ASSUME NEW E, NEW s \in Seq(E)
  PROVE  /\ Firsts(s) \in Seq(E)
         /\ \E f : FirstPlaces(f, Firsts(s), s)
         /\ Elements(Firsts(s)) = Elements(s)
<1> DEFINE ids == [i \in DOMAIN s |-> i]
           P == {i \in DOMAIN s : \A h \in 1..(i - 1) : s[h] # s[i]}
           p == Only(ids, P)
           t == [k \in DOMAIN p |-> s[p[k]]]
<1>1. Firsts(s) = t
  BY DEF Firsts
<1>2. /\ ids \in Seq(1..Len(s)) /\ Len(ids) = Len(s) /\ \A i \in 1..Len(s) : ids[i] = i
      /\ P \subseteq 1..Len(s) /\ Len(s) \in Nat /\ DOMAIN s = 1..Len(s)
  OBVIOUS
<1>3. \A i \in 1..Len(s) : i \in P <=> \A h \in 1..(i - 1) : s[h] # s[i]
  OBVIOUS
<1> HIDE DEF ids, P
<1>4. p \in Seq(1..Len(s)) /\ \E f : Picks(f, p, ids, P)
  BY <1>2, OnlyProperties
<1> HIDE DEF p
<1>5. PICK f : Picks(f, p, ids, P)
  BY <1>4
<1>6. /\ Len(p) \in Nat /\ DOMAIN p = 1..Len(p)
      /\ \A k \in 1..Len(p) : p[k] \in 1..Len(s)
  BY <1>4
<1>7. \A k \in 1..Len(p) : f[k] \in 1..Len(s) /\ p[k] = f[k] /\ p[k] \in P
  BY <1>2, <1>5 DEF Picks
<1>8. \A j, k \in 1..Len(p) : j < k => p[j] < p[k]
  BY <1>5, <1>7 DEF Picks
<1>9. t \in Seq(E) /\ Len(t) = Len(p) /\ \A k \in 1..Len(p) : t[k] = s[p[k]]
  BY <1>6
<1> HIDE DEF t
<1>10. \A k \in 1..Len(t) : t[k] = s[p[k]]
  BY <1>9
<1>11. ASSUME NEW j \in 1..Len(t), NEW k \in 1..Len(t), t[j] = t[k] PROVE j = k
  <2>1. ASSUME NEW m \in 1..Len(p), NEW n \in 1..Len(p), m < n PROVE s[p[m]] # s[p[n]]
    <3>1. p[m] \in Nat /\ p[n] \in Nat /\ p[m] < p[n] /\ p[m] >= 1 /\ p[n] \in 1..Len(s) /\ p[n] \in P
      BY <1>6, <1>7, <1>8, <2>1
    <3>2. p[m] \in 1..(p[n] - 1)
      BY <3>1
    <3> QED
      BY <1>3, <3>1, <3>2
  <2>2. j \in 1..Len(p) /\ k \in 1..Len(p) /\ s[p[j]] = s[p[k]]
    BY <1>9, <1>10, <1>11
  <2>3. ~(j < k) /\ ~(k < j)
    BY <2>1, <2>2
  <2> QED
    BY <2>2, <2>3, <1>6
<1>12. p \in [1..Len(t) -> 1..Len(s)]
  BY <1>4, <1>9
<1>13. FirstPlaces(p, t, s)
  BY <1>8, <1>9, <1>10, <1>11, <1>12 DEF FirstPlaces
<1>14. ASSUME NEW i \in 1..Len(s) PROVE \E k \in 1..Len(t) : t[k] = s[i]
  <2> DEFINE T == {h \in Nat : h \in 1..Len(s) /\ s[h] = s[i]}
  <2>1. T \in SUBSET Nat /\ i \in T
    BY <1>2
  <2>2. PICK m \in T : \A h \in T : m <= h
    BY <2>1, Least
  <2>3. m \in 1..Len(s) /\ s[m] = s[i]
    OBVIOUS
  <2>4. \A h \in 1..(m - 1) : s[h] # s[m]
    BY <1>2, <2>2, <2>3
  <2>5. m \in P
    BY <1>3, <2>3, <2>4
  <2>6. PICK k \in 1..Len(p) : f[k] = m
    BY <1>2, <1>5, <2>3, <2>5 DEF Picks
  <2>7. k \in 1..Len(t) /\ t[k] = s[m]
    BY <1>7, <1>9, <1>10, <2>6
  <2> QED
    BY <2>3, <2>7
<1>15. Elements(t) = Elements(s)
  <2>1. \A k \in 1..Len(t) : p[k] \in 1..Len(s)
    BY <1>6, <1>9
  <2>2. ASSUME NEW x PROVE x \in Elements(t) <=> x \in Elements(s)
    <3>1. x \in Elements(t) <=> \E i \in 1..Len(t) : t[i] = x
      BY <1>9, ElementOf
    <3>2. x \in Elements(s) <=> \E i \in 1..Len(s) : s[i] = x
      BY ElementOf
    <3> QED
      BY <1>10, <1>14, <2>1, <3>1, <3>2, Zenon
  <2> QED
    BY <2>2
<1> QED
  BY <1>1, <1>9, <1>13, <1>15

(* Two sequences of the same elements in the same order are the same, if    *)
(* no two of the elements are each before the other.                        *)
Follows(s, R) == \A j, k \in 1..Len(s) : j < k => <<s[j], s[k]>> \in R

(* By induction on the place: up to it the two sequences have the same.     *)
LEMMA SameOrder ==
  ASSUME NEW E, NEW a \in Seq(E), NEW b \in Seq(E), Elements(a) = Elements(b),
         NEW R, Follows(a, R), Follows(b, R),
         \A x, y \in E : <<x, y>> \in R => <<y, x>> \notin R
  PROVE  a = b
<1>1. /\ Len(a) \in Nat /\ Len(b) \in Nat
      /\ \A i \in 1..Len(a) : a[i] \in E /\ \E k \in 1..Len(b) : b[k] = a[i]
      /\ \A i \in 1..Len(b) : b[i] \in E /\ \E k \in 1..Len(a) : a[k] = b[i]
  <2>1. \A x : x \in Elements(a) <=> \E i \in 1..Len(a) : a[i] = x
    BY ElementOf
  <2>2. \A x : x \in Elements(b) <=> \E i \in 1..Len(b) : b[i] = x
    BY ElementOf
  <2>3. Len(a) \in Nat /\ Len(b) \in Nat
        /\ (\A i \in 1..Len(a) : a[i] \in E) /\ (\A i \in 1..Len(b) : b[i] \in E)
    OBVIOUS
  <2> QED
    BY <2>1, <2>2, <2>3, Zenon
<1>2. ASSUME NEW c \in Seq(E), NEW d \in Seq(E), Follows(c, R), Follows(d, R),
             NEW n \in Nat, n \in 1..Len(c), \A h \in 1..(n - 1) : c[h] = d[h],
             NEW k \in 1..Len(d), d[k] = c[n]
      PROVE  k >= n
  <2> SUFFICES ASSUME k < n PROVE FALSE
    OBVIOUS
  <2>1. k \in 1..(n - 1) /\ k \in 1..Len(c)
    <3>1. Len(c) \in Nat /\ Len(d) \in Nat
      OBVIOUS
    <3>2. k \in Nat /\ k >= 1 /\ n <= Len(c)
      BY <1>2, <3>1
    <3> QED
      BY <3>1, <3>2
  <2>2. c[k] = c[n] /\ <<c[k], c[n]>> \in R
    BY <1>2, <2>1 DEF Follows
  <2>3. c[n] \in E
    BY <1>2
  <2> QED
    BY <2>2, <2>3
<1> DEFINE T == {n \in Nat : n >= 1 /\ (n <= Len(a) \/ n <= Len(b)) /\
                              ~(n <= Len(a) /\ n <= Len(b) /\ a[n] = b[n])}
<1>3. T = {}
  <2> SUFFICES ASSUME T # {} PROVE FALSE
    OBVIOUS
  <2>1. T \in SUBSET Nat
    OBVIOUS
  <2>2. PICK n \in T : \A k \in T : n <= k
    BY <2>1, Least
  <2>3. n \in Nat /\ n >= 1 /\ (n <= Len(a) \/ n <= Len(b))
    OBVIOUS
  <2>4. ~(n <= Len(a) /\ n <= Len(b) /\ a[n] = b[n])
    OBVIOUS
  <2>5. ASSUME NEW h \in 1..(n - 1) PROVE a[h] = b[h] /\ b[h] = a[h]
    <3>1. h \in Nat /\ h >= 1 /\ ~(n <= h) /\ (h <= Len(a) \/ h <= Len(b))
      BY <2>3, <1>1
    <3>2. h \notin T
      BY <2>2, <3>1
    <3> QED
      BY <3>1, <3>2
  <2> HIDE DEF T
  <2>6. ASSUME n <= Len(a)
        PROVE  n <= Len(b) /\ (b[n] # a[n] => <<b[n], a[n]>> \in R)
    <3>1. n \in 1..Len(a)
      BY <2>3, <2>6
    <3>2. PICK k \in 1..Len(b) : b[k] = a[n]
      BY <1>1, <3>1
    <3>3. k >= n
      BY <1>2, <2>3, <2>5, <3>1, <3>2
    <3>4. n \in 1..Len(b) /\ (n # k => n < k)
      BY <1>1, <2>3, <3>3
    <3> QED
      BY <3>2, <3>4 DEF Follows
  <2>7. ASSUME n <= Len(b)
        PROVE  n <= Len(a) /\ (a[n] # b[n] => <<a[n], b[n]>> \in R)
    <3>1. n \in 1..Len(b)
      BY <2>3, <2>7
    <3>2. PICK k \in 1..Len(a) : a[k] = b[n]
      BY <1>1, <3>1
    <3>3. k >= n
      BY <1>2, <2>3, <2>5, <3>1, <3>2
    <3>4. n \in 1..Len(a) /\ (n # k => n < k)
      BY <1>1, <2>3, <3>3
    <3> QED
      BY <3>2, <3>4 DEF Follows
  <2>8. n \in 1..Len(a) /\ n \in 1..Len(b) /\ a[n] # b[n]
    BY <2>3, <2>4, <2>6, <2>7, <1>1
  <2>9. <<b[n], a[n]>> \in R /\ <<a[n], b[n]>> \in R /\ a[n] \in E /\ b[n] \in E
    BY <1>1, <2>6, <2>7, <2>8
  <2> QED
    BY <2>9
<1>4. \A n \in Nat : n >= 1 /\ (n <= Len(a) \/ n <= Len(b)) => n <= Len(a) /\ n <= Len(b) /\ a[n] = b[n]
  BY <1>3
<1> HIDE DEF T
<1>5. Len(a) = Len(b)
  <2>1. ~(Len(a) < Len(b))
    <3> SUFFICES ASSUME Len(a) < Len(b) PROVE FALSE
      OBVIOUS
    <3>1. Len(b) >= 1 /\ Len(b) <= Len(b) /\ ~(Len(b) <= Len(a))
      BY <1>1
    <3> QED
      BY <1>1, <1>4, <3>1
  <2>2. ~(Len(b) < Len(a))
    <3> SUFFICES ASSUME Len(b) < Len(a) PROVE FALSE
      OBVIOUS
    <3>1. Len(a) >= 1 /\ Len(a) <= Len(a) /\ ~(Len(a) <= Len(b))
      BY <1>1
    <3> QED
      BY <1>1, <1>4, <3>1
  <2> QED
    BY <1>1, <2>1, <2>2
<1>6. \A i \in 1..Len(a) : a[i] = b[i]
  BY <1>1, <1>4
<1> QED
  BY <1>5, <1>6, SeqEqual

(* Ahead orders the positions: no two are each ahead of the other, one of   *)
(* any two is ahead, and what is ahead of one is ahead of what follows.     *)
LEMMA AheadOrders ==
  ASSUME NEW n \in Nat, NEW key, \A i \in 1..n : key[i] \in Int,
         NEW g \in 1..n, NEW h \in 1..n, NEW i \in 1..n
  PROVE  /\ Ahead(key, h, i) => ~Ahead(key, i, h)
         /\ h # i => Ahead(key, h, i) \/ Ahead(key, i, h)
         /\ Ahead(key, g, h) /\ Ahead(key, h, i) => Ahead(key, g, i)
<1>1. g \in Int /\ h \in Int /\ i \in Int /\ key[g] \in Int /\ key[h] \in Int /\ key[i] \in Int
  OBVIOUS
<1> QED
  BY <1>1 DEF Ahead

(* How many positions are ahead of one.                                     *)
Rank(key, n, i) == Cardinality({h \in 1..n : Ahead(key, h, i)})

(* What is ahead has fewer positions ahead of it.                           *)
LEMMA RankGrows ==
  ASSUME NEW n \in Nat, NEW key, \A i \in 1..n : key[i] \in Int,
         NEW h \in 1..n, NEW i \in 1..n
  PROVE  /\ Rank(key, n, i) \in 0..(n - 1)
         /\ Ahead(key, h, i) => Rank(key, n, h) < Rank(key, n, i)
<1> DEFINE Front(j) == {g \in 1..n : Ahead(key, g, j)}
<1>1. IsFiniteSet(1..n) /\ Cardinality(1..n) = n
  BY FS_Interval
<1>2. ASSUME NEW j \in 1..n
      PROVE  IsFiniteSet(Front(j)) /\ Cardinality(Front(j)) \in Nat /\ j \notin Front(j)
             /\ Front(j) \subseteq 1..n
  <2>1. IsFiniteSet(Front(j))
    BY <1>1, FS_Subset
  <2>2. j \notin Front(j)
    BY AheadOrders
  <2> QED
    BY <2>1, <2>2, FS_CardinalityType
<1>3. Cardinality(Front(i)) \in 0..(n - 1)
  <2>1. Cardinality(Front(i)) <= Cardinality(1..n)
    BY <1>1, <1>2, FS_Subset
  <2>2. Cardinality(1..n) # Cardinality(Front(i))
    BY <1>1, <1>2, FS_Subset
  <2> HIDE DEF Front
  <2> QED
    BY <1>1, <1>2, <2>1, <2>2
<1>4. ASSUME Ahead(key, h, i) PROVE Cardinality(Front(h)) < Cardinality(Front(i))
  <2>1. Front(h) \subseteq Front(i) /\ h \in Front(i) /\ h \notin Front(h)
    BY <1>2, <1>4, AheadOrders
  <2> HIDE DEF Front
  <2>2. Cardinality(Front(h)) <= Cardinality(Front(i))
    BY <1>2, <2>1, FS_Subset
  <2>3. Cardinality(Front(i)) # Cardinality(Front(h))
    BY <1>2, <2>1, FS_Subset
  <2> QED
    BY <1>2, <2>2, <2>3
<1> QED
  BY <1>3, <1>4 DEF Rank

(* A sort by places: f goes through all positions, those ahead first.       *)
Sorts(f, key, n) ==
    /\ f \in [1..n -> 1..n]
    /\ \A i \in 1..n : \E k \in 1..n : f[k] = i
    /\ \A j, k \in 1..n : j < k => Ahead(key, f[j], f[k])

(* The places by rank are such a sort: ranks are distinct and there are as  *)
(* many as places.                                                          *)
LEMMA RankSorts ==
  ASSUME NEW n \in Nat, NEW key, \A i \in 1..n : key[i] \in Int
  PROVE  Sorts([k \in 1..n |-> CHOOSE i \in 1..n : Rank(key, n, i) = k - 1], key, n)
<1> DEFINE r == [i \in 1..n |-> Rank(key, n, i)]
           f == [k \in 1..n |-> CHOOSE i \in 1..n : Rank(key, n, i) = k - 1]
<1>1. r \in [1..n -> 0..(n - 1)]
  BY RankGrows
<1>2. ASSUME NEW h \in 1..n, NEW i \in 1..n, Rank(key, n, h) = Rank(key, n, i) PROVE h = i
  <2>1. Rank(key, n, h) \in Nat /\ Rank(key, n, i) \in Nat
    BY RankGrows
  <2>2. ~Ahead(key, h, i) /\ ~Ahead(key, i, h)
    BY <1>2, <2>1, RankGrows
  <2> QED
    BY <2>2, AheadOrders
<1>3. r \in Surjection(1..n, 0..(n - 1))
  <2>1. r \in Injection(1..n, 0..(n - 1))
    BY <1>1, <1>2 DEF Injection, IsInjective
  <2>2. IsFiniteSet(0..(n - 1)) /\ Cardinality(0..(n - 1)) = n /\ Cardinality(1..n) = n
    BY FS_Interval
  <2> HIDE DEF r
  <2> QED
    BY <2>1, <2>2, FS_Injection
<1>4. ASSUME NEW k \in 1..n PROVE f[k] \in 1..n /\ Rank(key, n, f[k]) = k - 1
  <2>1. k - 1 \in 0..(n - 1)
    OBVIOUS
  <2>2. PICK i \in 1..n : r[i] = k - 1
    BY <1>3, <2>1 DEF Surjection
  <2>3. \E j \in 1..n : Rank(key, n, j) = k - 1
    BY <2>2
  <2> QED
    BY <2>3
<1>5. f \in [1..n -> 1..n]
  BY <1>4
<1> HIDE DEF f, r
<1>6. ASSUME NEW i \in 1..n PROVE \E k \in 1..n : f[k] = i
  <2>1. Rank(key, n, i) \in 0..(n - 1)
    BY RankGrows
  <2>2. Rank(key, n, i) + 1 \in 1..n /\ (Rank(key, n, i) + 1) - 1 = Rank(key, n, i)
    BY <2>1
  <2>3. f[Rank(key, n, i) + 1] = i
    BY <1>2, <1>4, <2>2
  <2> QED
    BY <2>2, <2>3
<1>7. ASSUME NEW j \in 1..n, NEW k \in 1..n, j < k PROVE Ahead(key, f[j], f[k])
  <2>1. Rank(key, n, f[j]) = j - 1 /\ Rank(key, n, f[k]) = k - 1 /\ f[j] \in 1..n /\ f[k] \in 1..n
    BY <1>4
  <2>2. f[j] # f[k]
    BY <1>7, <2>1
  <2>3. ~Ahead(key, f[k], f[j])
    <3>1. ~(k - 1 < j - 1)
      BY <1>7
    <3> QED
      BY <2>1, <3>1, RankGrows
  <2> QED
    BY <2>1, <2>2, <2>3, AheadOrders
<1> QED
  BY <1>5, <1>6, <1>7 DEF Sorts, f

(* sorted(..., reverse=True) goes through the sequence in that order.       *)
Sorting(f, t, s, key) ==
    /\ Sorts(f, key, Len(s))
    /\ Len(t) = Len(s)
    /\ \A k \in 1..Len(s) : t[k] = s[f[k]]

SortedOver(d, s, key) ==
    [k \in d |-> s[CHOOSE i \in d : Cardinality({h \in d : Ahead(key, h, i)}) = k - 1]]

(* So is SortedBy, and it keeps the elements.                               *)
LEMMA SortedByProperties ==
  ASSUME NEW E, NEW s \in Seq(E), NEW key, \A i \in 1..Len(s) : key[i] \in Int
  PROVE  /\ SortedBy(s, key) \in Seq(E)
         /\ \E f : Sorting(f, SortedBy(s, key), s, key)
         /\ Elements(SortedBy(s, key)) = Elements(s)
<1> DEFINE n == Len(s)
           f == [k \in 1..n |-> CHOOSE i \in 1..n : Rank(key, n, i) = k - 1]
           t == [k \in 1..n |-> s[f[k]]]
<1>1. n \in Nat /\ DOMAIN s = 1..n /\ \A i \in 1..n : s[i] \in E
  OBVIOUS
<1>2. Sorts(f, key, n)
  <2> HIDE DEF n
  <2> QED
    BY <1>1, RankSorts DEF n
<1>3. SortedBy(s, key) = t
  <2>1. SortedBy(s, key) = SortedOver(DOMAIN s, s, key)
    BY DEF SortedBy, SortedOver
  <2>2. SortedBy(s, key) = SortedOver(1..n, s, key)
    BY <1>1, <2>1
  <2> HIDE DEF n
  <2>3. SortedOver(1..n, s, key) = t
    BY DEF SortedOver, Rank
  <2> QED
    BY <2>2, <2>3
<1> HIDE DEF f, n
<1>4. f \in [1..n -> 1..n]
  BY <1>2 DEF Sorts
<1>5. t \in Seq(E) /\ Len(t) = n /\ \A k \in 1..n : t[k] = s[f[k]]
  BY <1>1, <1>4
<1> HIDE DEF t
<1>6. Sorting(f, t, s, key)
  BY <1>2, <1>5 DEF Sorting, n
<1>7. /\ \A k \in 1..n : f[k] \in 1..n
      /\ \A i \in 1..n : \E k \in 1..n : f[k] = i
  BY <1>2 DEF Sorts
<1>8. ASSUME NEW x PROVE x \in Elements(t) <=> x \in Elements(s)
  <2>1. x \in Elements(t) <=> \E i \in 1..n : t[i] = x
    BY <1>5, ElementOf
  <2>2. x \in Elements(s) <=> \E i \in 1..n : s[i] = x
    BY ElementOf DEF n
  <2>3. ASSUME NEW i \in 1..n, t[i] = x PROVE \E h \in 1..n : s[h] = x
    <3>1. f[i] \in 1..n /\ s[f[i]] = x
      BY <1>5, <1>7, <2>3
    <3> QED
      BY <3>1
  <2>4. ASSUME NEW h \in 1..n, s[h] = x PROVE \E i \in 1..n : t[i] = x
    <3>1. PICK k \in 1..n : f[k] = h
      BY <1>7
    <3>2. t[k] = x
      BY <1>5, <2>4, <3>1
    <3> QED
      BY <3>2
  <2> QED
    BY <2>1, <2>2, <2>3, <2>4, Zenon
<1> QED
  BY <1>3, <1>5, <1>6, <1>8
=============================================================================
