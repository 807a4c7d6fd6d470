---------------------------- MODULE SequenceFacts ----------------------------
(***************************************************************************)
(* Facts about numbers and sequences that the proofs of several components *)
(* rest on: a least number, induction over the numbers, functions that are *)
(* computed step by step along a sequence, and what the operators on       *)
(* sequences leave in them.                                                *)
(***************************************************************************)
EXTENDS Integers, Sequences, SequencesExt, Functions, Filters, FiniteSetTheorems, WellFoundedInduction, TLAPS

-----------------------------------------------------------------------------
(***************************************************************************)
(* Induction, and functions that run along a sequence.                     *)
(***************************************************************************)

\* Every nonempty set of numbers has a least one.
LEMMA LeastOf ==
  ASSUME NEW T, T \subseteq Nat, T # {}
  PROVE  \E x \in T : \A y \in T : x <= y
<1> DEFINE R == {ss \in Nat \X Nat : ss[1] < ss[2]}
<1>1. R = OpToRel(<, Nat)
  BY DEF OpToRel
<1>2. IsWellFoundedOn(R, Nat)
  BY <1>1, NatLessThanWellFounded
<1>3. \A x \in Nat, y \in Nat : ~ (<<y, x>> \in R) => x <= y
  OBVIOUS
<1> HIDE DEF R
<1>4. \E x \in T : \A y \in T : ~ (<<y, x>> \in R)
  BY <1>2, WFMin
<1>5. QED
  BY <1>3, <1>4

\* Induction over the numbers, for a set of them.
LEMMA SetInduction ==
  ASSUME NEW T, 0 \in T, \A n \in Nat : n \in T => n + 1 \in T
  PROVE  Nat \subseteq T
<1> SUFFICES ASSUME NEW m \in Nat, m \notin T PROVE FALSE
  OBVIOUS
<1> DEFINE U == {n \in Nat : n \notin T}
<1>1. PICK x \in U : \A y \in U : x <= y
  <2>1. U \subseteq Nat /\ U # {}
    OBVIOUS
  <2> HIDE DEF U
  <2>2. QED
    BY <2>1, LeastOf
<1>2. x \in Nat /\ x # 0 /\ x \notin T
  OBVIOUS
<1>3. x - 1 \in Nat /\ ~ (x <= x - 1)
  BY <1>2
<1>4. x - 1 \in T
  BY <1>1, <1>3
<1>5. QED
  BY <1>2, <1>3, <1>4

\* g[n] is what the first n steps make of a.
IsRun(g, V, a, N, step) ==
  g \in [0 .. N -> V] /\ g[0] = a /\ \A n \in 1 .. N : g[n] = step[<<g[n - 1], n>>]

\* There is such a running function, whatever the steps.
LEMMA RunningFunction ==
  ASSUME NEW V, NEW a \in V, NEW N \in Nat, NEW step \in [V \X (1 .. N) -> V]
  PROVE  \E g : IsRun(g, V, a, N, step)
<1> DEFINE Runs(m, g) == g[0] = a /\ \A n \in 1 .. m : g[n] = step[<<g[n - 1], n>>]
           T == {m \in Nat : m <= N => \E g \in [0 .. m -> V] : Runs(m, g)}
<1>1. 0 \in T
  <2>1. [n \in 0 .. 0 |-> a] \in [0 .. 0 -> V] /\ Runs(0, [n \in 0 .. 0 |-> a])
    OBVIOUS
  <2>2. QED
    BY <2>1
<1>2. ASSUME NEW m \in Nat, m \in T PROVE m + 1 \in T
  <2> SUFFICES ASSUME m + 1 <= N PROVE \E g \in [0 .. m + 1 -> V] : Runs(m + 1, g)
    <3>1. m + 1 \in Nat
      OBVIOUS
    <3>2. QED
      BY <3>1, Zenon
  <2>1. PICK g \in [0 .. m -> V] : Runs(m, g)
    <3>1. m <= N
      OBVIOUS
    <3>2. m <= N => \E g \in [0 .. m -> V] : Runs(m, g)
      BY <1>2, Zenon
    <3>3. QED
      BY <3>1, <3>2, Zenon
  <2> DEFINE h == [n \in 0 .. m + 1 |-> IF n = m + 1 THEN step[<<g[m], m + 1>>] ELSE g[n]]
  <2>2. g[m] \in V /\ m + 1 \in 1 .. N
    OBVIOUS
  <2>3. step[<<g[m], m + 1>>] \in V
    BY <2>2
  <2>4. h \in [0 .. m + 1 -> V]
    BY <2>3
  <2>5. h[0] = a /\ h[m + 1] = step[<<h[m], m + 1>>]
    BY <2>1
  <2>6. ASSUME NEW n \in 1 .. m PROVE h[n] = step[<<h[n - 1], n>>]
    BY <2>1
  <2>7. Runs(m + 1, h)
    <3> HIDE DEF h
    <3>1. \A n \in 1 .. m + 1 : n = m + 1 \/ n \in 1 .. m
      OBVIOUS
    <3>2. m + 1 - 1 = m
      OBVIOUS
    <3>3. QED
      BY <2>5, <2>6, <3>1, <3>2
  <2>8. QED
    BY <2>4, <2>7
<1> HIDE DEF T
<1>3. N \in T
  BY <1>1, <1>2, SetInduction
<1>4. PICK g \in [0 .. N -> V] : Runs(N, g)
  BY <1>3 DEF T
<1>5. QED
  BY <1>4 DEF IsRun

\* Of two running sums the one with the smaller steps is the smaller.
LEMMA SmallerSteps ==
  ASSUME NEW N \in Nat, NEW g \in [0 .. N -> Int], NEW h \in [0 .. N -> Int], g[0] = h[0],
         \A n \in 1 .. N : g[n] - g[n - 1] <= h[n] - h[n - 1]
  PROVE  \A n \in 0 .. N : g[n] <= h[n]
<1> DEFINE T == {n \in Nat : n <= N => g[n] <= h[n]}
<1>1. 0 \in T
  OBVIOUS
<1>2. ASSUME NEW n \in Nat, n \in T PROVE n + 1 \in T
  <2> SUFFICES ASSUME n + 1 <= N PROVE g[n + 1] <= h[n + 1]
    OBVIOUS
  <2>1. n + 1 \in 1 .. N /\ n \in 0 .. N /\ n + 1 - 1 = n
    OBVIOUS
  <2>2. g[n] <= h[n]
    BY <1>2
  <2>3. {g[n], h[n], g[n + 1], h[n + 1]} \subseteq Int
    BY <2>1
  <2>4. g[n + 1] - g[n] <= h[n + 1] - h[n]
    BY <2>1
  <2>5. QED
    BY <2>2, <2>3, <2>4
<1>3. Nat \subseteq T
  <2> HIDE DEF T
  <2>1. QED
    BY <1>1, <1>2, SetInduction
<1>4. QED
  BY <1>3

\* Two running sums with the same steps are the same.
LEMMA SameSteps ==
  ASSUME NEW N \in Nat, NEW g \in [0 .. N -> Int], NEW h \in [0 .. N -> Int], g[0] = h[0],
         \A n \in 1 .. N : g[n] - g[n - 1] = h[n] - h[n - 1]
  PROVE  g[N] = h[N]
<1>1. \A n \in 1 .. N : g[n] \in Int /\ g[n - 1] \in Int /\ h[n] \in Int /\ h[n - 1] \in Int
  OBVIOUS
<1>2. \A n \in 0 .. N : g[n] <= h[n]
  <2>1. \A n \in 1 .. N : g[n] - g[n - 1] <= h[n] - h[n - 1]
    BY <1>1
  <2>2. QED
    BY <2>1, SmallerSteps, Zenon
<1>3. \A n \in 0 .. N : h[n] <= g[n]
  <2>1. \A n \in 1 .. N : h[n] - h[n - 1] <= g[n] - g[n - 1]
    BY <1>1
  <2>2. h[0] = g[0]
    OBVIOUS
  <2>3. QED
    BY <2>1, <2>2, SmallerSteps, Zenon
<1>4. N \in 0 .. N /\ g[N] \in Int /\ h[N] \in Int
  OBVIOUS
<1>5. QED
  BY <1>2, <1>3, <1>4

-----------------------------------------------------------------------------
(***************************************************************************)
(* What appending, joining and taking away leave in a sequence.            *)
(***************************************************************************)

\* Appending adds one.
LEMMA AppendedSet ==
  ASSUME NEW V, NEW s \in Seq(V), NEW e \in V
  PROVE  /\ Append(s, e) \in Seq(V) /\ ToSet(Append(s, e)) = ToSet(s) \union {e}
         /\ IsInjective(s) /\ e \notin ToSet(s) => IsInjective(Append(s, e))
<1>1. /\ Append(s, e) \in Seq(V) /\ DOMAIN s = 1 .. Len(s) /\ Len(s) \in Nat
      /\ DOMAIN Append(s, e) = 1 .. Len(s) + 1
      /\ \A i \in 1 .. Len(s) : Append(s, e)[i] = s[i]
      /\ Append(s, e)[Len(s) + 1] = e
  OBVIOUS
<1> DEFINE t == Append(s, e)
           n == Len(s)
<1> HIDE DEF t, n
<1>2. \A i \in 1 .. n + 1 : i \in 1 .. n \/ i = n + 1
  BY <1>1 DEF n
<1>3. n + 1 \in 1 .. n + 1 /\ \A i \in 1 .. n : i \in 1 .. n + 1
  BY <1>1 DEF n
<1>4. ToSet(t) = ToSet(s) \union {e}
  BY <1>1, <1>2, <1>3 DEF ToSet, t, n
<1>5. IsInjective(s) /\ e \notin ToSet(s) => IsInjective(t)
  BY <1>1, <1>2, <1>3 DEF ToSet, IsInjective, t, n
<1>6. QED
  BY <1>1, <1>4, <1>5 DEF t

\* Joining two.
LEMMA JoinedSet ==
  ASSUME NEW V, NEW s \in Seq(V), NEW t \in Seq(V)
  PROVE  /\ s \o t \in Seq(V) /\ ToSet(s \o t) = ToSet(s) \union ToSet(t)
         /\ IsInjective(s) /\ IsInjective(t) /\ ToSet(s) \intersect ToSet(t) = {} => IsInjective(s \o t)
<1> DEFINE n == Len(s)
           m == Len(t)
           u == s \o t
<1>1. /\ u \in Seq(V) /\ n \in Nat /\ m \in Nat
      /\ DOMAIN s = 1 .. n /\ DOMAIN t = 1 .. m /\ DOMAIN u = 1 .. n + m
      /\ \A i \in 1 .. n + m : u[i] = IF i <= n THEN s[i] ELSE t[i - n]
  OBVIOUS
<1> HIDE DEF n, m, u
<1>2. /\ \A i \in 1 .. n : i \in 1 .. n + m /\ u[i] = s[i]
      /\ \A i \in 1 .. m : n + i \in 1 .. n + m /\ u[n + i] = t[i]
  <2>1. \A i \in 1 .. n : i \in 1 .. n + m /\ i <= n
    BY <1>1
  <2>2. \A i \in 1 .. m : n + i \in 1 .. n + m /\ ~ (n + i <= n) /\ n + i - n = i
    BY <1>1
  <2>3. QED
    BY <1>1, <2>1, <2>2
<1>3. \A i \in 1 .. n + m : \/ i \in 1 .. n
                            \/ \E k \in 1 .. m : i = n + k
  <2> SUFFICES ASSUME NEW i \in 1 .. n + m, i \notin 1 .. n PROVE \E k \in 1 .. m : i = n + k
    OBVIOUS
  <2>1. i - n \in 1 .. m /\ i = n + (i - n)
    BY <1>1
  <2>2. QED
    BY <2>1
<1>4. ToSet(u) = ToSet(s) \union ToSet(t)
  <2>1. ASSUME NEW i \in 1 .. n + m PROVE u[i] \in ToSet(s) \union ToSet(t)
    <3>1. CASE i \in 1 .. n
      BY <1>1, <1>2, <3>1 DEF ToSet
    <3>2. CASE \E k \in 1 .. m : i = n + k
      BY <1>1, <1>2, <3>2 DEF ToSet
    <3>3. QED
      BY <1>3, <3>1, <3>2
  <2>2. ASSUME NEW i \in 1 .. n PROVE s[i] \in ToSet(u)
    <3>1. i \in DOMAIN u /\ u[i] = s[i]
      BY <1>1, <1>2
    <3>2. QED
      BY <3>1, Zenon DEF ToSet
  <2>3. ASSUME NEW k \in 1 .. m PROVE t[k] \in ToSet(u)
    <3>1. n + k \in DOMAIN u /\ u[n + k] = t[k]
      BY <1>1, <1>2
    <3>2. QED
      BY <3>1, Zenon DEF ToSet
  <2>4. QED
    BY <1>1, <2>1, <2>2, <2>3 DEF ToSet
<1>5. ASSUME IsInjective(s), IsInjective(t), ToSet(s) \intersect ToSet(t) = {} PROVE IsInjective(u)
  <2>1. \A i \in 1 .. n, k \in 1 .. m : s[i] # t[k]
    BY <1>1, <1>5 DEF ToSet
  <2>2. ASSUME NEW i \in 1 .. n + m, NEW k \in 1 .. n + m, u[i] = u[k] PROVE i = k
    <3>1. CASE i \in 1 .. n /\ k \in 1 .. n
      BY <1>1, <1>2, <1>5, <2>2, <3>1 DEF IsInjective
    <3>2. CASE i \in 1 .. n /\ \E x \in 1 .. m : k = n + x
      BY <1>2, <2>1, <2>2, <3>2
    <3>3. CASE k \in 1 .. n /\ \E x \in 1 .. m : i = n + x
      BY <1>2, <2>1, <2>2, <3>3
    <3>4. ASSUME NEW x \in 1 .. m, i = n + x, NEW y \in 1 .. m, k = n + y PROVE i = k
      <4>1. t[x] = t[y]
        BY <1>2, <2>2, <3>4
      <4>2. QED
        BY <1>1, <1>5, <3>4, <4>1 DEF IsInjective
    <3>5. QED
      BY <1>3, <3>1, <3>2, <3>3, <3>4
  <2>3. QED
    BY <1>1, <2>2 DEF IsInjective
<1>6. QED
  BY <1>1, <1>4, <1>5 DEF u

\* Taking the first away.
LEMMA TailSet ==
  ASSUME NEW V, NEW s \in Seq(V), s # <<>>, IsInjective(s)
  PROVE  /\ Tail(s) \in Seq(V) /\ Head(s) \in V /\ IsInjective(Tail(s))
         /\ ToSet(s) = ToSet(Tail(s)) \union {Head(s)} /\ Head(s) \notin ToSet(Tail(s))
         /\ Len(s) > 1 <=> Tail(s) # <<>>
<1> DEFINE n == Len(s)
           t == Tail(s)
<1>1. /\ t \in Seq(V) /\ n \in Nat \ {0} /\ DOMAIN s = 1 .. n /\ DOMAIN t = 1 .. n - 1 /\ Len(t) = n - 1
      /\ Head(s) = s[1] /\ s[1] \in V
      /\ \A i \in 1 .. n - 1 : t[i] = s[i + 1]
  OBVIOUS
<1>2. Len(s) > 1 <=> Tail(s) # <<>>
  <2>1. Tail(s) # <<>> <=> Len(Tail(s)) # 0
    BY <1>1
  <2>2. QED
    BY <1>1, <2>1
<1> HIDE DEF n, t
<1>3. \A i \in 1 .. n : i = 1 \/ (i - 1 \in 1 .. n - 1 /\ i - 1 + 1 = i)
  BY <1>1
<1>4. 1 \in 1 .. n /\ \A i \in 1 .. n - 1 : i + 1 \in 1 .. n /\ i + 1 # 1
  BY <1>1
<1>5. \A i, k \in 1 .. n - 1 : i + 1 = k + 1 => i = k
  BY <1>1
<1>6. ToSet(s) = ToSet(t) \union {s[1]}
  <2>1. ASSUME NEW i \in 1 .. n PROVE s[i] \in ToSet(t) \union {s[1]}
    <3>1. ASSUME i - 1 \in 1 .. n - 1, i - 1 + 1 = i PROVE s[i] \in ToSet(t)
      <4>1. i - 1 \in DOMAIN t /\ t[i - 1] = s[i]
        BY <1>1, <3>1
      <4>2. QED
        BY <4>1, Zenon DEF ToSet
    <3>2. QED
      BY <1>3, <3>1
  <2>2. ASSUME NEW i \in 1 .. n - 1 PROVE t[i] \in ToSet(s)
    <3>1. i + 1 \in DOMAIN s /\ s[i + 1] = t[i]
      BY <1>1, <1>4
    <3>2. QED
      BY <3>1, Zenon DEF ToSet
  <2>3. s[1] \in ToSet(s)
    BY <1>1, <1>4, Zenon DEF ToSet
  <2>4. QED
    BY <1>1, <2>1, <2>2, <2>3 DEF ToSet
<1>7. s[1] \notin ToSet(t)
  <2>1. \A i \in 1 .. n - 1 : t[i] # s[1]
    BY <1>1, <1>4 DEF IsInjective
  <2>2. QED
    BY <1>1, <2>1, Zenon DEF ToSet
<1>8. IsInjective(t)
  BY <1>1, <1>4, <1>5 DEF IsInjective
<1>9. QED
  BY <1>1, <1>2, <1>6, <1>7, <1>8 DEF t

\* What appending leaves in its place.
LEMMA AppendedPlaces ==
  ASSUME NEW V, NEW s \in Seq(V), NEW e \in V
  PROVE  /\ Append(s, e) \in Seq(V) /\ Len(s) \in Nat /\ Len(Append(s, e)) = Len(s) + 1
         /\ Append(s, e)[Len(s) + 1] = e
         /\ \A i \in 1 .. Len(s) : Append(s, e)[i] = s[i]
OBVIOUS

\* What joining two sequences gives, place by place.
LEMMA JoinedPlaces ==
  ASSUME NEW V, NEW s \in Seq(V), NEW t \in Seq(V)
  PROVE  /\ Len(s) \in Nat /\ Len(t) \in Nat /\ DOMAIN s = 1 .. Len(s)
         /\ s \o t \in Seq(V) /\ Len(s \o t) = Len(s) + Len(t) /\ DOMAIN (s \o t) = 1 .. Len(s) + Len(t)
         /\ \A i \in 1 .. Len(s) : (s \o t)[i] = s[i]
         /\ \A i \in 1 .. Len(t), j \in Nat : j = Len(s) + i => (s \o t)[j] = t[i]
OBVIOUS

\* A sequence is what is at its places.
LEMMA SameSequence ==
  ASSUME NEW V, NEW W, NEW s \in Seq(V), NEW t \in Seq(W), Len(s) = Len(t), \A i \in 1 .. Len(s) : s[i] = t[i]
  PROVE  s = t
OBVIOUS

\* What is at the places of two sequences that were joined.
IsJoined(all, s, t) ==
    /\ Len(all) = Len(s) + Len(t)
    /\ \A i \in 1 .. Len(s) : all[i] = s[i]
    /\ \A i \in 1 .. Len(t), j \in Nat : j = Len(s) + i => all[j] = t[i]

LEMMA JoinedAre ==
  ASSUME NEW V, NEW s \in Seq(V), NEW t \in Seq(V), NEW all, all = s \o t
  PROVE  IsJoined(all, s, t)
BY JoinedPlaces DEF IsJoined

\* Joining is associative.
JoinsTwice(r, s, t) == (r \o s) \o t = r \o (s \o t)

LEMMA JoinedTwice ==
  ASSUME NEW V, NEW r \in Seq(V), NEW s \in Seq(V), NEW t \in Seq(V)
  PROVE  JoinsTwice(r, s, t)
<1>1. (r \o s) \o t = r \o (s \o t)
  OBVIOUS
<1>2. QED
  BY <1>1 DEF JoinsTwice

\* Only is computed step by step along the sequence.
PicksOnly(g, V, ranking, S) ==
    /\ g \in [0 .. Len(ranking) -> Seq(V)] /\ g[0] = <<>> /\ g[Len(ranking)] = Only(ranking, S)
    /\ \A n \in 1 .. Len(ranking) : g[n] = IF ranking[n] \in S THEN Append(g[n - 1], ranking[n]) ELSE g[n - 1]

LEMMA OnlyRuns ==
  ASSUME NEW V, NEW ranking \in Seq(V), NEW S
  PROVE  \E g : PicksOnly(g, V, ranking, S)
<1> DEFINE N == Len(ranking)
           pick == [x \in Seq(V) \X (1 .. N) |->
                      IF ranking[x[2]] \in S THEN Append(x[1], ranking[x[2]]) ELSE x[1]]
           only[n \in 0 .. N] ==
             IF n = 0 THEN <<>>
             ELSE IF ranking[n] \in S THEN Append(only[n - 1], ranking[n]) ELSE only[n - 1]
<1>1. N \in Nat /\ DOMAIN ranking = 1 .. N /\ (\A n \in 1 .. N : ranking[n] \in V) /\ <<>> \in Seq(V)
  OBVIOUS
<1>2. pick \in [Seq(V) \X (1 .. N) -> Seq(V)]
  <2>1. ASSUME NEW q \in Seq(V), NEW n \in 1 .. N
        PROVE  (IF ranking[n] \in S THEN Append(q, ranking[n]) ELSE q) \in Seq(V)
    BY <1>1
  <2>2. QED
    BY <2>1
<1>3. PICK g : IsRun(g, Seq(V), <<>>, N, pick)
  <2> HIDE DEF N, pick
  <2>1. QED
    BY <1>1, <1>2, RunningFunction, Zenon
<1> g \in [0 .. N -> Seq(V)] /\ g[0] = <<>>
  BY <1>3 DEF IsRun
<1>4. ASSUME NEW n \in 1 .. N
      PROVE  g[n - 1] \in Seq(V) /\ g[n] = IF ranking[n] \in S THEN Append(g[n - 1], ranking[n]) ELSE g[n - 1]
  <2>1. n - 1 \in 0 .. N
    BY <1>1
  <2>2. g[n - 1] \in Seq(V)
    BY <2>1
  <2>3. g[n] = pick[<<g[n - 1], n>>]
    BY <1>3 DEF IsRun
  <2>4. QED
    BY <2>2, <2>3
<1> HIDE DEF pick
<1>5. g = [n \in 0 .. N |-> IF n = 0 THEN <<>>
                           ELSE IF ranking[n] \in S THEN Append(g[n - 1], ranking[n]) ELSE g[n - 1]]
  <2>1. \A n \in 0 .. N : n = 0 \/ n \in 1 .. N
    BY <1>1
  <2> HIDE DEF N
  <2>2. QED
    BY <1>4, <2>1
<1>6. only = [n \in 0 .. N |-> IF n = 0 THEN <<>>
                              ELSE IF ranking[n] \in S THEN Append(only[n - 1], ranking[n]) ELSE only[n - 1]]
  <2> HIDE DEF N
  <2>1. QED
    BY <1>5, Zenon
<1>7. Only(ranking, S) = only[N]
  BY Zenon DEF Only
<1>8. only[0] = <<>> /\ \A n \in 1 .. N : only[n] = IF ranking[n] \in S THEN Append(only[n - 1], ranking[n]) ELSE only[n - 1]
  <2>1. 0 \in 0 .. N /\ \A n \in 1 .. N : n \in 0 .. N /\ n # 0
    BY <1>1
  <2> HIDE DEF only, N
  <2>2. QED
    BY <1>6, <2>1
<1> HIDE DEF only, N
<1> DEFINE T == {n \in Nat : n <= N => only[n] = g[n]}
<1>9. 0 \in T
  BY <1>8
<1>10. ASSUME NEW n \in Nat, n \in T PROVE n + 1 \in T
  <2> SUFFICES ASSUME n + 1 <= N PROVE only[n + 1] = g[n + 1]
    OBVIOUS
  <2>1. n + 1 \in 1 .. N /\ n + 1 - 1 = n /\ only[n] = g[n]
    BY <1>1, <1>10
  <2>2. g[n + 1] = IF ranking[n + 1] \in S THEN Append(g[n], ranking[n + 1]) ELSE g[n]
    BY <1>4, <2>1
  <2>3. only[n + 1] = IF ranking[n + 1] \in S THEN Append(only[n], ranking[n + 1]) ELSE only[n]
    BY <1>8, <2>1
  <2>4. QED
    BY <2>1, <2>2, <2>3
<1>11. only[N] = g[N]
  <2>1. Nat \subseteq T
    <3> HIDE DEF T
    <3>1. QED
      BY <1>9, <1>10, SetInduction
  <2>2. QED
    BY <1>1, <2>1
<1>12. PicksOnly(g, V, ranking, S)
  BY <1>1, <1>4, <1>7, <1>11 DEF N, PicksOnly
<1>13. QED
  BY <1>12

\* Only picks the members of S, each as often as it was there.
LEMMA OnlySet ==
  ASSUME NEW V, NEW ranking \in Seq(V), NEW S
  PROVE  /\ Only(ranking, S) \in Seq(V) /\ (IsInjective(ranking) => IsInjective(Only(ranking, S)))
         /\ ToSet(Only(ranking, S)) = ToSet(ranking) \intersect S
<1> DEFINE N == Len(ranking)
           First(n) == {ranking[i] : i \in 1 .. n}
<1>1. N \in Nat /\ DOMAIN ranking = 1 .. N /\ (\A n \in 1 .. N : ranking[n] \in V) /\ <<>> \in Seq(V)
  OBVIOUS
<1>2. PICK g : PicksOnly(g, V, ranking, S)
  BY OnlyRuns, Zenon
<1>3. /\ g \in [0 .. N -> Seq(V)] /\ g[0] = <<>> /\ g[N] = Only(ranking, S)
      /\ \A n \in 1 .. N : g[n] = IF ranking[n] \in S THEN Append(g[n - 1], ranking[n]) ELSE g[n - 1]
  BY <1>2 DEF PicksOnly
<1> HIDE DEF N
<1> DEFINE Right(n) == /\ g[n] \in Seq(V) /\ (IsInjective(ranking) => IsInjective(g[n]))
                       /\ ToSet(g[n]) = First(n) \intersect S
           T == {n \in Nat : n <= N => Right(n)}
<1>4. 0 \in T
  <2>1. IsInjective(<<>>) /\ ToSet(<<>>) = {}
    BY DEF IsInjective, ToSet
  <2>2. First(0) = {}
    OBVIOUS
  <2>3. Right(0)
    BY <1>1, <1>3, <2>1, <2>2
  <2> HIDE DEF Right
  <2>4. QED
    BY <2>3
<1>5. ASSUME NEW n \in Nat, n \in T PROVE n + 1 \in T
  <2> HIDE DEF Right
  <2> SUFFICES ASSUME n + 1 <= N PROVE Right(n + 1)
    OBVIOUS
  <2>1. n + 1 \in 1 .. N /\ n + 1 - 1 = n /\ \A i \in 1 .. n : i \in 1 .. N /\ i # n + 1
    BY <1>1
  <2>2. Right(n)
    BY <1>1, <1>5
  <2>3. g[n + 1] = IF ranking[n + 1] \in S THEN Append(g[n], ranking[n + 1]) ELSE g[n]
    BY <1>3, <2>1
  <2>4. /\ First(n + 1) = First(n) \union {ranking[n + 1]}
        /\ IsInjective(ranking) => ranking[n + 1] \notin First(n)
    <3>1. 1 .. n + 1 = 1 .. n \union {n + 1}
      OBVIOUS
    <3>2. IsInjective(ranking) => \A i \in 1 .. n : ranking[i] # ranking[n + 1]
      BY <1>1, <2>1 DEF IsInjective
    <3>3. QED
      BY <3>1, <3>2
  <2> HIDE DEF First
  <2>5. ranking[n + 1] \in V
    BY <1>1, <2>1
  <2>6. CASE ranking[n + 1] \in S
    <3> DEFINE s == g[n]
               e == ranking[n + 1]
    <3>1. g[n + 1] = Append(s, e)
      BY <2>3, <2>6
    <3>2. s \in Seq(V) /\ e \in V /\ (IsInjective(ranking) => IsInjective(s) /\ e \notin ToSet(s))
      BY <2>2, <2>4, <2>5 DEF Right
    <3>3. ToSet(s) = First(n) \intersect S /\ e \in S /\ First(n + 1) = First(n) \union {e}
      BY <2>2, <2>4, <2>6 DEF Right
    <3> HIDE DEF s, e
    <3>4. /\ Append(s, e) \in Seq(V) /\ ToSet(Append(s, e)) = ToSet(s) \union {e}
          /\ IsInjective(ranking) => IsInjective(Append(s, e))
      BY <3>2, AppendedSet, Zenon
    <3>5. ToSet(Append(s, e)) = First(n + 1) \intersect S
      BY <3>3, <3>4
    <3>6. QED
      BY <3>1, <3>4, <3>5 DEF Right
  <2>7. CASE ranking[n + 1] \notin S
    BY <2>2, <2>3, <2>4, <2>7 DEF Right
  <2>8. QED
    BY <2>6, <2>7
<1>6. Right(N)
  <2> HIDE DEF Right
  <2>1. Nat \subseteq T
    <3> HIDE DEF T
    <3>1. QED
      BY <1>4, <1>5, SetInduction
  <2>2. QED
    BY <1>1, <2>1
<1>7. First(N) = ToSet(ranking)
  BY <1>1 DEF ToSet
<1>8. QED
  BY <1>3, <1>6, <1>7

\* Only of a sequence that goes on with members: they are all left in.
LEMMA OnlyJoined ==
  ASSUME NEW V, NEW s \in Seq(V), NEW t \in Seq(V), NEW S, NEW T,
         \A i \in 1 .. Len(s) : s[i] \in S <=> s[i] \in T, \A i \in 1 .. Len(t) : t[i] \in T
  PROVE  Only(s \o t, T) = Only(s, S) \o t
<1> DEFINE M == Len(s)
           N == Len(t)
<1>1. PICK u \in Seq(V) :
        /\ u = s \o t /\ M \in Nat /\ N \in Nat /\ Len(u) = M + N
        /\ \A i \in 1 .. M : u[i] = s[i]
        /\ \A i \in 1 .. N, j \in Nat : j = M + i => u[j] = t[i]
  <2>1. PICK u \in Seq(V) : u = s \o t
    BY JoinedPlaces
  <2>2. /\ M \in Nat /\ N \in Nat /\ Len(u) = M + N /\ \A i \in 1 .. M : u[i] = s[i]
        /\ \A i \in 1 .. N, j \in Nat : j = M + i => u[j] = t[i]
    BY <2>1, JoinedPlaces
  <2> HIDE DEF M, N
  <2>3. QED
    BY <2>1, <2>2
<1>2. PICK f : PicksOnly(f, V, s, S)
  BY OnlyRuns, Zenon
<1>3. /\ f \in [0 .. M -> Seq(V)] /\ f[0] = <<>> /\ f[M] = Only(s, S)
      /\ \A n \in 1 .. M : f[n] = IF s[n] \in S THEN Append(f[n - 1], s[n]) ELSE f[n - 1]
  BY <1>2 DEF PicksOnly
<1>4. PICK g : PicksOnly(g, V, u, T)
  BY OnlyRuns, Zenon
<1> HIDE DEF M, N
<1>5. /\ g \in [0 .. M + N -> Seq(V)] /\ g[0] = <<>> /\ g[M + N] = Only(u, T)
      /\ \A n \in 1 .. M + N : g[n] = IF u[n] \in T THEN Append(g[n - 1], u[n]) ELSE g[n - 1]
  BY <1>1, <1>4 DEF PicksOnly
<1>6. g[M] = f[M]
  <2> DEFINE R == {n \in Nat : n <= M => g[n] = f[n]}
  <2>1. 0 \in R
    BY <1>3, <1>5
  <2>2. ASSUME NEW n \in Nat, n \in R PROVE n + 1 \in R
    <3> SUFFICES ASSUME n + 1 <= M PROVE g[n + 1] = f[n + 1]
      OBVIOUS
    <3>1. n + 1 \in 1 .. M /\ n + 1 \in 1 .. M + N /\ n + 1 - 1 = n /\ g[n] = f[n]
      BY <1>1, <2>2
    <3>2. u[n + 1] = s[n + 1] /\ (s[n + 1] \in S <=> s[n + 1] \in T)
      BY <1>1, <3>1 DEF M
    <3>3. f[n + 1] = IF s[n + 1] \in S THEN Append(f[n], s[n + 1]) ELSE f[n]
      BY <1>3, <3>1
    <3>4. g[n + 1] = IF u[n + 1] \in T THEN Append(g[n], u[n + 1]) ELSE g[n]
      BY <1>5, <3>1
    <3>5. QED
      BY <3>1, <3>2, <3>3, <3>4
  <2>3. Nat \subseteq R
    <3> HIDE DEF R
    <3>1. QED
      BY <2>1, <2>2, SetInduction
  <2>4. QED
    BY <1>1, <2>3
<1>7. PICK o \in Seq(V), L \in Nat : o = Only(s, S) /\ L = Len(o)
  <2>1. Only(s, S) \in Seq(V)
    BY <1>1, <1>3
  <2>2. QED
    BY <2>1
<1>8. g[M + N] \in Seq(V) /\ Len(g[M + N]) = L + N /\ \A i \in 1 .. L + N : g[M + N][i] = IF i <= L THEN o[i] ELSE t[i - L]
  <2> DEFINE Right(n) == /\ g[M + n] \in Seq(V) /\ Len(g[M + n]) = L + n
                         /\ \A i \in 1 .. L + n : g[M + n][i] = IF i <= L THEN o[i] ELSE t[i - L]
             R == {n \in Nat : n <= N => Right(n)}
  <2>1. Right(0)
    BY <1>1, <1>3, <1>6, <1>7
  <2>2. ASSUME NEW n \in Nat, n + 1 <= N, Right(n) PROVE Right(n + 1)
    <3>1. PICK m \in 1 .. M + N : m = M + (n + 1) /\ m - 1 = M + n
      BY <1>1, <2>2
    <3>2. n + 1 \in 1 .. N
      BY <1>1, <2>2
    <3>3. PICK e \in V : e = t[n + 1]
      BY <1>1, <3>2 DEF N
    <3>4. u[m] = e /\ e \in T
      BY <1>1, <3>1, <3>2, <3>3 DEF N
    <3>5. PICK q \in Seq(V) : /\ q = g[m - 1] /\ Len(q) = L + n
                              /\ \A i \in 1 .. L + n : q[i] = IF i <= L THEN o[i] ELSE t[i - L]
      BY <2>2, <3>1
    <3>6. g[m] = Append(q, e)
      BY <1>5, <3>4, <3>5
    <3>7. PICK p \in Seq(V) : /\ p = g[m] /\ Len(p) = L + (n + 1) /\ p[L + (n + 1)] = e
                              /\ \A i \in 1 .. L + n : p[i] = q[i]
      <4>1. L + (n + 1) = (L + n) + 1 /\ L + n \in Nat
        BY <1>7
      <4>2. PICK p : p = Append(q, e)
        OBVIOUS
      <4>3. PICK k \in Nat : k = Len(q) /\ k = L + n /\ k + 1 = L + (n + 1)
        BY <3>5, <4>1
      <4>4. p \in Seq(V) /\ Len(p) = k + 1 /\ p[k + 1] = e /\ \A i \in 1 .. k : p[i] = q[i]
        <5>1. p \in Seq(V) /\ Len(p) = Len(q) + 1 /\ p[Len(q) + 1] = e /\ \A i \in 1 .. Len(q) : p[i] = q[i]
          BY <4>2, AppendedPlaces, Zenon
        <5>2. QED
          BY <4>3, <5>1, Zenon
      <4>5. p \in Seq(V) /\ p = g[m] /\ Len(p) = L + (n + 1) /\ p[L + (n + 1)] = e
        BY <3>6, <4>2, <4>3, <4>4
      <4>6. \A i \in 1 .. L + n : p[i] = q[i]
        BY <4>3, <4>4
      <4>7. QED
        BY <4>5, <4>6
    <3>8. \A i \in 1 .. L + (n + 1) : p[i] = IF i <= L THEN o[i] ELSE t[i - L]
      <4>1. \A i \in 1 .. L + (n + 1) : i \in 1 .. L + n \/ (i = L + (n + 1) /\ ~ i <= L /\ i - L = n + 1)
        <5>1. L \in Nat /\ n \in Nat
          BY <1>7, <2>2
        <5>2. QED
          BY ONLY <5>1
      <4>2. QED
        BY <3>3, <3>5, <3>7, <4>1
    <3>9. QED
      BY <3>1, <3>7, <3>8
  <2> HIDE DEF Right
  <2>3. 0 \in R /\ \A n \in Nat : n \in R => n + 1 \in R
    BY <1>1, <2>1, <2>2
  <2>4. Nat \subseteq R
    <3> HIDE DEF R
    <3>1. QED
      BY <2>3, SetInduction
  <2>5. Right(N)
    BY <1>1, <2>4
  <2>6. QED
    BY <2>5 DEF Right
<1>9. /\ o \o t \in Seq(V) /\ Len(o \o t) = L + N
      /\ \A i \in 1 .. L + N : (o \o t)[i] = IF i <= L THEN o[i] ELSE t[i - L]
  <2>1. /\ o \o t \in Seq(V) /\ Len(o \o t) = L + N
        /\ \A i \in 1 .. L : (o \o t)[i] = o[i]
        /\ \A i \in 1 .. N, j \in Nat : j = L + i => (o \o t)[j] = t[i]
    BY <1>7, JoinedPlaces DEF N
  <2>2. \A i \in 1 .. L + N : i \in 1 .. L \/ (i - L \in 1 .. N /\ i \in Nat /\ i = L + (i - L) /\ ~ i <= L)
    BY <1>1, <1>7
  <2>3. QED
    BY <2>1, <2>2
<1>10. PICK a \in Seq(V), b \in Seq(V) : a = g[M + N] /\ b = o \o t
  BY <1>8, <1>9
<1>11. a = b
  <2>1. Len(a) = Len(b) /\ \A i \in 1 .. Len(a) : a[i] = b[i]
    BY <1>8, <1>9, <1>10
  <2>2. QED
    BY <2>1, SameSequence
<1>12. QED
  BY <1>1, <1>5, <1>7, <1>10, <1>11

\* Nothing is left out of a sequence of members.
LEMMA OnlyAll ==
  ASSUME NEW V, NEW t \in Seq(V), NEW T, \A i \in 1 .. Len(t) : t[i] \in T
  PROVE  Only(t, T) = t
<1>1. PICK e \in Seq(V) : e = <<>>
  BY <<>> \in Seq(V)
<1>2. Len(e) = 0 /\ e \o t = t
  BY <1>1
<1>3. PICK g : PicksOnly(g, V, e, T)
  BY OnlyRuns, Zenon
<1>4. Only(e, T) = <<>>
  BY <1>2, <1>3 DEF PicksOnly
<1>5. Only(e \o t, T) = Only(e, T) \o t
  <2>1. \A i \in 1 .. Len(e) : e[i] \in T <=> e[i] \in T
    OBVIOUS
  <2>2. QED
    BY <2>1, OnlyJoined, Zenon
<1>6. QED
  BY <1>1, <1>2, <1>4, <1>5
==============================================================================
