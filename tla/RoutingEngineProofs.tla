------------------------ MODULE RoutingEngineProofs ------------------------
(***************************************************************************)
(* The answers of the routing engine, for every set of provider aliases,   *)
(* every chain, weight and rule list.                                      *)
(*                                                                         *)
(* The reorderings are recursive functions; what they compute is shown by  *)
(* induction over the length of the list, stated for sets of numbers       *)
(* (NatSet), from the well-foundedness of < on the natural numbers;        *)
(* Recursion shows that a recursive definition has the value its equations *)
(* say.                                                                    *)
(***************************************************************************)
EXTENDS Routing, FiniteSetTheorems, SequenceTheorems, WellFoundedInduction, TLAPS

(***************************************************************************)
(* Induction over the natural numbers and recursion, for sets              *)
(***************************************************************************)

\* A set of natural numbers that is not empty has a least one.
LEMMA LeastNumber ==
  ASSUME NEW T \in SUBSET Nat, T # {}
  PROVE  \E m \in T : \A k \in T : m <= k
<1> DEFINE R == OpToRel(<, Nat)
<1>1. IsWellFoundedOn(R, Nat)
  BY NatLessThanWellFounded
<1>2. \A a, b \in Nat : <<a, b>> \in R <=> a < b
  BY DEF OpToRel
<1> HIDE DEF R
<1>3. PICK m \in T : \A y \in T : ~(<<y, m>> \in R)
  BY <1>1, WFMin
<1>4. \A k \in T : k \in Nat /\ m \in Nat /\ ~(k < m)
  BY <1>2, <1>3
<1>5. \A k, n \in Nat : ~(k < n) => n <= k
  OBVIOUS
<1> QED
  BY <1>4, <1>5

\* A set that has 0, and with every number the next, has all of them.
LEMMA NatSet ==
  ASSUME NEW T \in SUBSET Nat, 0 \in T, \A n \in T : n + 1 \in T
  PROVE  T = Nat
<1> SUFFICES ASSUME Nat \ T # {} PROVE FALSE
  OBVIOUS
<1>1. PICK m \in Nat \ T : \A k \in Nat \ T : m <= k
  BY LeastNumber
<1>2. m # 0 /\ m - 1 \in Nat /\ m - 1 \in T
  BY <1>1
<1>3. m - 1 + 1 = m
  BY <1>1
<1> QED
  BY <1>1, <1>2, <1>3

\* g takes v0 through the first n steps of D.
Follows(V, v0, D, n, g) == g \in [Nat -> V] /\ g[0] = v0 /\ \A k \in 1..n : g[k] = D[k][g[k - 1]]

\* It can take one step more.
LEMMA FollowsOneMore ==
  ASSUME NEW V, NEW v0 \in V, NEW D \in [Nat -> [V -> V]], NEW n \in Nat, NEW g, Follows(V, v0, D, n, g)
  PROVE  \E h : Follows(V, v0, D, n + 1, h)
<1>1. g \in [Nat -> V] /\ D[n + 1] \in [V -> V] /\ g[n] \in V /\ D[n + 1][g[n]] \in V
  BY DEF Follows
<1>2. PICK h : h = [g EXCEPT ![n + 1] = D[n + 1][g[n]]]
  OBVIOUS
<1>3. h \in [Nat -> V] /\ h[n + 1] = D[n + 1][g[n]] /\ \A k \in Nat : k # n + 1 => h[k] = g[k]
  BY <1>1, <1>2
<1>4. ASSUME NEW k \in 1..(n + 1) PROVE h[k] = D[k][h[k - 1]]
  <2>1. CASE k = n + 1
    BY <1>3, <2>1
  <2>2. CASE k # n + 1
    <3>1. k \in 1..n /\ k \in Nat /\ k - 1 \in Nat /\ k - 1 # n + 1
      BY <2>2
    <3> QED
      BY <1>3, <2>2, <3>1 DEF Follows
  <2> QED
    BY <2>1, <2>2
<1>5. h[0] = v0
  BY <1>3 DEF Follows
<1> QED
  BY <1>3, <1>4, <1>5 DEF Follows

\* Two such functions agree as far as they both follow D.
LEMMA FollowsAlike ==
  ASSUME NEW V, NEW v0 \in V, NEW D \in [Nat -> [V -> V]], NEW g, NEW h
  PROVE  \A n \in Nat : Follows(V, v0, D, n, g) /\ Follows(V, v0, D, n, h) => g[n] = h[n]
<1> DEFINE T == {n \in Nat : Follows(V, v0, D, n, g) /\ Follows(V, v0, D, n, h) => g[n] = h[n]}
<1>1. 0 \in T
  BY DEF Follows
<1>2. ASSUME NEW n \in T PROVE n + 1 \in T
  <2> SUFFICES ASSUME Follows(V, v0, D, n + 1, g), Follows(V, v0, D, n + 1, h) PROVE g[n + 1] = h[n + 1]
    BY DEF T
  <2>1. n \in Nat /\ \A k \in 1..n : k \in 1..(n + 1)
    BY DEF T
  <2>2. Follows(V, v0, D, n, g) /\ Follows(V, v0, D, n, h)
    BY <2>1 DEF Follows
  <2>3. n + 1 \in 1..(n + 1) /\ n + 1 - 1 = n /\ g[n] = h[n]
    BY <2>1, <2>2 DEF T
  <2> QED
    BY <2>3 DEF Follows
<1>3. T \in SUBSET Nat
  BY DEF T
<1> HIDE DEF T
<1>4. T = Nat
  BY <1>1, <1>2, <1>3, NatSet
<1> QED
  BY <1>4 DEF T

\* A function over N takes v0 through every step of D.
Solvable(N, V, v0, D) ==
    \E g \in [N -> V] : g[0] = v0 /\ \A n \in N \ {0} : g[n] = D[n][g[n - 1]]

\* A recursion over the natural numbers has a solution.
LEMMA Recursion ==
  ASSUME NEW V, NEW v0 \in V, NEW D \in [Nat -> [V -> V]]
  PROVE  Solvable(Nat, V, v0, D)
<1> DEFINE T == {n \in Nat : \E g : Follows(V, v0, D, n, g)}
<1>1. 0 \in T
  <2>1. PICK g : g = [n \in Nat |-> v0]
    OBVIOUS
  <2>2. Follows(V, v0, D, 0, g)
    BY <2>1 DEF Follows
  <2> QED
    BY <2>2
<1>2. \A n \in T : n + 1 \in T
  BY FollowsOneMore
<1>3. T \in SUBSET Nat
  OBVIOUS
<1> HIDE DEF T
<1>4. T = Nat
  BY <1>1, <1>2, <1>3, NatSet
<1> DEFINE G(n) == CHOOSE g : Follows(V, v0, D, n, g)
<1>5. \A n \in Nat : Follows(V, v0, D, n, G(n))
  BY <1>4 DEF T
<1> HIDE DEF G
<1>6. PICK f : f = [n \in Nat |-> G(n)[n]]
  OBVIOUS
<1>7. f \in [Nat -> V] /\ f[0] = v0
  BY <1>5, <1>6 DEF Follows
<1>8. ASSUME NEW n \in Nat \ {0} PROVE f[n] = D[n][f[n - 1]]
  <2>1. n - 1 \in Nat /\ n \in 1..n /\ \A k \in 1..(n - 1) : k \in 1..n
    OBVIOUS
  <2>2. Follows(V, v0, D, n - 1, G(n)) /\ G(n)[n] = D[n][G(n)[n - 1]]
    BY <1>5, <2>1 DEF Follows
  <2>3. G(n)[n - 1] = G(n - 1)[n - 1]
    BY <1>5, <2>1, <2>2, FollowsAlike
  <2> QED
    BY <1>6, <2>1, <2>2, <2>3
<1> QED
  BY <1>7, <1>8 DEF Solvable

\* A set that has 0, and the next number for each below N, has the numbers to N.
LEMMA NatSetUpTo ==
  ASSUME NEW N \in Nat, NEW T, 0 \in T, \A n \in 0..(N - 1) : n \in T => n + 1 \in T
  PROVE  \A n \in 0..N : n \in T
<1> DEFINE U == {n \in Nat : n <= N => n \in T}
<1>1. 0 \in U
  OBVIOUS
<1>2. ASSUME NEW n \in U PROVE n + 1 \in U
  <2> SUFFICES ASSUME n + 1 <= N PROVE n + 1 \in T
    OBVIOUS
  <2>1. n \in 0..(N - 1) /\ n \in T
    OBVIOUS
  <2> QED
    BY <2>1
<1>3. U \in SUBSET Nat
  OBVIOUS
<1> HIDE DEF U
<1>4. U = Nat
  BY <1>1, <1>2, <1>3, NatSet
<1> QED
  BY <1>4 DEF U

\* A recursion over the first numbers has a solution.
LEMMA BoundedRecursion ==
  ASSUME NEW V, NEW v0 \in V, NEW N \in Nat, NEW D \in [1..N -> [V -> V]]
  PROVE  Solvable(0..N, V, v0, D)
<1>1. PICK E : E = [n \in Nat |-> IF n \in 1..N THEN D[n] ELSE [v \in V |-> v]]
  OBVIOUS
<1>2. E \in [Nat -> [V -> V]] /\ \A n \in 1..N : E[n] = D[n]
  BY <1>1
<1>3. Solvable(Nat, V, v0, E)
  BY <1>2, Recursion
<1>4. PICK f \in [Nat -> V] : f[0] = v0 /\ \A n \in Nat \ {0} : f[n] = E[n][f[n - 1]]
  BY <1>3 DEF Solvable
<1>5. PICK g : g = [n \in 0..N |-> f[n]]
  OBVIOUS
<1>6. g \in [0..N -> V] /\ g[0] = v0
  BY <1>4, <1>5
<1>7. ASSUME NEW n \in 1..N PROVE g[n] = D[n][g[n - 1]]
  <2>1. n \in Nat \ {0} /\ n - 1 \in 0..N /\ n \in 0..N
    OBVIOUS
  <2> QED
    BY <1>2, <1>4, <1>5, <2>1
<1> QED
  <2>1. \A n \in 0..N \ {0} : n \in 1..N
    OBVIOUS
  <2> QED
    BY <1>6, <1>7, <2>1 DEF Solvable

----------------------------------------------------------------------------
(***************************************************************************)
(* List comprehensions                                                     *)
(***************************************************************************)

\* kept[n] lists those of the first n elements of s that are in S.
Keeps(A, s, S, kept) ==
    /\ kept \in [0..Len(s) -> Seq(A)]
    /\ kept[0] = <<>>
    /\ \A n \in 1..Len(s) :
         kept[n] = IF s[n] \in S THEN Append(kept[n - 1], s[n]) ELSE kept[n - 1]

\* Within is the last of these lists.
LEMMA WithinSteps ==
  ASSUME NEW A, NEW s \in Seq(A), NEW S
  PROVE  \E kept : Keeps(A, s, S, kept) /\ Within(s, S) = kept[Len(s)]
<1> DEFINE F(g) == [n \in 0..Len(s) |->
                      IF n = 0 THEN <<>>
                      ELSE IF s[n] \in S THEN Append(g[n - 1], s[n])
                      ELSE g[n - 1]]
           D == [n \in 1..Len(s) |->
                   [q \in Seq(A) |-> IF s[n] \in S THEN Append(q, s[n]) ELSE q]]
           kept == CHOOSE g : g = F(g)
<1>1. D \in [1..Len(s) -> [Seq(A) -> Seq(A)]]
  OBVIOUS
<1>2. PICK f \in [0..Len(s) -> Seq(A)] :
        f[0] = <<>> /\ \A n \in 1..Len(s) : f[n] = D[n][f[n - 1]]
  <2>1. PICK N, E, V, v0 : N = Len(s) /\ E = D /\ V = Seq(A) /\ v0 = <<>>
    OBVIOUS
  <2>2. N \in Nat /\ v0 \in V /\ E \in [1..N -> [V -> V]]
    BY <1>1, <2>1
  <2>3. Solvable(0..N, V, v0, E)
    BY <2>2, BoundedRecursion
  <2>4. \A n \in 1..N : n \in 0..N \ {0}
    BY <2>2
  <2> QED
    BY <2>1, <2>3, <2>4 DEF Solvable
<1>3. f = F(f)
  <2>1. ASSUME NEW n \in 0..Len(s) PROVE f[n] = F(f)[n]
    <3>1. CASE n = 0
      BY <1>2, <3>1
    <3>2. CASE n # 0
      <4>1. n \in 1..Len(s) /\ f[n - 1] \in Seq(A)
        BY <3>2
      <4> QED
        BY <1>2, <3>2, <4>1
    <3> QED
      BY <3>1, <3>2
  <2> QED
    BY <2>1
<1>4. kept = F(kept)
  BY <1>3
<1>5. Within(s, S) = kept[Len(s)]
  BY DEF Within
<1> HIDE DEF kept
<1>6. PICK k : k = kept
  OBVIOUS
<1>7. k = F(k)
  BY <1>4, <1>6
<1>8. k[0] = <<>> /\ \A n \in 1..Len(s) : k[n] = IF s[n] \in S THEN Append(k[n - 1], s[n]) ELSE k[n - 1]
  <2>1. Len(s) \in Nat
    OBVIOUS
  <2>2. 0 \in 0..Len(s) /\ \A n \in 1..Len(s) : n \in 0..Len(s) /\ n # 0
    BY <2>1
  <2>3. k[0] = F(k)[0] /\ \A n \in 1..Len(s) : k[n] = F(k)[n]
    BY <1>7
  <2> QED
    BY <2>2, <2>3
<1>9. \A n \in 0..Len(s) : k[n] \in Seq(A)
  <2> DEFINE T == {n \in Nat : k[n] \in Seq(A)}
  <2>1. 0 \in T /\ Len(s) \in Nat
    <3>1. <<>> \in Seq(A) /\ Len(s) \in Nat
      OBVIOUS
    <3> QED
      BY <1>8, <3>1
  <2>2. ASSUME NEW n \in 0..(Len(s) - 1), n \in T PROVE n + 1 \in T
    <3>1. n \in Nat /\ n + 1 \in 1..Len(s) /\ k[n] \in Seq(A) /\ s[n + 1] \in A /\ n + 1 - 1 = n
      BY <2>1, <2>2
    <3>2. Append(k[n], s[n + 1]) \in Seq(A)
      BY <3>1
    <3>3. k[n + 1] = IF s[n + 1] \in S THEN Append(k[n], s[n + 1]) ELSE k[n]
      BY <1>8, <3>1
    <3>4. k[n + 1] \in Seq(A)
      BY <3>1, <3>2, <3>3
    <3> QED
      BY <3>1, <3>4
  <2> HIDE DEF T
  <2>3. \A n \in 0..Len(s) : n \in T
    BY <2>1, <2>2, NatSetUpTo
  <2> QED
    BY <2>3 DEF T
<1>10. k \in [0..Len(s) -> Seq(A)]
  BY <1>7, <1>9
<1> QED
  BY <1>5, <1>6, <1>8, <1>10 DEF Keeps

\* One element more.
LEMMA AppendFacts ==
  ASSUME NEW A, NEW q \in Seq(A), NEW a \in A
  PROVE  /\ Append(q, a) \in Seq(A)
         /\ ToSet(Append(q, a)) = ToSet(q) \union {a}
         /\ IsInjective(q) /\ a \notin ToSet(q) => IsInjective(Append(q, a))
<1>1. PICK r : r = Append(q, a)
  OBVIOUS
<1>2. /\ r \in Seq(A) /\ Len(q) \in Nat /\ Len(r) = Len(q) + 1
      /\ DOMAIN q = 1..Len(q) /\ DOMAIN r = 1..(Len(q) + 1)
      /\ r[Len(q) + 1] = a /\ \A i \in 1..Len(q) : r[i] = q[i]
  BY <1>1
<1>3. ToSet(r) = ToSet(q) \union {a}
  <2>1. \A i \in DOMAIN r : i \in DOMAIN q \/ i = Len(q) + 1
    BY <1>2
  <2>2. \A i \in DOMAIN q : i \in DOMAIN r /\ r[i] = q[i]
    BY <1>2
  <2>3. Len(q) + 1 \in DOMAIN r /\ r[Len(q) + 1] = a
    BY <1>2
  <2> QED
    BY <2>1, <2>2, <2>3 DEF ToSet
<1>4. ASSUME IsInjective(q), a \notin ToSet(q) PROVE IsInjective(r)
  <2> SUFFICES ASSUME NEW i \in DOMAIN r, NEW j \in DOMAIN r, r[i] = r[j] PROVE i = j
    BY DEF IsInjective
  <2>1. ASSUME NEW k \in DOMAIN r, k # Len(q) + 1 PROVE k \in DOMAIN q /\ r[k] = q[k] /\ r[k] # a
    <3>1. k \in DOMAIN q /\ r[k] = q[k]
      BY <1>2, <2>1
    <3> QED
      BY <1>4, <3>1 DEF ToSet
  <2>2. CASE i = Len(q) + 1 \/ j = Len(q) + 1
    BY <1>2, <2>1, <2>2
  <2>3. CASE i # Len(q) + 1 /\ j # Len(q) + 1
    BY <1>4, <2>1, <2>3 DEF IsInjective
  <2> QED
    BY <2>2, <2>3
<1> QED
  BY <1>1, <1>2, <1>3, <1>4

\* A list comprehension keeps exactly the elements it asks for, each once when the list
\* has each once.
LEMMA WithinKeeps ==
  ASSUME NEW A, NEW s \in Seq(A), NEW S
  PROVE  /\ Within(s, S) \in Seq(A)
         /\ ToSet(Within(s, S)) = ToSet(s) \intersect S
         /\ IsInjective(s) => IsInjective(Within(s, S))
<1>0. PICK kept : Keeps(A, s, S, kept) /\ Within(s, S) = kept[Len(s)]
  BY WithinSteps
<1>1. /\ kept \in [0..Len(s) -> Seq(A)]
      /\ kept[0] = <<>>
      /\ \A n \in 1..Len(s) :
           kept[n] = IF s[n] \in S THEN Append(kept[n - 1], s[n]) ELSE kept[n - 1]
  BY <1>0 DEF Keeps
<1>2. Len(s) \in Nat /\ DOMAIN s = 1..Len(s) /\ \A n \in 1..Len(s) : s[n] \in A
  OBVIOUS
<1> DEFINE UpTo(n) == {s[i] : i \in 1..n}
           T == {n \in 0..Len(s) : /\ ToSet(kept[n]) = UpTo(n) \intersect S
                                   /\ IsInjective(s) => IsInjective(kept[n])}
<1>3. 0 \in T
  <2>1. DOMAIN <<>> = {}
    OBVIOUS
  <2>2. ToSet(<<>>) = {} /\ IsInjective(<<>>) /\ UpTo(0) = {}
    BY <2>1 DEF ToSet, IsInjective
  <2> QED
    BY <1>1, <1>2, <2>2
<1>4. ASSUME NEW n \in 0..(Len(s) - 1), n \in T PROVE n + 1 \in T
  <2>1. n + 1 \in 1..Len(s) /\ n \in 0..Len(s) /\ n + 1 \in 0..Len(s) /\ n + 1 - 1 = n
    BY <1>2
  <2>2. PICK a, q : a = s[n + 1] /\ q = kept[n]
    OBVIOUS
  <2>3. a \in A /\ q \in Seq(A) /\ ToSet(q) = UpTo(n) \intersect S /\ (IsInjective(s) => IsInjective(q))
    BY <1>1, <1>2, <1>4, <2>1, <2>2
  <2>4. kept[n + 1] = IF a \in S THEN Append(q, a) ELSE q
    BY <1>1, <2>1, <2>2
  <2>5. UpTo(n + 1) = UpTo(n) \union {a}
    <3>1. \A i \in 1..(n + 1) : i \in 1..n \/ i = n + 1
      BY <2>1
    <3>2. n + 1 \in 1..(n + 1) /\ \A i \in 1..n : i \in 1..(n + 1)
      BY <2>1
    <3> QED
      BY <2>2, <3>1, <3>2
  <2>6. IsInjective(s) => a \notin UpTo(n)
    <3>1. \A i \in 1..n : i \in DOMAIN s /\ n + 1 \in DOMAIN s /\ i # n + 1
      BY <1>2, <2>1
    <3> QED
      BY <2>2, <3>1 DEF IsInjective
  <2> HIDE DEF UpTo
  <2>7. CASE a \in S
    <3>1. kept[n + 1] = Append(q, a)
      BY <2>4, <2>7
    <3>2. ToSet(kept[n + 1]) = UpTo(n + 1) \intersect S
      BY <2>3, <2>5, <2>7, <3>1, AppendFacts
    <3>3. IsInjective(s) => IsInjective(kept[n + 1])
      BY <2>3, <2>6, <3>1, AppendFacts
    <3> QED
      BY <2>1, <3>2, <3>3
  <2>8. CASE a \notin S
    BY <2>1, <2>3, <2>4, <2>5, <2>8
  <2> QED
    BY <2>7, <2>8
<1>5. UpTo(Len(s)) = ToSet(s)
  BY <1>2 DEF ToSet
<1> HIDE DEF T
<1>6. \A n \in 0..Len(s) : n \in T
  BY <1>2, <1>3, <1>4, NatSetUpTo
<1>7. Len(s) \in T /\ kept[Len(s)] \in Seq(A)
  BY <1>1, <1>2, <1>6
<1> QED
  BY <1>0, <1>5, <1>7 DEF T

----------------------------------------------------------------------------
(***************************************************************************)
(* Orders of the candidates                                                *)
(***************************************************************************)

\* Two lists have the same elements, each once.
Permutes(A, s, t) ==
    s \in Seq(A) /\ t \in Seq(A) /\ IsInjective(s) /\ IsInjective(t) /\ ToSet(s) = ToSet(t)

\* A list that has each element once is as long as it has elements.
LEMMA LenIsCardinality ==
  ASSUME NEW A, NEW s \in Seq(A), IsInjective(s)
  PROVE  IsFiniteSet(ToSet(s)) /\ Cardinality(ToSet(s)) = Len(s)
<1>1. Len(s) \in Nat /\ DOMAIN s = 1..Len(s) /\ \A i \in DOMAIN s : s[i] \in ToSet(s)
  BY DEF ToSet
<1>2. s \in [1..Len(s) -> ToSet(s)]
  BY <1>1
<1>3. s \in Bijection(1..Len(s), ToSet(s))
  <2>1. s \in Injection(1..Len(s), ToSet(s))
    BY <1>1, <1>2 DEF IsInjective, Injection
  <2>2. s \in Surjection(1..Len(s), ToSet(s))
    BY <1>1, <1>2 DEF ToSet, Surjection
  <2> QED
    BY <2>1, <2>2 DEF Bijection
<1>4. ExistsBijection(1..Len(s), ToSet(s))
  BY <1>3 DEF ExistsBijection
<1> QED
  BY <1>1, <1>4, FS_CountingElements, FS_NatBijection

\* Reordering keeps the length.
LEMMA PermutesLen ==
  ASSUME NEW A, NEW s, NEW t, Permutes(A, s, t)
  PROVE  Len(s) = Len(t)
BY LenIsCardinality DEF Permutes

\* One list after another.
LEMMA ConcatFacts ==
  ASSUME NEW A, NEW s \in Seq(A), NEW t \in Seq(A)
  PROVE  /\ s \o t \in Seq(A)
         /\ ToSet(s \o t) = ToSet(s) \union ToSet(t)
         /\ IsInjective(s) /\ IsInjective(t) /\ ToSet(s) \intersect ToSet(t) = {} => IsInjective(s \o t)
         /\ s # <<>> => Head(s \o t) = Head(s)
<1>1. PICK r, m, n : r = s \o t /\ m = Len(s) /\ n = Len(t)
  OBVIOUS
<1>2. /\ r \in Seq(A) /\ m \in Nat /\ n \in Nat
      /\ DOMAIN s = 1..m /\ DOMAIN t = 1..n /\ DOMAIN r = 1..(m + n)
      /\ \A i \in 1..m : r[i] = s[i]
      /\ \A i \in (m + 1)..(m + n) : r[i] = t[i - m]
  BY <1>1
<1>3. ASSUME NEW i \in DOMAIN r
      PROVE  \/ i \in DOMAIN s /\ r[i] = s[i] /\ r[i] \in ToSet(s)
             \/ i - m \in DOMAIN t /\ r[i] = t[i - m] /\ r[i] \in ToSet(t)
  <2>1. CASE i \in 1..m
    BY <1>2, <2>1 DEF ToSet
  <2>2. CASE i \notin 1..m
    <3>1. i \in (m + 1)..(m + n) /\ i - m \in 1..n
      BY <1>2, <2>2
    <3> QED
      BY <1>2, <3>1 DEF ToSet
  <2> QED
    BY <2>1, <2>2
<1>4. ToSet(r) = ToSet(s) \union ToSet(t)
  <2>1. \A i \in DOMAIN s : i \in DOMAIN r /\ r[i] = s[i]
    BY <1>2
  <2>2. ASSUME NEW i \in DOMAIN t PROVE i + m \in DOMAIN r /\ r[i + m] = t[i]
    <3>1. i + m \in (m + 1)..(m + n) /\ i + m \in 1..(m + n) /\ i + m - m = i
      BY <1>2
    <3> QED
      BY <1>2, <3>1
  <2>3. ToSet(s) \subseteq ToSet(r)
    BY <2>1 DEF ToSet
  <2>4. ToSet(t) \subseteq ToSet(r)
    BY <2>2 DEF ToSet
  <2>5. ToSet(r) \subseteq ToSet(s) \union ToSet(t)
    <3> SUFFICES ASSUME NEW i \in DOMAIN r PROVE r[i] \in ToSet(s) \union ToSet(t)
      BY DEF ToSet
    <3> QED
      BY <1>3
  <2> QED
    BY <2>3, <2>4, <2>5
<1>5. ASSUME IsInjective(s), IsInjective(t), ToSet(s) \intersect ToSet(t) = {} PROVE IsInjective(r)
  <2> SUFFICES ASSUME NEW i \in DOMAIN r, NEW j \in DOMAIN r, r[i] = r[j] PROVE i = j
    BY DEF IsInjective
  <2>1. CASE i \in DOMAIN s /\ r[i] = s[i] /\ r[i] \in ToSet(s)
    <3>1. j \in DOMAIN s /\ r[j] = s[j]
      BY <1>3, <1>5, <2>1
    <3> QED
      BY <1>5, <2>1, <3>1 DEF IsInjective
  <2>2. CASE i - m \in DOMAIN t /\ r[i] = t[i - m] /\ r[i] \in ToSet(t)
    <3>1. j - m \in DOMAIN t /\ r[j] = t[j - m]
      BY <1>3, <1>5, <2>2
    <3>2. i - m = j - m
      BY <1>5, <2>2, <3>1 DEF IsInjective
    <3> QED
      BY <1>2, <3>2
  <2> QED
    BY <1>3, <2>1, <2>2
<1>6. s # <<>> => Head(r) = Head(s)
  <2> SUFFICES ASSUME s # <<>> PROVE Head(r) = Head(s)
    OBVIOUS
  <2>1. m # 0
    BY <1>1
  <2>2. 1 \in 1..m /\ Head(s) = s[1] /\ Head(r) = r[1]
    BY <1>1, <1>2, <2>1
  <2> QED
    BY <1>2, <2>2
<1> QED
  BY <1>1, <1>2, <1>4, <1>5, <1>6

\* _put_first reorders the candidates, whatever alias it is given.
LEMMA PutFirstPermutes ==
  ASSUME NEW A, NEW s \in Seq(A), IsInjective(s), NEW alias
  PROVE  Permutes(A, s, PutFirst(s, alias))
<1>1. PICK first, rest : first = Within(s, {alias}) /\ rest = Within(s, ToSet(s) \ {alias})
  OBVIOUS
<1>2. /\ first \in Seq(A) /\ ToSet(first) = ToSet(s) \intersect {alias} /\ IsInjective(first)
      /\ rest \in Seq(A) /\ ToSet(rest) = ToSet(s) \ {alias} /\ IsInjective(rest)
  BY <1>1, WithinKeeps
<1>3. PutFirst(s, alias) = first \o rest
  BY <1>1 DEF PutFirst
<1>4. Permutes(A, s, first \o rest)
  <2>1. first \o rest \in Seq(A) /\ ToSet(first \o rest) = ToSet(first) \union ToSet(rest)
    BY <1>2, ConcatFacts
  <2>2. IsInjective(first \o rest)
    <3>1. ToSet(first) \intersect ToSet(rest) = {}
      BY <1>2
    <3> QED
      BY <1>2, <3>1, ConcatFacts
  <2>3. ToSet(first) \union ToSet(rest) = ToSet(s)
    BY <1>2
  <2> QED
    BY <2>1, <2>2, <2>3 DEF Permutes
<1> QED
  BY <1>3, <1>4

\* ordered[n] lists, each once, the elements of S among the first n names.
Names(A, names, S, ordered) ==
    /\ ordered \in [0..Len(names) -> Seq(A)]
    /\ ordered[0] = <<>>
    /\ \A n \in 1..Len(names) :
         ordered[n] = IF names[n] \in S \ ToSet(ordered[n - 1])
                      THEN Append(ordered[n - 1], names[n])
                      ELSE ordered[n - 1]

\* Named is the last of these lists.
LEMMA NamedSteps ==
  ASSUME NEW A, NEW names \in Seq(A), NEW candidates
  PROVE  \E ordered : /\ Names(A, names, ToSet(candidates), ordered)
                      /\ Named(names, candidates) = ordered[Len(names)]
<1> DEFINE F(g) == [n \in 0..Len(names) |->
                      IF n = 0 THEN <<>>
                      ELSE IF names[n] \in ToSet(candidates) \ ToSet(g[n - 1])
                           THEN Append(g[n - 1], names[n])
                      ELSE g[n - 1]]
           ordered == CHOOSE g : g = F(g)
           D == [n \in 1..Len(names) |->
                   [q \in Seq(A) |-> IF names[n] \in ToSet(candidates) \ ToSet(q)
                                     THEN Append(q, names[n]) ELSE q]]
<1>1. D \in [1..Len(names) -> [Seq(A) -> Seq(A)]]
  OBVIOUS
<1>2. PICK f \in [0..Len(names) -> Seq(A)] :
        f[0] = <<>> /\ \A n \in 1..Len(names) : f[n] = D[n][f[n - 1]]
  <2>1. PICK N, E, V, v0 : N = Len(names) /\ E = D /\ V = Seq(A) /\ v0 = <<>>
    OBVIOUS
  <2>2. N \in Nat /\ v0 \in V /\ E \in [1..N -> [V -> V]]
    BY <1>1, <2>1
  <2>3. Solvable(0..N, V, v0, E)
    BY <2>2, BoundedRecursion
  <2>4. \A n \in 1..N : n \in 0..N \ {0}
    BY <2>2
  <2> QED
    BY <2>1, <2>3, <2>4 DEF Solvable
<1>3. f = F(f)
  <2>1. ASSUME NEW n \in 0..Len(names) PROVE f[n] = F(f)[n]
    <3>1. CASE n = 0
      BY <1>2, <3>1
    <3>2. CASE n # 0
      <4>1. n \in 1..Len(names) /\ f[n - 1] \in Seq(A)
        BY <3>2
      <4> QED
        BY <1>2, <3>2, <4>1
    <3> QED
      BY <3>1, <3>2
  <2> QED
    BY <2>1
<1>4. ordered = F(ordered)
  BY <1>3
<1>5. Named(names, candidates) = ordered[Len(names)]
  BY DEF Named
<1> HIDE DEF ordered
<1>6. PICK k : k = ordered
  OBVIOUS
<1>7. k = F(k)
  BY <1>4, <1>6
<1>8. /\ k[0] = <<>>
      /\ \A n \in 1..Len(names) :
           k[n] = IF names[n] \in ToSet(candidates) \ ToSet(k[n - 1])
                  THEN Append(k[n - 1], names[n]) ELSE k[n - 1]
  <2>1. Len(names) \in Nat
    OBVIOUS
  <2>2. 0 \in 0..Len(names) /\ \A n \in 1..Len(names) : n \in 0..Len(names) /\ n # 0
    BY <2>1
  <2>3. k[0] = F(k)[0] /\ \A n \in 1..Len(names) : k[n] = F(k)[n]
    BY <1>7
  <2> QED
    BY <2>2, <2>3
<1>9. \A n \in 0..Len(names) : k[n] \in Seq(A)
  <2> DEFINE T == {n \in Nat : k[n] \in Seq(A)}
  <2>1. 0 \in T /\ Len(names) \in Nat
    <3>1. <<>> \in Seq(A) /\ Len(names) \in Nat
      OBVIOUS
    <3> QED
      BY <1>8, <3>1
  <2>2. ASSUME NEW n \in 0..(Len(names) - 1), n \in T PROVE n + 1 \in T
    <3>1. n \in Nat /\ n + 1 \in 1..Len(names) /\ k[n] \in Seq(A) /\ names[n + 1] \in A /\ n + 1 - 1 = n
      BY <2>1, <2>2
    <3>2. Append(k[n], names[n + 1]) \in Seq(A)
      BY <3>1
    <3>3. k[n + 1] = IF names[n + 1] \in ToSet(candidates) \ ToSet(k[n])
                     THEN Append(k[n], names[n + 1]) ELSE k[n]
      BY <1>8, <3>1
    <3>4. k[n + 1] \in Seq(A)
      BY <3>1, <3>2, <3>3
    <3> QED
      BY <3>1, <3>4
  <2> HIDE DEF T
  <2>3. \A n \in 0..Len(names) : n \in T
    BY <2>1, <2>2, NatSetUpTo
  <2> QED
    BY <2>3 DEF T
<1>10. k \in [0..Len(names) -> Seq(A)]
  BY <1>7, <1>9
<1> QED
  BY <1>5, <1>6, <1>8, <1>10 DEF Names

\* A list of names selects the candidates it names, each once.
LEMMA NamedSelects ==
  ASSUME NEW A, NEW names \in Seq(A), NEW candidates
  PROVE  /\ Named(names, candidates) \in Seq(A)
         /\ IsInjective(Named(names, candidates))
         /\ ToSet(Named(names, candidates)) = ToSet(names) \intersect ToSet(candidates)
<1>0. PICK S, ordered : /\ S = ToSet(candidates) /\ Names(A, names, S, ordered)
                        /\ Named(names, candidates) = ordered[Len(names)]
  BY NamedSteps
<1>1. /\ ordered \in [0..Len(names) -> Seq(A)]
      /\ ordered[0] = <<>>
      /\ \A n \in 1..Len(names) :
           ordered[n] = IF names[n] \in S \ ToSet(ordered[n - 1])
                        THEN Append(ordered[n - 1], names[n])
                        ELSE ordered[n - 1]
  BY <1>0 DEF Names
<1>2. Len(names) \in Nat /\ DOMAIN names = 1..Len(names) /\ \A n \in 1..Len(names) : names[n] \in A
  OBVIOUS
<1> DEFINE UpTo(n) == {names[i] : i \in 1..n}
           T == {n \in 0..Len(names) : /\ ToSet(ordered[n]) = UpTo(n) \intersect S
                                       /\ IsInjective(ordered[n])}
<1>3. 0 \in T
  <2>1. DOMAIN <<>> = {}
    OBVIOUS
  <2>2. ToSet(<<>>) = {} /\ IsInjective(<<>>) /\ UpTo(0) = {}
    BY <2>1 DEF ToSet, IsInjective
  <2> QED
    BY <1>1, <1>2, <2>2
<1>4. ASSUME NEW n \in 0..(Len(names) - 1), n \in T PROVE n + 1 \in T
  <2>1. n + 1 \in 1..Len(names) /\ n \in 0..Len(names) /\ n + 1 \in 0..Len(names) /\ n + 1 - 1 = n
    BY <1>2
  <2>2. PICK a, q : a = names[n + 1] /\ q = ordered[n]
    OBVIOUS
  <2>3. a \in A /\ q \in Seq(A) /\ ToSet(q) = UpTo(n) \intersect S /\ IsInjective(q)
    BY <1>1, <1>2, <1>4, <2>1, <2>2
  <2>4. ordered[n + 1] = IF a \in S \ ToSet(q) THEN Append(q, a) ELSE q
    BY <1>1, <2>1, <2>2
  <2>5. UpTo(n + 1) = UpTo(n) \union {a}
    <3>1. \A i \in 1..(n + 1) : i \in 1..n \/ i = n + 1
      BY <2>1
    <3>2. n + 1 \in 1..(n + 1) /\ \A i \in 1..n : i \in 1..(n + 1)
      BY <2>1
    <3> QED
      BY <2>2, <3>1, <3>2
  <2> HIDE DEF UpTo
  <2>6. CASE a \in S \ ToSet(q)
    <3>1. ordered[n + 1] = Append(q, a)
      BY <2>4, <2>6
    <3>2. ToSet(ordered[n + 1]) = UpTo(n + 1) \intersect S
      BY <2>3, <2>5, <2>6, <3>1, AppendFacts
    <3>3. IsInjective(ordered[n + 1])
      BY <2>3, <2>6, <3>1, AppendFacts
    <3> QED
      BY <2>1, <3>2, <3>3
  <2>7. CASE a \notin S \ ToSet(q)
    BY <2>1, <2>3, <2>4, <2>5, <2>7
  <2> QED
    BY <2>6, <2>7
<1>5. UpTo(Len(names)) = ToSet(names)
  BY <1>2 DEF ToSet
<1> HIDE DEF T
<1>6. \A n \in 0..Len(names) : n \in T
  BY <1>2, <1>3, <1>4, NatSetUpTo
<1>7. Len(names) \in T /\ ordered[Len(names)] \in Seq(A)
  BY <1>1, <1>2, <1>6
<1> QED
  BY <1>0, <1>5, <1>7 DEF T

\* A list of elements of A is one of B when its elements are in B.
LEMMA SeqOfElements ==
  ASSUME NEW A, NEW B, NEW s \in Seq(A), ToSet(s) \subseteq B
  PROVE  s \in Seq(B)
<1>1. Len(s) \in Nat /\ DOMAIN s = 1..Len(s) /\ s \in [1..Len(s) -> A]
  BY LenProperties
<1>2. \A i \in 1..Len(s) : s[i] \in B
  BY <1>1 DEF ToSet
<1>3. s \in [1..Len(s) -> B]
  BY <1>1, <1>2
<1> QED
  BY <1>1, <1>3, SeqDef

\* _order_by_aliases reorders the candidates, whoever it is told to name first.
LEMMA OrderPermutes ==
  ASSUME NEW A, NEW B, NEW s \in Seq(A), IsInjective(s), NEW aliases \in Seq(B)
  PROVE  Permutes(A, s, OrderByAliases(s, aliases))
<1>1. PICK C, names : C = A \union B /\ names = aliases \o s
  OBVIOUS
<1>2. aliases \in Seq(C) /\ s \in Seq(C)
  BY <1>1
<1>3. names \in Seq(C) /\ ToSet(names) = ToSet(aliases) \union ToSet(s)
  BY <1>1, <1>2, ConcatFacts
<1>4. PICK r : r = Named(names, s)
  OBVIOUS
<1>5. r \in Seq(C) /\ IsInjective(r) /\ ToSet(r) = ToSet(s)
  <2>1. Named(names, s) \in Seq(C) /\ IsInjective(Named(names, s))
        /\ ToSet(Named(names, s)) = ToSet(names) \intersect ToSet(s)
    BY <1>3, NamedSelects
  <2> QED
    BY <1>3, <1>4, <2>1
<1>6. ToSet(r) \subseteq A
  <2>1. \A i \in DOMAIN s : s[i] \in A
    OBVIOUS
  <2>2. ToSet(s) \subseteq A
    BY <2>1 DEF ToSet
  <2> QED
    BY <1>5, <2>2
<1>7. r \in Seq(A)
  BY <1>5, <1>6, SeqOfElements
<1>8. OrderByAliases(s, aliases) = r
  BY <1>1, <1>4 DEF OrderByAliases
<1> QED
  BY <1>5, <1>7, <1>8 DEF Permutes

\* Reordering twice is reordering.
LEMMA PermutesTwice ==
  ASSUME NEW A, NEW s, NEW t, NEW u, Permutes(A, s, t), Permutes(A, t, u)
  PROVE  Permutes(A, s, u)
BY DEF Permutes

\* _with_failover reorders the candidates: the failover chain, once decoded, is empty.
LEMMA FailoverPermutes ==
  ASSUME NEW A, NEW s \in Seq(A), IsInjective(s), NEW conf
  PROVE  Permutes(A, s, WithFailover(s, conf))
<1>1. PICK names : names = s \o (IF conf = None THEN <<>> ELSE DecodedList(conf.failover_chain))
  OBVIOUS
<1>2. names \in Seq(A)
  BY <1>1 DEF DecodedList
<1>3. WithFailover(s, conf) = OrderByAliases(s, names)
  BY <1>1 DEF WithFailover
<1> QED
  BY <1>2, <1>3, OrderPermutes

\* _weighted_order reorders the candidates.
LEMMA WeightedPermutes ==
  ASSUME NEW A, NEW s \in Seq(A), IsInjective(s), NEW weights, NEW token
  PROVE  Permutes(A, s, WeightedOrder(s, weights, token))
<1>1. \A alias : Permutes(A, s, PutFirst(s, alias))
  BY PutFirstPermutes
<1>2. Permutes(A, s, s)
  BY DEF Permutes
<1> QED
  BY <1>1, <1>2 DEF WeightedOrder

----------------------------------------------------------------------------
(***************************************************************************)
(* The candidates of a plan                                                *)
(***************************************************************************)

Answers == {"none", "unavailable", "health_blocked", "conditional", "priority", "weighted"}

\* The providers asked about are some of the connected ones, each once, and those that
\* were available some of the asked ones.
AskedInv ==
    /\ requested \in Alias \union {None}
    /\ available \in Seq(Alias) /\ IsInjective(available)
    /\ asked \in 0..Len(available)
    /\ filtered \in Seq(Alias) /\ IsInjective(filtered)
    /\ \A a \in ToSet(filtered) : \E i \in 1..asked : a = available[i]

\* The answer is one of a decision from the rules that were read, or of none.
PlanInv ==
    /\ plan.strategy \in Answers
    /\ plan.candidates \in Seq(Alias)
    /\ plan.matched_rule \in 0..Len(read.rules)
    /\ Decided => Permutes(Alias, filtered, plan.candidates)

RoutingInv == AskedInv /\ PlanInv

\* Before a decision there is no answer, and nothing was read.
LEMMA NoPlanFacts ==
  /\ NoPlan.strategy = "none" /\ NoPlan.candidates = <<>> /\ NoPlan.matched_rule = 0
  /\ NothingRead.rules = <<>>
BY DEF NoPlan, NothingRead

\* A request begins with some of the providers connected and none asked.
LEMMA RoutingInit == EngineInit => RoutingInv
<1> SUFFICES ASSUME EngineInit PROVE RoutingInv
  OBVIOUS
<1>1. PICK connected : available = Within(ByName, connected)
  BY DEF EngineInit
<1>2. available \in Seq(Alias) /\ IsInjective(available)
  BY <1>1, NamesAssumption, WithinKeeps
<1>3. filtered \in Seq(Alias) /\ IsInjective(filtered) /\ ToSet(filtered) = {}
  <2>1. filtered = <<>> /\ DOMAIN <<>> = {} /\ <<>> \in Seq(Alias)
    BY DEF EngineInit
  <2> QED
    BY <2>1 DEF IsInjective, ToSet
<1>4. AskedInv
  BY <1>2, <1>3 DEF EngineInit, AskedInv
<1>5. PlanInv
  <2>1. plan = NoPlan /\ read = NothingRead
    BY DEF EngineInit
  <2>2. <<>> \in Seq(Alias) /\ Len(<<>>) = 0
    OBVIOUS
  <2> QED
    BY <2>1, <2>2, NoPlanFacts DEF PlanInv, Answers, Decided
<1> QED
  BY <1>4, <1>5 DEF RoutingInv

\* A provider that answers as available was not among those asked before.
LEMMA AskKeeps ==
  ASSUME RoutingInv, Ask
  PROVE  RoutingInv'
<1>1. /\ requested' = requested /\ available' = available /\ asked' = asked + 1
      /\ plan' = plan /\ read' = read /\ plan = NoPlan /\ asked < Len(available)
      /\ filtered' \in {filtered, Append(filtered, available[asked + 1])}
  BY DEF Ask, Planning
<1>2. /\ available \in Seq(Alias) /\ IsInjective(available) /\ asked \in 0..Len(available)
      /\ filtered \in Seq(Alias) /\ IsInjective(filtered)
      /\ \A a \in ToSet(filtered) : \E i \in 1..asked : a = available[i]
  BY DEF RoutingInv, AskedInv
<1>3. PICK a, n : a = available[asked + 1] /\ n = Len(available)
  OBVIOUS
<1>4. n \in Nat /\ DOMAIN available = 1..n /\ asked \in 0..n /\ asked + 1 \in 0..n /\ asked + 1 \in 1..n /\ a \in Alias
  BY <1>1, <1>2, <1>3
<1>5. a \notin ToSet(filtered)
  <2>1. ASSUME NEW i \in 1..asked, a = available[i] PROVE FALSE
    <3>1. i \in DOMAIN available /\ asked + 1 \in DOMAIN available /\ i # asked + 1
      BY <1>4, <2>1
    <3> QED
      BY <1>2, <1>3, <2>1, <3>1 DEF IsInjective
  <2> QED
    BY <1>2, <2>1
<1>6. PICK q : q = Append(filtered, a)
  OBVIOUS
<1>7. q \in Seq(Alias) /\ ToSet(q) = ToSet(filtered) \union {a} /\ IsInjective(q)
  BY <1>2, <1>4, <1>5, <1>6, AppendFacts
<1>8. filtered' \in Seq(Alias) /\ IsInjective(filtered') /\ ToSet(filtered') \subseteq ToSet(filtered) \union {a}
  BY <1>1, <1>2, <1>3, <1>6, <1>7
<1>9. \A b \in ToSet(filtered') : \E i \in 1..(asked + 1) : b = available[i]
  <2>1. asked + 1 \in 1..(asked + 1) /\ \A i \in 1..asked : i \in 1..(asked + 1)
    BY <1>4
  <2> QED
    BY <1>2, <1>3, <1>8, <2>1
<1>10. AskedInv'
  BY <1>1, <1>2, <1>3, <1>4, <1>8, <1>9 DEF RoutingInv, AskedInv
<1>11. PlanInv'
  BY <1>1, NoPlanFacts DEF RoutingInv, PlanInv, Decided
<1> QED
  BY <1>10, <1>11 DEF RoutingInv

\* The configuration, whatever it holds, yields an order of the available candidates.
LEMMA ConfiguredPermutes ==
  ASSUME AskedInv, NEW conf \in Configuration \union {None}, NEW token
  PROVE  /\ Configured(conf, token).strategy \in {"priority", "weighted"}
         /\ Configured(conf, token).matched_rule = 0
         /\ Permutes(Alias, filtered, Configured(conf, token).candidates)
<1>1. filtered \in Seq(Alias) /\ IsInjective(filtered)
  BY DEF AskedInv
<1>2. CASE conf = None \/ ~conf.enabled
  <2>1. PICK aliases : aliases = IF requested # None THEN <<requested>> ELSE <<"stripe", "paypal">>
    OBVIOUS
  <2>2. \E B : aliases \in Seq(B)
    <3>1. <<requested>> \in Seq({requested}) /\ <<"stripe", "paypal">> \in Seq({"stripe", "paypal"})
      OBVIOUS
    <3> QED
      BY <2>1, <3>1
  <2>3. Permutes(Alias, filtered, OrderByAliases(filtered, aliases))
    BY <1>1, <2>2, OrderPermutes
  <2> QED
    BY <1>2, <2>1, <2>3 DEF Configured
<1>3. CASE ~(conf = None \/ ~conf.enabled)
  <2>1. conf.strategy \in {"priority", "weighted"}
    BY <1>3 DEF Configuration
  <2>2. PICK base : base =
          IF conf.strategy = "weighted"
          THEN PutFirst(WeightedOrder(filtered, DecodedWeights(conf.weighted_distribution), token),
                        requested)
          ELSE OrderByAliases(filtered, <<requested>> \o DecodedList(conf.priority_chain))
    OBVIOUS
  <2>3. Configured(conf, token) =
          [strategy |-> conf.strategy, matched_rule |-> 0, candidates |-> WithFailover(base, conf)]
    BY <1>3, <2>2 DEF Configured
  <2>4. Permutes(Alias, filtered, base)
    <3>1. CASE conf.strategy = "weighted"
      <4>1. PICK w : w = WeightedOrder(filtered, DecodedWeights(conf.weighted_distribution), token)
        OBVIOUS
      <4>2. Permutes(Alias, filtered, w)
        BY <1>1, <4>1, WeightedPermutes
      <4>3. Permutes(Alias, w, PutFirst(w, requested))
        BY <4>2, PutFirstPermutes DEF Permutes
      <4>4. base = PutFirst(w, requested)
        BY <2>2, <3>1, <4>1
      <4> QED
        BY <4>2, <4>3, <4>4, PermutesTwice
    <3>2. CASE conf.strategy # "weighted"
      <4>1. PICK aliases : aliases = <<requested>> \o DecodedList(conf.priority_chain)
        OBVIOUS
      <4>2. aliases \in Seq({requested})
        BY <4>1 DEF DecodedList
      <4>3. Permutes(Alias, filtered, OrderByAliases(filtered, aliases))
        BY <1>1, <4>2, OrderPermutes
      <4> QED
        BY <2>2, <3>2, <4>1, <4>3
    <3> QED
      BY <3>1, <3>2
  <2>5. Permutes(Alias, base, WithFailover(base, conf))
    BY <2>4, FailoverPermutes DEF Permutes
  <2>6. Permutes(Alias, filtered, WithFailover(base, conf))
    BY <2>4, <2>5, PermutesTwice
  <2> QED
    BY <2>1, <2>3, <2>6
<1> QED
  BY <1>2, <1>3

\* The rule that matches is one of the rules.
LEMMA FirstMatchIsRule ==
  ASSUME NEW A, NEW rules \in Seq(A)
  PROVE  FirstMatch(rules) \in 0..Len(rules)
<1>1. PICK m, T : T = {k \in DOMAIN rules : Matches(DecodedConditions(rules[k].conditions))} /\ m = FirstMatch(rules)
  OBVIOUS
<1>2. m = IF T = {} THEN 0 ELSE CHOOSE k \in T : \A j \in T : k <= j
  BY <1>1 DEF FirstMatch
<1>3. Len(rules) \in Nat /\ DOMAIN rules = 1..Len(rules) /\ T \subseteq 1..Len(rules)
  BY <1>1
<1>4. T \in SUBSET Nat /\ 0 \in 0..Len(rules) /\ T \subseteq 0..Len(rules)
  BY <1>3
<1>5. CASE T = {}
  BY <1>1, <1>2, <1>4, <1>5
<1>6. CASE T # {}
  <2>1. \E k \in T : \A j \in T : k <= j
    BY <1>4, <1>6, LeastNumber
  <2>2. m \in T
    BY <1>2, <1>6, <2>1
  <2> QED
    BY <1>1, <1>4, <2>2
<1> QED
  BY <1>5, <1>6

\* Whatever rules and configuration the decision reads, it orders the candidates.
LEMMA DecideKeeps ==
  ASSUME RoutingInv, Decide
  PROVE  RoutingInv'
<1>1. AskedInv /\ UNCHANGED <<requested, available, asked, filtered>>
  BY DEF RoutingInv, Decide
<1>2. AskedInv'
  BY <1>1 DEF AskedInv
<1>3. filtered \in Seq(Alias) /\ IsInjective(filtered)
  BY <1>1 DEF AskedInv
<1>4. PICK rules \in RuleList, conf \in Configuration \union {None}, token \in Token :
        /\ read' = [rules |-> rules, config |-> conf, token |-> token]
        /\ plan' = IF FirstMatch(rules) = 0 THEN Configured(conf, token)
                   ELSE [strategy |-> "conditional", matched_rule |-> FirstMatch(rules),
                         candidates |-> WithFailover(
                           PutFirst(filtered, IF requested # None THEN requested
                                              ELSE rules[FirstMatch(rules)].alias),
                           conf)]
  BY DEF Decide
<1>5. read'.rules = rules /\ FirstMatch(rules) \in 0..Len(rules)
  BY <1>4, RulesAssumption, FirstMatchIsRule
<1>6. /\ plan'.strategy \in Answers
      /\ plan'.matched_rule \in 0..Len(rules)
      /\ Permutes(Alias, filtered, plan'.candidates)
  <2>1. CASE FirstMatch(rules) = 0
    <3>1. plan' = Configured(conf, token)
      BY <1>4, <2>1
    <3>2. plan'.matched_rule = FirstMatch(rules)
      BY <1>1, <2>1, <3>1, ConfiguredPermutes
    <3> QED
      BY <1>1, <1>5, <3>1, <3>2, ConfiguredPermutes DEF Answers
  <2>2. CASE FirstMatch(rules) # 0
    <3>1. PICK alias : alias = IF requested # None THEN requested ELSE rules[FirstMatch(rules)].alias
      OBVIOUS
    <3>2. PICK base : base = PutFirst(filtered, alias)
      OBVIOUS
    <3>3. plan' = [strategy |-> "conditional", matched_rule |-> FirstMatch(rules),
                   candidates |-> WithFailover(base, conf)]
      BY <1>4, <2>2, <3>1, <3>2
    <3>4. Permutes(Alias, filtered, base)
      BY <1>3, <3>2, PutFirstPermutes
    <3>5. Permutes(Alias, base, WithFailover(base, conf))
      BY <3>4, FailoverPermutes DEF Permutes
    <3>6. Permutes(Alias, filtered, WithFailover(base, conf))
      BY <3>4, <3>5, PermutesTwice
    <3> QED
      BY <1>5, <3>3, <3>6 DEF Answers
  <2> QED
    BY <2>1, <2>2
<1>7. filtered' = filtered /\ plan'.candidates \in Seq(Alias)
  BY <1>1, <1>6 DEF Permutes
<1>8. PlanInv'
  BY <1>5, <1>6, <1>7 DEF PlanInv
<1> QED
  BY <1>2, <1>8 DEF RoutingInv

\* Every step keeps the invariant.
LEMMA RoutingStep == RoutingInv /\ [EngineNext]_engineVars => RoutingInv'
<1> SUFFICES ASSUME RoutingInv, [EngineNext]_engineVars PROVE RoutingInv'
  OBVIOUS
<1>1. ASSUME UNCHANGED <<requested, available, asked, filtered, read>>,
             plan' = plan \/ plan' = [NoPlan EXCEPT !.strategy = "unavailable"]
                          \/ plan' = [NoPlan EXCEPT !.strategy = "health_blocked"]
      PROVE  RoutingInv'
  <2>1. AskedInv'
    BY <1>1 DEF RoutingInv, AskedInv
  <2>2. CASE plan' = plan
    <3>1. PlanInv'
      BY <1>1, <2>2 DEF RoutingInv, PlanInv, Decided
    <3> QED
      BY <2>1, <3>1 DEF RoutingInv
  <2>3. CASE plan' # plan
    <3>1. /\ plan'.strategy \in {"unavailable", "health_blocked"}
          /\ plan'.candidates = <<>> /\ plan'.matched_rule = 0
      BY <1>1, <2>3 DEF NoPlan
    <3>2. <<>> \in Seq(Alias) /\ 0 \in 0..Len(read.rules)
      BY DEF RoutingInv, PlanInv
    <3>3. PlanInv'
      BY <1>1, <3>1, <3>2 DEF PlanInv, Answers, Decided
    <3> QED
      BY <2>1, <3>3 DEF RoutingInv
  <2> QED
    BY <2>2, <2>3
<1>2. CASE Unavailable
  BY <1>1, <1>2 DEF Unavailable
<1>3. CASE Ask
  BY <1>3, AskKeeps
<1>4. CASE Blocked
  BY <1>1, <1>4 DEF Blocked
<1>5. CASE Decide
  BY <1>5, DecideKeeps
<1>6. CASE UNCHANGED engineVars
  BY <1>1, <1>6 DEF engineVars
<1> QED
  BY <1>2, <1>3, <1>4, <1>5, <1>6 DEF EngineNext

----------------------------------------------------------------------------
\* A behaviour of the routing side is one of this part.
LEMMA EnginePart == Spec => EngineSpec
<1>1. Init => EngineInit
  BY DEF Init
<1>2. [Next]_vars => [EngineNext]_engineVars
  BY DEF Next, vars
<1> QED
  BY <1>1, <1>2, PTL DEF Spec, EngineSpec

\* The type invariant of the routing engine.
THEOREM RoutingTypes == Spec => []EngineTypeOK
<1>1. RoutingInv => EngineTypeOK
  BY DEF RoutingInv, AskedInv, PlanInv, Answers, EngineTypeOK
<1> QED
  BY <1>1, RoutingInit, RoutingStep, EnginePart, PTL DEF EngineSpec

\* Whichever strategy decides, with whatever rules, chains and weights, the failover loop
\* tries every provider that answered as healthy, each once, and no other.
THEOREM FilteredAreTried == Spec => []CandidatesAreFiltered
<1>1. RoutingInv => CandidatesAreFiltered
  <2> SUFFICES ASSUME RoutingInv, Decided PROVE ToSet(plan.candidates) = ToSet(filtered)
                                               /\ Len(plan.candidates) = Len(filtered)
    BY DEF CandidatesAreFiltered
  <2>1. Permutes(Alias, filtered, plan.candidates)
    BY DEF RoutingInv, PlanInv
  <2>2. PICK s, t : s = filtered /\ t = plan.candidates
    OBVIOUS
  <2>3. Permutes(Alias, s, t)
    BY <2>1, <2>2
  <2>4. Len(s) = Len(t) /\ ToSet(s) = ToSet(t)
    BY <2>3, PermutesLen DEF Permutes
  <2> QED
    BY <2>2, <2>4
<1> QED
  BY <1>1, RoutingInit, RoutingStep, EnginePart, PTL DEF EngineSpec
=============================================================================
