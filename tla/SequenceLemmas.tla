---------------------------- MODULE SequenceLemmas ----------------------------
(***************************************************************************)
(* Facts that several proofs rest on: induction over the natural numbers,  *)
(* in first-order form, and with it that recursive definitions define      *)
(* something; taking the last element off a sequence, moving an element    *)
(* across the border between two concatenated sequences, and selecting     *)
(* elements.                                                               *)
(***************************************************************************)
EXTENDS Containers, SequenceTheorems, FunctionTheorems, FiniteSetTheorems, TLAPS

\* The least of some natural numbers is one of them, and no other is less.
LEMMA MinIsLeast ==
  ASSUME NEW S, S \subseteq Nat, S # {}
  PROVE  Min(S) \in S /\ \A y \in S : Min(S) <= y
<1> DEFINE Below == {1..x : x \in S}
           R == StrictSubsetOrdering(Nat)
<1>1. Below \subseteq FiniteSubsetsOf(Nat)
  <2>1. \A x \in S : IsFiniteSet(1..x) /\ 1..x \subseteq Nat
    BY FS_Interval
  <2> QED
    BY <2>1 DEF FiniteSubsetsOf
<1>2. PICK t \in Below : \A u \in Below : <<u, t>> \notin R
  <2>1. Below # {}
    OBVIOUS
  <2>2. IsWellFoundedOn(R, FiniteSubsetsOf(Nat))
    BY FS_StrictSubsetOrderingWellFounded
  <2> HIDE DEF Below, R
  <2> QED
    BY <1>1, <2>1, <2>2, WFMin, Zenon
<1>3. PICK x \in S : t = 1..x
  OBVIOUS
<1>4. \A y \in S : x <= y
  <2> SUFFICES ASSUME NEW y \in S, y < x PROVE FALSE
    OBVIOUS
  <2>1. 1..y \subseteq 1..x /\ 1..y # 1..x
    <3>1. x \in 1..x /\ x \notin 1..y
      OBVIOUS
    <3> QED
      BY <3>1
  <2>2. <<1..y, t>> \in R
    BY <1>3, <2>1 DEF StrictSubsetOrdering
  <2> QED
    BY <1>2, <2>2
<1> QED
  BY <1>4 DEF Min

LEMMA MinIsMember ==
  ASSUME NEW S, S \subseteq Nat, S # {}
  PROVE  Min(S) \in S
BY MinIsLeast

\* Induction over the natural numbers: what holds of 0, and of n + 1 if of n,
\* holds of all, where I is the set of those of which it holds.
LEMMA SetInduction ==
  ASSUME NEW I, 0 \in I, \A n \in Nat : n \in I => n + 1 \in I
  PROVE  \A n \in Nat : n \in I
<1> DEFINE J == {n \in Nat : n \notin I}
<1> SUFFICES ASSUME J # {} PROVE FALSE
  OBVIOUS
<1>1. PICK m \in J : \A n \in J : m <= n
  <2>1. Min(J) \in J /\ \A y \in J : Min(J) <= y
    BY MinIsLeast
  <2> QED
    BY <2>1, Zenon
<1>2. m # 0 /\ m - 1 \in Nat
  OBVIOUS
<1>3. m - 1 \in I
  BY <1>1, <1>2
<1> QED
  BY <1>2, <1>3

\* f starts with a, and G makes each of the next n values of the one before it.
Iterates(f, a, n, G) == f[0] = a /\ \A i \in 1..n : f[i] = G[<<f[i - 1], i>>]

\* There is such a function: what a recursive definition over 0..n needs.
LEMMA RecursiveFunction ==
  ASSUME NEW V, NEW a \in V, NEW n \in Nat, NEW G \in [V \X (1..n) -> V]
  PROVE  \E f \in [0..n -> V] : Iterates(f, a, n, G)
<1> DEFINE Steps(f, m) == f[0] = a /\ \A i \in 1..m : f[i] = G[<<f[i - 1], i>>]
           I == {m \in Nat : m <= n => \E f \in [0..m -> V] : Steps(f, m)}
<1>1. 0 \in I
  <2> DEFINE f == [i \in 0..0 |-> a]
  <2>1. f \in [0..0 -> V] /\ f[0] = a
    OBVIOUS
  <2> HIDE DEF f
  <2>2. Steps(f, 0)
    BY <2>1
  <2> QED
    BY <2>1, <2>2
<1>2. \A m \in Nat : m \in I => m + 1 \in I
  <2> SUFFICES ASSUME NEW m \in Nat, m \in I, m + 1 <= n
               PROVE  \E f \in [0..m + 1 -> V] : Steps(f, m + 1)
    OBVIOUS
  <2>1. PICK f \in [0..m -> V] : Steps(f, m)
    OBVIOUS
  <2> DEFINE x == G[<<f[m], m + 1>>]
             g == [i \in 0..m + 1 |-> IF i = m + 1 THEN x ELSE f[i]]
  <2>2. x \in V
    <3>1. f[m] \in V /\ m + 1 \in 1..n
      OBVIOUS
    <3> QED
      BY <3>1
  <2>3. \A i \in 0..m : f[i] \in V
    OBVIOUS
  <2> HIDE DEF x
  <2>4. /\ g \in [0..m + 1 -> V]
        /\ g[m + 1] = x
        /\ \A i \in 0..m : g[i] = f[i]
    BY <2>2, <2>3
  <2> HIDE DEF g
  <2>5. Steps(g, m + 1)
    <3>1. g[0] = a
      BY <2>1, <2>4
    <3>2. \A i \in 1..m : g[i] = G[<<g[i - 1], i>>]
      <4> TAKE i \in 1..m
      <4>1. i \in 0..m /\ i - 1 \in 0..m
        OBVIOUS
      <4>2. f[i] = G[<<f[i - 1], i>>]
        BY <2>1
      <4> QED
        BY <2>4, <4>1, <4>2
    <3>3. g[m + 1] = G[<<g[(m + 1) - 1], m + 1>>]
      <4>1. (m + 1) - 1 = m /\ m \in 0..m
        OBVIOUS
      <4> QED
        BY <2>4, <4>1 DEF x
    <3>4. \A i \in 1..m + 1 : i \in 1..m \/ i = m + 1
      OBVIOUS
    <3> QED
      BY <3>1, <3>2, <3>3, <3>4
  <2> QED
    BY <2>4, <2>5
<1>3. n \in I
  <2> HIDE DEF I
  <2> QED
    BY <1>1, <1>2, SetInduction
<1> QED
  BY <1>3 DEF Iterates

\* The same from n down to 1.
LEMMA DescendingInduction ==
  ASSUME NEW n \in Nat, NEW I, \A i \in 1..n : (\A j \in i+1..n : j \in I) => i \in I
  PROVE  \A i \in 1..n : i \in I
<1> DEFINE J == {m \in Nat : \A i \in 1..n : i > n - m => i \in I}
<1>1. 0 \in J
  OBVIOUS
<1>2. \A m \in Nat : m \in J => m + 1 \in J
  <2> SUFFICES ASSUME NEW m \in Nat, \A i \in 1..n : i > n - m => i \in I,
                      NEW i \in 1..n, i > n - (m + 1)
               PROVE  i \in I
    OBVIOUS
  <2>1. \A j \in i+1..n : j \in 1..n /\ j > n - m
    OBVIOUS
  <2> QED
    BY <2>1
<1> HIDE DEF J
<1>3. n \in J
  BY <1>1, <1>2, SetInduction
<1> QED
  BY <1>3 DEF J

\* G makes the value of f at i of those behind i.
Descends(f, n, G) == \A i \in 1..n : f[i] = G[<<f, i>>]

LooksBehind(G, n, V) ==
  \A f, g \in [1..n -> V], i \in 1..n :
    (\A j \in i+1..n : f[j] = g[j]) => G[<<f, i>>] = G[<<g, i>>]

\* There is such a function: what a recursive definition needs that goes from the
\* end of a sequence to its start.
LEMMA DescendingFunction ==
  ASSUME NEW V, V # {}, NEW n \in Nat, NEW G \in [[1..n -> V] \X (1..n) -> V],
         LooksBehind(G, n, V)
  PROVE  \E f \in [1..n -> V] : Descends(f, n, G)
<1> DEFINE W == [1..n -> V]
           at(k) == (n + 1) - k
           H == [p \in W \X (1..n) |-> [p[1] EXCEPT ![at(p[2])] = G[<<p[1], at(p[2])>>]]]
<1>1. PICK a \in W : TRUE
  <2>1. PICK v \in V : TRUE
    OBVIOUS
  <2>2. [i \in 1..n |-> v] \in W
    OBVIOUS
  <2> QED
    BY <2>2
<1>2. \A f \in W, i \in 1..n : G[<<f, i>>] \in V
  OBVIOUS
<1>3. \A k \in 1..n : at(k) \in 1..n
  OBVIOUS
<1>4. \A f \in W, k \in 1..n : [f EXCEPT ![at(k)] = G[<<f, at(k)>>]] \in W
  BY <1>2, <1>3
<1>5. \A f \in W, k \in 1..n : H[<<f, k>>] = [f EXCEPT ![at(k)] = G[<<f, at(k)>>]]
  <2> HIDE DEF W, at
  <2> QED
    OBVIOUS
<1>6. H \in [W \X (1..n) -> W]
  <2> HIDE DEF W, at
  <2> QED
    BY <1>4
<1>7. PICK t \in [0..n -> W] : Iterates(t, a, n, H)
  <2> HIDE DEF W, H
  <2> QED
    BY <1>1, <1>6, RecursiveFunction, Zenon
<1>8. ASSUME NEW k \in 1..n
      PROVE  /\ t[k - 1] \in W /\ t[k] \in W
             /\ t[k][at(k)] = G[<<t[k - 1], at(k)>>]
             /\ \A i \in 1..n : i # at(k) => t[k][i] = t[k - 1][i]
  <2>1. k - 1 \in 0..n /\ k \in 0..n
    OBVIOUS
  <2>2. t[k - 1] \in W /\ t[k] \in W
    BY <2>1
  <2>3. t[k] = [t[k - 1] EXCEPT ![at(k)] = G[<<t[k - 1], at(k)>>]]
    <3>1. t[k] = H[<<t[k - 1], k>>]
      BY <1>7 DEF Iterates
    <3> HIDE DEF H, W, at
    <3> QED
      BY <1>5, <2>2, <3>1
  <2>4. at(k) \in 1..n
    BY <1>3
  <2>5. DOMAIN t[k - 1] = 1..n
    BY <2>2
  <2> HIDE DEF W, at
  <2> QED
    BY <2>2, <2>3, <2>4, <2>5
<1> DEFINE Right(m) == \A i \in 1..n : i > n - m => t[m][i] = G[<<t[m], i>>]
           I == {m \in Nat : m <= n => Right(m)}
<1>9. 0 \in I
  OBVIOUS
<1>10. ASSUME NEW m \in Nat, m + 1 <= n, Right(m) PROVE Right(m + 1)
  <2> SUFFICES ASSUME NEW i \in 1..n, i > n - (m + 1)
               PROVE  t[m + 1][i] = G[<<t[m + 1], i>>]
    OBVIOUS
  <2>1. m + 1 \in 1..n /\ (m + 1) - 1 = m /\ at(m + 1) = n - m
    BY <1>10
  <2>2. /\ t[m] \in W /\ t[m + 1] \in W
        /\ t[m + 1][n - m] = G[<<t[m], n - m>>]
        /\ \A j \in 1..n : j # n - m => t[m + 1][j] = t[m][j]
    BY <1>8, <2>1
  <2>3. t[m + 1][i] = G[<<t[m], i>>]
    <3>1. CASE i = n - m
      BY <2>2, <3>1
    <3>2. CASE i > n - m
      BY <1>10, <2>2, <3>2
    <3> QED
      BY <3>1, <3>2
  <2>4. \A j \in i+1..n : t[m][j] = t[m + 1][j]
    BY <2>2
  <2>5. G[<<t[m], i>>] = G[<<t[m + 1], i>>]
    BY <2>2, <2>4 DEF LooksBehind
  <2> QED
    BY <2>3, <2>5
<1>11. \A m \in Nat : m \in I => m + 1 \in I
  <2> HIDE DEF Right
  <2> SUFFICES ASSUME NEW m \in Nat, m \in I, m + 1 <= n PROVE Right(m + 1)
    OBVIOUS
  <2>1. m <= n
    OBVIOUS
  <2>2. Right(m)
    BY <2>1
  <2> QED
    BY <1>10, <2>2
<1>12. n \in I
  <2> HIDE DEF I
  <2> QED
    BY <1>9, <1>11, SetInduction
<1>13. t[n] \in W /\ \A i \in 1..n : i > n - n
  OBVIOUS
<1>14. Right(n)
  <2> HIDE DEF Right
  <2> QED
    BY <1>12
<1>15. \A i \in 1..n : t[n][i] = G[<<t[n], i>>]
  BY <1>13, <1>14
<1> QED
  BY <1>13, <1>15 DEF Descends

\* The values behind i are in what T has for them.
Typed(f, n, T, i) == \A j \in i+1..n : f[j] \in T[j]

\* What G makes of such values is in what T has for i, and depends on no others.
MakesTyped(G, n, V, T) ==
  \A f \in [1..n -> V], i \in 1..n :
    Typed(f, n, T, i) =>
      /\ G[<<f, i>>] \in T[i]
      /\ \A g \in [1..n -> V] : (\A j \in i+1..n : f[j] = g[j]) => G[<<f, i>>] = G[<<g, i>>]

LEMMA TypedDescent ==
  ASSUME NEW V, NEW n \in Nat, n > 0, NEW T \in [1..n -> SUBSET V], T[n] # {}, NEW G,
         MakesTyped(G, n, V, T)
  PROVE  \E f \in [1..n -> V] : Descends(f, n, G) /\ \A i \in 1..n : f[i] \in T[i]
<1> DEFINE W == [1..n -> V]
<1>1. PICK v \in V : TRUE
  <2>1. n \in 1..n
    OBVIOUS
  <2> QED
    BY <2>1
<1> DEFINE H == [p \in W \X (1..n) |-> IF Typed(p[1], n, T, p[2]) THEN G[p] ELSE v]
<1>2. \A f \in W, i \in 1..n :
        H[<<f, i>>] = IF Typed(f, n, T, i) THEN G[<<f, i>>] ELSE v
  <2> HIDE DEF W
  <2> QED
    OBVIOUS
<1>3. \A f \in W, i \in 1..n : Typed(f, n, T, i) => G[<<f, i>>] \in V /\ G[<<f, i>>] \in T[i]
  BY DEF MakesTyped
<1>4. H \in [W \X (1..n) -> V]
  <2> HIDE DEF W
  <2>1. \A p \in W \X (1..n) : p = <<p[1], p[2]>> /\ p[1] \in W /\ p[2] \in 1..n
    OBVIOUS
  <2>2. \A p \in W \X (1..n) : (IF Typed(p[1], n, T, p[2]) THEN G[p] ELSE v) \in V
    BY <1>1, <1>3, <2>1
  <2> QED
    BY <2>2
<1>5. LooksBehind(H, n, V)
  <2> SUFFICES ASSUME NEW f \in W, NEW g \in W, NEW i \in 1..n, \A j \in i+1..n : f[j] = g[j]
               PROVE  H[<<f, i>>] = H[<<g, i>>]
    BY DEF LooksBehind
  <2>1. Typed(f, n, T, i) <=> Typed(g, n, T, i)
    BY DEF Typed
  <2>2. Typed(f, n, T, i) => G[<<f, i>>] = G[<<g, i>>]
    BY DEF MakesTyped
  <2> HIDE DEF H, W
  <2> QED
    BY <1>2, <2>1, <2>2
<1>6. PICK f \in W : Descends(f, n, H)
  <2> HIDE DEF H
  <2> QED
    BY <1>1, <1>4, <1>5, DescendingFunction
<1> HIDE DEF H
<1> DEFINE I == {i \in 1..n : f[i] \in T[i]}
<1>7. \A i \in 1..n : (\A j \in i+1..n : j \in I) => i \in I
  <2> SUFFICES ASSUME NEW i \in 1..n, \A j \in i+1..n : j \in I PROVE f[i] \in T[i]
    OBVIOUS
  <2>1. Typed(f, n, T, i)
    BY DEF Typed
  <2>2. f[i] = H[<<f, i>>]
    BY <1>6 DEF Descends
  <2> QED
    BY <1>2, <1>3, <2>1, <2>2
<1>8. \A i \in 1..n : i \in I
  <2> HIDE DEF I
  <2> QED
    BY <1>7, DescendingInduction
<1>9. \A i \in 1..n : f[i] = G[<<f, i>>]
  <2> TAKE i \in 1..n
  <2>1. Typed(f, n, T, i)
    BY <1>8 DEF Typed
  <2> QED
    BY <1>2, <1>6, <2>1 DEF Descends
<1> QED
  BY <1>8, <1>9 DEF Descends

-----------------------------------------------------------------------------
\* What std::vector's and std::string's pop_back leave and what back returns.
LEMMA FrontLast ==
  ASSUME NEW S, NEW l \in Seq(S), l # <<>>
  PROVE  /\ Front(l) \in Seq(S)
         /\ Len(Front(l)) = Len(l) - 1
         /\ Last(l) \in S
         /\ \A i \in 1..(Len(l) - 1) : Front(l)[i] = l[i]
<1>1. Len(l) \in Nat /\ Len(l) > 0
  BY EmptySeq
<1>2. CASE Len(l) = 1
  BY <1>2 DEF Front, Last
<1>3. CASE Len(l) > 1
  BY <1>3 DEF Front, Last
<1>4. Len(l) = 1 \/ Len(l) > 1
  BY <1>1
<1> QED
  BY <1>2, <1>3, <1>4, Zenon

\* A non-empty sequence is its front with its last element appended.
LEMMA FrontAppend ==
  ASSUME NEW S, NEW l \in Seq(S), l # <<>>
  PROVE  l = Append(Front(l), Last(l))
<1> DEFINE m == Append(Front(l), Last(l))
<1>1. Len(l) \in Nat /\ Len(l) > 0
  BY EmptySeq
<1>2. m \in Seq(S) /\ Len(m) = Len(l)
  BY <1>1, FrontLast
<1>3. \A i \in 1..Len(l) : l[i] = m[i]
  BY <1>1, FrontLast DEF Last
<1> QED
  BY <1>2, <1>3, SeqEqual

LEMMA AppendFrontLast ==
  ASSUME NEW S, NEW f \in Seq(S), NEW x \in S
  PROVE  /\ Append(f, x) \in Seq(S) /\ Append(f, x) # <<>>
         /\ Last(Append(f, x)) = x /\ Front(Append(f, x)) = f
<1> DEFINE l == Append(f, x)
<1>1. /\ l \in Seq(S) /\ Len(l) = Len(f) + 1 /\ Len(f) \in Nat /\ l[Len(f) + 1] = x
      /\ \A i \in 1..Len(f) : l[i] = f[i]
  OBVIOUS
<1> HIDE DEF l
<1>2. l # <<>> /\ Last(l) = x
  BY <1>1, EmptySeq DEF Last
<1>3. /\ Front(l) \in Seq(S) /\ Len(Front(l)) = Len(l) - 1
      /\ \A i \in 1..(Len(l) - 1) : Front(l)[i] = l[i]
  BY <1>1, <1>2, FrontLast
<1>4. \A i \in 1..Len(f) : Front(l)[i] = f[i]
  BY <1>1, <1>3
<1>5. Front(l) = f
  BY <1>1, <1>3, <1>4, SeqEqual
<1> QED
  BY <1>1, <1>2, <1>5 DEF l

\* What s is made of, element by element.
IsJoined(s, l, r) ==
  /\ Len(s) = Len(l) + Len(r)
  /\ \A i \in 1..Len(l) : s[i] = l[i]
  /\ \A i \in 1..Len(r) : s[Len(l) + i] = r[i]

LEMMA ConcatAt ==
  ASSUME NEW S, NEW l \in Seq(S), NEW r \in Seq(S)
  PROVE  l \o r \in Seq(S) /\ IsJoined(l \o r, l, r)
<1>1. /\ l \o r \in Seq(S) /\ Len(l \o r) = Len(l) + Len(r)
      /\ Len(l) \in Nat /\ Len(r) \in Nat
      /\ \A i \in 1..Len(l) + Len(r) : (l \o r)[i] = IF i <= Len(l) THEN l[i] ELSE r[i - Len(l)]
  BY ConcatProperties
<1>2. \A i \in 1..Len(l) : (l \o r)[i] = l[i]
  BY <1>1
<1>3. \A i \in 1..Len(r) : (l \o r)[Len(l) + i] = r[i]
  <2> TAKE i \in 1..Len(r)
  <2>1. /\ Len(l) + i \in 1..Len(l) + Len(r) /\ ~(Len(l) + i <= Len(l))
        /\ (Len(l) + i) - Len(l) = i
    BY <1>1
  <2> QED
    BY <1>1, <2>1
<1> QED
  BY <1>1, <1>2, <1>3 DEF IsJoined

\* A non-empty sequence is its head followed by its tail.
LEMMA HeadConcat ==
  ASSUME NEW S, NEW b \in Seq(S), b # <<>>
  PROVE  b = <<Head(b)>> \o Tail(b)
<1>1. Len(b) \in Nat /\ Len(b) > 0
  BY EmptySeq
<1>2. <<Head(b)>> \in Seq(S) /\ Tail(b) \in Seq(S)
  BY HeadTailProperties
<1>3. /\ <<Head(b)>> \o Tail(b) \in Seq(S)
      /\ Len(<<Head(b)>> \o Tail(b)) = Len(b)
      /\ \A i \in 1..Len(b) : (<<Head(b)>> \o Tail(b))[i] = b[i]
  BY <1>1, <1>2, HeadTailProperties, ConcatProperties
<1> QED
  BY <1>3, SeqEqual

\* An element may be appended to what comes before or put before what comes
\* after.
LEMMA AppendConcat ==
  ASSUME NEW S, NEW l \in Seq(S), NEW x \in S, NEW t \in Seq(S)
  PROVE  Append(l, x) \o t = l \o (<<x>> \o t)
<1> DEFINE y == <<x>>
<1>1. Append(l, x) = l \o y /\ y \in Seq(S)
  OBVIOUS
<1> HIDE DEF y
<1>2. (l \o y) \o t = l \o (y \o t)
  BY <1>1, ConcatAssociative
<1>3. Append(l, x) \o t = l \o (y \o t)
  BY <1>1, <1>2
<1> QED
  BY <1>3 DEF y

\* Reading the head of b onto the end of l leaves the concatenation as it was.
LEMMA MoveRight ==
  \A c, l, b \in Seq(Int) :
    b # <<>> => (c \o Append(l, Head(b))) \o Tail(b) = (c \o l) \o b
<1> DEFINE S == Int
<1> SUFFICES ASSUME NEW c \in Seq(S), NEW l \in Seq(S), NEW b \in Seq(S),
                    b # <<>>
             PROVE  (c \o Append(l, Head(b))) \o Tail(b) = (c \o l) \o b
  BY DEF S
<1> HIDE DEF S
<1> DEFINE x == Append(l, Head(b))
           t == Tail(b)
<1>1. x \in Seq(S) /\ t \in Seq(S)
  BY HeadTailProperties
<1>2. x \o t = l \o b
  BY HeadTailProperties, AppendConcat, HeadConcat
<1> HIDE DEF x, t
<1>3. (c \o x) \o t = c \o (x \o t)
  BY <1>1, ConcatAssociative, SMTT(30)
<1>4. (c \o l) \o b = c \o (l \o b)
  BY ConcatAssociative
<1>5. (c \o x) \o t = (c \o l) \o b
  BY <1>2, <1>3, <1>4
<1> QED
  BY <1>5 DEF x, t

\* So does putting the last element of l back in front of b.
LEMMA MoveLeft ==
  \A c, l, b \in Seq(Int) :
    l # <<>> => (c \o Front(l)) \o (<<Last(l)>> \o b) = (c \o l) \o b
<1> DEFINE S == Int
<1> SUFFICES ASSUME NEW c \in Seq(S), NEW l \in Seq(S), NEW b \in Seq(S),
                    l # <<>>
             PROVE  (c \o Front(l)) \o (<<Last(l)>> \o b) = (c \o l) \o b
  BY DEF S
<1> HIDE DEF S
<1> DEFINE f == Front(l)
           x == Last(l)
           t == <<x>> \o b
<1>1. f \in Seq(S) /\ x \in S /\ l = Append(f, x)
  BY FrontLast, FrontAppend
<1> HIDE DEF f, x
<1>2. t \in Seq(S) /\ l \o b = f \o t
  BY <1>1, AppendConcat
<1> HIDE DEF t
<1>3. (c \o f) \o t = c \o (f \o t)
  <2>1. f \in Seq(S) /\ t \in Seq(S)
    BY <1>1, <1>2
  <2> QED
    BY ONLY <2>1, ConcatAssociative, SMTT(30)
<1>4. (c \o l) \o b = c \o (l \o b)
  BY ConcatAssociative
<1>5. (c \o f) \o t = (c \o l) \o b
  BY <1>2, <1>3, <1>4
<1> QED
  BY <1>5 DEF f, x, t

\* Reading a new character extends what was read by that character.
LEMMA Extend ==
  \A S : \A c, l \in Seq(S), x \in S :
    (c \o Append(l, x)) \o <<>> = Append((c \o l) \o <<>>, x)
  OBVIOUS

\* A finished word joins what came before it.
LEMMA Absorb ==
  \A S : \A c, l, b \in Seq(S) : ((c \o l) \o <<>>) \o b = (c \o l) \o b
  OBVIOUS

\* Where the head of b and the last of l are in the concatenation.
LEMMA BorderElements ==
  \A c, l, b \in Seq(Int) :
    /\ b # <<>> => \E i \in 1..Len((c \o l) \o b) :
                      ((c \o l) \o b)[i] = Head(b)
    /\ l # <<>> => \E i \in 1..Len((c \o l) \o b) :
                      ((c \o l) \o b)[i] = Last(l)
<1> DEFINE S == Int
<1> SUFFICES ASSUME NEW c \in Seq(S), NEW l \in Seq(S), NEW b \in Seq(S)
             PROVE  /\ b # <<>> => \E i \in 1..Len((c \o l) \o b) :
                                      ((c \o l) \o b)[i] = Head(b)
                    /\ l # <<>> => \E i \in 1..Len((c \o l) \o b) :
                                      ((c \o l) \o b)[i] = Last(l)
  BY DEF S
<1> HIDE DEF S
<1>1. /\ Len((c \o l) \o b) = Len(c) + Len(l) + Len(b)
      /\ Len(c) \in Nat /\ Len(l) \in Nat /\ Len(b) \in Nat
  OBVIOUS
<1>2. ASSUME b # <<>>
      PROVE  \E i \in 1..Len((c \o l) \o b) : ((c \o l) \o b)[i] = Head(b)
  <2>1. Len(b) > 0
    BY <1>2, EmptySeq
  <2>2. ((c \o l) \o b)[Len(c) + Len(l) + 1] = Head(b)
    BY <1>1, <2>1
  <2>3. Len(c) + Len(l) + 1 \in 1..Len((c \o l) \o b)
    BY <1>1, <2>1
  <2> QED
    BY <2>2, <2>3, Zenon
<1>3. ASSUME l # <<>>
      PROVE  \E i \in 1..Len((c \o l) \o b) : ((c \o l) \o b)[i] = Last(l)
  <2>1. Len(l) > 0
    BY <1>3, EmptySeq
  <2>2. ((c \o l) \o b)[Len(c) + Len(l)] = Last(l)
    BY <1>1, <2>1 DEF Last
  <2> QED
    BY <1>1, <2>1, <2>2
<1> QED
  BY <1>2, <1>3

-----------------------------------------------------------------------------
\* The prefixes of Kept(s, K), one for each prefix of s.
KeptSoFar(f, s, K) ==
  /\ f[0] = <<>>
  /\ \A i \in 1..Len(s) :
       f[i] = IF s[i] \in K THEN Append(f[i - 1], s[i]) ELSE f[i - 1]

LEMMA KeptSteps ==
  ASSUME NEW S, NEW K, NEW s \in Seq(S)
  PROVE  \E f \in [0..Len(s) -> Seq(S \cap K)] :
           KeptSoFar(f, s, K) /\ Kept(s, K) = f[Len(s)]
<1> DEFINE V == Seq(S \cap K)
           n == Len(s)
           Body(f, i) == IF i = 0 THEN <<>>
                         ELSE IF s[i] \in K THEN Append(f[i - 1], s[i]) ELSE f[i - 1]
           F == CHOOSE f : f = [i \in 0..n |-> Body(f, i)]
           G == [p \in V \X (1..n) |->
                   IF s[p[2]] \in K THEN Append(p[1], s[p[2]]) ELSE p[1]]
<1>0. n \in Nat /\ DOMAIN s = 1..n /\ <<>> \in V /\ \A i \in 1..n : s[i] \in S
  OBVIOUS
<1>1. Kept(s, K) = F[n]
  BY DEF Kept
<1>2. G \in [V \X (1..n) -> V]
  <2>1. \A p \in V \X (1..n) :
          (IF s[p[2]] \in K THEN Append(p[1], s[p[2]]) ELSE p[1]) \in V
    <3> SUFFICES ASSUME NEW l \in V, NEW i \in 1..n
                 PROVE  (IF s[i] \in K THEN Append(l, s[i]) ELSE l) \in V
      BY Zenon
    <3> QED
      BY <1>0
  <2> QED
    BY <2>1
<1>3. PICK f \in [0..n -> V] : f[0] = <<>> /\ \A i \in 1..n : f[i] = G[<<f[i - 1], i>>]
  <2> DEFINE a == <<>>
  <2>1. a \in V
    OBVIOUS
  <2> HIDE DEF V, n, G, a, F, Body
  <2>2. \E f \in [0..n -> V] : Iterates(f, a, n, G)
    <3>1. n \in Nat
      BY <1>0
    <3> QED
      BY <1>2, <2>1, <3>1, RecursiveFunction, Zenon
  <2> QED
    BY <2>2 DEF a, Iterates
<1>4. \A i \in 1..n : f[i] = IF s[i] \in K THEN Append(f[i - 1], s[i]) ELSE f[i - 1]
  <2> TAKE i \in 1..n
  <2>1. i - 1 \in 0..n /\ f[i - 1] \in V
    BY <1>0
  <2>2. <<f[i - 1], i>> \in V \X (1..n)
    BY <2>1
  <2> HIDE DEF V, n
  <2> QED
    BY <1>3, <2>2
<1>5. f = [i \in 0..n |-> Body(f, i)]
  <2>1. \A i \in 0..n : f[i] = Body(f, i)
    <3>1. \A i \in 0..n : i = 0 \/ i \in 1..n
      BY <1>0
    <3>2. \A i \in 1..n : i # 0
      BY <1>0
    <3> QED
      BY <1>3, <1>4, <3>1, <3>2
  <2> HIDE DEF Body
  <2> QED
    BY <2>1
<1>6. F = [i \in 0..n |-> Body(F, i)]
  <2> HIDE DEF Body
  <2> QED
    BY <1>5
<1> HIDE DEF F
<1>7. \A i \in 0..n : F[i] = Body(F, i)
  <2> HIDE DEF Body
  <2> QED
    BY <1>6
<1> DEFINE I == {i \in Nat : i <= n => F[i] = f[i]}
<1>8. n \in I
  <2>1. 0 \in I
    BY <1>0, <1>3, <1>7
  <2>2. \A i \in Nat : i \in I => i + 1 \in I
    <3> SUFFICES ASSUME NEW i \in Nat, i + 1 <= n, F[i] = f[i] PROVE F[i + 1] = f[i + 1]
      BY <1>0
    <3>1. i + 1 \in 0..n /\ i + 1 \in 1..n /\ (i + 1) - 1 = i /\ i + 1 # 0
      BY <1>0
    <3> QED
      BY <1>4, <1>7, <3>1
  <2> HIDE DEF I
  <2> QED
    BY <1>0, <2>1, <2>2, SetInduction
<1> QED
  BY <1>0, <1>1, <1>3, <1>4, <1>8 DEF KeptSoFar

\* Of two sequences that agree on their first n elements, the same is kept.
LEMMA KeptSame ==
  ASSUME NEW K, NEW s, NEW t, NEW f, NEW g, NEW n \in Nat,
         KeptSoFar(f, s, K), KeptSoFar(g, t, K),
         Len(s) \in Nat, Len(t) \in Nat, n <= Len(s), n <= Len(t),
         \A i \in 1..n : s[i] = t[i]
  PROVE  f[n] = g[n]
<1> DEFINE I == {i \in Nat : i <= n => f[i] = g[i]}
<1>1. 0 \in I
  BY DEF KeptSoFar
<1>2. \A i \in Nat : i \in I => i + 1 \in I
  <2> SUFFICES ASSUME NEW i \in Nat, i + 1 <= n, f[i] = g[i] PROVE f[i + 1] = g[i + 1]
    OBVIOUS
  <2>1. /\ i + 1 \in 1..Len(s) /\ i + 1 \in 1..Len(t) /\ i + 1 \in 1..n
        /\ (i + 1) - 1 = i
    OBVIOUS
  <2>2. f[i + 1] = IF s[i + 1] \in K THEN Append(f[i], s[i + 1]) ELSE f[i]
    BY <2>1 DEF KeptSoFar
  <2>3. g[i + 1] = IF t[i + 1] \in K THEN Append(g[i], t[i + 1]) ELSE g[i]
    BY <2>1 DEF KeptSoFar
  <2> QED
    BY <2>1, <2>2, <2>3
<1> HIDE DEF I
<1>3. n \in I
  BY <1>1, <1>2, SetInduction
<1> QED
  BY <1>3 DEF I

LEMMA KeptType ==
  ASSUME NEW S, NEW K, NEW s \in Seq(S)
  PROVE  Kept(s, K) \in Seq(S \cap K) /\ Kept(s, K) \in Seq(S)
<1>1. PICK f \in [0..Len(s) -> Seq(S \cap K)] : Kept(s, K) = f[Len(s)]
  BY KeptSteps
<1>2. Kept(s, K) \in Seq(S \cap K)
  BY <1>1
<1> QED
  BY <1>2

LEMMA KeptEmpty ==
  ASSUME NEW K
  PROVE  Kept(<<>>, K) = <<>>
<1>1. PICK f : KeptSoFar(f, <<>>, K) /\ Kept(<<>>, K) = f[Len(<<>>)]
  <2> DEFINE e == <<>>
  <2>1. e \in Seq({})
    OBVIOUS
  <2> HIDE DEF e
  <2>2. \E f \in [0..Len(e) -> Seq({} \cap K)] : KeptSoFar(f, e, K) /\ Kept(e, K) = f[Len(e)]
    BY <2>1, KeptSteps
  <2> QED
    BY <2>2 DEF e
<1> QED
  BY <1>1 DEF KeptSoFar

LEMMA KeptAppend ==
  ASSUME NEW S, NEW K, NEW s \in Seq(S), NEW x \in S
  PROVE  /\ x \in K => Kept(Append(s, x), K) = Append(Kept(s, K), x)
         /\ x \notin K => Kept(Append(s, x), K) = Kept(s, K)
<1> DEFINE t == Append(s, x)
           n == Len(s)
<1>1. /\ t \in Seq(S) /\ Len(t) = n + 1 /\ t[n + 1] = x /\ n \in Nat
      /\ \A i \in 1..n : s[i] = t[i]
  OBVIOUS
<1> HIDE DEF t
<1>2. PICK f \in [0..Len(s) -> Seq(S \cap K)] : KeptSoFar(f, s, K) /\ Kept(s, K) = f[Len(s)]
  BY KeptSteps
<1>3. PICK g \in [0..Len(t) -> Seq(S \cap K)] : KeptSoFar(g, t, K) /\ Kept(t, K) = g[Len(t)]
  BY <1>1, KeptSteps
<1>4. f[n] = g[n]
  <2>1. Len(s) \in Nat /\ Len(t) \in Nat /\ n <= Len(s) /\ n <= Len(t)
    BY <1>1
  <2>2. n \in Nat /\ \A i \in 1..n : s[i] = t[i]
    BY <1>1
  <2>3. KeptSoFar(f, s, K) /\ KeptSoFar(g, t, K)
    BY <1>2, <1>3
  <2> HIDE DEF n
  <2> QED
    BY ONLY <2>1, <2>2, <2>3, KeptSame
<1>5. g[n + 1] = IF t[n + 1] \in K THEN Append(g[n], t[n + 1]) ELSE g[n]
  <2>1. n + 1 \in 1..Len(t) /\ (n + 1) - 1 = n
    BY <1>1
  <2> QED
    BY <1>3, <2>1 DEF KeptSoFar
<1>6. Kept(t, K) = IF x \in K THEN Append(Kept(s, K), x) ELSE Kept(s, K)
  BY <1>1, <1>2, <1>3, <1>4, <1>5
<1> QED
  BY <1>6 DEF t

LEMMA KeptConcat ==
  ASSUME NEW S, NEW K, NEW s \in Seq(S), NEW t \in Seq(S)
  PROVE  Kept(s \o t, K) = Kept(s, K) \o Kept(t, K)
<1> DEFINE Right(u) == Kept(s \o u, K) = Kept(s, K) \o Kept(u, K)
           I == {n \in Nat : \A u \in Seq(S) : Len(u) = n => Right(u)}
<1>1. 0 \in I
  <2> SUFFICES ASSUME NEW u \in Seq(S), Len(u) = 0
               PROVE  Kept(s \o u, K) = Kept(s, K) \o Kept(u, K)
    OBVIOUS
  <2>1. u = <<>>
    BY EmptySeq
  <2>2. Kept(s, K) \in Seq(S) /\ Kept(u, K) = <<>>
    BY <2>1, KeptType, KeptEmpty
  <2> QED
    BY <2>1, <2>2
<1>2. \A n \in Nat : n \in I => n + 1 \in I
  <2> HIDE DEF Right
  <2> SUFFICES ASSUME NEW n \in Nat, \A u \in Seq(S) : Len(u) = n => Right(u),
                      NEW u \in Seq(S), Len(u) = n + 1
               PROVE  Right(u)
    OBVIOUS
  <2> DEFINE v == Front(u)
             x == Last(u)
  <2>1. u # <<>>
    OBVIOUS
  <2>2. v \in Seq(S) /\ x \in S /\ Len(v) = n /\ u = Append(v, x)
    BY <2>1, FrontLast, FrontAppend
  <2> HIDE DEF v, x
  <2>3. s \o u = Append(s \o v, x) /\ s \o v \in Seq(S)
    BY <2>2
  <2>4. Kept(s \o v, K) = Kept(s, K) \o Kept(v, K)
    <3>1. Right(v)
      BY <2>2
    <3> QED
      BY <3>1 DEF Right
  <2>5. Kept(s, K) \in Seq(S) /\ Kept(v, K) \in Seq(S)
    BY <2>2, KeptType
  <2>6. Kept(s \o u, K) = IF x \in K THEN Append(Kept(s \o v, K), x) ELSE Kept(s \o v, K)
    <3> DEFINE w == s \o v
    <3>1. w \in Seq(S) /\ x \in S
      BY <2>2, <2>3
    <3> HIDE DEF w
    <3>2. /\ x \in K => Kept(Append(w, x), K) = Append(Kept(w, K), x)
          /\ x \notin K => Kept(Append(w, x), K) = Kept(w, K)
      BY <3>1, KeptAppend, Zenon
    <3> QED
      BY <2>3, <3>2 DEF w
  <2>7. Kept(u, K) = IF x \in K THEN Append(Kept(v, K), x) ELSE Kept(v, K)
    BY <2>2, KeptAppend
  <2> DEFINE a == Kept(s, K)
             b == Kept(v, K)
  <2> HIDE DEF a, b
  <2>8. a \o Append(b, x) = Append(a \o b, x)
    BY <2>2, <2>5 DEF a, b
  <2> QED
    BY <2>4, <2>6, <2>7, <2>8 DEF a, b, Right
<1> HIDE DEF I
<1>3. Len(t) \in Nat
  OBVIOUS
<1>4. Len(t) \in I
  BY <1>1, <1>2, <1>3, SetInduction
<1> QED
  BY <1>4 DEF I

LEMMA KeptSingle ==
  ASSUME NEW K, NEW x
  PROVE  Kept(<<x>>, K) = IF x \in K THEN <<x>> ELSE <<>>
<1> DEFINE e == <<>>
           S == {x}
<1>1. e \in Seq(S) /\ x \in S /\ Append(e, x) = <<x>> /\ Kept(e, K) = <<>>
  BY KeptEmpty
<1> HIDE DEF e, S
<1>2. /\ x \in K => Kept(Append(e, x), K) = Append(Kept(e, K), x)
      /\ x \notin K => Kept(Append(e, x), K) = Kept(e, K)
  BY <1>1, KeptAppend, Zenon
<1>3. Append(Kept(e, K), x) = <<x>>
  BY <1>1 DEF e
<1> QED
  BY <1>1, <1>2, <1>3

-----------------------------------------------------------------------------
LEMMA ReverseType ==
  ASSUME NEW S, NEW l \in Seq(S)
  PROVE  /\ Reverse(l) \in Seq(S) /\ Len(Reverse(l)) = Len(l)
         /\ \A i \in 1..Len(l) : Reverse(l)[i] = l[(Len(l) - i) + 1]
BY DEF Reverse

LEMMA ReverseConcat ==
  ASSUME NEW S, NEW l \in Seq(S), NEW r \in Seq(S)
  PROVE  Reverse(l \o r) = Reverse(r) \o Reverse(l)
<1> DEFINE n == Len(l)
           m == Len(r)
           a == Reverse(l \o r)
           b == Reverse(r) \o Reverse(l)
<1>1. /\ n \in Nat /\ m \in Nat /\ l \o r \in Seq(S) /\ Len(l \o r) = n + m
      /\ \A i \in 1..n + m : (l \o r)[i] = IF i <= n THEN l[i] ELSE r[i - n]
  BY ConcatProperties
<1>2. /\ a \in Seq(S) /\ Len(a) = n + m
      /\ \A i \in 1..n + m : a[i] = (l \o r)[((n + m) - i) + 1]
  <2> DEFINE w == l \o r
  <2>1. w \in Seq(S) /\ Len(w) = n + m
    BY <1>1
  <2> HIDE DEF w, n, m
  <2>2. /\ Reverse(w) \in Seq(S) /\ Len(Reverse(w)) = n + m
        /\ \A i \in 1..n + m : Reverse(w)[i] = w[((n + m) - i) + 1]
    BY <2>1, ReverseType
  <2> QED
    BY <2>2 DEF w
<1>3. /\ Reverse(l) \in Seq(S) /\ Len(Reverse(l)) = n
      /\ \A i \in 1..n : Reverse(l)[i] = l[(n - i) + 1]
  BY ReverseType
<1>4. /\ Reverse(r) \in Seq(S) /\ Len(Reverse(r)) = m
      /\ \A i \in 1..m : Reverse(r)[i] = r[(m - i) + 1]
  BY ReverseType
<1>5. /\ b \in Seq(S) /\ Len(b) = m + n
      /\ \A i \in 1..m + n : b[i] = IF i <= m THEN Reverse(r)[i] ELSE Reverse(l)[i - m]
  <2> DEFINE u == Reverse(r)
             v == Reverse(l)
  <2>1. u \in Seq(S) /\ v \in Seq(S) /\ Len(u) = m /\ Len(v) = n
    BY <1>3, <1>4
  <2> HIDE DEF u, v, n, m
  <2>2. /\ u \o v \in Seq(S) /\ Len(u \o v) = m + n
        /\ \A i \in 1..m + n : (u \o v)[i] = IF i <= m THEN u[i] ELSE v[i - m]
    BY <2>1, ConcatProperties
  <2> QED
    BY <2>2 DEF u, v
<1> HIDE DEF n, m, a, b
<1>6. \A i \in 1..Len(a) : a[i] = b[i]
  <2> SUFFICES ASSUME NEW i \in 1..n + m PROVE a[i] = b[i]
    BY <1>2
  <2> DEFINE j == ((n + m) - i) + 1
  <2>1. j \in 1..n + m /\ i \in 1..m + n
    BY <1>1
  <2>2. a[i] = IF j <= n THEN l[j] ELSE r[j - n]
    BY <1>1, <1>2, <2>1
  <2>3. CASE i <= m
    <3>1. i \in 1..m /\ ~(j <= n) /\ j - n = (m - i) + 1
      BY <1>1, <2>3
    <3> HIDE DEF j
    <3> QED
      BY <1>4, <1>5, <2>1, <2>2, <2>3, <3>1
  <2>4. CASE ~(i <= m)
    <3>1. i - m \in 1..n /\ j <= n /\ j = (n - (i - m)) + 1
      BY <1>1, <2>4
    <3> HIDE DEF j
    <3> QED
      BY <1>3, <1>5, <2>1, <2>2, <2>4, <3>1
  <2> QED
    BY <2>3, <2>4
<1>7. a = b
  BY <1>1, <1>2, <1>5, <1>6, SeqEqual
<1> QED
  BY <1>7 DEF a, b

LEMMA ReverseSingle == \A x : Reverse(<<x>>) = <<x>>
<1> TAKE x
<1> DEFINE S == {x}
           l == <<x>>
<1>1. l \in Seq(S) /\ Len(l) = 1 /\ l[1] = x
  OBVIOUS
<1>2. Reverse(l) \in Seq(S) /\ Len(Reverse(l)) = 1 /\ Reverse(l)[1] = x
  <2> HIDE DEF l, S
  <2> QED
    BY <1>1, ReverseType
<1>3. \A i \in 1..1 : i = 1
  OBVIOUS
<1> HIDE DEF l
<1>4. Reverse(l) = l
  BY <1>1, <1>2, <1>3, SeqEqual
<1> QED
  BY <1>4 DEF l

\* The reverse of a sequence begins with its last element.
LEMMA ReverseFront ==
  ASSUME NEW S, NEW l \in Seq(S), l # <<>>
  PROVE  Reverse(l) = <<Last(l)>> \o Reverse(Front(l))
<1> DEFINE f == Front(l)
           y == <<Last(l)>>
<1>1. f \in Seq(S) /\ y \in Seq(S) /\ l = f \o y
  <2>1. f \in Seq(S) /\ Last(l) \in S /\ l = Append(f, Last(l))
    BY FrontLast, FrontAppend
  <2> HIDE DEF f
  <2> QED
    BY <2>1
<1>2. Reverse(y) = y
  BY ReverseSingle
<1> HIDE DEF f, y
<1>3. Reverse(f \o y) = Reverse(y) \o Reverse(f)
  BY <1>1, ReverseConcat
<1> QED
  BY <1>1, <1>2, <1>3 DEF f, y

LEMMA ReverseTwice ==
  ASSUME NEW S, NEW l \in Seq(S)
  PROVE  Reverse(Reverse(l)) = l
<1> DEFINE r == Reverse(l)
           n == Len(l)
<1>1. r \in Seq(S) /\ Len(r) = n /\ \A i \in 1..n : r[i] = l[(n - i) + 1]
  BY ReverseType
<1> HIDE DEF r
<1>2. /\ Reverse(r) \in Seq(S) /\ Len(Reverse(r)) = Len(r)
      /\ \A i \in 1..Len(r) : Reverse(r)[i] = r[(Len(r) - i) + 1]
  BY <1>1, ReverseType
<1>3. \A i \in 1..Len(Reverse(r)) : Reverse(r)[i] = l[i]
  <2> SUFFICES ASSUME NEW i \in 1..n PROVE Reverse(r)[i] = l[i]
    BY <1>1, <1>2
  <2>1. n \in Nat
    OBVIOUS
  <2>2. (n - i) + 1 \in 1..n /\ (n - ((n - i) + 1)) + 1 = i
    BY <2>1
  <2> QED
    BY <1>1, <1>2, <2>2
<1>4. Reverse(r) = l
  BY <1>1, <1>2, <1>3, SeqEqual
<1> QED
  BY <1>4 DEF r

-----------------------------------------------------------------------------
\* The order of a set of integers lists each of them once.
LEMMA AscendingLists ==
  ASSUME NEW S \in SUBSET Int, IsFiniteSet(S)
  PROVE  /\ Ascending(S) \in Seq(S)
         /\ Range(Ascending(S)) = S
         /\ \A i, j \in DOMAIN Ascending(S) : Ascending(S)[i] = Ascending(S)[j] => i = j
<1> DEFINE n == Cardinality(S)
           below(x) == {y \in S : y < x}
           rank == [x \in S |-> Cardinality(below(x))]
           A == Ascending(S)
<1>1. n \in Nat
  BY FS_CardinalityType
<1>2. \A x \in S : IsFiniteSet(below(x)) /\ Cardinality(below(x)) \in 0..n - 1
  <2> TAKE x \in S
  <2>1. below(x) \in SUBSET S /\ below(x) # S
    OBVIOUS
  <2> HIDE DEF below
  <2>2. /\ IsFiniteSet(below(x)) /\ Cardinality(below(x)) <= Cardinality(S)
        /\ Cardinality(S) = Cardinality(below(x)) => S = below(x)
    BY <2>1, FS_Subset
  <2>3. Cardinality(below(x)) \in Nat
    BY <2>2, FS_CardinalityType
  <2> QED
    BY <1>1, <2>1, <2>2, <2>3
<1>3. \A x, y \in S : x < y => Cardinality(below(x)) < Cardinality(below(y))
  <2> TAKE x, y \in S
  <2> HAVE x < y
  <2>1. below(x) \in SUBSET below(y) /\ below(x) # below(y)
    <3>1. x \in below(y) /\ x \notin below(x)
      OBVIOUS
    <3>2. below(x) \subseteq below(y)
      <4> SUFFICES ASSUME NEW z \in S, z < x PROVE z < y
        OBVIOUS
      <4>1. x \in Int /\ y \in Int /\ z \in Int
        OBVIOUS
      <4> QED
        BY <4>1
    <3> QED
      BY <3>1, <3>2
  <2>2. IsFiniteSet(below(y)) /\ Cardinality(below(y)) \in Nat /\ Cardinality(below(x)) \in Nat
    BY <1>1, <1>2
  <2> HIDE DEF below
  <2>3. /\ Cardinality(below(x)) <= Cardinality(below(y))
        /\ Cardinality(below(y)) = Cardinality(below(x)) => below(y) = below(x)
    BY <2>1, <2>2, FS_Subset
  <2> QED
    BY <2>1, <2>2, <2>3
<1> HIDE DEF below
<1>4. rank \in Injection(S, 0..n - 1)
  <2>1. rank \in [S -> 0..n - 1]
    BY <1>2
  <2>2. \A x, y \in S : rank[x] = rank[y] => x = y
    <3> TAKE x, y \in S
    <3>1. rank[x] \in Int /\ rank[y] \in Int /\ x \in Int /\ y \in Int
      BY <1>2, <1>1
    <3>2. x < y => rank[x] < rank[y]
      BY <1>3
    <3>3. y < x => rank[y] < rank[x]
      BY <1>3
    <3> HIDE DEF rank
    <3> QED
      BY <3>1, <3>2, <3>3
  <2> HIDE DEF rank, n
  <2> QED
    BY <2>1, <2>2, Fun_IsInj
<1>5. rank \in Surjection(S, 0..n - 1)
  <2>1. IsFiniteSet(0..n - 1) /\ Cardinality(0..n - 1) = n
    BY <1>1, FS_Interval, SMTT(30)
  <2> HIDE DEF rank
  <2> QED
    BY <1>4, <2>1, FS_Injection
<1>6. \A i \in 1..n : \E x \in S : rank[x] = i - 1
  <2> TAKE i \in 1..n
  <2>1. i - 1 \in 0..n - 1
    BY <1>1
  <2> HIDE DEF rank, n
  <2> QED
    BY <1>5, <2>1 DEF Surjection
<1>7. DOMAIN A = 1..n /\ \A i \in 1..n : A[i] \in S /\ rank[A[i]] = i - 1
  <2>1. A = [i \in 1..n |-> CHOOSE x \in S : Cardinality(below(x)) = i - 1]
    BY DEF Ascending, below
  <2>2. A = [i \in 1..n |-> CHOOSE x \in S : rank[x] = i - 1]
    <3>1. \A i \in 1..n : (CHOOSE x \in S : Cardinality(below(x)) = i - 1)
                          = (CHOOSE x \in S : rank[x] = i - 1)
      <4> TAKE i \in 1..n
      <4>1. \A x \in S : rank[x] = Cardinality(below(x))
        OBVIOUS
      <4> QED
        BY <4>1
    <3> QED
      BY <2>1, <3>1
  <2> HIDE DEF rank, n, A
  <2>3. DOMAIN A = 1..n
    BY <2>2
  <2>4. ASSUME NEW i \in 1..n
        PROVE  A[i] \in S /\ rank[A[i]] = i - 1
    <3>1. A[i] = CHOOSE x \in S : rank[x] = i - 1
      BY <2>2
    <3> QED
      BY <1>6, <3>1
  <2> QED
    BY <2>3, <2>4
<1>8. \A i, j \in DOMAIN A : A[i] = A[j] => i = j
  <2> HIDE DEF rank, A
  <2> QED
    BY <1>1, <1>7
<1>9. Range(A) = S
  <2>1. Range(A) \subseteq S
    <3> HIDE DEF rank, A
    <3> QED
      BY <1>7 DEF Range
  <2>2. ASSUME NEW x \in S
        PROVE  x \in Range(A)
    <3>1. rank[x] \in 0..n - 1
      BY <1>2
    <3> HIDE DEF rank, A
    <3>2. rank[x] + 1 \in 1..n /\ (rank[x] + 1) - 1 = rank[x]
      BY <1>1, <3>1
    <3>3. A[rank[x] + 1] \in S /\ rank[A[rank[x] + 1]] = rank[x]
      BY <1>7, <3>2
    <3>4. A[rank[x] + 1] = x
      BY <1>4, <3>3 DEF Injection, IsInjective
    <3> QED
      BY <1>7, <3>2, <3>4 DEF Range
  <2> QED
    BY <2>1, <2>2
<1>10. A \in Seq(S)
  <2> DEFINE pick(i) == CHOOSE x \in S : Cardinality({y \in S : y < x}) = i - 1
  <2>0. A = [i \in 1..n |-> pick(i)]
    BY DEF Ascending
  <2> HIDE DEF A, n, rank, pick
  <2>1. A = [i \in DOMAIN A |-> A[i]]
    BY <2>0
  <2>2. A = [i \in 1..n |-> A[i]]
    BY <1>7, <2>1
  <2>3. \A i \in 1..n : A[i] \in S
    BY <1>7
  <2>4. [i \in 1..n |-> A[i]] \in Seq(S)
    BY <1>1, <2>3
  <2> QED
    BY <2>2, <2>4
<1> QED
  BY <1>8, <1>9, <1>10

LEMMA RangeAppend ==
  ASSUME NEW S, NEW s \in Seq(S), NEW x \in S
  PROVE  Range(Append(s, x)) = Range(s) \cup {x}
<1> DEFINE t == Append(s, x)
           n == Len(s)
<1>1. /\ n \in Nat /\ DOMAIN s = 1..n /\ DOMAIN t = 1..n + 1
      /\ t[n + 1] = x /\ \A i \in 1..n : t[i] = s[i]
  OBVIOUS
<1> HIDE DEF t, n
<1>2. \A i \in 1..n + 1 : i \in 1..n \/ i = n + 1
  BY <1>1
<1>3. 1..n \subseteq 1..n + 1 /\ n + 1 \in 1..n + 1
  BY <1>1
<1> QED
  BY <1>1, <1>2, <1>3 DEF Range, t

\* What is kept is what is there of it.
LEMMA KeptRange ==
  ASSUME NEW S, NEW K, NEW s \in Seq(S)
  PROVE  Range(Kept(s, K)) = Range(s) \cap K
<1> DEFINE n == Len(s)
           seen(i) == {s[j] : j \in 1..i}
<1>0. n \in Nat /\ DOMAIN s = 1..n /\ \A i \in 1..n : s[i] \in S
  OBVIOUS
<1>1. PICK f \in [0..n -> Seq(S \cap K)] : KeptSoFar(f, s, K) /\ Kept(s, K) = f[n]
  BY KeptSteps
<1>2. f[0] = <<>> /\ \A i \in 1..n : f[i] = IF s[i] \in K THEN Append(f[i - 1], s[i]) ELSE f[i - 1]
  BY <1>1 DEF KeptSoFar
<1> HIDE DEF n, seen
<1> DEFINE Right(i) == Range(f[i]) = seen(i) \cap K
           I == {i \in Nat : i <= n => Right(i)}
<1>3. 0 \in I
  <2>1. seen(0) = {} /\ Range(f[0]) = {}
    BY <1>2 DEF Range, seen
  <2> QED
    BY <2>1
<1>4. \A i \in Nat : i \in I => i + 1 \in I
  <2> HIDE DEF Right
  <2> SUFFICES ASSUME NEW i \in Nat, i + 1 <= n, Right(i)
               PROVE  Right(i + 1)
    BY <1>0
  <2> USE DEF Right
  <2>1. i + 1 \in 1..n /\ (i + 1) - 1 = i /\ i \in 0..n
    BY <1>0
  <2>2. f[i] \in Seq(S \cap K)
    BY <2>1
  <2>3. seen(i + 1) = seen(i) \cup {s[i + 1]}
    <3>1. 1..i + 1 = 1..i \cup {i + 1}
      OBVIOUS
    <3> QED
      BY <3>1 DEF seen
  <2>4. CASE s[i + 1] \in K
    <3>1. s[i + 1] \in S \cap K
      BY <1>0, <2>1, <2>4
    <3>2. Range(Append(f[i], s[i + 1])) = Range(f[i]) \cup {s[i + 1]}
      BY <2>2, <3>1, RangeAppend
    <3>3. f[i + 1] = Append(f[i], s[i + 1])
      BY <1>2, <2>1, <2>4
    <3> QED
      BY <2>3, <2>4, <3>2, <3>3
  <2>5. CASE s[i + 1] \notin K
    <3>1. f[i + 1] = f[i]
      BY <1>2, <2>1, <2>5
    <3> QED
      BY <2>3, <2>5, <3>1
  <2> QED
    BY <2>4, <2>5
<1>5. n \in I
  <2> HIDE DEF I
  <2> QED
    BY <1>0, <1>3, <1>4, SetInduction
<1>6. seen(n) = Range(s)
  BY <1>0 DEF Range, seen
<1> QED
  BY <1>0, <1>1, <1>5, <1>6

-----------------------------------------------------------------------------
\* What FlattenSeq makes, one sequence after the other.
LEMMA FlattenSteps ==
  ASSUME NEW S, NEW ss \in Seq(Seq(S))
  PROVE  \E f \in [0..Len(ss) -> Seq(S)] :
           /\ f[0] = <<>> /\ \A i \in 1..Len(ss) : f[i] = f[i - 1] \o ss[i]
           /\ FlattenSeq(ss) = f[Len(ss)]
<1> DEFINE V == Seq(S)
           n == Len(ss)
           Body(f, i) == IF i = 1 THEN ss[i] ELSE f[i - 1] \o ss[i]
           F == CHOOSE f : f = [i \in 1..n |-> Body(f, i)]
           G == [p \in V \X (1..n) |-> p[1] \o ss[p[2]]]
<1>0. n \in Nat /\ DOMAIN ss = 1..n /\ <<>> \in V /\ \A i \in 1..n : ss[i] \in V
  OBVIOUS
<1>1. FlattenSeq(ss) = IF n = 0 THEN ss ELSE F[n]
  BY DEF FlattenSeq
<1>2. G \in [V \X (1..n) -> V]
  <2>1. \A p \in V \X (1..n) : p[1] \o ss[p[2]] \in V
    <3> SUFFICES ASSUME NEW l \in V, NEW i \in 1..n
                 PROVE  l \o ss[i] \in V
      BY Zenon
    <3> QED
      BY <1>0
  <2> QED
    BY <2>1
<1>3. PICK f \in [0..n -> V] : f[0] = <<>> /\ \A i \in 1..n : f[i] = G[<<f[i - 1], i>>]
  <2> DEFINE a == <<>>
  <2>1. a \in V
    OBVIOUS
  <2> HIDE DEF V, n, G, a, F, Body
  <2>2. \E f \in [0..n -> V] : Iterates(f, a, n, G)
    <3>1. n \in Nat
      BY <1>0
    <3> QED
      BY <1>2, <2>1, <3>1, RecursiveFunction, Zenon
  <2> QED
    BY <2>2 DEF a, Iterates
<1>4. \A i \in 1..n : f[i] = f[i - 1] \o ss[i]
  <2> TAKE i \in 1..n
  <2> HIDE DEF V, n
  <2>1. i - 1 \in 0..n
    BY <1>0
  <2>2. <<f[i - 1], i>> \in V \X (1..n)
    BY <2>1
  <2> QED
    BY <1>3, <2>2
<1> HIDE DEF G, V, n
<1> DEFINE g == [i \in 1..n |-> f[i]]
<1>5. g = [i \in 1..n |-> Body(g, i)]
  <2>1. \A i \in 1..n : g[i] = Body(g, i)
    <3> TAKE i \in 1..n
    <3>1. CASE i = 1
      <4>1. f[1] = <<>> \o ss[1]
        <5>1. 1 \in 1..n /\ 1 - 1 = 0
          BY <3>1
        <5> QED
          BY <1>3, <1>4, <5>1
      <4>2. <<>> \o ss[1] = ss[1]
        BY <1>0, <3>1, ConcatEmptySeq DEF V
      <4> QED
        BY <3>1, <4>1, <4>2
    <3>2. CASE i # 1
      <4>1. i - 1 \in 1..n
        BY <1>0, <3>2
      <4> QED
        BY <1>4, <3>2, <4>1
    <3> QED
      BY <3>1, <3>2
  <2> HIDE DEF Body
  <2> QED
    BY <2>1
<1>6. F = [i \in 1..n |-> Body(F, i)]
  <2> HIDE DEF Body, g
  <2> QED
    BY <1>5
<1> HIDE DEF F
<1>7. \A i \in 1..n : F[i] = Body(F, i)
  <2> HIDE DEF Body
  <2> QED
    BY <1>6
<1> DEFINE I == {i \in Nat : i <= n /\ i # 0 => F[i] = f[i]}
<1>8. n \in I
  <2>1. 0 \in I
    OBVIOUS
  <2>2. \A i \in Nat : i \in I => i + 1 \in I
    <3> SUFFICES ASSUME NEW i \in Nat, i + 1 <= n, i # 0 => F[i] = f[i]
                 PROVE  F[i + 1] = f[i + 1]
      BY <1>0
    <3>1. i + 1 \in 1..n /\ (i + 1) - 1 = i
      BY <1>0
    <3>2. CASE i = 0
      <4>1. 1 \in 1..n
        BY <3>1, <3>2
      <4>2. F[1] = ss[1]
        BY <1>7, <4>1
      <4>3. g[1] = ss[1]
        <5>1. \A j \in 1..n : g[j] = Body(g, j)
          BY <1>5
        <5> HIDE DEF g
        <5> QED
          BY <4>1, <5>1
      <4>4. g[1] = f[1]
        BY <4>1
      <4> QED
        BY <3>2, <4>2, <4>3, <4>4
    <3>3. CASE i # 0
      <4>1. F[i + 1] = F[i] \o ss[i + 1] /\ f[i + 1] = f[i] \o ss[i + 1]
        <5>1. i + 1 # 1
          BY <3>3
        <5>2. F[i + 1] = Body(F, i + 1) /\ f[i + 1] = f[(i + 1) - 1] \o ss[i + 1]
          BY <1>4, <1>7, <3>1
        <5> QED
          BY <3>1, <5>1, <5>2
      <4> QED
        BY <3>3, <4>1
    <3> QED
      BY <3>2, <3>3
  <2> HIDE DEF I
  <2> QED
    BY <1>0, <2>1, <2>2, SetInduction
<1>9. n = 0 => ss = <<>>
  BY <1>0 DEF n
<1>10. FlattenSeq(ss) = f[n]
  <2>1. CASE n = 0
    BY <1>1, <1>3, <1>9, <2>1
  <2>2. CASE n # 0
    BY <1>0, <1>1, <1>8, <2>2
  <2> QED
    BY <2>1, <2>2
<1> QED
  BY <1>3, <1>4, <1>10 DEF n, V

\* flat is made of the elements of the first n sequences of ss: its j-th element
\* is the one at col[j] of ss[row[j]].
FlatBy(flat, ss, n, row, col) ==
  /\ \A j \in 1..Len(flat) :
       row[j] \in 1..n /\ col[j] \in 1..Len(ss[row[j]]) /\ flat[j] = ss[row[j]][col[j]]
  /\ \A k \in 1..n : \A i \in 1..Len(ss[k]) : \E j \in 1..Len(flat) : row[j] = k /\ col[j] = i
  /\ \A i, j \in 1..Len(flat) : row[i] = row[j] /\ col[i] = col[j] => i = j

\* Of sequences none of which is empty, flat is as long as there are sequences, and
\* longer if one has more than one element.
LongAs(flat, ss, n) ==
  (\A k \in 1..n : Len(ss[k]) > 0) =>
    Len(flat) >= n /\ ((\E k \in 1..n : Len(ss[k]) > 1) => Len(flat) > n)

LEMMA FlatGrows ==
  ASSUME NEW S, NEW ss, NEW n \in Nat, NEW flat \in Seq(S), ss[n + 1] \in Seq(S), NEW row, NEW col,
         FlatBy(flat, ss, n, row, col), \A k \in 1..n : Len(ss[k]) \in Nat
  PROVE  \E r, c : FlatBy(flat \o ss[n + 1], ss, n + 1, r, c)
<1> DEFINE part == ss[n + 1]
           l == Len(flat)
           p == Len(part)
           all == flat \o part
           r == [j \in 1..l + p |-> IF j <= l THEN row[j] ELSE n + 1]
           c == [j \in 1..l + p |-> IF j <= l THEN col[j] ELSE j - l]
<1>1. /\ l \in Nat /\ p \in Nat /\ Len(all) = l + p
      /\ \A j \in 1..l : all[j] = flat[j]
      /\ \A j \in 1..p : all[l + j] = part[j]
  BY ConcatAt DEF IsJoined
<1> HIDE DEF all, l, p
<1>2. \A j \in 1..l + p : j \in 1..l \/ (j - l \in 1..p /\ l + (j - l) = j /\ j \notin 1..l /\ ~(j <= l))
  BY <1>1
<1>3. \A j \in 1..l : j \in 1..l + p /\ r[j] = row[j] /\ c[j] = col[j] /\ row[j] \in 1..n /\ row[j] # n + 1
  <2> TAKE j \in 1..l
  <2>1. j \in 1..l + p /\ j <= l
    BY <1>1
  <2>2. row[j] \in 1..n
    BY DEF FlatBy, l
  <2> QED
    BY <2>1, <2>2
<1>4. \A j \in 1..p : l + j \in 1..l + p /\ r[l + j] = n + 1 /\ c[l + j] = j
  <2> TAKE j \in 1..p
  <2>1. l + j \in 1..l + p /\ ~(l + j <= l) /\ (l + j) - l = j
    BY <1>1
  <2> QED
    BY <2>1
<1>5. \A j \in 1..l + p : ~(j \in 1..l) => r[j] = n + 1 /\ c[j] = j - l
  BY <1>1, <1>2
<1> HIDE DEF r, c
<1>6. ASSUME NEW j \in 1..l + p
      PROVE  r[j] \in 1..n + 1 /\ c[j] \in 1..Len(ss[r[j]]) /\ all[j] = ss[r[j]][c[j]]
  <2>1. CASE j \in 1..l
    <3>1. row[j] \in 1..n /\ col[j] \in 1..Len(ss[row[j]]) /\ flat[j] = ss[row[j]][col[j]]
      BY <2>1 DEF FlatBy, l
    <3>2. row[j] \in 1..n + 1
      BY <3>1
    <3> QED
      BY <1>1, <1>3, <2>1, <3>1, <3>2
  <2>2. CASE j \notin 1..l
    <3>1. j - l \in 1..p /\ l + (j - l) = j
      BY <1>2, <2>2
    <3>2. all[j] = part[j - l]
      BY <1>1, <3>1
    <3>3. n + 1 \in 1..n + 1
      OBVIOUS
    <3> QED
      BY <1>5, <2>2, <3>1, <3>2, <3>3 DEF p
  <2> QED
    BY <2>1, <2>2
<1>7. ASSUME NEW k \in 1..n + 1, NEW i \in 1..Len(ss[k])
      PROVE  \E j \in 1..l + p : r[j] = k /\ c[j] = i
  <2>1. CASE k \in 1..n
    <3>1. PICK j \in 1..l : row[j] = k /\ col[j] = i
      BY <2>1 DEF FlatBy, l
    <3> QED
      BY <1>3, <3>1
  <2>2. CASE k = n + 1
    <3>1. i \in 1..p
      BY <2>2 DEF p
    <3> QED
      BY <1>4, <2>2, <3>1
  <2>3. k \in 1..n \/ k = n + 1
    OBVIOUS
  <2> QED
    BY <2>1, <2>2, <2>3
<1>8. ASSUME NEW i \in 1..l + p, NEW j \in 1..l + p, r[i] = r[j], c[i] = c[j]
      PROVE  i = j
  <2>1. CASE i \in 1..l /\ j \in 1..l
    <3>1. row[i] = row[j] /\ col[i] = col[j]
      BY <1>3, <1>8, <2>1
    <3> QED
      BY <2>1, <3>1 DEF FlatBy, l
  <2>2. CASE i \notin 1..l /\ j \notin 1..l
    <3>1. i - l = j - l
      BY <1>5, <1>8, <2>2
    <3> QED
      BY <1>1, <3>1
  <2>3. ~(i \in 1..l /\ j \notin 1..l) /\ ~(i \notin 1..l /\ j \in 1..l)
    BY <1>3, <1>5, <1>8
  <2> QED
    BY <2>1, <2>2, <2>3
<1>9. FlatBy(all, ss, n + 1, r, c)
  BY <1>1, <1>6, <1>7, <1>8 DEF FlatBy
<1> QED
  BY <1>9 DEF all

LEMMA FlattenElements ==
  ASSUME NEW S, NEW ss \in Seq(Seq(S))
  PROVE  /\ FlattenSeq(ss) \in Seq(S)
         /\ LongAs(FlattenSeq(ss), ss, Len(ss))
         /\ \E row, col : FlatBy(FlattenSeq(ss), ss, Len(ss), row, col)
<1> DEFINE n == Len(ss)
<1>0. n \in Nat /\ \A i \in 1..n : ss[i] \in Seq(S)
  OBVIOUS
<1>1. PICK f \in [0..n -> Seq(S)] :
        /\ f[0] = <<>> /\ \A i \in 1..n : f[i] = f[i - 1] \o ss[i]
        /\ FlattenSeq(ss) = f[n]
  BY FlattenSteps
<1> HIDE DEF n
<1>2. \A i \in 1..n : Len(ss[i]) \in Nat
  <2> TAKE i \in 1..n
  <2>1. ss[i] \in Seq(S)
    BY <1>0
  <2> QED
    BY <2>1, LenProperties, Zenon
<1> DEFINE Right(m) == LongAs(f[m], ss, m) /\ \E row, col : FlatBy(f[m], ss, m, row, col)
           I == {m \in Nat : m <= n => Right(m)}
<1>3. 0 \in I
  <2>1. Len(f[0]) = 0 /\ 1..0 = {}
    BY <1>1
  <2>2. LongAs(f[0], ss, 0)
    BY <2>1 DEF LongAs
  <2>3. FlatBy(f[0], ss, 0, <<>>, <<>>)
    BY <2>1 DEF FlatBy
  <2> QED
    BY <2>2, <2>3
<1>4. \A m \in Nat : m \in I => m + 1 \in I
  <2> HIDE DEF Right
  <2> SUFFICES ASSUME NEW m \in Nat, m + 1 <= n, Right(m)
               PROVE  Right(m + 1)
    BY <1>0
  <2> USE DEF Right
  <2>1. m + 1 \in 1..n /\ (m + 1) - 1 = m /\ m \in 0..n /\ \A k \in 1..m : k \in 1..n
    BY <1>0
  <2>2. f[m + 1] = f[m] \o ss[m + 1] /\ f[m] \in Seq(S) /\ ss[m + 1] \in Seq(S)
    BY <1>0, <1>1, <2>1
  <2>3. Len(f[m + 1]) = Len(f[m]) + Len(ss[m + 1]) /\ Len(f[m]) \in Nat /\ Len(ss[m + 1]) \in Nat
    BY <2>2, ConcatAt, LenProperties DEF IsJoined
  <2>4. LongAs(f[m + 1], ss, m + 1)
    <3> SUFFICES ASSUME \A k \in 1..m + 1 : Len(ss[k]) > 0
                 PROVE  /\ Len(f[m + 1]) >= m + 1
                        /\ (\E k \in 1..m + 1 : Len(ss[k]) > 1) => Len(f[m + 1]) > m + 1
      BY DEF LongAs
    <3>1. m + 1 \in 1..m + 1 /\ \A k \in 1..m : k \in 1..m + 1
      OBVIOUS
    <3>2. Len(f[m]) >= m /\ ((\E k \in 1..m : Len(ss[k]) > 1) => Len(f[m]) > m)
      BY <3>1 DEF LongAs
    <3>3. Len(ss[m + 1]) > 0
      BY <3>1
    <3>4. (\E k \in 1..m + 1 : Len(ss[k]) > 1) => Len(ss[m + 1]) > 1 \/ \E k \in 1..m : Len(ss[k]) > 1
      <4>1. \A k \in 1..m + 1 : k = m + 1 \/ k \in 1..m
        OBVIOUS
      <4> QED
        BY <4>1
    <3> DEFINE longer(i) == \E k \in 1..i : Len(ss[k]) > 1
               before == Len(f[m])
               after == Len(f[m + 1])
               added == Len(ss[m + 1])
    <3>5. /\ after = before + added /\ before \in Nat /\ added \in Nat /\ added > 0
          /\ before >= m /\ (longer(m) => before > m) /\ (longer(m + 1) => added > 1 \/ longer(m))
      BY <2>3, <3>2, <3>3, <3>4
    <3> HIDE DEF longer, before, after, added
    <3>6. after >= m + 1 /\ (longer(m + 1) => after > m + 1)
      BY <3>5
    <3> QED
      BY <3>6 DEF longer, after
  <2>5. PICK row, col : FlatBy(f[m], ss, m, row, col)
    OBVIOUS
  <2>6. \E r, c : FlatBy(f[m] \o ss[m + 1], ss, m + 1, r, c)
    <3>1. \A k \in 1..m : Len(ss[k]) \in Nat
      BY <1>2, <2>1
    <3> QED
      BY <2>2, <2>5, <3>1, FlatGrows
  <2> QED
    BY <2>2, <2>4, <2>6
<1>5. n \in I
  <2> HIDE DEF I
  <2> QED
    BY <1>0, <1>3, <1>4, SetInduction
<1>6. n \in 0..n
  BY <1>0
<1>7. f[n] \in Seq(S)
  BY <1>6
<1>8. Right(n)
  BY <1>0, <1>5
<1> HIDE DEF Right
<1> QED
  BY <1>1, <1>7, <1>8 DEF n, Right

-----------------------------------------------------------------------------
\* Y is let grow by G until it grows no more: what a recursive definition over the
\* subsets of F demands of f.
Closes(f, F, G) == f = [Y \in SUBSET F |-> IF G[Y] = Y THEN Y ELSE f[G[Y]]]

\* G adds to a set, and no less to a larger one.
Grows(F, G) ==
  /\ \A Y \in SUBSET F : Y \subseteq G[Y]
  /\ \A Y, Z \in SUBSET F : Y \subseteq Z => G[Y] \subseteq G[Z]

\* What every set has that Y is in and that does not grow.
Least(F, G, Y) == {x \in F : \A Z \in SUBSET F : Y \subseteq Z /\ G[Z] = Z => x \in Z}

\* The least set does not grow itself, and what Y grows to has the same one.
LEMMA LeastIsClosed ==
  ASSUME NEW F, NEW G \in [SUBSET F -> SUBSET F], Grows(F, G), NEW Y \in SUBSET F
  PROVE  /\ Least(F, G, Y) \in SUBSET F /\ Y \subseteq Least(F, G, Y)
         /\ G[Least(F, G, Y)] = Least(F, G, Y)
         /\ Least(F, G, G[Y]) = Least(F, G, Y)
         /\ G[Y] = Y => Least(F, G, Y) = Y
<1> DEFINE L == Least(F, G, Y)
<1>1. L \in SUBSET F /\ Y \subseteq L
  BY DEF Least
<1>2. \A Z \in SUBSET F : Y \subseteq Z /\ G[Z] = Z => L \subseteq Z
  BY DEF Least
<1> HIDE DEF L
<1>3. G[L] \in SUBSET F /\ L \subseteq G[L]
  BY <1>1 DEF Grows
<1>4. G[L] \subseteq L
  <2> SUFFICES ASSUME NEW x \in G[L], NEW Z \in SUBSET F, Y \subseteq Z, G[Z] = Z
               PROVE  x \in Z
    BY <1>3 DEF L, Least
  <2>1. L \subseteq Z
    BY <1>2
  <2> QED
    BY <1>1, <2>1 DEF Grows
<1>5. G[Y] \in SUBSET F /\ Y \subseteq G[Y]
  BY DEF Grows
<1>6. \A Z \in SUBSET F : G[Z] = Z => (G[Y] \subseteq Z <=> Y \subseteq Z)
  BY <1>5 DEF Grows
<1>7. Least(F, G, G[Y]) = L
  BY <1>6 DEF L, Least
<1>8. G[Y] = Y => L \subseteq Y
  BY <1>2
<1> QED
  BY <1>1, <1>3, <1>4, <1>7, <1>8 DEF L

\* There is such an f, which finds the least sets.
LEMMA LeastCloses ==
  ASSUME NEW F, NEW G \in [SUBSET F -> SUBSET F], Grows(F, G)
  PROVE  Closes([Y \in SUBSET F |-> Least(F, G, Y)], F, G)
<1> DEFINE f == [Y \in SUBSET F |-> Least(F, G, Y)]
<1> SUFFICES ASSUME NEW Y \in SUBSET F
             PROVE  Least(F, G, Y) = IF G[Y] = Y THEN Y ELSE f[G[Y]]
  BY DEF Closes
<1>1. G[Y] \in SUBSET F
  OBVIOUS
<1> QED
  BY <1>1, LeastIsClosed

\* And no other: of the sets that it would be wrong about, one has the least outside
\* of it, and so it is right about what that one grows to.
LEMMA ClosingIsLeast ==
  ASSUME NEW F, IsFiniteSet(F), NEW G \in [SUBSET F -> SUBSET F], Grows(F, G),
         NEW f, Closes(f, F, G), NEW X \in SUBSET F
  PROVE  f[X] = Least(F, G, X)
<1> DEFINE Wrong == {Y \in SUBSET F : f[Y] # Least(F, G, Y)}
           Outside == {F \ Y : Y \in Wrong}
           R == StrictSubsetOrdering(F)
<1> SUFFICES ASSUME Wrong # {} PROVE FALSE
  OBVIOUS
<1>1. Outside \subseteq FiniteSubsetsOf(F) /\ Outside # {}
  <2>1. ASSUME NEW Y \in Wrong PROVE F \ Y \in FiniteSubsetsOf(F)
    <3>1. F \ Y \in SUBSET F
      OBVIOUS
    <3>2. IsFiniteSet(F \ Y)
      BY <3>1, FS_Subset
    <3> QED
      BY <3>1, <3>2 DEF FiniteSubsetsOf
  <2>2. \A u \in Outside : \E Y \in Wrong : u = F \ Y
    OBVIOUS
  <2>3. Outside # {}
    <3>1. PICK Y \in Wrong : TRUE
      OBVIOUS
    <3>2. F \ Y \in Outside
      OBVIOUS
    <3> QED
      BY <3>2
  <2> HIDE DEF Wrong, Outside
  <2> QED
    BY <2>1, <2>2, <2>3
<1>2. PICK t \in Outside : \A u \in Outside : <<u, t>> \notin R
  <2>1. IsWellFoundedOn(R, FiniteSubsetsOf(F))
    BY FS_StrictSubsetOrderingWellFounded
  <2> HIDE DEF Outside, R
  <2> QED
    BY <1>1, <2>1, WFMin, Zenon
<1>3. PICK Y \in Wrong : t = F \ Y
  OBVIOUS
<1>4. Y \in SUBSET F /\ G[Y] \in SUBSET F /\ Y \subseteq G[Y]
  BY DEF Grows
<1>5. f[Y] = IF G[Y] = Y THEN Y ELSE f[G[Y]]
  BY <1>4, Zenon DEF Closes
<1>6. Least(F, G, G[Y]) = Least(F, G, Y) /\ (G[Y] = Y => Least(F, G, Y) = Y)
  BY <1>4, LeastIsClosed
<1>7. G[Y] # Y /\ G[Y] \in Wrong
  BY <1>3, <1>4, <1>5, <1>6
<1>8. F \ G[Y] \in Outside /\ <<F \ G[Y], t>> \in R
  <2>1. F \ G[Y] \subseteq F \ Y /\ F \ G[Y] # F \ Y /\ F \ Y \subseteq F
    BY <1>4, <1>7
  <2> QED
    BY <1>3, <1>7, <2>1 DEF StrictSubsetOrdering
<1> QED
  BY <1>2, <1>8

\* What holds of the empty sequence, and of a longer one if it holds of a shorter one.
LEMMA SeqInduction ==
  ASSUME NEW S, NEW I, <<>> \in I, \A s \in Seq(S), x \in S : s \in I => Append(s, x) \in I
  PROVE  \A s \in Seq(S) : s \in I
<1> DEFINE J == {n \in Nat : \A s \in Seq(S) : Len(s) = n => s \in I}
<1>1. 0 \in J
  BY EmptySeq
<1>2. \A n \in Nat : n \in J => n + 1 \in J
  <2> SUFFICES ASSUME NEW n \in Nat, \A s \in Seq(S) : Len(s) = n => s \in I,
                      NEW s \in Seq(S), Len(s) = n + 1
               PROVE  s \in I
    OBVIOUS
  <2>1. s # <<>>
    BY EmptySeq
  <2>2. /\ Front(s) \in Seq(S) /\ Last(s) \in S /\ Len(Front(s)) = n
        /\ s = Append(Front(s), Last(s))
    BY <2>1, FrontLast, FrontAppend
  <2> QED
    BY <2>2
<1> HIDE DEF J
<1>3. \A n \in Nat : n \in J
  BY <1>1, <1>2, SetInduction
<1> QED
  BY <1>3 DEF J

-----------------------------------------------------------------------------
\* The sequence of what f makes of the elements of s.
Each(f, s) == [i \in DOMAIN s |-> f[s[i]]]

\* f makes elements of T of those of S.
Maps(f, S, T) == \A x \in S : f[x] \in T

LEMMA EachType ==
  ASSUME NEW S, NEW T, NEW f, Maps(f, S, T), NEW s \in Seq(S)
  PROVE  /\ Each(f, s) \in Seq(T) /\ Len(Each(f, s)) = Len(s) /\ DOMAIN Each(f, s) = DOMAIN s
         /\ \A i \in DOMAIN s : Each(f, s)[i] = f[s[i]]
<1>1. Len(s) \in Nat /\ DOMAIN s = 1..Len(s) /\ \A i \in 1..Len(s) : s[i] \in S
  OBVIOUS
<1>2. Each(f, s) = [i \in 1..Len(s) |-> f[s[i]]]
  BY <1>1 DEF Each
<1>3. \A i \in 1..Len(s) : f[s[i]] \in T
  BY <1>1 DEF Maps
<1> QED
  BY <1>1, <1>2, <1>3

LEMMA EachEmpty ==
  ASSUME NEW S, NEW T, NEW f, Maps(f, S, T)
  PROVE  Each(f, <<>>) = <<>>
<1> DEFINE e == <<>>
<1>1. e \in Seq(S) /\ Len(e) = 0 /\ Len(e) \in Nat
  OBVIOUS
<1> HIDE DEF e
<1>2. Each(f, e) \in Seq(T) /\ Len(Each(f, e)) = Len(e)
  <2>1. e \in Seq(S)
    BY <1>1
  <2> QED
    BY <2>1, EachType
<1>3. Each(f, e) = <<>>
  BY <1>1, <1>2, EmptySeq
<1> QED
  BY <1>3 DEF e

LEMMA EachAppend ==
  ASSUME NEW S, NEW T, NEW f, Maps(f, S, T), NEW s \in Seq(S), NEW x \in S
  PROVE  Each(f, Append(s, x)) = Append(Each(f, s), f[x])
<1> DEFINE r == Append(s, x)
           n == Len(s)
           l == Each(f, r)
           k == Each(f, s)
           m == Append(k, f[x])
<1>1. /\ r \in Seq(S) /\ Len(r) = n + 1 /\ n \in Nat /\ DOMAIN r = 1..n + 1
      /\ r[n + 1] = x /\ \A i \in 1..n : r[i] = s[i]
  OBVIOUS
<1>2. DOMAIN s = 1..n
  OBVIOUS
<1> HIDE DEF r
<1>3. l \in Seq(T) /\ Len(l) = n + 1 /\ \A i \in 1..n + 1 : l[i] = f[r[i]]
  BY <1>1, EachType
<1>4. k \in Seq(T) /\ Len(k) = n /\ \A i \in 1..n : k[i] = f[s[i]]
  BY <1>2, EachType
<1> HIDE DEF l, k
<1>5. f[x] \in T
  BY DEF Maps
<1>6. m \in Seq(T) /\ Len(m) = n + 1 /\ m[n + 1] = f[x] /\ \A i \in 1..n : m[i] = k[i]
  BY <1>1, <1>4, <1>5
<1> HIDE DEF m
<1>7. \A i \in 1..n + 1 : l[i] = m[i]
  <2>1. \A i \in 1..n + 1 : i \in 1..n \/ i = n + 1
    BY <1>1
  <2> QED
    BY <1>1, <1>3, <1>4, <1>6, <2>1
<1>8. l = m
  BY <1>1, <1>3, <1>6, <1>7, SeqEqual
<1> QED
  BY <1>8 DEF l, m, k, r

\* What is kept of what f makes of s is what f makes of what is kept.
LEMMA KeptOfEach ==
  ASSUME NEW S, NEW T, NEW f, Maps(f, S, T), NEW K, NEW L,
         \A x \in S : f[x] \in L <=> x \in K
  PROVE  \A s \in Seq(S) : Kept(Each(f, s), L) = Each(f, Kept(s, K))
<1> DEFINE I == {s \in Seq(S) : Kept(Each(f, s), L) = Each(f, Kept(s, K))}
<1>1. <<>> \in I
  <2>1. Kept(Each(f, <<>>), L) = Each(f, Kept(<<>>, K))
    BY EachEmpty, KeptEmpty
  <2>2. <<>> \in Seq(S)
    OBVIOUS
  <2> QED
    BY <2>1, <2>2
<1>2. ASSUME NEW s \in Seq(S), NEW x \in S, s \in I
      PROVE  Append(s, x) \in I
  <2> DEFINE k == Kept(s, K)
             l == Each(f, s)
  <2>1. Kept(l, L) = Each(f, k)
    BY <1>2
  <2>2. Each(f, Append(s, x)) = Append(l, f[x])
    BY EachAppend
  <2>3. l \in Seq(T) /\ f[x] \in T
    BY EachType DEF Maps
  <2>4. k \in Seq(S)
    BY KeptType
  <2>5. /\ f[x] \in L => Kept(Append(l, f[x]), L) = Append(Kept(l, L), f[x])
        /\ f[x] \notin L => Kept(Append(l, f[x]), L) = Kept(l, L)
    <3> HIDE DEF l
    <3> QED
      BY ONLY <2>3, KeptAppend
  <2>6. /\ x \in K => Kept(Append(s, x), K) = Append(k, x)
        /\ x \notin K => Kept(Append(s, x), K) = k
    BY KeptAppend
  <2>7. Each(f, Append(k, x)) = Append(Each(f, k), f[x])
    <3> HIDE DEF k
    <3> QED
      BY <2>4, EachAppend
  <2>8. f[x] \in L <=> x \in K
    OBVIOUS
  <2> HIDE DEF k, l
  <2>9. Kept(Each(f, Append(s, x)), L) = Each(f, Kept(Append(s, x), K))
    BY <2>1, <2>2, <2>5, <2>6, <2>7, <2>8
  <2> QED
    BY <2>9
<1> HIDE DEF I
<1>3. \A s \in Seq(S) : s \in I
  BY ONLY <1>1, <1>2, SeqInduction
<1> QED
  BY <1>3 DEF I

LEMMA RangeConcat ==
  ASSUME NEW S, NEW u \in Seq(S), NEW v \in Seq(S)
  PROVE  /\ u \o v \in Seq(S) /\ Len(u \o v) = Len(u) + Len(v)
         /\ Range(u \o v) = Range(u) \cup Range(v)
         /\ \A i \in 1..Len(u) : (u \o v)[i] \in Range(u)
         /\ \A i \in Len(u) + 1..Len(u) + Len(v) : (u \o v)[i] \in Range(v)
<1> DEFINE w == u \o v
           m == Len(u)
           n == Len(v)
<1>1. /\ m \in Nat /\ n \in Nat /\ DOMAIN u = 1..m /\ DOMAIN v = 1..n
      /\ w \in Seq(S) /\ Len(w) = m + n /\ DOMAIN w = 1..m + n
      /\ \A i \in 1..m : w[i] = u[i]
      /\ \A i \in 1..n : w[m + i] = v[i]
  OBVIOUS
<1> HIDE DEF w, m, n
<1>2. ASSUME NEW i \in m + 1..m + n PROVE w[i] \in Range(v)
  <2>1. i - m \in 1..n /\ m + (i - m) = i
    BY <1>1
  <2>2. w[i] = v[i - m]
    BY <1>1, <2>1
  <2> QED
    BY <1>1, <2>1, <2>2 DEF Range
<1>3. ASSUME NEW i \in 1..m PROVE w[i] \in Range(u)
  BY <1>1 DEF Range
<1>4. \A i \in 1..m + n : i \in 1..m \/ i \in m + 1..m + n
  BY <1>1
<1>5. Range(w) \subseteq Range(u) \cup Range(v)
  BY <1>1, <1>2, <1>3, <1>4 DEF Range
<1>6. Range(u) \subseteq Range(w)
  <2>1. \A i \in 1..m : i \in 1..m + n
    BY <1>1
  <2> QED
    BY <1>1, <2>1 DEF Range
<1>7. Range(v) \subseteq Range(w)
  <2>1. \A i \in 1..n : m + i \in 1..m + n
    BY <1>1
  <2> QED
    BY <1>1, <2>1 DEF Range
<1> QED
  BY <1>1, <1>2, <1>3, <1>5, <1>6, <1>7 DEF w, m, n

=============================================================================
