---------------------------- MODULE GrammarProofs ----------------------------
(***************************************************************************)
(* That the sets which Grammar::finalize accumulates are right, for every  *)
(* grammar file: no set holds a terminal without a reason (Justified), and *)
(* when a pass changes nothing, every production is Settled and none is    *)
(* missing, which is where it matters that the sets by definition are the  *)
(* least ones (ReachedLeast, NullableLeast).  Before that, that parsing    *)
(* and the elimination of left recursion leave a sequence of productions   *)
(* without sets.  Behind it, that construct() makes a table of such sets   *)
(* that predicts (TablePredicts), which is what DecidesLanguage of         *)
(* AnalyzerProofs needs.                                                   *)
(***************************************************************************)
EXTENDS GrammarFile, SyntaxTableConstruct, SequenceLemmas

-----------------------------------------------------------------------------
(* Reachability.                                                                *)

Closed(rel, S) == \A e \in rel : e[1] \in S => e[2] \in S

\* What one more step reaches.
Onward(rel, S) == S \cup {e[2] : e \in {e \in rel : e[1] \in S}}

\* The symbols reached in 0, 1, ... n steps.
Rounds(f, rel, X, n) ==
  f[0] = X /\ \A i \in 1..n : f[i] = Onward(rel, f[i - 1])

LEMMA ReachedRounds ==
  ASSUME NEW rel, IsFiniteSet(rel), NEW X
  PROVE  \E f : Rounds(f, rel, X, Cardinality(rel)) /\ Reached(rel, X) = f[Cardinality(rel)]
<1> DEFINE n == Cardinality(rel)
           U == X \cup {e[2] : e \in rel}
           V == SUBSET U
           Body(f, i) == IF i = 0 THEN X
                         ELSE f[i - 1] \cup {e[2] : e \in {e \in rel : e[1] \in f[i - 1]}}
           F == CHOOSE f : f = [i \in 0..n |-> Body(f, i)]
           G == [p \in V \X (1..n) |-> Onward(rel, p[1])]
<1>0. n \in Nat
  BY FS_CardinalityType
<1>1. Reached(rel, X) = F[n]
  BY DEF Reached
<1>2. G \in [V \X (1..n) -> V]
  <2>1. \A S \in V : Onward(rel, S) \in V
    BY DEF Onward
  <2> HIDE DEF V, n
  <2> QED
    BY <2>1
<1>3. PICK f \in [0..n -> V] : Iterates(f, X, n, G)
  <2>1. X \in V
    OBVIOUS
  <2> HIDE DEF V, n, G
  <2> QED
    BY <1>0, <1>2, <2>1, RecursiveFunction, Zenon
<1>4. \A i \in 1..n : f[i] = Onward(rel, f[i - 1])
  <2> TAKE i \in 1..n
  <2>1. i - 1 \in 0..n
    BY <1>0
  <2>2. f[i - 1] \in V
    BY <2>1
  <2>3. f[i] = G[<<f[i - 1], i>>]
    BY <1>3 DEF Iterates
  <2> HIDE DEF V, n
  <2> QED
    BY <2>2, <2>3
<1>5. f[0] = X
  BY <1>3 DEF Iterates
<1>6. f = [i \in 0..n |-> Body(f, i)]
  <2>1. \A i \in 0..n : f[i] = Body(f, i)
    <3>1. \A i \in 0..n : i = 0 \/ i \in 1..n
      BY <1>0
    <3>2. \A i \in 1..n : i # 0
      BY <1>0
    <3> QED
      BY <1>4, <1>5, <3>1, <3>2 DEF Onward
  <2> HIDE DEF Body
  <2> QED
    BY <2>1
<1>7. F = [i \in 0..n |-> Body(F, i)]
  <2> HIDE DEF Body
  <2> QED
    BY <1>6
<1> HIDE DEF F
<1>8. \A i \in 0..n : F[i] = Body(F, i)
  <2> HIDE DEF Body
  <2> QED
    BY <1>7
<1>9. F[0] = X
  <2>1. 0 \in 0..n
    BY <1>0
  <2>2. F[0] = Body(F, 0)
    BY <1>8, <2>1
  <2> QED
    BY <2>2
<1>10. \A i \in 1..n : F[i] = Onward(rel, F[i - 1])
  <2> TAKE i \in 1..n
  <2>1. i \in 0..n /\ i # 0
    BY <1>0
  <2>2. F[i] = Body(F, i)
    BY <1>8, <2>1
  <2> QED
    BY <2>1, <2>2 DEF Onward
<1> QED
  BY <1>1, <1>9, <1>10 DEF Rounds

\* What is reached includes the start, and is included in every closed set that does.
LEMMA ReachedLeast ==
  ASSUME NEW rel, IsFiniteSet(rel), NEW X
  PROVE  /\ X \subseteq Reached(rel, X)
         /\ \A Z : X \subseteq Z /\ Closed(rel, Z) => Reached(rel, X) \subseteq Z
<1> DEFINE n == Cardinality(rel)
<1>0. n \in Nat
  BY FS_CardinalityType
<1>1. PICK f : Rounds(f, rel, X, n) /\ Reached(rel, X) = f[n]
  BY ReachedRounds
<1> HIDE DEF n
<1>2. f[0] = X /\ \A i \in 1..n : f[i] = Onward(rel, f[i - 1])
  BY <1>1 DEF Rounds
<1>3. X \subseteq f[n]
  <2> DEFINE I == {i \in Nat : i <= n => X \subseteq f[i]}
  <2>1. 0 \in I
    BY <1>2
  <2>2. \A i \in Nat : i \in I => i + 1 \in I
    <3> SUFFICES ASSUME NEW i \in Nat, i + 1 <= n, X \subseteq f[i] PROVE X \subseteq f[i + 1]
      BY <1>0
    <3>1. i + 1 \in 1..n /\ (i + 1) - 1 = i
      BY <1>0
    <3> QED
      BY <1>2, <3>1 DEF Onward
  <2> HIDE DEF I
  <2>3. n \in I
    BY <1>0, <2>1, <2>2, SetInduction
  <2> QED
    BY <1>0, <2>3 DEF I
<1>4. ASSUME NEW Z, X \subseteq Z, Closed(rel, Z) PROVE f[n] \subseteq Z
  <2> DEFINE I == {i \in Nat : i <= n => f[i] \subseteq Z}
  <2>1. 0 \in I
    BY <1>2, <1>4
  <2>2. \A i \in Nat : i \in I => i + 1 \in I
    <3> SUFFICES ASSUME NEW i \in Nat, i + 1 <= n, f[i] \subseteq Z PROVE f[i + 1] \subseteq Z
      BY <1>0
    <3>1. i + 1 \in 1..n /\ (i + 1) - 1 = i
      BY <1>0
    <3> QED
      BY <1>2, <1>4, <3>1 DEF Onward, Closed
  <2> HIDE DEF I
  <2>3. n \in I
    BY <1>0, <2>1, <2>2, SetInduction
  <2> QED
    BY <1>0, <2>3 DEF I
<1> QED
  BY <1>1, <1>3, <1>4

\* Each round that is not the last follows a pair it did not follow before, so there
\* are no more rounds than pairs.
LEMMA ReachedClosed ==
  ASSUME NEW rel, IsFiniteSet(rel), NEW X
  PROVE  Closed(rel, Reached(rel, X))
<1> DEFINE n == Cardinality(rel)
<1>0. n \in Nat
  BY FS_CardinalityType
<1>1. PICK f : Rounds(f, rel, X, n) /\ Reached(rel, X) = f[n]
  BY ReachedRounds
<1> HIDE DEF n
<1>2. \A i \in 1..n : f[i] = Onward(rel, f[i - 1])
  BY <1>1 DEF Rounds
<1> DEFINE Followed(i) == {e \in rel : e[1] \in f[i]}
           I == {i \in Nat : i <= n => Closed(rel, f[i]) \/ Cardinality(Followed(i)) > i}
<1>3. \A i \in Nat : /\ IsFiniteSet(Followed(i)) /\ Cardinality(Followed(i)) \in Nat
                     /\ Cardinality(Followed(i)) <= n
  <2> TAKE i \in Nat
  <2> DEFINE T == Followed(i)
  <2>1. T \in SUBSET rel
    OBVIOUS
  <2> HIDE DEF T
  <2>2. IsFiniteSet(T) /\ Cardinality(T) <= n
    BY <2>1, FS_Subset DEF n
  <2>3. Cardinality(T) \in Nat
    BY <2>2, FS_CardinalityType
  <2> QED
    BY <2>2, <2>3 DEF T
<1>4. 0 \in I
  <2> SUFFICES ASSUME ~Closed(rel, f[0]) PROVE Cardinality(Followed(0)) > 0
    BY <1>0
  <2>1. Followed(0) # {}
    BY DEF Closed
  <2>2. IsFiniteSet(Followed(0)) /\ Cardinality(Followed(0)) \in Nat
    BY <1>3
  <2> DEFINE T == Followed(0)
  <2> HIDE DEF T
  <2>3. Cardinality(T) # 0
    BY <2>1, <2>2, FS_EmptySet DEF T
  <2> QED
    BY <2>2, <2>3 DEF T
<1>5. \A i \in Nat : i \in I => i + 1 \in I
  <2> SUFFICES ASSUME NEW i \in Nat, i + 1 <= n,
                      Closed(rel, f[i]) \/ Cardinality(Followed(i)) > i,
                      ~Closed(rel, f[i + 1])
               PROVE  Cardinality(Followed(i + 1)) > i + 1
    BY <1>0
  <2>1. f[i + 1] = Onward(rel, f[i])
    <3>1. i + 1 \in 1..n /\ (i + 1) - 1 = i
      BY <1>0
    <3> QED
      BY <1>2, <3>1
  <2>2. ~Closed(rel, f[i])
    BY <2>1 DEF Closed, Onward
  <2>3. PICK e \in rel : e[1] \in f[i + 1] /\ e[2] \notin f[i + 1]
    BY DEF Closed
  <2>4. e \in Followed(i + 1) /\ e \notin Followed(i) /\ Followed(i) \subseteq Followed(i + 1)
    BY <2>1, <2>3 DEF Onward
  <2> DEFINE S == Followed(i)
             T == Followed(i + 1)
             Q == S \cup {e}
  <2>5. /\ IsFiniteSet(S) /\ IsFiniteSet(T) /\ Cardinality(S) \in Nat
        /\ Cardinality(T) \in Nat
    BY <1>3
  <2>6. e \notin S /\ Q \in SUBSET T /\ Cardinality(S) > i
    BY <2>2, <2>4
  <2> HIDE DEF S, T
  <2>7. Cardinality(Q) = Cardinality(S) + 1
    BY <2>5, <2>6, FS_AddElement
  <2> HIDE DEF Q
  <2>8. Cardinality(Q) <= Cardinality(T)
    BY <2>5, <2>6, FS_Subset
  <2>9. Cardinality(T) > i + 1
    BY <2>5, <2>6, <2>7, <2>8
  <2> QED
    BY <2>9 DEF T
<1> HIDE DEF I
<1>6. n \in I
  BY <1>0, <1>4, <1>5, SetInduction
<1>7. Closed(rel, f[n]) \/ Cardinality(Followed(n)) > n
  BY <1>0, <1>6 DEF I
<1> HIDE DEF Followed
<1> QED
  BY <1>0, <1>1, <1>3, <1>7

LEMMA ReachedMonotonic ==
  ASSUME NEW rel, IsFiniteSet(rel), NEW X, NEW Y, X \subseteq Y
  PROVE  Reached(rel, X) \subseteq Reached(rel, Y)
<1>1. Y \subseteq Reached(rel, Y) /\ Closed(rel, Reached(rel, Y))
  BY ReachedLeast, ReachedClosed
<1>2. X \subseteq Reached(rel, Y)
  BY <1>1
<1> QED
  BY <1>1, <1>2, ReachedLeast, Zenon

-----------------------------------------------------------------------------
(* The relations between symbols, of rules whose right-hand sides are sequences.*)

IsRuleSet(rules) ==
  /\ IsFiniteSet(rules)
  /\ \A r \in rules : r.symbols \in Seq(Range(r.symbols))

\* All symbols of the rules.
Everything(rules) == Names(rules) \cup UNION {Range(r.symbols) : r \in rules}

LEMMA EverythingFinite ==
  ASSUME NEW rules, IsRuleSet(rules)
  PROVE  IsFiniteSet(Everything(rules))
<1>1. IsFiniteSet(Names(rules))
  <2> DEFINE T == Names(rules)
             h == [r \in rules |-> r.name]
  <2>1. h \in Surjection(rules, T)
    BY DEF Names, Surjection
  <2> HIDE DEF T, h
  <2>2. IsFiniteSet(T)
    BY <2>1, FS_Surjection DEF IsRuleSet
  <2> QED
    BY <2>2 DEF T
<1>2. IsFiniteSet(UNION {Range(r.symbols) : r \in rules})
  <2> DEFINE T == {Range(r.symbols) : r \in rules}
             h == [r \in rules |-> Range(r.symbols)]
  <2>1. h \in Surjection(rules, T)
    BY DEF Surjection
  <2>2. \A Q \in T : IsFiniteSet(Q)
    <3> SUFFICES ASSUME NEW r \in rules PROVE IsFiniteSet(Range(r.symbols))
      OBVIOUS
    <3> DEFINE s == r.symbols
               Q == Range(s)
               k == Len(s)
    <3>1. s \in Seq(Q)
      BY DEF IsRuleSet
    <3>2. k \in Nat /\ DOMAIN s = 1..k /\ s \in [1..k -> Q]
      BY <3>1
    <3>3. s \in Surjection(1..k, Q)
      BY <3>2 DEF Surjection, Range
    <3> HIDE DEF s, k, Q
    <3>4. IsFiniteSet(1..k)
      BY <3>2, FS_Interval
    <3>5. IsFiniteSet(Q)
      BY <3>3, <3>4, FS_Surjection
    <3> QED
      BY <3>5 DEF Q, s
  <2> HIDE DEF T, h
  <2>3. IsFiniteSet(T)
    BY <2>1, FS_Surjection DEF IsRuleSet
  <2>4. IsFiniteSet(UNION T)
    BY <2>2, <2>3, FS_UNION
  <2> QED
    BY <2>4 DEF T
<1> DEFINE A == Names(rules)
           B == UNION {Range(r.symbols) : r \in rules}
<1> HIDE DEF A, B
<1>3. IsFiniteSet(A \cup B)
  BY <1>1, <1>2, FS_Union DEF A, B
<1> QED
  BY <1>3 DEF A, B, Everything

LEMMA RelationsFinite ==
  ASSUME NEW rules, IsRuleSet(rules), NEW N
  PROVE  /\ IsFiniteSet(BeginsWith(rules, N))
         /\ IsFiniteSet(EndsWith(rules, N))
<1> DEFINE U == Everything(rules)
           P == U \X U
<1>1. IsFiniteSet(P)
  <2>1. IsFiniteSet(U)
    BY EverythingFinite
  <2> HIDE DEF U
  <2> QED
    BY <2>1, FS_Product
<1>2. \A r \in rules : \A i \in DOMAIN r.symbols : <<r.name, r.symbols[i]>> \in P
  BY DEF Everything, Names, Range
<1>3. BeginsWith(rules, N) \in SUBSET P
  BY <1>2 DEF BeginsWith
<1>4. EndsWith(rules, N) \in SUBSET P
  BY <1>2 DEF EndsWith
<1> HIDE DEF P
<1> QED
  BY <1>1, <1>3, <1>4, FS_Subset

\* The nullable symbols are closed under the rules, and in every closed set.
LEMMA NullableLeast ==
  ASSUME NEW rules
  PROVE  /\ ClosedUnderEpsilon(rules, Nullable(rules))
         /\ Nullable(rules) \subseteq Names(rules)
         /\ \A N \in SUBSET Names(rules) :
              ClosedUnderEpsilon(rules, N) => Nullable(rules) \subseteq N
<1>1. \A N \in SUBSET Names(rules) :
        ClosedUnderEpsilon(rules, N) => Nullable(rules) \subseteq N
  BY DEF Nullable
<1>2. ClosedUnderEpsilon(rules, Nullable(rules))
  <2> SUFFICES ASSUME NEW r \in rules, Range(r.symbols) \subseteq Nullable(rules)
               PROVE  r.name \in Nullable(rules)
    BY DEF ClosedUnderEpsilon
  <2>1. r.name \in Names(rules)
    BY DEF Names
  <2>2. ASSUME NEW N \in SUBSET Names(rules), ClosedUnderEpsilon(rules, N)
        PROVE  r.name \in N
    BY <1>1, <2>2 DEF ClosedUnderEpsilon
  <2> QED
    BY <2>1, <2>2 DEF Nullable
<1> QED
  BY <1>1, <1>2 DEF Nullable

-----------------------------------------------------------------------------
(* Productions, and what a visit does to them.                                  *)

\* A record with the fields of a production, whose handle is a sequence.
IsProduction(r) ==
  /\ r = [name |-> r.name, handle |-> r.handle, epsilon |-> r.epsilon,
          first |-> r.first, follow |-> r.follow]
  /\ r.handle \in Seq(Range(r.handle))
  /\ r.epsilon \in BOOLEAN

AreProductions(ps) ==
  ps \in Seq(Range(ps)) /\ \A p \in DOMAIN ps : IsProduction(ps[p])

\* The sets hold terminals only.
HoldTerminals(ps) ==
  \A p \in DOMAIN ps :
    ps[p].first \subseteq TerminalSymbols /\ ps[p].follow \subseteq TerminalSymbols

SameRules(ps, qs) ==
  /\ DOMAIN qs = DOMAIN ps
  /\ \A p \in DOMAIN ps : qs[p].name = ps[p].name /\ qs[p].handle = ps[p].handle

SymbolsOf(ps, p) == Symbols(ps[p].handle)

\* A function over 1..n is a sequence of what it comes to.
LEMMA FunctionIsSequence ==
  ASSUME NEW n \in Nat, NEW f, f = [i \in 1..n |-> f[i]]
  PROVE  f \in Seq(Range(f)) /\ Len(f) = n
<1>1. f \in [1..n -> Range(f)]
  BY DEF Range
<1> HIDE DEF Range
<1> QED
  BY <1>1

LEMMA InSeqOfRange ==
  ASSUME NEW C, NEW s \in Seq(C)
  PROVE  s \in Seq(Range(s))
<1>1. Len(s) \in Nat /\ s = [i \in 1..Len(s) |-> s[i]]
  OBVIOUS
<1> QED
  BY <1>1, FunctionIsSequence

LEMMA SequenceIsFunction ==
  ASSUME NEW s, s \in Seq(Range(s))
  PROVE  /\ Len(s) \in Nat /\ DOMAIN s = 1..Len(s)
         /\ s = [i \in 1..Len(s) |-> s[i]]
OBVIOUS

LEMMA SymbolsType ==
  ASSUME NEW h, h \in Seq(Range(h))
  PROVE  /\ Symbols(h) \in Seq(Range(Symbols(h)))
         /\ Len(Symbols(h)) \in Nat /\ DOMAIN Symbols(h) = 1..Len(Symbols(h))
         /\ \A i \in DOMAIN Symbols(h) : Symbols(h)[i] \notin Actions
<1> DEFINE S == Range(h)
           K == Range(h) \ Actions
           s == Symbols(h)
<1>1. s \in Seq(S \cap K)
  <2>1. Kept(h, K) \in Seq(S \cap K)
    <3> HIDE DEF S, K
    <3>1. h \in Seq(S)
      BY DEF S
    <3> QED
      BY <3>1, KeptType
  <2> QED
    BY <2>1 DEF Symbols
<1> HIDE DEF s
<1>2. Len(s) \in Nat /\ DOMAIN s = 1..Len(s) /\ s = [i \in 1..Len(s) |-> s[i]]
  BY <1>1
<1>3. \A i \in DOMAIN s : s[i] \notin Actions
  BY <1>1
<1>4. s \in Seq(Range(s))
  BY <1>2, FunctionIsSequence
<1> QED
  BY <1>2, <1>3, <1>4 DEF s

LEMMA SymbolsOfType ==
  ASSUME NEW ps, AreProductions(ps), NEW p \in DOMAIN ps
  PROVE  /\ SymbolsOf(ps, p) \in Seq(Range(SymbolsOf(ps, p)))
         /\ Len(SymbolsOf(ps, p)) \in Nat
         /\ DOMAIN SymbolsOf(ps, p) = 1..Len(SymbolsOf(ps, p))
         /\ \A i \in DOMAIN SymbolsOf(ps, p) : SymbolsOf(ps, p)[i] \notin Actions
<1>1. ps[p].handle \in Seq(Range(ps[p].handle))
  BY DEF AreProductions, IsProduction
<1> QED
  BY <1>1, SymbolsType DEF SymbolsOf

LEMMA RulesAreRules ==
  ASSUME NEW ps, AreProductions(ps)
  PROVE  /\ IsRuleSet(RulesOf(ps))
         /\ \A r : r \in RulesOf(ps) <=>
              \E p \in DOMAIN ps : r = [name |-> ps[p].name, symbols |-> SymbolsOf(ps, p)]
         /\ \A nt : nt \in Names(RulesOf(ps)) <=> \E p \in DOMAIN ps : ps[p].name = nt
<1>1. \A r : r \in RulesOf(ps) <=>
        \E p \in DOMAIN ps : r = [name |-> ps[p].name, symbols |-> SymbolsOf(ps, p)]
  BY DEF RulesOf, SymbolsOf
<1>2. \A nt : nt \in Names(RulesOf(ps)) <=> \E p \in DOMAIN ps : ps[p].name = nt
  <2> TAKE nt
  <2>1. ASSUME nt \in Names(RulesOf(ps)) PROVE \E p \in DOMAIN ps : ps[p].name = nt
    BY <1>1, <2>1 DEF Names
  <2>2. ASSUME NEW p \in DOMAIN ps, ps[p].name = nt PROVE nt \in Names(RulesOf(ps))
    <3> DEFINE r == [name |-> ps[p].name, symbols |-> SymbolsOf(ps, p)]
    <3>1. r \in RulesOf(ps) /\ r.name = nt
      BY <1>1, <2>2
    <3> HIDE DEF r
    <3> QED
      BY <3>1 DEF Names
  <2> QED
    BY <2>1, <2>2
<1>3. IsFiniteSet(RulesOf(ps))
  <2> DEFINE T == RulesOf(ps)
             h == [p \in DOMAIN ps |-> [name |-> ps[p].name, symbols |-> SymbolsOf(ps, p)]]
             D == DOMAIN ps
  <2>1. h \in Surjection(D, T)
    BY DEF Surjection, RulesOf, SymbolsOf
  <2>2. IsFiniteSet(D)
    <3>1. D = 1..Len(ps) /\ Len(ps) \in Int
      BY SequenceIsFunction DEF AreProductions
    <3> QED
      BY <3>1, FS_Interval
  <2> HIDE DEF h, D, T
  <2>3. IsFiniteSet(T)
    BY <2>1, <2>2, FS_Surjection
  <2> QED
    BY <2>3 DEF T
<1>4. \A r \in RulesOf(ps) : r.symbols \in Seq(Range(r.symbols))
  <2> SUFFICES ASSUME NEW p \in DOMAIN ps
               PROVE  SymbolsOf(ps, p) \in Seq(Range(SymbolsOf(ps, p)))
    BY <1>1
  <2> QED
    BY SymbolsOfType
<1> QED
  BY <1>1, <1>2, <1>3, <1>4 DEF IsRuleSet

\* The sets of a grammar are those of its rules.
LEMMA SameRulesOf ==
  ASSUME NEW ps, NEW qs, SameRules(ps, qs)
  PROVE  RulesOf(qs) = RulesOf(ps)
BY DEF SameRules, RulesOf

LEMMA VisitFirstFacts ==
  ASSUME NEW ps, AreProductions(ps), NEW p \in DOMAIN ps
  PROVE  LET qs == VisitFirst(ps, p) IN
         /\ AreProductions(qs) /\ SameRules(ps, qs)
         /\ \A q \in DOMAIN ps : q # p => qs[q] = ps[q]
         /\ qs[p].follow = ps[p].follow
         /\ qs[p].first = ps[p].first \cup FirstOfAll(ps, SymbolsOf(ps, p))
         /\ qs[p].epsilon = (ps[p].epsilon \/ AllEpsilon(ps, SymbolsOf(ps, p)))
<1> DEFINE qs == VisitFirst(ps, p)
           F == FirstOfAll(ps, SymbolsOf(ps, p))
           r == ps[p]
           e == r.epsilon \/ AllEpsilon(ps, SymbolsOf(ps, p))
           r2 == [name |-> r.name, handle |-> r.handle, epsilon |-> e,
                  first |-> r.first \cup F, follow |-> r.follow]
<1>1. Len(ps) \in Nat /\ DOMAIN ps = 1..Len(ps) /\ ps = [i \in 1..Len(ps) |-> ps[i]]
  BY SequenceIsFunction DEF AreProductions
<1>2. /\ IsProduction(r)
      /\ r = [name |-> r.name, handle |-> r.handle, epsilon |-> r.epsilon,
              first |-> r.first, follow |-> r.follow]
  BY DEF AreProductions, IsProduction
<1>3. qs = [ps EXCEPT ![p].first = @ \cup F, ![p].epsilon = e]
  BY DEF VisitFirst, SymbolsOf
<1>4. e \in BOOLEAN
  BY <1>2 DEF AllEpsilon, IsProduction
<1> HIDE DEF F, e
<1>5. DOMAIN qs = DOMAIN ps /\ \A q \in DOMAIN ps : q # p => qs[q] = ps[q]
  BY <1>3
<1>6. qs[p] = [r EXCEPT !.first = @ \cup F, !.epsilon = e]
  <2> HIDE DEF qs
  <2> QED
    BY <1>3
<1>7. qs[p] = r2
  <2> DEFINE k == [r EXCEPT !.first = @ \cup F]
  <2> HIDE DEF r
  <2>1. k = [name |-> r.name, handle |-> r.handle, epsilon |-> r.epsilon,
             first |-> r.first \cup F, follow |-> r.follow]
    BY <1>2
  <2>2. [r EXCEPT !.first = @ \cup F, !.epsilon = e] = [k EXCEPT !.epsilon = e]
    OBVIOUS
  <2> HIDE DEF k
  <2>3. /\ k.name = r.name /\ k.handle = r.handle /\ k.epsilon = r.epsilon
        /\ k.first = r.first \cup F /\ k.follow = r.follow
    BY ONLY <2>1
  <2>4. k = [name |-> k.name, handle |-> k.handle, epsilon |-> k.epsilon,
             first |-> k.first, follow |-> k.follow]
    BY ONLY <2>1, <2>3
  <2>5. [k EXCEPT !.epsilon = e] = [name |-> k.name, handle |-> k.handle, epsilon |-> e,
                                    first |-> k.first, follow |-> k.follow]
    BY ONLY <2>4
  <2>6. [k EXCEPT !.epsilon = e] = r2
    BY ONLY <2>3, <2>5
  <2> HIDE DEF qs, r2
  <2> QED
    BY ONLY <1>6, <2>2, <2>6
<1>8. /\ r2.name = r.name /\ r2.handle = r.handle /\ r2.follow = r.follow
      /\ r2.first = r.first \cup F /\ r2.epsilon = e
  OBVIOUS
<1>9. IsProduction(r2)
  <2>1. r2 = [name |-> r2.name, handle |-> r2.handle, epsilon |-> r2.epsilon,
              first |-> r2.first, follow |-> r2.follow]
    BY <1>8
  <2>2. r2.handle \in Seq(Range(r2.handle)) /\ r2.epsilon \in BOOLEAN
    BY <1>2, <1>4, <1>8 DEF IsProduction
  <2> HIDE DEF r2
  <2> QED
    BY ONLY <2>1, <2>2 DEF IsProduction
<1> HIDE DEF qs, r2
<1>10. qs = [i \in 1..Len(ps) |-> qs[i]]
  BY <1>1, <1>3
<1>11. AreProductions(qs)
  <2>1. \A q \in DOMAIN qs : IsProduction(qs[q])
    BY <1>9, <1>5, <1>7 DEF AreProductions
  <2> QED
    BY <1>1, <1>10, <1>5, <2>1, FunctionIsSequence DEF AreProductions
<1>12. SameRules(ps, qs)
  BY <1>8, <1>5, <1>7 DEF SameRules
<1> QED
  BY <1>8, <1>11, <1>5, <1>7, <1>12 DEF qs, F, e

LEMMA VisitFollowFacts ==
  ASSUME NEW ps, AreProductions(ps), NEW p
  PROVE  LET qs == VisitFollow(ps, p) IN
         /\ AreProductions(qs) /\ SameRules(ps, qs)
         /\ \A q \in DOMAIN ps :
              /\ qs[q].epsilon = ps[q].epsilon /\ qs[q].first = ps[q].first
              /\ \A t : t \in qs[q].follow <=>
                   \/ t \in ps[q].follow
                   \/ \E i \in DOMAIN SymbolsOf(ps, p) :
                        SymbolsOf(ps, p)[i] = ps[q].name /\ t \in Trailer(ps, p, i)
<1> DEFINE qs == VisitFollow(ps, p)
           F(nt) == UNION {Trailer(ps, p, i) :
                             i \in {i \in DOMAIN SymbolsOf(ps, p) : SymbolsOf(ps, p)[i] = nt}}
           r2(q) == [name |-> ps[q].name, handle |-> ps[q].handle, epsilon |-> ps[q].epsilon,
                     first |-> ps[q].first, follow |-> ps[q].follow \cup F(ps[q].name)]
<1>1. Len(ps) \in Nat /\ DOMAIN ps = 1..Len(ps)
  BY SequenceIsFunction DEF AreProductions
<1>2. qs = [q \in DOMAIN ps |-> [ps[q] EXCEPT !.follow = @ \cup F(ps[q].name)]]
  BY DEF VisitFollow, SymbolsOf
<1>3. \A nt, t : t \in F(nt) <=> \E i \in DOMAIN SymbolsOf(ps, p) :
                                  SymbolsOf(ps, p)[i] = nt /\ t \in Trailer(ps, p, i)
  OBVIOUS
<1> HIDE DEF F
<1>4. \A q \in DOMAIN ps : [ps[q] EXCEPT !.follow = @ \cup F(ps[q].name)] = r2(q)
  <2> TAKE q \in DOMAIN ps
  <2>1. ps[q] = [name |-> ps[q].name, handle |-> ps[q].handle, epsilon |-> ps[q].epsilon,
                 first |-> ps[q].first, follow |-> ps[q].follow]
    BY DEF AreProductions, IsProduction
  <2> QED
    BY <2>1
<1>5. \A q \in DOMAIN ps : IsProduction(r2(q))
  BY DEF AreProductions, IsProduction
<1> HIDE DEF qs
<1>6. DOMAIN qs = DOMAIN ps /\ \A q \in DOMAIN ps : qs[q] = r2(q)
  BY <1>2, <1>4
<1>7. qs = [i \in 1..Len(ps) |-> qs[i]]
  BY <1>1, <1>2
<1>8. AreProductions(qs)
  <2>1. \A q \in DOMAIN qs : IsProduction(qs[q])
    BY <1>5, <1>6
  <2> QED
    BY <1>1, <1>7, <2>1, FunctionIsSequence DEF AreProductions
<1> QED
  BY <1>3, <1>6, <1>8 DEF qs, SameRules

-----------------------------------------------------------------------------
(* What a visit looks up, in the terms of the definition.                       *)

\* The nonterminals with a production whose flag is set.
Erasable(ps) == {nt \in Names(RulesOf(ps)) : ContainsEpsilon(ps, nt)}

LEMMA ErasableIsFlagged ==
  ASSUME NEW ps, AreProductions(ps), NEW b
  PROVE  /\ ContainsEpsilon(ps, b) <=> b \in Erasable(ps)
         /\ b \in Erasable(ps) <=>
              IsNonTerminal(b) /\ \E p \in DOMAIN ps : ps[p].name = b /\ ps[p].epsilon
BY RulesAreRules DEF Erasable, ContainsEpsilon, Named

LEMMA AllEpsilonIsAdjacent ==
  ASSUME NEW ps, AreProductions(ps), NEW s, s \in Seq(Range(s))
  PROVE  /\ AllEpsilon(ps, s) <=> Adjacent(Erasable(ps), s, 0, Len(s) + 1)
         /\ AllEpsilon(ps, s) <=> Range(s) \subseteq Erasable(ps)
<1>1. Len(s) \in Nat /\ DOMAIN s = 1..Len(s)
  BY SequenceIsFunction
<1>2. \A b : ContainsEpsilon(ps, b) <=> b \in Erasable(ps)
  BY ErasableIsFlagged
<1>3. AllEpsilon(ps, s) <=> \A i \in 1..Len(s) : s[i] \in Erasable(ps)
  BY <1>1, <1>2 DEF AllEpsilon, Range
<1>4. 0 + 1 .. (Len(s) + 1) - 1 = 1..Len(s) /\ 0 < Len(s) + 1
  BY <1>1
<1> QED
  BY <1>1, <1>2, <1>3, <1>4 DEF Adjacent, AllEpsilon

LEMMA FirstOfAllIsAdjacent ==
  ASSUME NEW ps, AreProductions(ps), NEW s, s \in Seq(Range(s)), NEW t
  PROVE  t \in FirstOfAll(ps, s) <=>
           \E i \in DOMAIN s : Adjacent(Erasable(ps), s, 0, i) /\ t \in FirstOf(ps, s[i])
<1>1. Len(s) \in Nat /\ DOMAIN s = 1..Len(s)
  BY SequenceIsFunction
<1>2. \A b : ContainsEpsilon(ps, b) <=> b \in Erasable(ps)
  BY ErasableIsFlagged
<1>3. \A i \in DOMAIN s :
        AllEpsilon(ps, SubSeq(s, 1, i - 1)) <=> Adjacent(Erasable(ps), s, 0, i)
  <2> TAKE i \in DOMAIN s
  <2> DEFINE u == SubSeq(s, 1, i - 1)
  <2>1. DOMAIN u = 1..i-1 /\ \A k \in 1..i-1 : u[k] = s[k]
    BY <1>1
  <2> HIDE DEF u
  <2>2. AllEpsilon(ps, u) <=> \A k \in 1..i-1 : s[k] \in Erasable(ps)
    BY <1>2, <2>1 DEF AllEpsilon, Range
  <2>3. 0 + 1 .. i - 1 = 1..i-1 /\ 0 < i
    BY <1>1
  <2> QED
    BY <2>2, <2>3 DEF Adjacent, u
<1>4. t \in FirstOfAll(ps, s) <=>
        \E i \in DOMAIN s : AllEpsilon(ps, SubSeq(s, 1, i - 1)) /\ t \in FirstOf(ps, s[i])
  BY DEF FirstOfAll
<1> QED
  BY <1>3, <1>4

LEMMA TrailerIsAdjacent ==
  ASSUME NEW ps, AreProductions(ps), NEW p \in DOMAIN ps, NEW i \in DOMAIN SymbolsOf(ps, p),
         NEW t
  PROVE  LET s == SymbolsOf(ps, p) IN
         t \in Trailer(ps, p, i) <=>
           \/ \E j \in DOMAIN s : Adjacent(Erasable(ps), s, i, j) /\ t \in FirstOf(ps, s[j])
           \/ Adjacent(Erasable(ps), s, i, Len(s) + 1) /\ t \in FollowOf(ps, ps[p].name)
<1> DEFINE s == SymbolsOf(ps, p)
           u == SubSeq(s, i + 1, Len(s))
           E == Erasable(ps)
<1>1. s \in Seq(Range(s)) /\ Len(s) \in Nat /\ DOMAIN s = 1..Len(s) /\ i \in 1..Len(s)
  BY SymbolsOfType
<1>2. t \in Trailer(ps, p, i) <=>
        t \in FirstOfAll(ps, u) \/ (AllEpsilon(ps, u) /\ t \in FollowOf(ps, ps[p].name))
  BY DEF Trailer, SymbolsOf
<1> HIDE DEF s
<1>3. Len(u) = Len(s) - i /\ DOMAIN u = 1..(Len(s) - i) /\ \A k \in DOMAIN u : u[k] = s[i + k]
  BY <1>1
<1>4. Len(u) \in Nat
  BY <1>1, <1>3
<1> DEFINE C == Range(s)
<1> HIDE DEF C
<1>5. u \in Seq(Range(u))
  <2>1. s \in Seq(C) /\ i + 1 \in Int /\ i + 1 >= 1
    BY <1>1 DEF C
  <2>2. u \in Seq(C)
    BY <1>1, <2>1
  <2> HIDE DEF u
  <2> QED
    BY <2>2, InSeqOfRange
<1> HIDE DEF u, E
<1>6. \A k \in 1..Len(u) + 1 : Adjacent(E, u, 0, k) <=> Adjacent(E, s, i, i + k)
  <2> TAKE k \in 1..Len(u) + 1
  <2>1. Adjacent(E, u, 0, k) <=> \A l \in 1..k-1 : s[i + l] \in E
    <3>1. 0 < k /\ 0 + 1 .. k - 1 = 1..k-1
      BY <1>1, <1>3, <1>4
    <3>2. \A l \in 1..k-1 : u[l] = s[i + l]
      BY <1>1, <1>3, <1>4
    <3> QED
      BY <3>1, <3>2 DEF Adjacent
  <2>2. Adjacent(E, s, i, i + k) <=> \A l \in i+1..i+k-1 : s[l] \in E
    BY <1>1, <1>3 DEF Adjacent
  <2>3. \A l \in i+1..i+k-1 : l - i \in 1..k-1 /\ i + (l - i) = l
    BY <1>1
  <2>4. \A l \in 1..k-1 : i + l \in i+1..i+k-1
    BY <1>1
  <2> QED
    BY <2>1, <2>2, <2>3, <2>4
<1>7. AllEpsilon(ps, u) <=> Adjacent(E, s, i, Len(s) + 1)
  <2>1. Len(u) + 1 \in 1..Len(u) + 1 /\ i + (Len(u) + 1) = Len(s) + 1
    BY <1>1, <1>3, <1>4
  <2>2. AllEpsilon(ps, u) <=> Adjacent(E, u, 0, Len(u) + 1)
    BY <1>5, AllEpsilonIsAdjacent DEF E
  <2>3. Adjacent(E, u, 0, Len(u) + 1) <=> Adjacent(E, s, i, i + (Len(u) + 1))
    BY <1>6, <2>1
  <2> QED
    BY ONLY <2>1, <2>2, <2>3
<1>8. t \in FirstOfAll(ps, u) <=>
        \E k \in DOMAIN u : Adjacent(E, u, 0, k) /\ t \in FirstOf(ps, u[k])
  BY <1>5, FirstOfAllIsAdjacent DEF E
<1>9. ASSUME NEW k \in DOMAIN u, Adjacent(E, u, 0, k), t \in FirstOf(ps, u[k])
      PROVE  i + k \in DOMAIN s /\ Adjacent(E, s, i, i + k) /\ t \in FirstOf(ps, s[i + k])
  BY <1>1, <1>3, <1>6, <1>9
<1>10. ASSUME NEW j \in DOMAIN s, Adjacent(E, s, i, j), t \in FirstOf(ps, s[j])
       PROVE  \E k \in DOMAIN u : Adjacent(E, u, 0, k) /\ t \in FirstOf(ps, u[k])
  <2>1. i < j
    BY <1>10 DEF Adjacent
  <2>2. j - i \in DOMAIN u /\ j - i \in 1..Len(u) + 1 /\ i + (j - i) = j
    BY <1>1, <1>3, <2>1
  <2> QED
    BY <1>3, <1>6, <1>10, <2>2
<1> QED
  BY <1>2, <1>7, <1>8, <1>9, <1>10 DEF s, E

-----------------------------------------------------------------------------
(* The sets of a grammar, and the relations they come from.                     *)

Begins(rules) == BeginsWith(rules, Nullable(rules))
Ends(rules) == EndsWith(rules, Nullable(rules))

FirstSet(rules, X) == Reached(Begins(rules), X) \cap TerminalSymbols

InFollow(rules, nt, t) ==
  \E m \in Meets(rules, Nullable(rules)) :
    nt \in Reached(Ends(rules), {m[1]}) /\ t \in FirstSet(rules, {m[2]})

LEMMA FirstSetOfUnion ==
  ASSUME NEW rules, IsRuleSet(rules), NEW X, NEW t
  PROVE  t \in FirstSet(rules, X) <=> \E x \in X : t \in FirstSet(rules, {x})
<1> DEFINE rel == Begins(rules)
           Z == UNION {Reached(rel, {x}) : x \in X}
<1>1. IsFiniteSet(rel)
  BY RelationsFinite DEF Begins
<1>2. \A x \in X : x \in Reached(rel, {x}) /\ Closed(rel, Reached(rel, {x}))
  <2> TAKE x \in X
  <2> HIDE DEF rel
  <2>1. {x} \subseteq Reached(rel, {x}) /\ Closed(rel, Reached(rel, {x}))
    BY <1>1, ReachedLeast, ReachedClosed
  <2> QED
    BY <2>1
<1>3. X \subseteq Z /\ Closed(rel, Z)
  BY <1>2 DEF Closed
<1>4. Reached(rel, X) \subseteq Z
  <2> HIDE DEF rel, Z
  <2> QED
    BY <1>1, <1>3, ReachedLeast
<1>5. \A x \in X : Reached(rel, {x}) \subseteq Reached(rel, X)
  <2> TAKE x \in X
  <2> DEFINE Y == {x}
  <2>1. Y \subseteq X
    OBVIOUS
  <2> HIDE DEF rel, Y
  <2>2. Reached(rel, Y) \subseteq Reached(rel, X)
    BY <1>1, <2>1, ReachedMonotonic
  <2> QED
    BY <2>2 DEF Y
<1> QED
  BY <1>4, <1>5 DEF FirstSet

LEMMA SetsOfRules ==
  ASSUME NEW rules, IsRuleSet(rules), NEW nt \in Names(rules)
  PROVE  /\ SymbolSets(rules).nullable = Nullable(rules)
         /\ SymbolSets(rules).first[nt] = FirstSet(rules, {nt})
         /\ \A t : t \in SymbolSets(rules).follow[nt] <=> InFollow(rules, nt, t)
<1> DEFINE N == Nullable(rules)
           next == {m[2] : m \in {m \in Meets(rules, N) : nt \in Reached(Ends(rules), {m[1]})}}
<1>1. SymbolSets(rules).nullable = Nullable(rules)
  BY DEF SymbolSets
<1>2. SymbolSets(rules).first[nt] = FirstSet(rules, {nt})
  BY DEF SymbolSets, FirstSet, Begins
<1>3. SymbolSets(rules).follow[nt] = FirstSet(rules, next)
  BY DEF SymbolSets, FirstSet, Begins, Ends
<1>4. \A t : t \in FirstSet(rules, next) <=> \E x \in next : t \in FirstSet(rules, {x})
  <2> HIDE DEF next
  <2> QED
    BY FirstSetOfUnion
<1>5. ASSUME NEW t PROVE t \in SymbolSets(rules).follow[nt] <=> InFollow(rules, nt, t)
  BY <1>3, <1>4 DEF InFollow
<1> QED
  BY <1>1, <1>2, <1>5

\* How FIRST and FOLLOW sets of the symbols of a rule go together.
LEMMA FirstSetFacts ==
  ASSUME NEW rules, IsRuleSet(rules)
  PROVE  /\ \A t \in TerminalSymbols : t \in FirstSet(rules, {t})
         /\ \A e \in Begins(rules) : FirstSet(rules, {e[2]}) \subseteq FirstSet(rules, {e[1]})
<1> DEFINE rel == Begins(rules)
<1>1. IsFiniteSet(rel)
  BY RelationsFinite DEF Begins
<1> HIDE DEF rel
<1>2. ASSUME NEW x PROVE x \in Reached(rel, {x}) /\ Closed(rel, Reached(rel, {x}))
  <2>1. {x} \subseteq Reached(rel, {x}) /\ Closed(rel, Reached(rel, {x}))
    BY <1>1, ReachedLeast, ReachedClosed
  <2> QED
    BY <2>1
<1>3. ASSUME NEW e \in rel PROVE Reached(rel, {e[2]}) \subseteq Reached(rel, {e[1]})
  <2> DEFINE X == {e[2]}
             Z == Reached(rel, {e[1]})
  <2>1. X \subseteq Z /\ Closed(rel, Z)
    BY <1>2, <1>3 DEF Closed
  <2> HIDE DEF X, Z
  <2>2. Reached(rel, X) \subseteq Z
    BY <1>1, <2>1, ReachedLeast
  <2> QED
    BY <2>2 DEF X, Z
<1> QED
  BY <1>2, <1>3 DEF FirstSet, rel

LEMMA FollowFacts ==
  ASSUME NEW rules, IsRuleSet(rules), NEW t
  PROVE  /\ \A m \in Meets(rules, Nullable(rules)) :
              t \in FirstSet(rules, {m[2]}) => InFollow(rules, m[1], t)
         /\ \A e \in Ends(rules) : InFollow(rules, e[1], t) => InFollow(rules, e[2], t)
<1> DEFINE rel == Ends(rules)
<1>1. IsFiniteSet(rel)
  BY RelationsFinite DEF Ends
<1> HIDE DEF rel
<1>2. ASSUME NEW x PROVE x \in Reached(rel, {x}) /\ Closed(rel, Reached(rel, {x}))
  <2>1. {x} \subseteq Reached(rel, {x}) /\ Closed(rel, Reached(rel, {x}))
    BY <1>1, ReachedLeast, ReachedClosed
  <2> QED
    BY <2>1
<1> QED
  BY <1>2 DEF InFollow, Closed, rel

LEMMA RelationsOfProductions ==
  ASSUME NEW ps, AreProductions(ps), NEW N, NEW a, NEW b
  PROVE  /\ <<a, b>> \in BeginsWith(RulesOf(ps), N) <=>
              \E p \in DOMAIN ps : \E i \in DOMAIN SymbolsOf(ps, p) :
                 /\ a = ps[p].name /\ b = SymbolsOf(ps, p)[i]
                 /\ Adjacent(N, SymbolsOf(ps, p), 0, i)
         /\ <<a, b>> \in EndsWith(RulesOf(ps), N) <=>
              \E p \in DOMAIN ps : \E i \in DOMAIN SymbolsOf(ps, p) :
                 /\ a = ps[p].name /\ b = SymbolsOf(ps, p)[i]
                 /\ Adjacent(N, SymbolsOf(ps, p), i, Len(SymbolsOf(ps, p)) + 1)
         /\ <<a, b>> \in Meets(RulesOf(ps), N) <=>
              \E p \in DOMAIN ps : \E i, j \in DOMAIN SymbolsOf(ps, p) :
                 /\ a = SymbolsOf(ps, p)[i] /\ b = SymbolsOf(ps, p)[j]
                 /\ Adjacent(N, SymbolsOf(ps, p), i, j)
<1> DEFINE rule(p) == [name |-> ps[p].name, symbols |-> SymbolsOf(ps, p)]
<1>1. \A r : r \in RulesOf(ps) <=> \E p \in DOMAIN ps : r = rule(p)
  BY RulesAreRules
<1>2. \A p : rule(p).name = ps[p].name /\ rule(p).symbols = SymbolsOf(ps, p)
  OBVIOUS
<1> HIDE DEF rule
<1>3. <<a, b>> \in BeginsWith(RulesOf(ps), N) <=>
        \E r \in RulesOf(ps) : \E i \in DOMAIN r.symbols :
           a = r.name /\ b = r.symbols[i] /\ Adjacent(N, r.symbols, 0, i)
  BY DEF BeginsWith
<1>4. <<a, b>> \in EndsWith(RulesOf(ps), N) <=>
        \E r \in RulesOf(ps) : \E i \in DOMAIN r.symbols :
           /\ a = r.name /\ b = r.symbols[i]
           /\ Adjacent(N, r.symbols, i, Len(r.symbols) + 1)
  BY DEF EndsWith
<1>5. <<a, b>> \in Meets(RulesOf(ps), N) <=>
        \E r \in RulesOf(ps) : \E i, j \in DOMAIN r.symbols :
           a = r.symbols[i] /\ b = r.symbols[j] /\ Adjacent(N, r.symbols, i, j)
  <2>1. ASSUME NEW r \in RulesOf(ps), NEW i \in DOMAIN r.symbols, NEW j \in DOMAIN r.symbols,
               a = r.symbols[i], b = r.symbols[j], Adjacent(N, r.symbols, i, j)
        PROVE  <<a, b>> \in Meets(RulesOf(ps), N)
    <3> DEFINE ij == <<i, j>>
    <3>1. /\ ij \in (DOMAIN r.symbols) \X (DOMAIN r.symbols)
          /\ Adjacent(N, r.symbols, ij[1], ij[2])
          /\ <<a, b>> = <<r.symbols[ij[1]], r.symbols[ij[2]]>>
      BY <2>1
    <3> HIDE DEF ij
    <3> QED
      BY <3>1 DEF Meets
  <2>2. ASSUME <<a, b>> \in Meets(RulesOf(ps), N)
        PROVE  \E r \in RulesOf(ps) : \E i, j \in DOMAIN r.symbols :
                  a = r.symbols[i] /\ b = r.symbols[j] /\ Adjacent(N, r.symbols, i, j)
    <3>1. PICK r \in RulesOf(ps) : \E ij \in (DOMAIN r.symbols) \X (DOMAIN r.symbols) :
            /\ Adjacent(N, r.symbols, ij[1], ij[2])
            /\ <<a, b>> = <<r.symbols[ij[1]], r.symbols[ij[2]]>>
      BY <2>2 DEF Meets
    <3> QED
      BY <3>1
  <2> QED
    BY <2>1, <2>2
<1> QED
  BY <1>1, <1>2, <1>3, <1>4, <1>5

-----------------------------------------------------------------------------
(* No visit sets a flag or adds a terminal without reason.                      *)

Justified(ps) ==
  LET rules == RulesOf(ps) IN
  \A p \in DOMAIN ps :
    /\ ps[p].epsilon => ps[p].name \in Nullable(rules)
    /\ \A t \in ps[p].first : t \in FirstSet(rules, {ps[p].name})
    /\ \A t \in ps[p].follow : InFollow(rules, ps[p].name, t)

LEMMA FirstOfJustified ==
  ASSUME NEW ps, AreProductions(ps), Justified(ps), NEW b, b \notin Actions, NEW t,
         t \in FirstOf(ps, b)
  PROVE  t \in FirstSet(RulesOf(ps), {b})
<1>1. CASE IsNonTerminal(b)
  <2>1. PICK p \in DOMAIN ps : ps[p].name = b /\ t \in ps[p].first
    BY <1>1 DEF FirstOf, Named
  <2> QED
    BY <2>1 DEF Justified
<1>2. CASE ~IsNonTerminal(b)
  <2>1. t = b /\ b \in TerminalSymbols
    BY <1>2 DEF FirstOf, IsNonTerminal
  <2>2. \A x \in TerminalSymbols : x \in FirstSet(RulesOf(ps), {x})
    BY RulesAreRules, FirstSetFacts
  <2> QED
    BY <2>1, <2>2
<1> QED
  BY <1>1, <1>2

LEMMA AdjacentMonotonic ==
  ASSUME NEW N, NEW M, N \subseteq M, NEW s, NEW i, NEW j, Adjacent(N, s, i, j)
  PROVE  Adjacent(M, s, i, j)
BY DEF Adjacent

LEMMA ErasableJustified ==
  ASSUME NEW ps, AreProductions(ps), Justified(ps)
  PROVE  Erasable(ps) \subseteq Nullable(RulesOf(ps))
<1> SUFFICES ASSUME NEW b \in Erasable(ps) PROVE b \in Nullable(RulesOf(ps))
  OBVIOUS
<1>1. PICK p \in DOMAIN ps : ps[p].name = b /\ ps[p].epsilon
  BY ErasableIsFlagged
<1> QED
  BY <1>1 DEF Justified

LEMMA VisitFirstJustified ==
  ASSUME NEW ps, AreProductions(ps), Justified(ps), NEW p \in DOMAIN ps
  PROVE  Justified(VisitFirst(ps, p))
<1> DEFINE qs == VisitFirst(ps, p)
           rules == RulesOf(ps)
           s == SymbolsOf(ps, p)
<1>1. /\ SameRules(ps, qs)
      /\ \A q \in DOMAIN ps : q # p => qs[q] = ps[q]
      /\ qs[p].follow = ps[p].follow
      /\ qs[p].first = ps[p].first \cup FirstOfAll(ps, s)
      /\ qs[p].epsilon = (ps[p].epsilon \/ AllEpsilon(ps, s))
  BY VisitFirstFacts
<1> HIDE DEF qs
<1>2. RulesOf(qs) = rules /\ DOMAIN qs = DOMAIN ps /\ \A q \in DOMAIN ps : qs[q].name = ps[q].name
  BY <1>1, SameRulesOf DEF SameRules
<1>3. IsRuleSet(rules) /\ Erasable(ps) \subseteq Nullable(rules)
  BY RulesAreRules, ErasableJustified
<1>4. /\ s \in Seq(Range(s)) /\ \A i \in DOMAIN s : s[i] \notin Actions
  BY SymbolsOfType
<1>5. AllEpsilon(ps, s) => ps[p].name \in Nullable(rules)
  <2> SUFFICES ASSUME AllEpsilon(ps, s) PROVE ps[p].name \in Nullable(rules)
    OBVIOUS
  <2> DEFINE r == [name |-> ps[p].name, symbols |-> s]
  <2>1. r \in rules
    BY RulesAreRules
  <2>2. Range(s) \subseteq Nullable(rules)
    BY <1>3, <1>4, AllEpsilonIsAdjacent
  <2>3. r.name = ps[p].name /\ r.symbols = s
    OBVIOUS
  <2> HIDE DEF r, s
  <2>4. ClosedUnderEpsilon(rules, Nullable(rules))
    BY NullableLeast
  <2> QED
    BY ONLY <2>1, <2>2, <2>3, <2>4 DEF ClosedUnderEpsilon
<1>6. ASSUME NEW t \in FirstOfAll(ps, s) PROVE t \in FirstSet(rules, {ps[p].name})
  <2>1. PICK i \in DOMAIN s : Adjacent(Erasable(ps), s, 0, i) /\ t \in FirstOf(ps, s[i])
    BY <1>4, <1>6, FirstOfAllIsAdjacent
  <2>2. Adjacent(Nullable(rules), s, 0, i)
    <3> HIDE DEF s, rules
    <3> QED
      BY <1>3, <2>1, AdjacentMonotonic
  <2>3. <<ps[p].name, s[i]>> \in Begins(rules)
    BY <2>2, RelationsOfProductions DEF Begins
  <2>4. t \in FirstSet(rules, {s[i]})
    BY <1>4, <2>1, FirstOfJustified
  <2> DEFINE e == <<ps[p].name, s[i]>>
  <2>5. FirstSet(rules, {e[2]}) \subseteq FirstSet(rules, {e[1]})
    BY <1>3, <2>3, FirstSetFacts
  <2> QED
    BY <2>4, <2>5
<1>7. ASSUME NEW q \in DOMAIN ps
      PROVE  /\ qs[q].epsilon => ps[q].name \in Nullable(rules)
             /\ \A t \in qs[q].first : t \in FirstSet(rules, {ps[q].name})
             /\ \A t \in qs[q].follow : InFollow(rules, ps[q].name, t)
  <2>1. CASE q = p
    BY <1>1, <1>5, <1>6, <2>1 DEF Justified
  <2>2. CASE q # p
    BY <1>1, <2>2 DEF Justified
  <2> QED
    BY <2>1, <2>2
<1> HIDE DEF rules
<1>8. Justified(qs)
  BY <1>2, <1>7 DEF Justified
<1> QED
  BY <1>8 DEF qs

LEMMA VisitFollowJustified ==
  ASSUME NEW ps, AreProductions(ps), Justified(ps), NEW p \in DOMAIN ps
  PROVE  Justified(VisitFollow(ps, p))
<1> DEFINE qs == VisitFollow(ps, p)
           rules == RulesOf(ps)
           s == SymbolsOf(ps, p)
<1>1. /\ SameRules(ps, qs)
      /\ \A q \in DOMAIN ps :
           /\ qs[q].epsilon = ps[q].epsilon /\ qs[q].first = ps[q].first
           /\ \A t : t \in qs[q].follow <=>
                \/ t \in ps[q].follow
                \/ \E i \in DOMAIN s : s[i] = ps[q].name /\ t \in Trailer(ps, p, i)
  BY VisitFollowFacts
<1> HIDE DEF qs
<1>2. RulesOf(qs) = rules /\ DOMAIN qs = DOMAIN ps /\ \A q \in DOMAIN ps : qs[q].name = ps[q].name
  BY <1>1, SameRulesOf DEF SameRules
<1>3. IsRuleSet(rules) /\ Erasable(ps) \subseteq Nullable(rules)
  BY RulesAreRules, ErasableJustified
<1>4. /\ s \in Seq(Range(s)) /\ \A i \in DOMAIN s : s[i] \notin Actions
  BY SymbolsOfType
<1>5. ASSUME NEW i \in DOMAIN s, NEW t \in Trailer(ps, p, i) PROVE InFollow(rules, s[i], t)
  <2>1. CASE \E j \in DOMAIN s : Adjacent(Erasable(ps), s, i, j) /\ t \in FirstOf(ps, s[j])
    <3>1. PICK j \in DOMAIN s : Adjacent(Erasable(ps), s, i, j) /\ t \in FirstOf(ps, s[j])
      BY <2>1
    <3>2. Adjacent(Nullable(rules), s, i, j)
      <4> HIDE DEF s, rules
      <4> QED
        BY <1>3, <3>1, AdjacentMonotonic
    <3> DEFINE m == <<s[i], s[j]>>
    <3>3. m \in Meets(rules, Nullable(rules))
      BY <3>2, RelationsOfProductions
    <3>4. t \in FirstSet(rules, {m[2]})
      BY <1>4, <3>1, FirstOfJustified
    <3>5. InFollow(rules, m[1], t)
      BY <1>3, <3>3, <3>4, FollowFacts
    <3> QED
      BY <3>5
  <2>2. CASE Adjacent(Erasable(ps), s, i, Len(s) + 1) /\ t \in FollowOf(ps, ps[p].name)
    <3>1. Adjacent(Nullable(rules), s, i, Len(s) + 1)
      <4> HIDE DEF s, rules
      <4> QED
        BY <1>3, <2>2, AdjacentMonotonic
    <3> DEFINE e == <<ps[p].name, s[i]>>
    <3>2. e \in Ends(rules)
      BY <3>1, RelationsOfProductions DEF Ends
    <3>3. InFollow(rules, e[1], t)
      BY <2>2 DEF Justified, FollowOf, Named
    <3>4. InFollow(rules, e[2], t)
      BY <1>3, <3>2, <3>3, FollowFacts
    <3> QED
      BY <3>4
  <2> QED
    BY <1>5, <2>1, <2>2, TrailerIsAdjacent
<1>6. ASSUME NEW q \in DOMAIN ps
      PROVE  /\ qs[q].epsilon => ps[q].name \in Nullable(rules)
             /\ \A t \in qs[q].first : t \in FirstSet(rules, {ps[q].name})
             /\ \A t \in qs[q].follow : InFollow(rules, ps[q].name, t)
  BY <1>1, <1>5 DEF Justified
<1> HIDE DEF rules
<1>7. Justified(qs)
  BY <1>2, <1>6 DEF Justified
<1> QED
  BY <1>7 DEF qs

-----------------------------------------------------------------------------
(* When no visit adds anything any more, nothing is missing.                    *)

\* A visit of p would add nothing.
Settled(ps, p) ==
  LET s == SymbolsOf(ps, p) IN
  /\ AllEpsilon(ps, s) => ps[p].epsilon
  /\ FirstOfAll(ps, s) \subseteq ps[p].first
  /\ \A i \in DOMAIN s : \A q \in DOMAIN ps :
       ps[q].name = s[i] => Trailer(ps, p, i) \subseteq ps[q].follow

\* No terminal and no action has a production.
NamesApart(ps) == \A p \in DOMAIN ps : IsNonTerminal(ps[p].name)

LEMMA NullableComplete ==
  ASSUME NEW ps, AreProductions(ps), NamesApart(ps), \A p \in DOMAIN ps : Settled(ps, p)
  PROVE  Nullable(RulesOf(ps)) \subseteq Erasable(ps)
<1> DEFINE rules == RulesOf(ps)
           M == Erasable(ps)
<1>1. M \in SUBSET Names(rules)
  BY DEF Erasable
<1>2. ASSUME NEW p \in DOMAIN ps, Range(SymbolsOf(ps, p)) \subseteq M PROVE ps[p].name \in M
  <2>1. AllEpsilon(ps, SymbolsOf(ps, p))
    BY <1>2, SymbolsOfType, AllEpsilonIsAdjacent
  <2>2. ps[p].epsilon /\ IsNonTerminal(ps[p].name)
    BY <2>1 DEF Settled, NamesApart
  <2> QED
    BY <2>2, ErasableIsFlagged
<1>3. ClosedUnderEpsilon(rules, M)
  <2>1. \A r : r \in rules =>
          \E p \in DOMAIN ps : r.name = ps[p].name /\ r.symbols = SymbolsOf(ps, p)
    BY RulesAreRules
  <2> HIDE DEF M, rules
  <2> QED
    BY <1>2, <2>1 DEF ClosedUnderEpsilon
<1> HIDE DEF M, rules
<1>4. Nullable(rules) \subseteq M
  BY <1>1, <1>3, NullableLeast
<1> QED
  BY <1>4 DEF M, rules

LEMMA FirstComplete ==
  ASSUME NEW ps, AreProductions(ps), NamesApart(ps), \A p \in DOMAIN ps : Settled(ps, p),
         NEW b, NEW t \in FirstSet(RulesOf(ps), {b})
  PROVE  t \in FirstOf(ps, b)
<1> DEFINE rules == RulesOf(ps)
           rel == Begins(rules)
           Y == Reached(rel, {b})
           Z == {y \in Y : FirstOf(ps, y) \subseteq FirstOf(ps, b)}
<1>1. IsFiniteSet(rel)
  BY RulesAreRules, RelationsFinite DEF Begins
<1>2. b \in Y /\ Closed(rel, Y)
  <2> HIDE DEF rel
  <2>1. {b} \subseteq Y /\ Closed(rel, Y)
    BY <1>1, ReachedLeast, ReachedClosed
  <2> QED
    BY <2>1
<1>3. ASSUME NEW e \in rel PROVE FirstOf(ps, e[2]) \subseteq FirstOf(ps, e[1])
  <2>1. \E r \in rules : \E i \in DOMAIN r.symbols : e = <<r.name, r.symbols[i]>>
    BY DEF Begins, BeginsWith
  <2>2. e = <<e[1], e[2]>>
    BY <2>1
  <2>3. <<e[1], e[2]>> \in BeginsWith(rules, Nullable(rules))
    BY <1>3, <2>2 DEF Begins
  <2>4. PICK p \in DOMAIN ps : \E i \in DOMAIN SymbolsOf(ps, p) :
          /\ e[1] = ps[p].name /\ e[2] = SymbolsOf(ps, p)[i]
          /\ Adjacent(Nullable(rules), SymbolsOf(ps, p), 0, i)
    BY <2>3, RelationsOfProductions
  <2> DEFINE s == SymbolsOf(ps, p)
  <2>5. PICK i \in DOMAIN s : e[2] = s[i] /\ Adjacent(Nullable(rules), s, 0, i)
    BY <2>4
  <2>6. Adjacent(Erasable(ps), s, 0, i)
    <3>1. Nullable(rules) \subseteq Erasable(ps)
      BY NullableComplete
    <3> HIDE DEF s, rules
    <3> QED
      BY <2>5, <3>1, AdjacentMonotonic
  <2>7. FirstOf(ps, s[i]) \subseteq FirstOfAll(ps, s)
    <3>1. s \in Seq(Range(s))
      BY SymbolsOfType
    <3> HIDE DEF s
    <3> QED
      BY <2>6, <3>1, FirstOfAllIsAdjacent
  <2>8. FirstOfAll(ps, s) \subseteq ps[p].first
    BY DEF Settled
  <2>9. ps[p].first \subseteq FirstOf(ps, ps[p].name)
    BY DEF NamesApart, FirstOf, Named
  <2> QED
    BY <2>4, <2>5, <2>7, <2>8, <2>9
<1>4. {b} \subseteq Z /\ Closed(rel, Z)
  <2> HIDE DEF rel, Y
  <2> QED
    BY <1>2, <1>3 DEF Closed
<1>5. Y \subseteq Z
  <2> HIDE DEF rel, Z
  <2> QED
    BY <1>1, <1>4, ReachedLeast
<1>6. t \in Z /\ t \in TerminalSymbols
  BY <1>5 DEF FirstSet
<1>7. FirstOf(ps, t) = {t}
  BY <1>6 DEF FirstOf, IsNonTerminal
<1> QED
  BY <1>6, <1>7

LEMMA FollowComplete ==
  ASSUME NEW ps, AreProductions(ps), NamesApart(ps), \A p \in DOMAIN ps : Settled(ps, p),
         NEW nt, nt \in Names(RulesOf(ps)), NEW t, InFollow(RulesOf(ps), nt, t)
  PROVE  t \in FollowOf(ps, nt)
<1> DEFINE rules == RulesOf(ps)
           N == Nullable(rules)
           rel == Ends(rules)
<1>0. IsFiniteSet(rel)
  BY RulesAreRules, RelationsFinite DEF Ends
<1>1. PICK m \in Meets(rules, N) : nt \in Reached(rel, {m[1]}) /\ t \in FirstSet(rules, {m[2]})
  BY DEF InFollow
<1>2. PICK p \in DOMAIN ps : \E i, j \in DOMAIN SymbolsOf(ps, p) :
        /\ m[1] = SymbolsOf(ps, p)[i] /\ m[2] = SymbolsOf(ps, p)[j]
        /\ Adjacent(N, SymbolsOf(ps, p), i, j)
  <2>1. m = <<m[1], m[2]>>
    BY DEF Meets
  <2>2. <<m[1], m[2]>> \in Meets(rules, N)
    BY <2>1
  <2> QED
    BY <2>2, RelationsOfProductions
<1>3. N \subseteq Erasable(ps)
  BY NullableComplete
<1> DEFINE Y == Reached(rel, {m[1]})
           Z == {y \in Y : y \in Names(rules) => t \in FollowOf(ps, y)}
<1>4. \A q \in DOMAIN ps : \A i \in DOMAIN SymbolsOf(ps, q) :
        t \in Trailer(ps, q, i) /\ SymbolsOf(ps, q)[i] \in Names(rules)
          => t \in FollowOf(ps, SymbolsOf(ps, q)[i])
  <2> SUFFICES ASSUME NEW q \in DOMAIN ps, NEW i \in DOMAIN SymbolsOf(ps, q),
                      t \in Trailer(ps, q, i), SymbolsOf(ps, q)[i] \in Names(rules)
               PROVE  t \in FollowOf(ps, SymbolsOf(ps, q)[i])
    OBVIOUS
  <2>1. PICK k \in DOMAIN ps : ps[k].name = SymbolsOf(ps, q)[i]
    BY RulesAreRules
  <2>2. t \in ps[k].follow
    BY <2>1 DEF Settled
  <2> QED
    BY <2>1, <2>2 DEF FollowOf, Named
<1>5. m[1] \in Z
  <2> DEFINE s == SymbolsOf(ps, p)
  <2>1. PICK i, j \in DOMAIN s : m[1] = s[i] /\ m[2] = s[j] /\ Adjacent(N, s, i, j)
    BY <1>2
  <2>2. t \in FirstOf(ps, s[j])
    BY <1>1, <2>1, FirstComplete
  <2>3. Adjacent(Erasable(ps), s, i, j)
    <3> HIDE DEF s, N
    <3> QED
      BY <1>3, <2>1, AdjacentMonotonic
  <2>4. t \in Trailer(ps, p, i)
    BY <2>2, <2>3, TrailerIsAdjacent
  <2>5. {m[1]} \subseteq Y
    <3> HIDE DEF rel
    <3> QED
      BY <1>0, ReachedLeast
  <2> QED
    BY <1>4, <2>1, <2>4, <2>5
<1>6. ASSUME NEW e \in rel, e[1] \in Z PROVE e[2] \in Z
  <2>1. \E r \in rules : \E i \in DOMAIN r.symbols : e = <<r.name, r.symbols[i]>>
    BY DEF Ends, EndsWith
  <2>2. e = <<e[1], e[2]>>
    BY <2>1
  <2>3. <<e[1], e[2]>> \in EndsWith(rules, N)
    BY <1>6, <2>2 DEF Ends
  <2>4. PICK q \in DOMAIN ps : \E i \in DOMAIN SymbolsOf(ps, q) :
          /\ e[1] = ps[q].name /\ e[2] = SymbolsOf(ps, q)[i]
          /\ Adjacent(N, SymbolsOf(ps, q), i, Len(SymbolsOf(ps, q)) + 1)
    BY <2>3, RelationsOfProductions
  <2> DEFINE s == SymbolsOf(ps, q)
  <2>5. PICK i \in DOMAIN s : e[2] = s[i] /\ Adjacent(N, s, i, Len(s) + 1)
    BY <2>4
  <2>6. Adjacent(Erasable(ps), s, i, Len(s) + 1)
    <3> HIDE DEF s, N
    <3> QED
      BY <1>3, <2>5, AdjacentMonotonic
  <2>7. t \in FollowOf(ps, ps[q].name)
    <3>1. ps[q].name \in Names(rules)
      BY RulesAreRules
    <3> QED
      BY <1>6, <2>4, <3>1
  <2>8. t \in Trailer(ps, q, i)
    BY <2>6, <2>7, TrailerIsAdjacent
  <2>9. e[2] \in Y
    <3>1. Closed(rel, Y)
      <4> HIDE DEF rel
      <4> QED
        BY <1>0, ReachedClosed
    <3> QED
      BY <1>6, <3>1 DEF Closed
  <2> QED
    BY <1>4, <2>5, <2>8, <2>9
<1>7. {m[1]} \subseteq Z /\ Closed(rel, Z)
  BY <1>5, <1>6 DEF Closed
<1>8. Y \subseteq Z
  <2> HIDE DEF rel, Z
  <2> QED
    BY <1>0, <1>7, ReachedLeast
<1> QED
  BY <1>1, <1>8

LEMMA SameProductions ==
  ASSUME NEW ps, NEW qs, AreProductions(ps), AreProductions(qs), SameRules(ps, qs),
         \A q \in DOMAIN ps : /\ qs[q].epsilon <=> ps[q].epsilon
                              /\ qs[q].first = ps[q].first
                              /\ qs[q].follow = ps[q].follow
  PROVE  qs = ps
<1>1. ASSUME NEW q \in DOMAIN ps PROVE qs[q] = ps[q]
  <2> DEFINE r == ps[q]
             u == qs[q]
  <2>1. /\ r = [name |-> r.name, handle |-> r.handle, epsilon |-> r.epsilon,
                first |-> r.first, follow |-> r.follow]
        /\ u = [name |-> u.name, handle |-> u.handle, epsilon |-> u.epsilon,
                first |-> u.first, follow |-> u.follow]
        /\ r.epsilon \in BOOLEAN /\ u.epsilon \in BOOLEAN
    BY DEF AreProductions, IsProduction, SameRules
  <2>2. /\ u.name = r.name /\ u.handle = r.handle /\ u.first = r.first /\ u.follow = r.follow
        /\ u.epsilon <=> r.epsilon
    BY DEF SameRules
  <2> HIDE DEF r, u
  <2>3. u.epsilon = r.epsilon
    BY ONLY <2>1, <2>2
  <2>4. u = r
    BY ONLY <2>1, <2>2, <2>3
  <2> QED
    BY <2>4 DEF r, u
<1>2. DOMAIN qs = DOMAIN ps
  BY DEF SameRules
<1>3. ps = [q \in DOMAIN ps |-> ps[q]] /\ qs = [q \in DOMAIN qs |-> qs[q]]
  BY SequenceIsFunction DEF AreProductions
<1> QED
  BY ONLY <1>1, <1>2, <1>3

LEMMA UnchangedIsSettled ==
  ASSUME NEW ps, AreProductions(ps), NEW p \in DOMAIN ps, NEW qs,
         qs = VisitFollow(VisitFirst(ps, p), p), ~Grew(ps, qs), Flags(ps) = Flags(qs)
  PROVE  qs = ps /\ Settled(ps, p)
<1> DEFINE ms == VisitFirst(ps, p)
           s == SymbolsOf(ps, p)
<1>1. /\ AreProductions(ms) /\ SameRules(ps, ms)
      /\ \A q \in DOMAIN ps : q # p => ms[q] = ps[q]
      /\ ms[p].follow = ps[p].follow
      /\ ms[p].first = ps[p].first \cup FirstOfAll(ps, s)
      /\ ms[p].epsilon = (ps[p].epsilon \/ AllEpsilon(ps, s))
  BY VisitFirstFacts
<1> HIDE DEF ms
<1>2. /\ AreProductions(qs) /\ SameRules(ms, qs)
      /\ \A q \in DOMAIN ms :
           /\ qs[q].epsilon = ms[q].epsilon /\ qs[q].first = ms[q].first
           /\ \A t : t \in qs[q].follow <=>
                \/ t \in ms[q].follow
                \/ \E i \in DOMAIN SymbolsOf(ms, p) :
                     SymbolsOf(ms, p)[i] = ms[q].name /\ t \in Trailer(ms, p, i)
  BY <1>1, VisitFollowFacts DEF ms
<1>3. DOMAIN ms = DOMAIN ps /\ DOMAIN qs = DOMAIN ps /\ SameRules(ps, qs)
  BY <1>1, <1>2 DEF SameRules
<1>4. \A q \in DOMAIN ps : /\ qs[q].epsilon <=> ps[q].epsilon
                           /\ qs[q].first = ps[q].first
                           /\ qs[q].follow = ps[q].follow
  BY <1>3 DEF Grew, Flags
<1>5. qs = ps
  BY <1>2, <1>3, <1>4, SameProductions
<1>6. ms = ps
  <2>1. \A q \in DOMAIN ps : ms[q].follow = ps[q].follow
    BY <1>1
  <2>2. \A q \in DOMAIN ps : (ms[q].epsilon <=> ps[q].epsilon) /\ ms[q].first = ps[q].first
    BY <1>2, <1>3, <1>4
  <2> QED
    BY <1>1, <2>1, <2>2, SameProductions
<1>7. AllEpsilon(ps, s) => ps[p].epsilon
  BY <1>1, <1>6
<1>8. FirstOfAll(ps, s) \subseteq ps[p].first
  BY <1>1, <1>6
<1>9. \A i \in DOMAIN s : \A q \in DOMAIN ps :
        ps[q].name = s[i] => Trailer(ps, p, i) \subseteq ps[q].follow
  BY <1>2, <1>5, <1>6
<1> QED
  BY <1>5, <1>7, <1>8, <1>9 DEF Settled

-----------------------------------------------------------------------------
(* What the parser reads.                                                       *)

IsText(text) == text \in Seq(Range(text))

\* The lexemes of a text and its end.
Places(text) == 1..Len(text) + 1

LEMMA PlacesOfText ==
  ASSUME NEW text, IsText(text)
  PROVE  /\ Len(text) \in Nat /\ DOMAIN text = 1..Len(text)
         /\ Places(text) = 1..Len(text) + 1
         /\ 1 \in Places(text) /\ Len(text) + 1 \in Places(text)
<1>1. Len(text) \in Nat /\ DOMAIN text = 1..Len(text)
  BY SequenceIsFunction DEF IsText
<1> QED
  BY <1>1 DEF Places

LEMMA RecognizeFromRange ==
  ASSUME NEW text, IsText(text), NEW i \in Places(text)
  PROVE  RecognizeFrom(text, i) \in Places(text) /\ RecognizeFrom(text, i) >= i
<1> DEFINE n == Len(text)
           S == {j \in i..n + 1 : j \in DOMAIN text => text[j].kind # "LineFeed"}
           k == Min(S)
<1>1. n \in Nat /\ DOMAIN text = 1..n /\ i \in 1..n + 1
  BY PlacesOfText
<1>2. S \subseteq Nat /\ n + 1 \in S
  BY <1>1
<1>3. k \in S /\ \A j \in S : k <= j
  <2> HIDE DEF S
  <2> QED
    BY <1>2, MinIsLeast
<1> HIDE DEF k
<1>4. \A j \in i..k-1 : j \in DOMAIN text /\ text[j].kind = "LineFeed"
  <2> TAKE j \in i..k-1
  <2>1. j \in i..n + 1 /\ j < k /\ j \in DOMAIN text
    BY <1>1, <1>3
  <2>2. j \notin S
    BY <1>2, <1>3, <2>1
  <2> QED
    BY <2>1, <2>2
<1>5. \E j \in i..n + 1 : /\ j \in DOMAIN text => text[j].kind # "LineFeed"
                          /\ \A l \in i..j-1 : l \in DOMAIN text /\ text[l].kind = "LineFeed"
  BY <1>3, <1>4
<1>6. RecognizeFrom(text, i) \in i..n + 1
  BY <1>5 DEF RecognizeFrom
<1> QED
  BY <1>1, <1>6 DEF Places

LEMMA LineEndRange ==
  ASSUME NEW text, IsText(text), NEW i \in Places(text)
  PROVE  LineEnd(text, i) \in Places(text) /\ LineEnd(text, i) >= i
<1> DEFINE n == Len(text)
           S == {j \in i..n + 1 : j \in DOMAIN text => text[j].kind = "LineFeed"}
           k == Min(S)
<1>1. n \in Nat /\ DOMAIN text = 1..n /\ i \in 1..n + 1
  BY PlacesOfText
<1>2. S \subseteq Nat /\ n + 1 \in S
  BY <1>1
<1>3. k \in S /\ \A j \in S : k <= j
  <2> HIDE DEF S
  <2> QED
    BY <1>2, MinIsLeast
<1> HIDE DEF k
<1>4. \A j \in i..k-1 : text[j].kind # "LineFeed"
  <2> TAKE j \in i..k-1
  <2>1. j \in i..n + 1 /\ j < k /\ j \in DOMAIN text
    BY <1>1, <1>3
  <2>2. j \notin S
    BY <1>2, <1>3, <2>1
  <2> QED
    BY <2>1, <2>2
<1>5. \E j \in i..n + 1 : /\ j \in DOMAIN text => text[j].kind = "LineFeed"
                          /\ \A l \in i..j-1 : text[l].kind # "LineFeed"
  BY <1>3, <1>4
<1>6. LineEnd(text, i) \in i..n + 1
  BY <1>5 DEF LineEnd
<1> QED
  BY <1>1, <1>6 DEF Places

LEMMA AfterRange ==
  ASSUME NEW text, IsText(text), NEW i \in Places(text)
  PROVE  /\ After(text, i) \in Places(text) /\ After(text, i) >= i
         /\ TokenAt(text, i) \notin {"Eof", "Illegal"} => After(text, i) > i
<1>1. Len(text) \in Nat /\ DOMAIN text = 1..Len(text) /\ i \in 1..Len(text) + 1
  BY PlacesOfText
<1>2. ASSUME i <= Len(text)
      PROVE  RecognizeFrom(text, i + 1) \in Places(text) /\ RecognizeFrom(text, i + 1) >= i + 1
  <2>1. i + 1 \in Places(text)
    BY <1>1, <1>2 DEF Places
  <2> QED
    BY <2>1, RecognizeFromRange
<1>3. \A x \in Places(text) : x \in Nat
  BY <1>1 DEF Places
<1>4. CASE i > Len(text)
  BY <1>1, <1>4 DEF After, TokenAt
<1>5. CASE i <= Len(text) /\ text[i].kind = "Colon"
  <2>1. After(text, i) = i
    BY <1>5 DEF After
  <2>2. TokenAt(text, i) = "Illegal"
    BY <1>1, <1>5 DEF TokenAt
  <2> QED
    BY <1>1, <2>1, <2>2
<1>6. CASE i <= Len(text) /\ text[i].kind # "Colon"
  <2> DEFINE k == RecognizeFrom(text, i + 1)
  <2>1. After(text, i) = k
    BY <1>1, <1>6 DEF After
  <2>2. k \in Places(text) /\ k >= i + 1
    BY <1>2, <1>6
  <2> HIDE DEF k
  <2>3. k >= i /\ k > i
    BY <1>1, <1>3, <2>2
  <2> QED
    BY <2>1, <2>2, <2>3
<1> QED
  BY <1>1, <1>4, <1>5, <1>6

\* What is read from i on: it ends behind i, and is a sequence of elements of C.
IsReading(r, text, i, C) ==
  /\ r = [at |-> r.at, errors |-> r.errors, value |-> r.value]
  /\ r.at \in Places(text) /\ r.at >= i
  /\ r.errors \in Nat
  /\ r.value \in Seq(C)

Readings(text, C) == [at : Places(text), errors : Nat, value : Seq(C)]

LEMMA ReadingsAreReadings ==
  ASSUME NEW text, IsText(text), NEW C
  PROVE  /\ \A r, i : IsReading(r, text, i, C) => r \in Readings(text, C)
         /\ \A r \in Readings(text, C) : \A i \in Places(text) :
              r.at >= i => IsReading(r, text, i, C)
         /\ IsReading([at |-> Len(text) + 1, errors |-> 0, value |-> <<>>],
                      text, Len(text) + 1, C)
BY PlacesOfText DEF Readings, IsReading, Places

LEMMA HandlesType ==
  ASSUME NEW text, IsText(text), NEW declared
  PROVE  \E C : \A i \in Places(text) : IsReading(Handles(text, declared)[i], text, i, C)
<1> DEFINE n == Len(text) + 1
           element(x) == IF x.kind = "Identifier" /\ x.literal \in DOMAIN declared
                         THEN declared[x.literal]
                         ELSE x.literal
           action(id, close) ==
             ReadTo(After(text, close),
                    Mismatch(text, id, "Identifier") + Mismatch(text, close, "SetClose"),
                    <<ActionNamed(LiteralAt(text, id))>>)
           Body(f, i) ==
             CASE TokenAt(text, i) \in {"Literal", "Identifier"} ->
                    [f[After(text, i)] EXCEPT !.value = <<element(text[i])>> \o @]
               [] TokenAt(text, i) = "SetOpen" ->
                    action(After(text, i), After(text, After(text, i)))
               [] TokenAt(text, i) \in {"Semicolon", "Or"} -> ReadTo(i, 0, <<>>)
               [] OTHER -> ReadTo(i, 1, <<>>)
           F == CHOOSE f : f = [i \in 1..Len(text) + 1 |-> Body(f, i)]
           C == {element(text[i]) : i \in 1..n}
                  \cup {ActionNamed(LiteralAt(text, id)) : id \in 1..n}
           V == Readings(text, C)
           G == [p \in [1..n -> V] \X (1..n) |-> Body(p[1], p[2])]
<1>1. Handles(text, declared) = F
  BY DEF Handles
<1>2. n \in Nat /\ Places(text) = 1..n /\ 1 \in 1..n
  BY PlacesOfText
<1>3. \A i \in 1..n : /\ After(text, i) \in 1..n /\ After(text, i) >= i
                      /\ TokenAt(text, i) \notin {"Eof", "Illegal"} => After(text, i) > i
  BY <1>2, AfterRange
<1> HIDE DEF n
<1>4. ASSUME NEW f, NEW i \in 1..n,
             \A j \in 1..n : j > i => IsReading(f[j], text, j, C)
      PROVE  IsReading(Body(f, i), text, i, C)
  <2>1. CASE TokenAt(text, i) \in {"Literal", "Identifier"}
    <3> DEFINE k == After(text, i)
               e == element(text[i])
               r == f[k]
    <3>1. k \in 1..n /\ k > i
      BY <1>3, <2>1
    <3>2. e \in C
      OBVIOUS
    <3> HIDE DEF e, C, k
    <3>3. IsReading(r, text, k, C)
      BY <1>4, <3>1
    <3> HIDE DEF r
    <3>4. Body(f, i) = [r EXCEPT !.value = <<e>> \o @]
      BY <2>1 DEF r, k, e
    <3>5. <<e>> \o r.value \in Seq(C)
      BY <3>2, <3>3 DEF IsReading
    <3>6. [r EXCEPT !.value = <<e>> \o @]
            = [at |-> r.at, errors |-> r.errors, value |-> <<e>> \o r.value]
      <4> DEFINE v == <<e>> \o r.value
      <4>1. r = [at |-> r.at, errors |-> r.errors, value |-> r.value]
        BY <3>3 DEF IsReading
      <4> HIDE DEF v
      <4>2. [r EXCEPT !.value = v] = [at |-> r.at, errors |-> r.errors, value |-> v]
        BY ONLY <4>1
      <4> QED
        BY <4>2 DEF v
    <3>7. r.at >= i
      BY <1>2, <3>1, <3>3 DEF IsReading
    <3> HIDE DEF Body
    <3> QED
      BY <3>3, <3>4, <3>5, <3>6, <3>7 DEF IsReading
  <2>2. CASE TokenAt(text, i) = "SetOpen"
    <3> DEFINE id == After(text, i)
               close == After(text, id)
               end == After(text, close)
               e == ActionNamed(LiteralAt(text, id))
               m == Mismatch(text, id, "Identifier") + Mismatch(text, close, "SetClose")
    <3>1. id \in 1..n /\ close \in 1..n /\ end \in 1..n
      BY <1>3
    <3>2. end >= i
      <4>1. id >= i /\ close >= id /\ end >= close
        BY <1>3, <3>1
      <4> HIDE DEF id, close, end
      <4> QED
        BY <1>2, <3>1, <4>1
    <3>3. e \in C
      BY <3>1
    <3>4. m \in Nat
      BY DEF Mismatch
    <3>5. Body(f, i) = [at |-> end, errors |-> m, value |-> <<e>>]
      BY <2>2 DEF ReadTo
    <3> HIDE DEF Body, id, close, end, e, m, C
    <3> QED
      BY <1>2, <3>1, <3>2, <3>3, <3>4, <3>5 DEF IsReading
  <2>3. CASE TokenAt(text, i) \notin {"Literal", "Identifier", "SetOpen"}
    <3>1. PICK m \in {0, 1} : Body(f, i) = [at |-> i, errors |-> m, value |-> <<>>]
      BY <2>3 DEF ReadTo
    <3> HIDE DEF Body, C
    <3> QED
      BY <1>2, <3>1 DEF IsReading
  <2> QED
    BY <2>1, <2>2, <2>3
<1> HIDE DEF C
<1>5. ASSUME NEW f, NEW g, NEW i \in 1..n, \A j \in i+1..n : f[j] = g[j]
      PROVE  Body(f, i) = Body(g, i)
  <2>1. CASE TokenAt(text, i) \in {"Literal", "Identifier"}
    <3>1. After(text, i) \in i+1..n
      BY <1>2, <1>3, <2>1
    <3>2. f[After(text, i)] = g[After(text, i)]
      BY <1>5, <3>1
    <3> QED
      BY <2>1, <3>2
  <2>2. CASE TokenAt(text, i) \notin {"Literal", "Identifier"}
    BY <2>2
  <2> QED
    BY <2>1, <2>2
<1> DEFINE T == [i \in 1..n |-> {r \in V : r.at >= i}]
<1>6. \A r, i : IsReading(r, text, i, C) => r \in V
  BY ReadingsAreReadings
<1>7. \A r \in V : \A i \in 1..n : r.at >= i => IsReading(r, text, i, C)
  BY <1>2, ReadingsAreReadings
<1> HIDE DEF Body, V
<1>8. /\ T \in [1..n -> SUBSET V]
      /\ \A i \in 1..n : \A r : r \in T[i] <=> IsReading(r, text, i, C)
  BY <1>6, <1>7 DEF IsReading
<1>9. T[n] # {}
  <2> DEFINE r == [at |-> Len(text) + 1, errors |-> 0, value |-> <<>>]
  <2>1. IsReading(r, text, Len(text) + 1, C)
    BY ReadingsAreReadings
  <2> HIDE DEF r
  <2>2. n \in 1..n /\ IsReading(r, text, n, C)
    BY <1>2, <2>1 DEF n
  <2> QED
    BY <1>8, <2>2
<1>10. \A f \in [1..n -> V], i \in 1..n : G[<<f, i>>] = Body(f, i)
  OBVIOUS
<1> HIDE DEF G, T
<1>11. MakesTyped(G, n, V, T)
  <2> SUFFICES ASSUME NEW f \in [1..n -> V], NEW i \in 1..n, Typed(f, n, T, i)
               PROVE  /\ G[<<f, i>>] \in T[i]
                      /\ \A g \in [1..n -> V] :
                           (\A j \in i+1..n : f[j] = g[j]) => G[<<f, i>>] = G[<<g, i>>]
    BY DEF MakesTyped
  <2>1. \A j \in 1..n : j > i => j \in i+1..n
    BY <1>2
  <2>2. \A j \in i+1..n : j \in 1..n
    BY <1>2
  <2>3. \A j \in 1..n : j > i => IsReading(f[j], text, j, C)
    BY <1>8, <2>1 DEF Typed
  <2>4. IsReading(Body(f, i), text, i, C)
    BY <1>4, <2>3
  <2> QED
    BY <1>5, <1>8, <1>10, <2>4, ZenonT(30)
<1>12. \E f \in [1..n -> V] : Descends(f, n, G)
  <2>1. n > 0
    BY <1>2
  <2> QED
    BY <1>2, <1>8, <1>9, <1>11, <2>1, TypedDescent
<1>13. \E f : f = [i \in 1..n |-> Body(f, i)]
  <2>1. PICK f \in [1..n -> V] : Descends(f, n, G)
    BY <1>12
  <2>2. \A i \in 1..n : f[i] = Body(f, i)
    BY <1>10, <2>1 DEF Descends
  <2> QED
    BY <2>2
<1>14. F = [i \in 1..n |-> Body(F, i)]
  BY <1>13 DEF n
<1> HIDE DEF F
<1>15. \A i \in 1..n : F[i] = Body(F, i)
  BY <1>14
<1> DEFINE I == {i \in 1..n : IsReading(F[i], text, i, C)}
<1>16. \A i \in 1..n : (\A j \in i+1..n : j \in I) => i \in I
  <2> SUFFICES ASSUME NEW i \in 1..n, \A j \in i+1..n : j \in I
               PROVE  IsReading(F[i], text, i, C)
    OBVIOUS
  <2>1. \A j \in 1..n : j > i => j \in i+1..n
    BY <1>2
  <2>2. \A j \in 1..n : j > i => IsReading(F[j], text, j, C)
    BY <2>1
  <2> QED
    BY <1>4, <1>15, <2>2
<1>17. \A i \in 1..n : i \in I
  <2> HIDE DEF I
  <2> QED
    BY <1>2, <1>16, DescendingInduction
<1> QED
  BY <1>1, <1>2, <1>17

LEMMA AlternativesType ==
  ASSUME NEW text, IsText(text), NEW declared
  PROVE  \E C : \A i \in Places(text) :
           IsReading(Alternatives(text, declared)[i], text, i, Seq(C))
<1> DEFINE n == Len(text) + 1
           handle == Handles(text, declared)
           before(first, rest) == [rest EXCEPT !.errors = first.errors + @,
                                               !.value = <<first.value>> \o @]
           end(i) == ReadTo(After(text, i), Mismatch(text, i, "Semicolon"), <<>>)
           Body(f, i) ==
             before(handle[i],
                    IF TokenAt(text, handle[i].at) = "Or"
                    THEN f[After(text, handle[i].at)]
                    ELSE end(handle[i].at))
           F == CHOOSE f : f = [i \in 1..Len(text) + 1 |-> Body(f, i)]
<1>0. PICK E : \A i \in Places(text) : IsReading(handle[i], text, i, E)
  BY HandlesType
<1> DEFINE C == Seq(E)
           V == Readings(text, C)
           G == [p \in [1..n -> V] \X (1..n) |-> Body(p[1], p[2])]
<1>1. Alternatives(text, declared) = F
  BY DEF Alternatives
<1>2. n \in Nat /\ Places(text) = 1..n /\ 1 \in 1..n
  BY PlacesOfText
<1>3. \A i \in 1..n : /\ After(text, i) \in 1..n /\ After(text, i) >= i
                      /\ TokenAt(text, i) \notin {"Eof", "Illegal"} => After(text, i) > i
  BY <1>2, AfterRange
<1> HIDE DEF n, handle
<1>4. \A i \in 1..n : /\ handle[i].at \in 1..n /\ handle[i].at >= i
                       /\ handle[i].errors \in Nat /\ handle[i].value \in C
  BY <1>0, <1>2 DEF IsReading
<1> HIDE DEF C
<1>5. ASSUME NEW f, NEW i \in 1..n, TokenAt(text, handle[i].at) = "Or"
       PROVE  /\ After(text, handle[i].at) \in 1..n
              /\ After(text, handle[i].at) > i
  <2> DEFINE k == handle[i].at
             l == After(text, k)
  <2>1. k \in 1..n /\ k >= i
    BY <1>4
  <2>2. TokenAt(text, k) \notin {"Eof", "Illegal"}
    BY <1>5
  <2> HIDE DEF k
  <2>3. l \in 1..n /\ l > k
    BY <1>3, <2>1, <2>2
  <2> HIDE DEF l
  <2>4. l > i
    BY <1>2, <2>1, <2>3
  <2> QED
    BY <2>3, <2>4 DEF k, l
<1>6. ASSUME NEW f, NEW i \in 1..n,
             \A j \in 1..n : j > i => IsReading(f[j], text, j, C)
      PROVE  IsReading(Body(f, i), text, i, C)
  <2> DEFINE r == IF TokenAt(text, handle[i].at) = "Or"
                  THEN f[After(text, handle[i].at)]
                  ELSE end(handle[i].at)
             h == handle[i]
             m == h.errors + r.errors
             v == <<h.value>> \o r.value
  <2>1. IsReading(r, text, i, C)
    <3>1. CASE TokenAt(text, handle[i].at) = "Or"
      <4> DEFINE l == After(text, handle[i].at)
      <4>1. l \in 1..n /\ l > i
        BY <1>5, <3>1
      <4>2. r = f[l]
        BY <3>1
      <4> HIDE DEF l, r
      <4>3. IsReading(r, text, l, C)
        BY <1>6, <4>1, <4>2
      <4> QED
        BY <1>2, <4>1, <4>3 DEF IsReading
    <3>2. CASE TokenAt(text, handle[i].at) # "Or"
      <4> DEFINE k == handle[i].at
                 l == After(text, k)
                 e == Mismatch(text, k, "Semicolon")
      <4>1. k \in 1..n /\ k >= i
        BY <1>4
      <4>2. r = [at |-> l, errors |-> e, value |-> <<>>]
        BY <3>2 DEF ReadTo
      <4>3. e \in Nat
        BY DEF Mismatch
      <4> HIDE DEF k, r, e
      <4>4. l \in 1..n /\ l >= k
        BY <1>3, <4>1
      <4> HIDE DEF l
      <4>5. l >= i
        BY <1>2, <4>1, <4>4
      <4> QED
        BY <1>2, <4>2, <4>3, <4>4, <4>5 DEF IsReading
    <3> QED
      BY <3>1, <3>2
  <2>2. h.errors \in Nat /\ h.value \in C
    BY <1>4
  <2>3. Body(f, i) = [r EXCEPT !.errors = h.errors + @, !.value = <<h.value>> \o @]
    OBVIOUS
  <2> HIDE DEF r, h, Body
  <2>4. m \in Nat /\ v \in Seq(C)
    BY <2>1, <2>2 DEF IsReading
  <2>5. Body(f, i) = [at |-> r.at, errors |-> m, value |-> v]
    <3> DEFINE k == [r EXCEPT !.errors = m]
    <3>1. r = [at |-> r.at, errors |-> r.errors, value |-> r.value]
      BY <2>1 DEF IsReading
    <3>2. Body(f, i) = [r EXCEPT !.errors = m, !.value = v]
      BY <2>3
    <3> HIDE DEF m, v
    <3>3. k = [at |-> r.at, errors |-> m, value |-> r.value]
      BY ONLY <3>1
    <3>4. [r EXCEPT !.errors = m, !.value = v] = [k EXCEPT !.value = v]
      OBVIOUS
    <3> HIDE DEF k
    <3>5. k.at = r.at /\ k.errors = m
      BY ONLY <3>3
    <3>6. k = [at |-> k.at, errors |-> k.errors, value |-> k.value]
      BY ONLY <3>3
    <3>7. [k EXCEPT !.value = v] = [at |-> k.at, errors |-> k.errors, value |-> v]
      BY ONLY <3>6
    <3> QED
      BY ONLY <3>2, <3>4, <3>5, <3>7
  <2> HIDE DEF m, v
  <2> QED
    BY <2>1, <2>4, <2>5 DEF IsReading
<1>7. ASSUME NEW f, NEW g, NEW i \in 1..n, \A j \in i+1..n : f[j] = g[j]
      PROVE  Body(f, i) = Body(g, i)
  <2>1. CASE TokenAt(text, handle[i].at) = "Or"
    <3>1. After(text, handle[i].at) \in i+1..n
      BY <1>2, <1>5, <2>1
    <3>2. f[After(text, handle[i].at)] = g[After(text, handle[i].at)]
      BY <1>7, <3>1
    <3> QED
      BY <2>1, <3>2
  <2>2. CASE TokenAt(text, handle[i].at) # "Or"
    BY <2>2
  <2> QED
    BY <2>1, <2>2
<1> DEFINE T == [i \in 1..n |-> {r \in V : r.at >= i}]
<1>8. \A r, i : IsReading(r, text, i, C) => r \in V
  BY ReadingsAreReadings
<1>9. \A r \in V : \A i \in 1..n : r.at >= i => IsReading(r, text, i, C)
  BY <1>2, ReadingsAreReadings
<1> HIDE DEF Body, V
<1>10. /\ T \in [1..n -> SUBSET V]
      /\ \A i \in 1..n : \A r : r \in T[i] <=> IsReading(r, text, i, C)
  BY <1>8, <1>9 DEF IsReading
<1>11. T[n] # {}
  <2> DEFINE r == [at |-> Len(text) + 1, errors |-> 0, value |-> <<>>]
  <2>1. IsReading(r, text, Len(text) + 1, C)
    BY ReadingsAreReadings
  <2> HIDE DEF r
  <2>2. n \in 1..n /\ IsReading(r, text, n, C)
    BY <1>2, <2>1 DEF n
  <2> QED
    BY <1>10, <2>2
<1>12. \A f \in [1..n -> V], i \in 1..n : G[<<f, i>>] = Body(f, i)
  OBVIOUS
<1> HIDE DEF G, T
<1>13. MakesTyped(G, n, V, T)
  <2> SUFFICES ASSUME NEW f \in [1..n -> V], NEW i \in 1..n, Typed(f, n, T, i)
               PROVE  /\ G[<<f, i>>] \in T[i]
                      /\ \A g \in [1..n -> V] :
                           (\A j \in i+1..n : f[j] = g[j]) => G[<<f, i>>] = G[<<g, i>>]
    BY DEF MakesTyped
  <2>1. \A j \in 1..n : j > i => j \in i+1..n
    BY <1>2
  <2>2. \A j \in i+1..n : j \in 1..n
    BY <1>2
  <2>3. \A j \in 1..n : j > i => IsReading(f[j], text, j, C)
    BY <1>10, <2>1 DEF Typed
  <2>4. IsReading(Body(f, i), text, i, C)
    BY <1>6, <2>3
  <2> QED
    BY <1>7, <1>10, <1>12, <2>4, ZenonT(30)
<1>14. \E f \in [1..n -> V] : Descends(f, n, G)
  <2>1. n > 0
    BY <1>2
  <2> QED
    BY <1>2, <1>10, <1>11, <1>13, <2>1, TypedDescent
<1>15. \E f : f = [i \in 1..n |-> Body(f, i)]
  <2>1. PICK f \in [1..n -> V] : Descends(f, n, G)
    BY <1>14
  <2>2. \A i \in 1..n : f[i] = Body(f, i)
    BY <1>12, <2>1 DEF Descends
  <2> QED
    BY <2>2
<1>16. F = [i \in 1..n |-> Body(F, i)]
  BY <1>15 DEF n
<1> HIDE DEF F
<1>17. \A i \in 1..n : F[i] = Body(F, i)
  BY <1>16
<1> DEFINE I == {i \in 1..n : IsReading(F[i], text, i, C)}
<1>18. \A i \in 1..n : (\A j \in i+1..n : j \in I) => i \in I
  <2> SUFFICES ASSUME NEW i \in 1..n, \A j \in i+1..n : j \in I
               PROVE  IsReading(F[i], text, i, C)
    OBVIOUS
  <2>1. \A j \in 1..n : j > i => j \in i+1..n
    BY <1>2
  <2>2. \A j \in 1..n : j > i => IsReading(F[j], text, j, C)
    BY <2>1
  <2> QED
    BY <1>6, <1>17, <2>2
<1>19. \A i \in 1..n : i \in I
  <2> HIDE DEF I
  <2> QED
    BY <1>2, <1>18, DescendingInduction
<1> QED
  BY <1>1, <1>2, <1>19 DEF C

LEMMA DefinitionsType ==
  ASSUME NEW text, IsText(text)
  PROVE  \E C : \A i \in Places(text) : IsReading(Definitions(text)[i], text, i, C)
<1> DEFINE n == Len(text) + 1
           line(i) == <<LiteralAt(text, i), SubSeq(text, i + 1, LineEnd(text, i) - 1)>>
           behind(i) == RecognizeFrom(text, Min({LineEnd(text, i), Len(text)}) + 1)
           Body(f, i) == IF TokenAt(text, i) = "Identifier"
                         THEN [f[behind(i)] EXCEPT !.value = <<line(i)>> \o @]
                         ELSE ReadTo(i, 0, <<>>)
           F == CHOOSE f : f = [i \in 1..Len(text) + 1 |-> Body(f, i)]
           C == {line(i) : i \in 1..n}
           V == Readings(text, C)
           G == [p \in [1..n -> V] \X (1..n) |-> Body(p[1], p[2])]
<1>1. Definitions(text) = F
  BY DEF Definitions
<1>2. n \in Nat /\ Places(text) = 1..n /\ 1 \in 1..n
  BY PlacesOfText
<1>3. ASSUME NEW i \in 1..n, TokenAt(text, i) = "Identifier"
      PROVE  behind(i) \in 1..n /\ behind(i) > i
  <2> DEFINE l == LineEnd(text, i)
             S == {l, Len(text)}
             m == Min(S)
             k == RecognizeFrom(text, m + 1)
  <2>1. Len(text) \in Nat /\ i <= Len(text)
    BY <1>2, <1>3, PlacesOfText DEF TokenAt
  <2>2. l \in 1..n /\ l >= i
    BY <1>2, LineEndRange
  <2> HIDE DEF l
  <2>3. S \subseteq Nat /\ S # {} /\ Len(text) \in S
    BY <2>1, <2>2
  <2>4. m \in S /\ \A y \in S : m <= y
    <3> HIDE DEF S
    <3> QED
      BY <2>3, MinIsLeast
  <2>5. m \in Nat /\ m >= i /\ m <= Len(text)
    BY <2>1, <2>2, <2>3, <2>4
  <2> HIDE DEF m, S
  <2>6. m + 1 \in Places(text)
    BY <1>2, <2>1, <2>5
  <2>7. k \in 1..n /\ k >= m + 1
    BY <1>2, <2>6, RecognizeFromRange
  <2>8. k = behind(i)
    BY DEF m, S, l
  <2> HIDE DEF k, behind
  <2>9. k > i
    BY <1>2, <2>1, <2>5, <2>7
  <2> QED
    BY <2>7, <2>8, <2>9
<1> HIDE DEF n, behind
<1>4. ASSUME NEW f, NEW i \in 1..n,
             \A j \in 1..n : j > i => IsReading(f[j], text, j, C)
      PROVE  IsReading(Body(f, i), text, i, C)
  <2>1. CASE TokenAt(text, i) = "Identifier"
    <3> DEFINE k == behind(i)
               e == line(i)
               r == f[k]
               v == <<e>> \o r.value
    <3>1. k \in 1..n /\ k > i
      BY <1>3, <2>1
    <3>2. e \in C
      OBVIOUS
    <3> HIDE DEF e, C, k
    <3>3. IsReading(r, text, k, C)
      BY <1>4, <3>1
    <3> HIDE DEF r
    <3>4. Body(f, i) = [r EXCEPT !.value = v]
      BY <2>1 DEF r, k, e
    <3>5. v \in Seq(C)
      BY <3>2, <3>3 DEF IsReading
    <3> HIDE DEF v, Body
    <3>6. [r EXCEPT !.value = v] = [at |-> r.at, errors |-> r.errors, value |-> v]
      <4>1. r = [at |-> r.at, errors |-> r.errors, value |-> r.value]
        BY <3>3 DEF IsReading
      <4> QED
        BY ONLY <4>1
    <3>7. r.at >= i
      BY <1>2, <3>1, <3>3 DEF IsReading
    <3> QED
      BY <3>3, <3>4, <3>5, <3>6, <3>7 DEF IsReading
  <2>2. CASE TokenAt(text, i) # "Identifier"
    <3>1. Body(f, i) = [at |-> i, errors |-> 0, value |-> <<>>]
      BY <2>2 DEF ReadTo
    <3> HIDE DEF Body, C
    <3> QED
      BY <1>2, <3>1 DEF IsReading
  <2> QED
    BY <2>1, <2>2
<1> HIDE DEF C
<1>5. ASSUME NEW f, NEW g, NEW i \in 1..n, \A j \in i+1..n : f[j] = g[j]
      PROVE  Body(f, i) = Body(g, i)
  <2>1. CASE TokenAt(text, i) = "Identifier"
    <3>1. behind(i) \in i+1..n
      BY <1>2, <1>3, <2>1
    <3>2. f[behind(i)] = g[behind(i)]
      BY <1>5, <3>1
    <3> QED
      BY <2>1, <3>2
  <2>2. CASE TokenAt(text, i) # "Identifier"
    BY <2>2
  <2> QED
    BY <2>1, <2>2
<1> DEFINE T == [i \in 1..n |-> {r \in V : r.at >= i}]
<1>6. \A r, i : IsReading(r, text, i, C) => r \in V
  BY ReadingsAreReadings
<1>7. \A r \in V : \A i \in 1..n : r.at >= i => IsReading(r, text, i, C)
  BY <1>2, ReadingsAreReadings
<1> HIDE DEF Body, V
<1>8. /\ T \in [1..n -> SUBSET V]
      /\ \A i \in 1..n : \A r : r \in T[i] <=> IsReading(r, text, i, C)
  BY <1>6, <1>7 DEF IsReading
<1>9. T[n] # {}
  <2> DEFINE r == [at |-> Len(text) + 1, errors |-> 0, value |-> <<>>]
  <2>1. IsReading(r, text, Len(text) + 1, C)
    BY ReadingsAreReadings
  <2> HIDE DEF r
  <2>2. n \in 1..n /\ IsReading(r, text, n, C)
    BY <1>2, <2>1 DEF n
  <2> QED
    BY <1>8, <2>2
<1>10. \A f \in [1..n -> V], i \in 1..n : G[<<f, i>>] = Body(f, i)
  OBVIOUS
<1> HIDE DEF G, T
<1>11. MakesTyped(G, n, V, T)
  <2> SUFFICES ASSUME NEW f \in [1..n -> V], NEW i \in 1..n, Typed(f, n, T, i)
               PROVE  /\ G[<<f, i>>] \in T[i]
                      /\ \A g \in [1..n -> V] :
                           (\A j \in i+1..n : f[j] = g[j]) => G[<<f, i>>] = G[<<g, i>>]
    BY DEF MakesTyped
  <2>1. \A j \in 1..n : j > i => j \in i+1..n
    BY <1>2
  <2>2. \A j \in i+1..n : j \in 1..n
    BY <1>2
  <2>3. \A j \in 1..n : j > i => IsReading(f[j], text, j, C)
    BY <1>8, <2>1 DEF Typed
  <2>4. IsReading(Body(f, i), text, i, C)
    BY <1>4, <2>3
  <2> QED
    BY <1>5, <1>8, <1>10, <2>4, ZenonT(30)
<1>12. \E f \in [1..n -> V] : Descends(f, n, G)
  <2>1. n > 0
    BY <1>2
  <2> QED
    BY <1>2, <1>8, <1>9, <1>11, <2>1, TypedDescent
<1>13. \E f : f = [i \in 1..n |-> Body(f, i)]
  <2>1. PICK f \in [1..n -> V] : Descends(f, n, G)
    BY <1>12
  <2>2. \A i \in 1..n : f[i] = Body(f, i)
    BY <1>10, <2>1 DEF Descends
  <2> QED
    BY <2>2
<1>14. F = [i \in 1..n |-> Body(F, i)]
  BY <1>13 DEF n
<1> HIDE DEF F
<1>15. \A i \in 1..n : F[i] = Body(F, i)
  BY <1>14
<1> DEFINE I == {i \in 1..n : IsReading(F[i], text, i, C)}
<1>16. \A i \in 1..n : (\A j \in i+1..n : j \in I) => i \in I
  <2> SUFFICES ASSUME NEW i \in 1..n, \A j \in i+1..n : j \in I
               PROVE  IsReading(F[i], text, i, C)
    OBVIOUS
  <2>1. \A j \in 1..n : j > i => j \in i+1..n
    BY <1>2
  <2>2. \A j \in 1..n : j > i => IsReading(F[j], text, j, C)
    BY <2>1
  <2> QED
    BY <1>4, <1>15, <2>2
<1>17. \A i \in 1..n : i \in I
  <2> HIDE DEF I
  <2> QED
    BY <1>2, <1>16, DescendingInduction
<1> QED
  BY <1>1, <1>2, <1>17

-----------------------------------------------------------------------------
(* Productions before finalize(): without flags and sets.                       *)

IsFresh(r) ==
  IsProduction(r) /\ r.epsilon = FALSE /\ r.first = {} /\ r.follow = {}

AreFresh(ps) == ps \in Seq(Range(ps)) /\ \A p \in DOMAIN ps : IsFresh(ps[p])

LEMMA FreshElements ==
  ASSUME NEW S, NEW ps \in Seq(S), \A r \in S : IsFresh(r)
  PROVE  AreFresh(ps)
<1>1. ps \in Seq(Range(ps))
  BY InSeqOfRange
<1>2. \A p \in DOMAIN ps : ps[p] \in S
  OBVIOUS
<1> QED
  BY <1>1, <1>2 DEF AreFresh

LEMMA FreshAreProductions ==
  ASSUME NEW ps, AreFresh(ps)
  PROVE  AreProductions(ps) /\ Justified(ps)
BY DEF AreFresh, IsFresh, AreProductions, Justified

LEMMA FreshConcat ==
  ASSUME NEW ps, NEW qs, AreFresh(ps), AreFresh(qs)
  PROVE  AreFresh(ps \o qs)
<1> DEFINE S == Range(ps) \cup Range(qs)
           rs == ps \o qs
<1>1. \A r \in S : IsFresh(r)
  BY DEF AreFresh, Range
<1>2. Range(ps) \subseteq S /\ Range(qs) \subseteq S
  OBVIOUS
<1> HIDE DEF S
<1>3. ps \in Seq(S) /\ qs \in Seq(S)
  BY <1>2 DEF AreFresh
<1>4. rs \in Seq(S)
  BY <1>3
<1> HIDE DEF rs
<1>5. AreFresh(rs)
  BY <1>1, <1>4, FreshElements
<1> QED
  BY <1>5 DEF rs

LEMMA ProductionIsFresh ==
  ASSUME NEW name, NEW h, h \in Seq(Range(h))
  PROVE  IsFresh(Production(name, h))
<1> DEFINE r == Production(name, h)
<1>1. r = [name |-> name, handle |-> h, epsilon |-> FALSE, first |-> {}, follow |-> {}]
  BY DEF Production
<1> HIDE DEF r
<1>2. /\ r.name = name /\ r.handle = h /\ r.epsilon = FALSE /\ r.first = {}
      /\ r.follow = {}
  BY ONLY <1>1
<1>3. r = [name |-> r.name, handle |-> r.handle, epsilon |-> r.epsilon,
           first |-> r.first, follow |-> r.follow]
  BY ONLY <1>1, <1>2
<1>4. IsFresh(r)
  BY <1>2, <1>3 DEF IsFresh, IsProduction
<1> QED
  BY <1>4 DEF r

\* Another name and another handle make a production of a production.
LEMMA ChangedIsFresh ==
  ASSUME NEW r, IsFresh(r), NEW name, NEW h, h \in Seq(Range(h)), NEW u,
         \/ u = [r EXCEPT !.name = name, !.handle = h]
         \/ u = [r EXCEPT !.handle = h]
  PROVE  IsFresh(u)
<1>1. /\ r = [name |-> r.name, handle |-> r.handle, epsilon |-> r.epsilon,
              first |-> r.first, follow |-> r.follow]
      /\ r.epsilon = FALSE /\ r.first = {} /\ r.follow = {}
  BY DEF IsFresh, IsProduction
<1>2. ASSUME NEW k, k = [name |-> k.name, handle |-> k.handle, epsilon |-> k.epsilon,
                         first |-> k.first, follow |-> k.follow],
             k.epsilon = FALSE, k.first = {}, k.follow = {}, u = [k EXCEPT !.handle = h]
      PROVE  IsFresh(u)
  <2>1. u = [name |-> k.name, handle |-> h, epsilon |-> k.epsilon,
             first |-> k.first, follow |-> k.follow]
    BY ONLY <1>2
  <2>2. /\ u.name = k.name /\ u.handle = h /\ u.epsilon = k.epsilon
        /\ u.first = k.first /\ u.follow = k.follow
    BY ONLY <2>1
  <2>3. u = [name |-> u.name, handle |-> u.handle, epsilon |-> u.epsilon,
             first |-> u.first, follow |-> u.follow]
    BY ONLY <2>1, <2>2
  <2> QED
    BY <1>2, <2>2, <2>3 DEF IsFresh, IsProduction
<1>3. CASE u = [r EXCEPT !.handle = h]
  BY <1>1, <1>2, <1>3
<1>4. CASE u = [r EXCEPT !.name = name, !.handle = h]
  <2> DEFINE k == [r EXCEPT !.name = name]
  <2>1. k = [name |-> name, handle |-> r.handle, epsilon |-> r.epsilon,
             first |-> r.first, follow |-> r.follow]
    BY ONLY <1>1
  <2>2. u = [k EXCEPT !.handle = h]
    BY <1>4
  <2> HIDE DEF k
  <2>3. /\ k.name = name /\ k.handle = r.handle /\ k.epsilon = r.epsilon
        /\ k.first = r.first /\ k.follow = r.follow
    BY ONLY <2>1
  <2>4. k = [name |-> k.name, handle |-> k.handle, epsilon |-> k.epsilon,
             first |-> k.first, follow |-> k.follow]
    BY ONLY <2>1, <2>3
  <2> QED
    BY <1>1, <1>2, <2>2, <2>3, <2>4
<1> QED
  BY <1>3, <1>4

LEMMA ParseRuleType ==
  ASSUME NEW text, IsText(text), NEW declared, NEW i \in Places(text)
  PROVE  /\ ParseRule(text, declared, i).at \in Places(text)
         /\ ParseRule(text, declared, i).errors \in Nat
         /\ AreFresh(ParseRule(text, declared, i).value)
<1> DEFINE assoc == After(text, i)
           k == After(text, assoc)
           handles == Alternatives(text, declared)[k]
           name == LiteralAt(text, i)
           ps == [h \in DOMAIN handles.value |-> Production(name, handles.value[h])]
           m == handles.errors + Mismatch(text, assoc, "Assoc")
<1>1. ParseRule(text, declared, i) = [at |-> handles.at, errors |-> m, value |-> ps]
  BY DEF ParseRule, ReadTo
<1>2. k \in Places(text)
  BY AfterRange
<1> HIDE DEF k
<1>3. PICK C : IsReading(handles, text, k, Seq(C))
  BY <1>2, AlternativesType
<1> HIDE DEF handles
<1>4. handles.at \in Places(text) /\ handles.errors \in Nat /\ handles.value \in Seq(Seq(C))
  BY <1>3 DEF IsReading
<1>5. m \in Nat
  <2>1. Mismatch(text, assoc, "Assoc") \in Nat
    BY DEF Mismatch
  <2> QED
    BY <1>4, <2>1
<1>6. AreFresh(ps)
  <2> DEFINE v == handles.value
             S == {Production(name, h) : h \in Seq(C)}
  <2>1. \A r \in S : IsFresh(r)
    BY InSeqOfRange, ProductionIsFresh
  <2>2. v \in Seq(Seq(C))
    BY <1>4
  <2> HIDE DEF v, name
  <2>3. \A h \in DOMAIN v : v[h] \in Seq(C)
    BY <2>2
  <2>4. DOMAIN v = 1..Len(v) /\ Len(v) \in Nat
    BY <2>2
  <2>5. \A h \in DOMAIN v : Production(name, v[h]) \in S
    BY <2>3
  <2> HIDE DEF S
  <2>6. [h \in DOMAIN v |-> Production(name, v[h])] \in Seq(S)
    BY <2>4, <2>5
  <2>7. ps = [h \in DOMAIN v |-> Production(name, v[h])]
    BY DEF v, name
  <2> HIDE DEF ps
  <2> QED
    BY <2>1, <2>6, <2>7, FreshElements
<1> HIDE DEF m, ps
<1> QED
  BY <1>1, <1>4, <1>5, <1>6

LEMMA ParseTokenBlockType ==
  ASSUME NEW text, IsText(text), NEW i \in Places(text)
  PROVE  /\ ParseTokenBlock(text, i).at \in Places(text)
         /\ ParseTokenBlock(text, i).errors \in Nat
<1> DEFINE open == After(text, i)
           k == After(text, open)
           definitions == Definitions(text)[k]
           m == Mismatch(text, open, "SetOpen") + Mismatch(text, definitions.at, "SetClose")
<1>1. ParseTokenBlock(text, i) =
        [at |-> After(text, definitions.at), errors |-> m, value |-> definitions.value]
  BY DEF ParseTokenBlock, ReadTo
<1>2. k \in Places(text)
  BY AfterRange
<1>3. m \in Nat
  BY DEF Mismatch
<1> HIDE DEF k
<1>4. \E C : IsReading(definitions, text, k, C)
  BY <1>2, DefinitionsType
<1> HIDE DEF definitions
<1>5. definitions.at \in Places(text)
  BY <1>4 DEF IsReading
<1>6. After(text, definitions.at) \in Places(text)
  BY <1>5, AfterRange
<1> HIDE DEF m
<1> QED
  BY <1>1, <1>3, <1>6

LEMMA EliminateDirectFresh ==
  ASSUME NEW ps, AreFresh(ps), NEW nt
  PROVE  AreFresh(EliminateDirect(ps, nt))
<1> DEFINE tail == TailOf(ps, nt)
           tailSymbol == RelatedNonTerminal(ps, nt)
           recursive(p) == [ps[p] EXCEPT !.name = tailSymbol,
                                         !.handle = Tail(Append(@, tailSymbol))]
           other(p) == [ps[p] EXCEPT !.handle = Append(@, tailSymbol)]
           u == [p \in DOMAIN ps |-> CASE p \in tail -> recursive(p)
                                       [] p \in Named(ps, nt) \ tail -> other(p)
                                       [] OTHER -> ps[p]]
           r == Production(tailSymbol, <<>>)
           S == Range(u) \cup {r}
<1>1. EliminateDirect(ps, nt) = IF tail = {} THEN ps ELSE Append(u, r)
  BY DEF EliminateDirect
<1> HIDE DEF tail, tailSymbol
<1>2. IsFresh(r)
  <2> DEFINE e == <<>>
  <2>1. e \in Seq(Range(e))
    OBVIOUS
  <2> HIDE DEF e
  <2>2. IsFresh(Production(tailSymbol, e))
    BY <2>1, ProductionIsFresh
  <2> QED
    BY <2>2 DEF e
<1>3. Len(ps) \in Nat /\ DOMAIN ps = 1..Len(ps) /\ \A p \in DOMAIN ps : IsFresh(ps[p])
  BY SequenceIsFunction DEF AreFresh
<1>4. ASSUME NEW p \in DOMAIN ps PROVE IsFresh(recursive(p)) /\ IsFresh(other(p))
  <2> DEFINE h == ps[p].handle
             l == Append(h, tailSymbol)
             t == Tail(l)
             C == Range(h) \cup {tailSymbol}
  <2>1. h \in Seq(Range(h)) /\ IsFresh(ps[p])
    BY <1>3 DEF IsFresh, IsProduction
  <2>2. Range(h) \subseteq C /\ tailSymbol \in C
    OBVIOUS
  <2> HIDE DEF h, C
  <2>3. h \in Seq(C)
    BY <2>1, <2>2
  <2>4. l \in Seq(C) /\ l # <<>>
    BY <2>2, <2>3
  <2>5. recursive(p) = [ps[p] EXCEPT !.name = tailSymbol, !.handle = t]
    BY DEF h
  <2>6. other(p) = [ps[p] EXCEPT !.handle = l]
    BY DEF h
  <2> HIDE DEF l, recursive, other
  <2>7. t \in Seq(C)
    BY <2>4
  <2> HIDE DEF t
  <2>8. t \in Seq(Range(t)) /\ l \in Seq(Range(l))
    BY <2>4, <2>7, InSeqOfRange
  <2> QED
    BY <2>1, <2>5, <2>6, <2>8, ChangedIsFresh
<1> HIDE DEF recursive, other
<1>5. \A p \in DOMAIN ps : IsFresh(u[p])
  BY <1>3, <1>4
<1>6. u = [p \in 1..Len(ps) |-> u[p]]
  BY <1>3
<1> HIDE DEF r
<1>7. \A x \in S : IsFresh(x)
  BY <1>2, <1>3, <1>5 DEF Range
<1> HIDE DEF u
<1>8. u \in Seq(Range(u))
  BY <1>3, <1>6, FunctionIsSequence
<1>9. Range(u) \subseteq S /\ r \in S
  OBVIOUS
<1> HIDE DEF S
<1>10. Append(u, r) \in Seq(S)
  BY <1>8, <1>9
<1>11. AreFresh(Append(u, r))
  BY <1>7, <1>10, FreshElements
<1> QED
  BY <1>1, <1>11

\* A handle with a symbol has one that is no action, and a last one of these.
LEMMA LastSymbol ==
  ASSUME NEW h, h \in Seq(Range(h)), Symbols(h) # <<>>
  PROVE  \E i \in DOMAIN h : h[i] \notin Actions /\ \A j \in i+1..Len(h) : h[j] \in Actions
<1> DEFINE I == {i \in DOMAIN h : h[i] \notin Actions}
           K == Range(h) \ Actions
           back(i) == Len(h) - i
           R == {back(i) : i \in I}
           k == Min(R)
<1>1. Len(h) \in Nat /\ DOMAIN h = 1..Len(h)
  BY SequenceIsFunction
<1>2. I # {}
  <2> SUFFICES ASSUME I = {} PROVE Symbols(h) = <<>>
    OBVIOUS
  <2>1. Range(h) \cap K = {}
    BY DEF Range
  <2>2. Kept(h, K) \in Seq(Range(h) \cap K)
    <3> DEFINE S == Range(h)
    <3> HIDE DEF K, S
    <3>1. h \in Seq(S)
      BY DEF S
    <3>2. Kept(h, K) \in Seq(S \cap K)
      BY <3>1, KeptType
    <3> QED
      BY <3>2 DEF S
  <2> DEFINE s == Kept(h, K)
  <2>3. s \in Seq({})
    BY <2>1, <2>2
  <2> HIDE DEF s
  <2>4. s = <<>>
    <3>1. Len(s) \in Nat /\ \A i \in 1..Len(s) : s[i] \in {}
      BY <2>3
    <3>2. Len(s) = 0
      BY <3>1
    <3> QED
      BY <2>3, <3>2, EmptySeq
  <2> QED
    BY <2>4 DEF s, Symbols
<1>3. R \subseteq Nat /\ R # {}
  BY <1>1, <1>2
<1>4. k \in R /\ \A y \in R : k <= y
  <2> HIDE DEF R
  <2> QED
    BY <1>3, MinIsLeast
<1> HIDE DEF k
<1>5. PICK i \in I : k = Len(h) - i
  BY <1>4
<1>6. \A j \in i+1..Len(h) : h[j] \in Actions
  <2> SUFFICES ASSUME NEW j \in i+1..Len(h), h[j] \notin Actions PROVE FALSE
    OBVIOUS
  <2>1. j \in I /\ j > i /\ j \in Nat
    BY <1>1
  <2>2. k <= Len(h) - j
    BY <1>4, <2>1
  <2> QED
    BY <1>1, <1>5, <2>1, <2>2
<1> QED
  BY <1>5, <1>6

LEMMA InjectEofFresh ==
  ASSUME NEW ps, AreFresh(ps)
  PROVE  AreFresh(InjectEof(ps)) /\ Len(InjectEof(ps)) = Len(ps)
<1> DEFINE handle == ps[1].handle
           stop == IF Symbols(handle) = <<>> THEN Len(handle)
                   ELSE CHOOSE i \in DOMAIN handle :
                          /\ handle[i] \notin Actions
                          /\ \A j \in i+1..Len(handle) : handle[j] \in Actions
           h == InsertAt(handle, stop + 1, Eof)
           qs == InjectEof(ps)
<1>1. qs = [ps EXCEPT ![1].handle = h]
  BY DEF InjectEof
<1>2. /\ Len(ps) \in Nat /\ DOMAIN ps = 1..Len(ps) /\ ps = [p \in 1..Len(ps) |-> ps[p]]
      /\ \A p \in DOMAIN ps : IsFresh(ps[p])
  BY SequenceIsFunction DEF AreFresh
<1> HIDE DEF qs
<1>3. CASE Len(ps) = 0
  <2>1. 1 \notin DOMAIN ps
    BY <1>2, <1>3
  <2>2. qs = ps
    <3> HIDE DEF h
    <3> QED
      BY <1>1, <1>2, <2>1
  <2> QED
    BY <2>2 DEF qs
<1>4. CASE Len(ps) > 0
  <2>1. 1 \in DOMAIN ps
    BY <1>2, <1>4
  <2>2. handle \in Seq(Range(handle)) /\ IsFresh(ps[1])
    BY <1>2, <2>1 DEF IsFresh, IsProduction
  <2> HIDE DEF handle
  <2>3. Len(handle) \in Nat /\ DOMAIN handle = 1..Len(handle)
    BY <2>2, SequenceIsFunction
  <2>4. stop \in 0..Len(handle)
    <3>1. CASE Symbols(handle) = <<>>
      BY <2>3, <3>1
    <3>2. CASE Symbols(handle) # <<>>
      <4>1. \E i \in DOMAIN handle :
              /\ handle[i] \notin Actions
              /\ \A j \in i+1..Len(handle) : handle[j] \in Actions
        BY <2>2, <3>2, LastSymbol
      <4>2. stop \in DOMAIN handle
        BY <3>2, <4>1
      <4> HIDE DEF stop
      <4> QED
        BY <2>3, <4>2
    <3> QED
      BY <3>1, <3>2
  <2> HIDE DEF stop
  <2> DEFINE C == Range(handle) \cup {Eof}
  <2>5. Range(handle) \subseteq C /\ Eof \in C
    OBVIOUS
  <2>6. h = (SubSeq(handle, 1, stop) \o <<Eof>>) \o SubSeq(handle, stop + 1, Len(handle))
    <3>1. (stop + 1) - 1 = stop
      BY <2>4
    <3> QED
      BY <3>1 DEF InsertAt
  <2> HIDE DEF C, h
  <2>7. handle \in Seq(C)
    BY <2>2, <2>5
  <2>8. /\ SubSeq(handle, 1, stop) \in Seq(C) /\ <<Eof>> \in Seq(C)
        /\ SubSeq(handle, stop + 1, Len(handle)) \in Seq(C)
    <3>1. <<Eof>> \in Seq(C)
      BY <2>5
    <3>2. SubSeq(handle, 1, stop) \in Seq(C)
      BY <2>3, <2>4, <2>7
    <3>3. SubSeq(handle, stop + 1, Len(handle)) \in Seq(C)
      BY <2>3, <2>4, <2>7
    <3> QED
      BY <3>1, <3>2, <3>3
  <2>9. h \in Seq(C)
    <3> DEFINE a == SubSeq(handle, 1, stop)
               b == <<Eof>>
               c == SubSeq(handle, stop + 1, Len(handle))
    <3>1. a \in Seq(C) /\ b \in Seq(C) /\ c \in Seq(C) /\ h = (a \o b) \o c
      BY <2>6, <2>8
    <3> HIDE DEF a, b, c
    <3> QED
      BY ONLY <3>1
  <2>10. h \in Seq(Range(h))
    BY <2>9, InSeqOfRange
  <2>11. qs[1] = [ps[1] EXCEPT !.handle = h]
    BY <1>1, <2>1
  <2>12. IsFresh(qs[1])
    BY <2>2, <2>10, <2>11, ChangedIsFresh
  <2>13. DOMAIN qs = DOMAIN ps /\ \A p \in DOMAIN ps : p # 1 => qs[p] = ps[p]
    BY <1>1
  <2>14. qs = [p \in 1..Len(ps) |-> qs[p]]
    BY <1>1, <1>2
  <2>15. qs \in Seq(Range(qs)) /\ Len(qs) = Len(ps)
    BY <1>2, <2>14, FunctionIsSequence
  <2>16. AreFresh(qs)
    BY <1>2, <2>12, <2>13, <2>15 DEF AreFresh
  <2> QED
    BY <2>15, <2>16 DEF qs
<1> QED
  BY <1>2, <1>3, <1>4

-----------------------------------------------------------------------------
(* The invariant.                                                               *)

\* The variables have their types, and until finalize() is called nothing is set.
Shape ==
  /\ source \in Sources
  /\ at \in Places(source)
  /\ errors \in Nat
  /\ updated \in BOOLEAN /\ flagged \in BOOLEAN
  /\ pc \in {"file", "grammar", "eliminate", "pass", "done", "rejected", "aborted", "thrown"}
  /\ AreProductions(productions)
  /\ visiting \in 1..Len(productions) + 1
  /\ pc \notin {"pass", "done"} =>
       AreFresh(productions) /\ visiting = 1 /\ ~updated /\ ~flagged

\* A pass that has changed nothing yet has settled the productions it has visited.
PassSettles ==
  /\ pc \in {"pass", "done"} /\ ~updated /\ ~flagged =>
       \A p \in DOMAIN productions : p < visiting => Settled(productions, p)
  /\ pc = "done" => visiting > Len(productions) /\ ~updated

Inv == Shape /\ Justified(productions) /\ PassSettles

LEMMA InitInv == Init => Inv
<1> SUFFICES ASSUME Init PROVE Inv
  OBVIOUS
<1>1. IsText(source) /\ source \in Sources
  BY SourcesAssumption DEF IsText, Init
<1>2. at \in Places(source)
  BY <1>1, PlacesOfText, RecognizeFromRange DEF Init
<1>3. productions \in Seq({}) /\ Len(productions) = 0 /\ DOMAIN productions = {}
  BY DEF Init
<1>4. AreFresh(productions)
  <2>1. \A r \in {} : IsFresh(r)
    OBVIOUS
  <2> QED
    BY <1>3, <2>1, FreshElements
<1>5. AreProductions(productions) /\ Justified(productions)
  BY <1>4, FreshAreProductions
<1>6. errors = 0 /\ updated = FALSE /\ flagged = FALSE /\ pc = "file" /\ visiting = 1
  BY DEF Init
<1>7. 1 \in 1..Len(productions) + 1
  BY <1>3
<1> QED
  BY <1>1, <1>2, <1>4, <1>5, <1>6, <1>7 DEF Inv, Shape, PassSettles

LEMMA ReadRuleInv == Inv /\ ReadRule => Inv'
<1> SUFFICES ASSUME Inv, ReadRule PROVE Inv'
  OBVIOUS
<1>1. IsText(source) /\ at \in Places(source)
  BY SourcesAssumption DEF IsText, Inv, Shape
<1> DEFINE rule == ParseRule(source, explicit, at)
<1>2. /\ pc = "file" /\ pc' = pc /\ visiting' = visiting /\ updated' = updated
      /\ flagged' = flagged /\ source' = source
      /\ at' = rule.at /\ errors' = errors + rule.errors
      /\ productions' = productions \o rule.value
  BY DEF ReadRule
<1>3. rule.at \in Places(source) /\ rule.errors \in Nat /\ AreFresh(rule.value)
  BY <1>1, ParseRuleType
<1> HIDE DEF rule
<1>4. AreFresh(productions')
  BY <1>2, <1>3, FreshConcat DEF Inv, Shape
<1>5. AreProductions(productions') /\ Justified(productions')
  BY <1>4, FreshAreProductions
<1>6. 1 \in 1..Len(productions') + 1
  BY <1>4, SequenceIsFunction DEF AreFresh
<1> QED
  BY <1>2, <1>3, <1>4, <1>5, <1>6 DEF Inv, Shape, PassSettles

LEMMA ReadTokenBlockInv == Inv /\ ReadTokenBlock => Inv'
<1> SUFFICES ASSUME Inv, ReadTokenBlock PROVE Inv'
  OBVIOUS
<1>1. IsText(source) /\ at \in Places(source)
  BY SourcesAssumption DEF IsText, Inv, Shape
<1> DEFINE block == ParseTokenBlock(source, at)
<1>2. /\ pc = "file" /\ visiting' = visiting /\ updated' = updated
      /\ flagged' = flagged /\ source' = source /\ productions' = productions
      /\ \/ pc' = pc /\ at' = block.at /\ errors' = errors + block.errors
         \/ pc' = "thrown" /\ at' = at /\ errors' = errors
  BY DEF ReadTokenBlock
<1>3. block.at \in Places(source) /\ block.errors \in Nat
  BY <1>1, ParseTokenBlockType
<1> HIDE DEF block
<1> QED
  BY <1>2, <1>3 DEF Inv, Shape, PassSettles

LEMMA AbortInv == Inv /\ Abort => Inv'
BY DEF Inv, Shape, PassSettles, Abort

LEMMA EndOfFileInv == Inv /\ EndOfFile => Inv'
<1> SUFFICES ASSUME Inv, EndOfFile PROVE Inv'
  OBVIOUS
<1>1. errors' \in Nat
  BY DEF EndOfFile, Inv, Shape
<1>2. /\ pc = "file" /\ pc' \in {"grammar", "rejected"} /\ visiting' = visiting
      /\ updated' = updated /\ flagged' = flagged /\ source' = source /\ at' = at
      /\ productions' = productions
  BY DEF EndOfFile
<1> QED
  BY <1>1, <1>2 DEF Inv, Shape, PassSettles

LEMMA RewriteInv == Inv /\ (Direct \/ Eliminate \/ Eliminated) => Inv'
<1>1. Inv /\ Direct => Inv'
  BY DEF Inv, Shape, PassSettles, Direct
<1>2. Inv /\ Eliminated => Inv'
  BY DEF Inv, Shape, PassSettles, Eliminated, fileVars
<1>3. ASSUME Inv, Eliminate PROVE Inv'
  <2>1. AreFresh(productions')
    BY <1>3, EliminateDirectFresh DEF Inv, Shape, Eliminate
  <2>2. AreProductions(productions') /\ Justified(productions')
    BY <2>1, FreshAreProductions
  <2>3. 1 \in 1..Len(productions') + 1
    BY <2>1, SequenceIsFunction DEF AreFresh
  <2>4. /\ pc = "eliminate" /\ pc' = pc /\ visiting' = visiting /\ updated' = updated
        /\ flagged' = flagged /\ source' = source /\ at' = at /\ errors' = errors
    BY <1>3 DEF Eliminate
  <2> QED
    BY <1>3, <2>1, <2>2, <2>3, <2>4 DEF Inv, Shape, PassSettles
<1> QED
  BY <1>1, <1>2, <1>3

LEMMA FinalizeInv == Inv /\ Finalize /\ UNCHANGED fileVars => Inv'
<1> SUFFICES ASSUME Inv, Finalize, UNCHANGED fileVars PROVE Inv'
  OBVIOUS
<1>1. /\ pc = "grammar" /\ pc' = "pass" /\ visiting' = visiting /\ updated' = updated
      /\ flagged' = flagged /\ source' = source /\ at' = at /\ errors' = errors
      /\ productions' = InjectEof(productions)
  BY DEF Finalize, fileVars
<1>2. AreFresh(productions') /\ visiting = 1
  BY <1>1, InjectEofFresh DEF Inv, Shape
<1>3. AreProductions(productions') /\ Justified(productions')
  BY <1>2, FreshAreProductions
<1>4. 1 \in 1..Len(productions') + 1 /\ \A p \in DOMAIN productions' : ~(p < 1)
  BY <1>2, SequenceIsFunction DEF AreFresh
<1> QED
  BY <1>1, <1>2, <1>3, <1>4 DEF Inv, Shape, PassSettles

LEMMA VisitInv == Inv /\ Visit /\ UNCHANGED fileVars => Inv'
<1> SUFFICES ASSUME Inv, Visit, UNCHANGED fileVars PROVE Inv'
  OBVIOUS
<1> DEFINE first == VisitFirst(productions, visiting)
<1>1. /\ pc = "pass" /\ pc' = pc /\ visiting <= Len(productions)
      /\ visiting' = visiting + 1
      /\ productions' = VisitFollow(first, visiting)
      /\ updated' = (updated \/ Grew(productions, productions'))
      /\ flagged' = (flagged \/ Flags(productions) # Flags(productions'))
      /\ source' = source /\ at' = at /\ errors' = errors
  BY DEF Visit, fileVars
<1>2. AreProductions(productions) /\ visiting \in DOMAIN productions /\ visiting \in Nat
  <2>1. AreProductions(productions) /\ visiting \in 1..Len(productions) + 1
    BY DEF Inv, Shape
  <2>2. Len(productions) \in Nat /\ DOMAIN productions = 1..Len(productions)
    BY <2>1, SequenceIsFunction DEF AreProductions
  <2> QED
    BY <1>1, <2>1, <2>2
<1>3. /\ AreProductions(first) /\ SameRules(productions, first) /\ Justified(first)
  BY <1>2, VisitFirstFacts, VisitFirstJustified DEF Inv
<1>4. visiting \in DOMAIN first
  BY <1>2, <1>3 DEF SameRules
<1>5. /\ AreProductions(productions') /\ SameRules(first, productions')
      /\ Justified(productions')
  BY <1>1, <1>3, <1>4, VisitFollowFacts, VisitFollowJustified
<1>6. /\ DOMAIN productions' = DOMAIN productions
      /\ Len(productions') = Len(productions) /\ Len(productions) \in Nat
  <2>1. DOMAIN productions' = DOMAIN productions
    BY <1>3, <1>5 DEF SameRules
  <2>2. /\ DOMAIN productions = 1..Len(productions) /\ Len(productions) \in Nat
        /\ DOMAIN productions' = 1..Len(productions') /\ Len(productions') \in Nat
    BY <1>2, <1>5, SequenceIsFunction DEF AreProductions
  <2>3. \A m, n \in Nat : 1..m = 1..n => m = n
    <3> SUFFICES ASSUME NEW m \in Nat, NEW n \in Nat, 1..m = 1..n, m > n PROVE FALSE
      <4>1. \A m, n \in Nat : m = n \/ m > n \/ n > m
        OBVIOUS
      <4> QED
        BY <4>1
    <3>1. m \in 1..m /\ m \notin 1..n
      OBVIOUS
    <3> QED
      BY <3>1
  <2> QED
    BY <2>1, <2>2, <2>3
<1>7. ASSUME ~updated', ~flagged', NEW p \in DOMAIN productions', p < visiting'
      PROVE  Settled(productions', p)
  <2>1. /\ ~updated /\ ~flagged /\ ~Grew(productions, productions')
        /\ Flags(productions) = Flags(productions')
    BY <1>1, <1>7
  <2>2. productions' = productions /\ Settled(productions, visiting)
    <3> DEFINE ps == productions
               qs == productions'
               v == visiting
    <3>1. AreProductions(ps) /\ v \in DOMAIN ps /\ qs = VisitFollow(VisitFirst(ps, v), v)
      BY <1>1, <1>2
    <3>2. ~Grew(ps, qs) /\ Flags(ps) = Flags(qs)
      BY <2>1
    <3> HIDE DEF ps, qs, v
    <3>3. qs = ps /\ Settled(ps, v)
      BY <3>1, <3>2, UnchangedIsSettled
    <3> QED
      BY <3>3 DEF ps, qs, v
  <2>3. p < visiting \/ p = visiting
    <3>1. p \in Nat
      BY <1>6, <1>7, <1>2, SequenceIsFunction DEF AreProductions
    <3> QED
      BY <1>1, <1>2, <1>7, <3>1
  <2>4. p < visiting => Settled(productions, p)
    BY <1>1, <1>6, <2>1 DEF Inv, PassSettles
  <2> QED
    BY <2>2, <2>3, <2>4
<1>8. visiting' \in 1..Len(productions') + 1
  BY <1>1, <1>2, <1>6
<1>9. updated' \in BOOLEAN /\ flagged' \in BOOLEAN
  BY <1>1 DEF Inv, Shape, Grew
<1>10. Shape'
  BY <1>1, <1>5, <1>8, <1>9 DEF Inv, Shape
<1>11. PassSettles'
  BY <1>1, <1>7 DEF PassSettles
<1> QED
  BY <1>5, <1>10, <1>11 DEF Inv

LEMMA PassInv == Inv /\ (NextPass \/ Done) /\ UNCHANGED fileVars => Inv'
<1>1. ASSUME Inv, NextPass, UNCHANGED fileVars PROVE Inv'
  <2>1. /\ pc = "pass" /\ pc' = pc /\ visiting' = 1 /\ ~updated' /\ ~flagged'
        /\ updated' \in BOOLEAN /\ flagged' \in BOOLEAN
        /\ productions' = productions /\ source' = source /\ at' = at /\ errors' = errors
    BY <1>1 DEF NextPass, fileVars
  <2>2. 1 \in 1..Len(productions) + 1 /\ \A p \in DOMAIN productions : ~(p < 1)
    <3>1. Len(productions) \in Nat /\ DOMAIN productions = 1..Len(productions)
      BY <1>1, SequenceIsFunction DEF Inv, Shape, AreProductions
    <3> QED
      BY <3>1
  <2> QED
    BY <1>1, <2>1, <2>2 DEF Inv, Shape, PassSettles
<1>2. ASSUME Inv, Done, UNCHANGED fileVars PROVE Inv'
  BY <1>2 DEF Inv, Shape, PassSettles, Done, fileVars
<1> QED
  BY <1>1, <1>2

LEMMA StepInv == Inv /\ [Next]_vars => Inv'
<1>1. Inv /\ UNCHANGED vars => Inv'
  BY DEF Inv, Shape, PassSettles, vars, grammarVars, fileVars
<1> QED
  BY <1>1, ReadRuleInv, ReadTokenBlockInv, AbortInv, EndOfFileInv, RewriteInv, FinalizeInv,
     VisitInv, PassInv
  DEF Next, Read, Pass

\* Inv is an invariant of reading, rewriting and finalizing a grammar
\* (cfg/GrammarParser.cpp, cfg/LeftRecursion.cpp, cfg/Grammar.cpp:185-248).
THEOREM Invariance == Spec => []Inv
BY InitInv, StepInv, PTL DEF Spec

-----------------------------------------------------------------------------
(* What it is for.                                                              *)

LEMMA FollowHoldsTerminals ==
  ASSUME NEW rules, NEW nt, NEW t, InFollow(rules, nt, t)
  PROVE  t \in TerminalSymbols
BY DEF InFollow, FirstSet

\* The variables have their types: in particular, no nonterminal and no action gets
\* into a set, the parser never looks behind the end of the text, and finalize()
\* visits no production that there is not.
THEOREM TypeCorrect == Spec => []TypeOK
<1>1. Inv => TypeOK
  <2> SUFFICES ASSUME Inv PROVE TypeOK
    OBVIOUS
  <2>1. \A p \in DOMAIN productions : productions[p].first \subseteq TerminalSymbols
    BY DEF Inv, Justified, FirstSet
  <2>2. \A p \in DOMAIN productions : productions[p].follow \subseteq TerminalSymbols
    BY FollowHoldsTerminals DEF Inv, Justified
  <2>3. \A p \in DOMAIN productions : productions[p].epsilon \in BOOLEAN
    BY DEF Inv, Shape, AreProductions, IsProduction
  <2> QED
    BY <2>1, <2>2, <2>3 DEF Inv, Shape, TypeOK, Places
<1> QED
  BY <1>1, Invariance, PTL

\* Whatever the grammar is, and whichever pass the loop of Grammar::finalize is in,
\* no set holds a terminal and no production a flag without a reason in the grammar.
THEOREM SetsJustified == Spec => []SetsAreJustified
<1>1. Inv => SetsAreJustified
  <2> SUFFICES ASSUME Inv PROVE SetsAreJustified
    OBVIOUS
  <2> DEFINE rules == RulesOf(productions)
             sets == SymbolSets(rules)
  <2>1. AreProductions(productions) /\ Justified(productions)
    BY DEF Inv, Shape
  <2>2. ASSUME NEW p \in DOMAIN productions
        PROVE  LET nt == productions[p].name IN
               /\ productions[p].epsilon => nt \in sets.nullable
               /\ productions[p].first \subseteq sets.first[nt]
               /\ productions[p].follow \subseteq sets.follow[nt]
    <3> DEFINE nt == productions[p].name
    <3>1. IsRuleSet(rules) /\ nt \in Names(rules)
      BY <2>1, RulesAreRules
    <3>2. /\ sets.nullable = Nullable(rules)
          /\ sets.first[nt] = FirstSet(rules, {nt})
          /\ \A t : t \in sets.follow[nt] <=> InFollow(rules, nt, t)
      <4> HIDE DEF rules, nt
      <4> QED
        BY <3>1, SetsOfRules
    <3> HIDE DEF sets
    <3> QED
      BY <2>1, <3>2 DEF Justified
  <2> QED
    BY <2>2 DEF SetsAreJustified
<1> QED
  BY <1>1, Invariance, PTL

\* Whatever the grammar is, when the loop ends with a pass that set no flag, nothing
\* is missing from the sets either: they are the FIRST and FOLLOW sets, and the flags
\* nullability.  That no terminal and no action has a production is a hypothesis,
\* since the code tells these kinds of symbols apart by their types and not by name.
THEOREM SetsComplete == Spec => [](NamesApart(productions) => SetsAreComplete)
<1>1. Inv => (NamesApart(productions) => SetsAreComplete)
  <2> SUFFICES ASSUME Inv, NamesApart(productions), pc = "done", ~flagged
               PROVE  LET sets == SymbolSets(RulesOf(productions)) IN
                      \A nt \in Names(RulesOf(productions)) :
                        /\ FirstOf(productions, nt) = sets.first[nt]
                        /\ FollowOf(productions, nt) = sets.follow[nt]
                        /\ ContainsEpsilon(productions, nt) <=> nt \in sets.nullable
    BY DEF SetsAreComplete
  <2> DEFINE ps == productions
             rules == RulesOf(ps)
             sets == SymbolSets(rules)
  <2>1. AreProductions(ps) /\ Justified(ps) /\ NamesApart(ps) /\ IsRuleSet(rules)
    BY RulesAreRules DEF Inv, Shape
  <2>2. \A p \in DOMAIN ps : Settled(ps, p)
    <3>1. Len(ps) \in Nat /\ DOMAIN ps = 1..Len(ps) /\ visiting \in Nat
      BY <2>1, SequenceIsFunction DEF AreProductions, Inv, Shape
    <3>2. \A p \in DOMAIN ps : p < visiting
      BY <3>1 DEF Inv, PassSettles
    <3> QED
      BY <3>2 DEF Inv, PassSettles
  <2> HIDE DEF ps
  <2>3. ASSUME NEW nt \in Names(rules)
        PROVE  /\ FirstOf(ps, nt) = sets.first[nt]
               /\ FollowOf(ps, nt) = sets.follow[nt]
               /\ ContainsEpsilon(ps, nt) <=> nt \in sets.nullable
    <3>1. /\ sets.nullable = Nullable(rules)
          /\ sets.first[nt] = FirstSet(rules, {nt})
          /\ \A t : t \in sets.follow[nt] <=> InFollow(rules, nt, t)
      <4> HIDE DEF rules
      <4> QED
        BY <2>1, SetsOfRules
    <3> HIDE DEF sets
    <3>2. nt \notin Actions
      BY <2>1, RulesAreRules DEF NamesApart, IsNonTerminal
    <3>3. \A t : t \in FirstOf(ps, nt) => t \in FirstSet(rules, {nt})
      BY <2>1, <3>2, FirstOfJustified
    <3>4. \A t : t \in FirstSet(rules, {nt}) => t \in FirstOf(ps, nt)
      BY <2>1, <2>2, FirstComplete
    <3>5. \A t : t \in FollowOf(ps, nt) => InFollow(rules, nt, t)
      BY <2>1 DEF Justified, FollowOf, Named
    <3>6. \A t : InFollow(rules, nt, t) => t \in FollowOf(ps, nt)
      BY <2>1, <2>2, FollowComplete
    <3>7. ContainsEpsilon(ps, nt) <=> nt \in Nullable(rules)
      BY <2>1, <2>2, ErasableIsFlagged, ErasableJustified, NullableComplete
    <3>8. FirstOf(ps, nt) = sets.first[nt] /\ FollowOf(ps, nt) = sets.follow[nt]
      BY <3>1, <3>3, <3>4, <3>5, <3>6
    <3> QED
      BY <3>1, <3>7, <3>8
  <2> QED
    BY <2>3 DEF ps
<1> QED
  BY <1>1, Invariance, PTL

-----------------------------------------------------------------------------
(* The table that SyntaxTable::construct makes of the sets.                     *)

\* The list of the nonterminals has the names of the productions.
LEMMA NonTerminalsAreNames ==
  ASSUME NEW ps, ps \in Seq(Range(ps))
  PROVE  LET N == NonTerminals(ps) IN
         N \in Seq(Range(N)) /\ \A b : b \in Range(N) <=> \E p \in DOMAIN ps : ps[p].name = b
<1> DEFINE m == Len(ps)
           S == {p \in DOMAIN ps : \A q \in 1..p-1 : ps[q].name # ps[p].name}
           firsts == Ascending(S)
           N == NonTerminals(ps)
           F(i) == ps[firsts[i]].name
<1>1. m \in Nat /\ DOMAIN ps = 1..m
  OBVIOUS
<1>2. S \in SUBSET Int /\ IsFiniteSet(S)
  <2>1. IsFiniteSet(1..m) /\ S \subseteq 1..m
    BY <1>1, FS_Interval
  <2>2. 1..m \subseteq Int
    BY <1>1
  <2> DEFINE R == 1..m
  <2> HIDE DEF S, R
  <2> QED
    BY <2>1, <2>2, FS_Subset DEF R
<1>3. N = [i \in DOMAIN firsts |-> F(i)]
  BY DEF NonTerminals
<1>4. firsts \in Seq(S) /\ Range(firsts) = S
  <2> HIDE DEF S
  <2> QED
    BY <1>2, AscendingLists
<1>5. Len(firsts) \in Nat /\ DOMAIN firsts = 1..Len(firsts) /\ \A i \in DOMAIN firsts : firsts[i] \in S
  <2> HIDE DEF S, firsts
  <2> QED
    BY <1>4
<1>6. DOMAIN N = 1..Len(firsts) /\ \A i \in DOMAIN firsts : N[i] = ps[firsts[i]].name
  <2> HIDE DEF firsts
  <2> QED
    BY <1>3, <1>5
<1>7. N \in Seq(Range(N))
  <2>1. N = [i \in 1..Len(firsts) |-> N[i]]
    <3> HIDE DEF firsts
    <3> QED
      BY <1>3, <1>5
  <2>2. N \in [1..Len(firsts) -> Range(N)]
    <3> HIDE DEF firsts, N
    <3> QED
      BY <1>6, <2>1 DEF Range
  <2> HIDE DEF firsts, N
  <2> QED
    BY <1>5, <2>2
<1>8. ASSUME NEW b, b \in Range(N) PROVE \E p \in DOMAIN ps : ps[p].name = b
  <2> HIDE DEF firsts, N
  <2>1. PICK i \in 1..Len(firsts) : N[i] = b
    BY <1>6, <1>8 DEF Range
  <2>2. firsts[i] \in DOMAIN ps
    BY <1>5, <2>1
  <2> QED
    BY <1>5, <1>6, <2>1, <2>2
<1>9. ASSUME NEW p \in DOMAIN ps PROVE ps[p].name \in Range(N)
  <2> DEFINE Q == {q \in DOMAIN ps : ps[q].name = ps[p].name}
             q == Min(Q)
  <2>1. Q \subseteq Nat /\ p \in Q
    BY <1>1
  <2>2. q \in Q /\ \A r \in Q : q <= r
    <3> HIDE DEF Q
    <3> QED
      BY <2>1, MinIsLeast
  <2> HIDE DEF q
  <2>3. \A r \in 1..q - 1 : r \in DOMAIN ps /\ r \notin Q
    BY <1>1, <2>2
  <2>4. q \in S
    BY <2>2, <2>3
  <2>5. PICK i \in DOMAIN firsts : firsts[i] = q
    <3> HIDE DEF S, firsts
    <3> QED
      BY <1>4, <2>4 DEF Range
  <2>6. N[i] = ps[p].name
    <3> HIDE DEF S, firsts, N
    <3> QED
      BY <1>6, <2>2, <2>5
  <2> HIDE DEF firsts, N
  <2> QED
    BY <1>5, <1>6, <2>5, <2>6 DEF Range
<1> QED
  BY <1>7, <1>8, <1>9

\* The number of a symbol is that of its place in the list of names.
LEMMA IdsNumber ==
  ASSUME NEW ps, SymbolNames(ps) \in Seq(Range(SymbolNames(ps)))
  PROVE  LET names == SymbolNames(ps)
             ids == Ids(ps)
         IN  /\ DOMAIN ids = Range(names) /\ Len(names) \in Nat
             /\ \A b \in Range(names) : ids[b] \in 0..Len(names) - 1 /\ names[ids[b] + 1] = b
<1> DEFINE names == SymbolNames(ps)
           ids == Ids(ps)
           place(b) == CHOOSE i \in DOMAIN names : names[i] = b
<1>1. Len(names) \in Nat /\ DOMAIN names = 1..Len(names)
  OBVIOUS
<1>2. ids = [b \in Range(names) |-> place(b) - 1]
  BY DEF Ids
<1>3. ASSUME NEW b \in Range(names) PROVE place(b) \in DOMAIN names /\ names[place(b)] = b
  <2>1. \E i \in DOMAIN names : names[i] = b
    BY <1>3 DEF Range
  <2> QED
    BY <2>1
<1> HIDE DEF names, place, ids
<1>4. \A b \in Range(names) : ids[b] = place(b) - 1 /\ place(b) \in 1..Len(names)
  BY <1>1, <1>2, <1>3
<1>5. ASSUME NEW b \in Range(names) PROVE ids[b] \in 0..Len(names) - 1 /\ ids[b] + 1 = place(b)
  BY <1>1, <1>4
<1> QED
  BY <1>1, <1>2, <1>3, <1>5 DEF names, ids

LEMMA ReachedFrom ==
  ASSUME NEW rel, IsFiniteSet(rel), NEW X
  PROVE  \A t \in Reached(rel, X) : t \in X \/ \E e \in rel : t = e[2]
<1> DEFINE Z == X \cup {e[2] : e \in rel}
<1>1. X \subseteq Z /\ Closed(rel, Z)
  BY DEF Closed
<1>2. \A t \in Z : t \in X \/ \E e \in rel : t = e[2]
  OBVIOUS
<1> HIDE DEF Z
<1>3. Reached(rel, X) \subseteq Z
  BY <1>1, ReachedLeast
<1> QED
  BY <1>2, <1>3

\* A symbol of a handle without its actions is one of the handle.
LEMMA SymbolsMentioned ==
  ASSUME NEW ps, AreProductions(ps), NEW p \in DOMAIN ps
  PROVE  \A i \in DOMAIN SymbolsOf(ps, p) : SymbolsOf(ps, p)[i] \in Mentioned(ps)
<1> DEFINE h == ps[p].handle
           S == Range(h)
           K == Range(h) \ Actions
<1>1. h \in Seq(S)
  BY DEF AreProductions, IsProduction
<1>2. SymbolsOf(ps, p) = Kept(h, K)
  BY DEF SymbolsOf, Symbols
<1>3. S \subseteq Mentioned(ps)
  BY DEF Mentioned
<1> HIDE DEF h, S, K
<1>4. Kept(h, K) \in Seq(S)
  BY <1>1, KeptType
<1> QED
  BY <1>2, <1>3, <1>4

\* What starts a sentence of a nonterminal is in a handle.
LEMMA FirstMentioned ==
  ASSUME NEW ps, AreProductions(ps), NEW x, NEW w, w \in FirstSet(RulesOf(ps), {x})
  PROVE  w \in TerminalSymbols /\ (w = x \/ w \in Mentioned(ps))
<1> DEFINE rules == RulesOf(ps)
           rel == Begins(rules)
<1>1. IsRuleSet(rules) /\ IsFiniteSet(rel)
  BY RulesAreRules, RelationsFinite DEF Begins
<1>2. w \in TerminalSymbols /\ w \in Reached(rel, {x})
  BY DEF FirstSet
<1>3. ASSUME NEW e \in rel PROVE e[2] \in Mentioned(ps)
  <2>1. e = <<e[1], e[2]>>
    BY DEF Begins, BeginsWith
  <2>2. <<e[1], e[2]>> \in BeginsWith(RulesOf(ps), Nullable(rules))
    BY <1>3, <2>1 DEF Begins
  <2>3. \E p \in DOMAIN ps : \E i \in DOMAIN SymbolsOf(ps, p) : e[2] = SymbolsOf(ps, p)[i]
    BY <2>2, RelationsOfProductions
  <2> QED
    BY <2>3, SymbolsMentioned
<1> HIDE DEF rel
<1>4. w \in {x} \/ \E e \in rel : w = e[2]
  BY <1>1, <1>2, ReachedFrom
<1> QED
  BY <1>2, <1>3, <1>4

\* Whatever is in a set is a terminal that some handle mentions.
LEMMA SetsMentioned ==
  ASSUME NEW ps, AreProductions(ps), NamesApart(ps), Justified(ps), NEW p \in DOMAIN ps,
         NEW w, w \in ps[p].first \/ w \in ps[p].follow
  PROVE  w \in TerminalSymbols \cap Mentioned(ps)
<1> DEFINE rules == RulesOf(ps)
<1>1. CASE w \in ps[p].first
  <2>1. w \in FirstSet(rules, {ps[p].name})
    BY <1>1 DEF Justified
  <2>2. w \in TerminalSymbols /\ (w = ps[p].name \/ w \in Mentioned(ps))
    BY <2>1, FirstMentioned
  <2>3. ps[p].name \notin TerminalSymbols
    BY DEF NamesApart, IsNonTerminal
  <2> QED
    BY <2>2, <2>3
<1>2. CASE w \in ps[p].follow
  <2>1. InFollow(rules, ps[p].name, w)
    BY <1>2 DEF Justified
  <2>2. PICK m \in Meets(rules, Nullable(rules)) : w \in FirstSet(rules, {m[2]})
    BY <2>1 DEF InFollow
  <2>3. m = <<m[1], m[2]>>
    BY DEF Meets
  <2>4. \E q \in DOMAIN ps : \E j \in DOMAIN SymbolsOf(ps, q) : m[2] = SymbolsOf(ps, q)[j]
    BY <2>2, <2>3, RelationsOfProductions
  <2>5. m[2] \in Mentioned(ps)
    BY <2>4, SymbolsMentioned
  <2>6. w \in TerminalSymbols /\ (w = m[2] \/ w \in Mentioned(ps))
    BY <2>2, FirstMentioned
  <2> QED
    BY <2>5, <2>6
<1> QED
  BY <1>1, <1>2

LEMMA ConstructFields ==
  ASSUME NEW ps
  PROVE  LET t == Construct(ps)
             ids == Ids(ps)
         IN  /\ t.nonterminalCount = Len(NonTerminals(ps))
             /\ t.terminalCount = Len(Terminals(ps))
             /\ t.actionCount = Len(ActionsOf(ps))
             /\ DOMAIN t.productions = DOMAIN ps
             /\ \A p \in DOMAIN ps :
                  /\ t.productions[p] = [i \in DOMAIN ps[p].handle |-> ids[ps[p].handle[i]]]
                  /\ t.productionNames[p] = ids[ps[p].name]
BY DEF Construct

\* The lists of names, and what is in them.
LEMMA NameLists ==
  ASSUME NEW ps, AreProductions(ps)
  PROVE  LET N == NonTerminals(ps)
             T == Terminals(ps)
             A == ActionsOf(ps)
             names == SymbolNames(ps)
         IN  /\ Len(N) \in Nat /\ Len(T) \in Nat /\ Len(A) \in Nat
             /\ names \in Seq(Range(names)) /\ Len(names) = Len(N) + Len(T) + Len(A)
             /\ Range(names) = Range(N) \cup Range(T) \cup Range(A)
             /\ \A b : b \in Range(N) <=> \E p \in DOMAIN ps : ps[p].name = b
             /\ Range(T) = TerminalSymbols \cap Mentioned(ps)
             /\ Range(A) = Actions \cap Mentioned(ps)
             /\ \A i \in 1..Len(N) : names[i] \in Range(N)
             /\ \A i \in Len(N) + 1..Len(N) + Len(T) : names[i] \in Range(T)
             /\ \A i \in Len(N) + Len(T) + 1..Len(names) : names[i] \in Range(A)
<1> DEFINE N == NonTerminals(ps)
           T == Terminals(ps)
           A == ActionsOf(ps)
           names == SymbolNames(ps)
           S == Range(N) \cup TerminalSymbols \cup Actions
<1>1. N \in Seq(Range(N)) /\ \A b : b \in Range(N) <=> \E p \in DOMAIN ps : ps[p].name = b
  BY NonTerminalsAreNames DEF AreProductions
<1>2. T \in Seq(TerminalSymbols) /\ Range(T) = TerminalSymbols \cap Mentioned(ps)
  <2>1. TerminalOrder \in Seq(TerminalSymbols) /\ Range(TerminalOrder) = TerminalSymbols
    BY OrderAssumption DEF TerminalSymbols
  <2>2. Kept(TerminalOrder, Mentioned(ps)) \in Seq(TerminalSymbols)
    BY <2>1, KeptType
  <2> QED
    BY <2>1, <2>2, KeptRange DEF Terminals
<1>3. A \in Seq(Actions) /\ Range(A) = Actions \cap Mentioned(ps)
  <2>1. ActionOrder \in Seq(Actions) /\ Range(ActionOrder) = Actions
    BY OrderAssumption DEF Actions
  <2>2. Kept(ActionOrder, Mentioned(ps)) \in Seq(Actions)
    BY <2>1, KeptType
  <2> QED
    BY <2>1, <2>2, KeptRange DEF ActionsOf
<1>4. names = (N \o T) \o A
  BY DEF SymbolNames
<1> HIDE DEF N, T, A, names
<1>5. N \in Seq(S) /\ T \in Seq(S) /\ A \in Seq(S)
  BY <1>1, <1>2, <1>3
<1> HIDE DEF S
<1> DEFINE NT == N \o T
<1>6. /\ NT \in Seq(S) /\ Len(NT) = Len(N) + Len(T)
      /\ Range(NT) = Range(N) \cup Range(T)
      /\ \A i \in 1..Len(N) : NT[i] \in Range(N)
      /\ \A i \in Len(N) + 1..Len(N) + Len(T) : NT[i] \in Range(T)
  BY ONLY <1>5, RangeConcat
<1>0. names = NT \o A
  BY <1>4
<1> HIDE DEF NT
<1>7. /\ names \in Seq(S) /\ Len(names) = Len(NT) + Len(A)
      /\ Range(names) = Range(NT) \cup Range(A)
      /\ \A i \in Len(NT) + 1..Len(NT) + Len(A) : names[i] \in Range(A)
  <2>1. /\ NT \o A \in Seq(S) /\ Len(NT \o A) = Len(NT) + Len(A)
        /\ Range(NT \o A) = Range(NT) \cup Range(A)
        /\ \A i \in Len(NT) + 1..Len(NT) + Len(A) : (NT \o A)[i] \in Range(A)
    <3>1. NT \in Seq(S) /\ A \in Seq(S)
      BY <1>5, <1>6
    <3> QED
      BY ONLY <3>1, RangeConcat
  <2> QED
    BY ONLY <1>0, <2>1
<1>8. \A i \in 1..Len(NT) : names[i] = NT[i]
  BY <1>4, <1>5, <1>6 DEF NT
<1>9. Len(N) \in Nat /\ Len(T) \in Nat /\ Len(A) \in Nat
  BY <1>5
<1>10. /\ \A i \in 1..Len(N) : i \in 1..Len(NT)
       /\ \A i \in Len(N) + 1..Len(N) + Len(T) : i \in 1..Len(NT)
  BY <1>6, <1>9
<1>11. names \in Seq(Range(names))
  BY <1>7, InSeqOfRange
<1> QED
  BY <1>1, <1>2, <1>3, <1>6, <1>7, <1>8, <1>9, <1>10, <1>11 DEF N, T, A, names

\* Numbers tell the symbols of a table and their kinds apart as names do.
LEMMA SymbolKinds ==
  ASSUME NEW ps, AreProductions(ps), NamesApart(ps)
  PROVE  LET t == Construct(ps)
             ids == Ids(ps)
         IN  \A b \in DOMAIN ids :
               /\ ids[b] \in NonTerminalIds(t) <=> IsNonTerminal(b)
               /\ ids[b] \in TerminalIds(t) <=> b \in TerminalSymbols
               /\ ids[b] \in ActionIds(t) <=> b \in Actions
               /\ \A c \in DOMAIN ids : ids[b] = ids[c] => b = c
<1> DEFINE t == Construct(ps)
           ids == Ids(ps)
           names == SymbolNames(ps)
           N == NonTerminals(ps)
           T == Terminals(ps)
           A == ActionsOf(ps)
           l == Len(N)
           m == Len(T)
           k == Len(A)
<1>1. /\ l \in Nat /\ m \in Nat /\ k \in Nat
      /\ names \in Seq(Range(names)) /\ Len(names) = l + m + k
      /\ \A b : b \in Range(N) <=> \E p \in DOMAIN ps : ps[p].name = b
      /\ Range(T) = TerminalSymbols \cap Mentioned(ps)
      /\ Range(A) = Actions \cap Mentioned(ps)
      /\ \A i \in 1..l : names[i] \in Range(N)
      /\ \A i \in l + 1..l + m : names[i] \in Range(T)
      /\ \A i \in l + m + 1..Len(names) : names[i] \in Range(A)
  BY NameLists
<1>2. /\ DOMAIN ids = Range(names)
      /\ \A b \in Range(names) : ids[b] \in 0..Len(names) - 1 /\ names[ids[b] + 1] = b
  BY <1>1, IdsNumber
<1>3. /\ NonTerminalIds(t) = 0..l - 1 /\ TerminalIds(t) = l..l + m - 1
      /\ ActionIds(t) = l + m..l + m + k - 1
  BY ConstructFields DEF NonTerminalIds, TerminalIds, ActionIds
<1>4. \A b \in Range(N) : IsNonTerminal(b)
  BY <1>1 DEF NamesApart
<1> HIDE DEF t, ids, names, N, T, A, l, m, k
<1>5. \A b : b \in TerminalSymbols \/ b \in Actions <=> ~IsNonTerminal(b)
  BY DEF IsNonTerminal
<1>6. \A b : ~(b \in TerminalSymbols /\ b \in Actions)
  BY OrderAssumption
<1> SUFFICES ASSUME NEW b \in Range(names)
             PROVE  /\ ids[b] \in NonTerminalIds(t) <=> IsNonTerminal(b)
                    /\ ids[b] \in TerminalIds(t) <=> b \in TerminalSymbols
                    /\ ids[b] \in ActionIds(t) <=> b \in Actions
                    /\ \A c \in Range(names) : ids[b] = ids[c] => b = c
  BY <1>2 DEF t, ids
<1> DEFINE i == ids[b]
<1>7. i \in 0..(l + m + k) - 1 /\ names[i + 1] = b
  BY <1>1, <1>2
<1>8. \A c \in Range(names) : ids[b] = ids[c] => b = c
  BY <1>2
<1> HIDE DEF i
<1>9. \/ i \in 0..l - 1 /\ i \notin l..l + m - 1 /\ i \notin l + m..l + m + k - 1 /\ i + 1 \in 1..l
      \/ i \notin 0..l - 1 /\ i \in l..l + m - 1 /\ i \notin l + m..l + m + k - 1
         /\ i + 1 \in l + 1..l + m
      \/ i \notin 0..l - 1 /\ i \notin l..l + m - 1 /\ i \in l + m..l + m + k - 1
         /\ i + 1 \in l + m + 1..l + m + k
  BY <1>1, <1>7
<1>10. /\ i + 1 \in 1..l => IsNonTerminal(b)
       /\ i + 1 \in l + 1..l + m => b \in TerminalSymbols
       /\ i + 1 \in l + m + 1..l + m + k => b \in Actions
  BY <1>1, <1>4, <1>7
<1> QED
  BY <1>3, <1>5, <1>6, <1>8, <1>9, <1>10 DEF i

\* All symbols that a table has to know are in its lists.
LEMMA AllListed ==
  ASSUME NEW ps, AreProductions(ps), Valid(ps)
  PROVE  LET D == DOMAIN Ids(ps) IN
         /\ \A p \in DOMAIN ps : ps[p].name \in D
         /\ \A b \in Mentioned(ps) : b \in D
         /\ D = Range(SymbolNames(ps))
<1>1. DOMAIN Ids(ps) = Range(SymbolNames(ps))
  BY DEF Ids
<1>2. /\ Range(SymbolNames(ps)) = Range(NonTerminals(ps)) \cup Range(Terminals(ps)) \cup Range(ActionsOf(ps))
      /\ \A b : b \in Range(NonTerminals(ps)) <=> \E p \in DOMAIN ps : ps[p].name = b
      /\ Range(Terminals(ps)) = TerminalSymbols \cap Mentioned(ps)
      /\ Range(ActionsOf(ps)) = Actions \cap Mentioned(ps)
  BY NameLists
<1>3. ASSUME NEW b \in Mentioned(ps), IsNonTerminal(b) PROVE \E p \in DOMAIN ps : ps[p].name = b
  <2>1. PICK q \in DOMAIN ps : b \in Range(ps[q].handle)
    BY DEF Mentioned
  <2>2. Named(ps, b) # {}
    BY <1>3, <2>1 DEF Valid
  <2> QED
    BY <2>2 DEF Named
<1> QED
  BY <1>1, <1>2, <1>3 DEF IsNonTerminal

\* The grammar symbols of a handle of the table are the numbers of its symbols.
LEMMA HandleOfConstruct ==
  ASSUME NEW ps, AreProductions(ps), NamesApart(ps), Valid(ps), NEW p \in DOMAIN ps
  PROVE  LET r == HandleOf(Construct(ps), p)
             s == SymbolsOf(ps, p)
             ids == Ids(ps)
         IN  /\ Len(s) \in Nat /\ DOMAIN s = 1..Len(s) /\ Len(r) = Len(s) /\ DOMAIN r = 1..Len(s)
             /\ \A i \in 1..Len(s) : /\ s[i] \in DOMAIN ids /\ s[i] \notin Actions
                                     /\ s[i] \in Mentioned(ps) /\ r[i] = ids[s[i]]
<1> DEFINE t == Construct(ps)
           ids == Ids(ps)
           h == ps[p].handle
           s == SymbolsOf(ps, p)
           S == Range(h)
           K == Range(h) \ Actions
           L == NonTerminalIds(t) \cup TerminalIds(t)
           I == {ids[b] : b \in DOMAIN ids}
           r == HandleOf(t, p)
<1>1. h \in Seq(S) /\ s = Kept(h, K)
  BY DEF AreProductions, IsProduction, SymbolsOf, Symbols
<1>2. S \subseteq Mentioned(ps) /\ S \subseteq DOMAIN ids
  <2>1. S \subseteq Mentioned(ps)
    BY DEF Mentioned
  <2> QED
    BY <2>1, AllListed
<1>3. \A b \in S : ids[b] \in L <=> b \in K
  <2>1. \A b \in DOMAIN ids : /\ ids[b] \in NonTerminalIds(t) <=> IsNonTerminal(b)
                              /\ ids[b] \in TerminalIds(t) <=> b \in TerminalSymbols
    BY SymbolKinds
  <2>2. \A b : IsNonTerminal(b) \/ b \in TerminalSymbols <=> b \notin Actions
    BY OrderAssumption DEF IsNonTerminal
  <2> HIDE DEF t, ids
  <2> QED
    BY <1>2, <2>1, <2>2
<1>4. r = Kept(Each(ids, h), L)
  BY ConstructFields DEF HandleOf, GrammarSymbols, Each
<1>5. Maps(ids, S, I)
  BY <1>2 DEF Maps
<1> HIDE DEF t, ids, h, s, S, K, L, I, r
<1>6. r = Each(ids, s)
  BY <1>1, <1>3, <1>4, <1>5, KeptOfEach
<1>7. s \in Seq(S) /\ s \in Seq(S \cap K)
  BY <1>1, KeptType
<1>8. Len(s) \in Nat /\ DOMAIN s = 1..Len(s) /\ \A i \in 1..Len(s) : s[i] \in S /\ s[i] \in K
  BY <1>7
<1>9. /\ r \in Seq(I) /\ Len(r) = Len(s) /\ DOMAIN r = DOMAIN s
      /\ \A i \in DOMAIN s : r[i] = ids[s[i]]
  BY <1>5, <1>6, <1>7, EachType
<1>10. \A i \in 1..Len(s) : s[i] \notin Actions
  BY <1>8 DEF K
<1> QED
  BY <1>2, <1>8, <1>9, <1>10 DEF r, s, ids, t

\* What the sets in the numbers of the table are.
LEMMA IdSets ==
  ASSUME NEW ps, AreProductions(ps), NamesApart(ps), Valid(ps), NEW b \in DOMAIN Ids(ps)
  PROVE  LET ids == Ids(ps) IN
         /\ ids[b] \in NullableIds(ps) <=> ContainsEpsilon(ps, b)
         /\ \A c : c \in FirstIds(ps)[ids[b]] <=> \E w \in FirstOf(ps, b) : c = ids[w]
         /\ \A c : c \in FollowIds(ps)[ids[b]] <=>
              \E w \in TerminalSymbols \cap Mentioned(ps) :
                 c = ids[w] /\ \A q \in DOMAIN ps : ps[q].name = b => w \in ps[q].follow
<1> DEFINE ids == Ids(ps)
           names == SymbolNames(ps)
           n == Len(names)
           i == ids[b]
           F(j) == IF IsNonTerminal(names[j + 1]) THEN {ids[w] : w \in FirstOf(ps, names[j + 1])}
                   ELSE {j}
           follows(x) == {w \in Range(Terminals(ps)) : \A p \in Named(ps, x) : w \in ps[p].follow}
           G(j) == {ids[w] : w \in follows(names[j + 1])}
<1>1. names \in Seq(Range(names)) /\ Range(Terminals(ps)) = TerminalSymbols \cap Mentioned(ps)
  BY NameLists
<1>2. DOMAIN ids = Range(names)
  BY DEF Ids
<1>3. i \in 0..n - 1 /\ names[i + 1] = b
  BY <1>1, <1>2, IdsNumber
<1>4. \A c \in DOMAIN ids : ids[b] = ids[c] => b = c
  BY SymbolKinds
<1>5. i \in NullableIds(ps) <=> ContainsEpsilon(ps, b)
  <2>1. \A c : c \in NullableIds(ps) <=> \E x \in DOMAIN ids : ContainsEpsilon(ps, x) /\ c = ids[x]
    BY DEF NullableIds
  <2>2. b \in DOMAIN ids
    OBVIOUS
  <2> HIDE DEF ids
  <2> QED
    BY <1>4, <2>1, <2>2
<1>6. FirstIds(ps)[i] = F(i)
  <2>1. FirstIds(ps) = [j \in 0..n - 1 |-> F(j)]
    BY DEF FirstIds
  <2> HIDE DEF F, i, n
  <2> QED
    BY <1>3, <2>1
<1>7. \A c : c \in FirstIds(ps)[i] <=> \E w \in FirstOf(ps, b) : c = ids[w]
  <2> HIDE DEF ids, names
  <2>1. CASE IsNonTerminal(b)
    <3>1. F(i) = {ids[w] : w \in FirstOf(ps, b)}
      BY <1>3, <2>1
    <3> QED
      BY <1>6, <3>1
  <2>2. CASE ~IsNonTerminal(b)
    <3>1. F(i) = {ids[b]} /\ FirstOf(ps, b) = {b}
      BY <1>3, <2>2 DEF FirstOf
    <3> QED
      BY <1>6, <3>1
  <2> QED
    BY <2>1, <2>2
<1>8. FollowIds(ps)[i] = G(i)
  <2>1. FollowIds(ps) = [j \in 0..n - 1 |-> G(j)]
    BY DEF FollowIds
  <2> HIDE DEF G, i, n
  <2> QED
    BY <1>3, <2>1
<1>9. \A c : c \in FollowIds(ps)[i] <=>
         \E w \in TerminalSymbols \cap Mentioned(ps) :
            c = ids[w] /\ \A q \in DOMAIN ps : ps[q].name = b => w \in ps[q].follow
  <2>1. \A w : w \in follows(b) <=> /\ w \in TerminalSymbols \cap Mentioned(ps)
                                    /\ \A q \in DOMAIN ps : ps[q].name = b => w \in ps[q].follow
    BY <1>1 DEF Named
  <2>2. G(i) = {ids[w] : w \in follows(b)}
    BY <1>3
  <2> HIDE DEF follows, G, ids, i
  <2> QED
    BY <1>8, <2>1, <2>2
<1> QED
  BY <1>5, <1>7, <1>9

\* What may be read when a production is to be applied has its entry, and no other
\* production has that.
LEMMA EntriesOfConstruct ==
  ASSUME NEW ps, AreProductions(ps), NamesApart(ps), Justified(ps), Valid(ps), IsLL1(ps),
         NEW p \in DOMAIN ps, NEW w \in FirstPlus(ps[p])
  PROVE  LET t == Construct(ps)
             ids == Ids(ps)
             entry == <<ids[ps[p].name], ids[w]>>
         IN  HasEntry(t, ids[ps[p].name], ids[w]) /\ t.table[entry] = p
<1> DEFINE t == Construct(ps)
           ids == Ids(ps)
           entries == UNION {{<<ids[ps[q].name], ids[v]>> : v \in FirstPlus(ps[q])} : q \in DOMAIN ps}
           Fits(q, entry) == /\ ids[ps[q].name] = entry[1]
                             /\ \E v \in FirstPlus(ps[q]) : ids[v] = entry[2]
           here == <<ids[ps[p].name], ids[w]>>
<1>1. t.table = [entry \in entries |-> CHOOSE q \in DOMAIN ps : Fits(q, entry)]
  BY DEF Construct
<1>2. here \in entries
  OBVIOUS
<1>3. Fits(p, here)
  OBVIOUS
<1>4. ASSUME NEW q \in DOMAIN ps, Fits(q, here) PROVE q = p
  <2>1. PICK v \in FirstPlus(ps[q]) : ids[v] = ids[w]
    BY <1>4
  <2>2. w \in DOMAIN ids /\ v \in DOMAIN ids
    <3>1. \A r \in DOMAIN ps : \A x \in FirstPlus(ps[r]) : x \in TerminalSymbols \cap Mentioned(ps)
      BY SetsMentioned DEF FirstPlus
    <3> QED
      BY <3>1, AllListed
  <2>3. ps[p].name \in DOMAIN ids /\ ps[q].name \in DOMAIN ids
    BY AllListed
  <2>4. \A b, c \in DOMAIN ids : ids[b] = ids[c] => b = c
    BY SymbolKinds
  <2>5. ids[ps[q].name] = ids[ps[p].name]
    BY <1>4
  <2> HIDE DEF ids
  <2>6. v = w /\ ps[q].name = ps[p].name
    BY <2>1, <2>2, <2>3, <2>4, <2>5
  <2>7. FirstPlus(ps[p]) \cap FirstPlus(ps[q]) # {}
    BY <2>1, <2>6
  <2> QED
    BY <2>6, <2>7 DEF IsLL1
<1> HIDE DEF entries, Fits, here
<1>5. t.table[here] = CHOOSE q \in DOMAIN ps : Fits(q, here)
  BY <1>1, <1>2
<1>6. (CHOOSE q \in DOMAIN ps : Fits(q, here)) = p
  BY <1>3, <1>4
<1>7. here \in DOMAIN t.table
  BY <1>1, <1>2
<1> QED
  BY <1>5, <1>6, <1>7 DEF HasEntry, here

\* A stretch of a handle in the numbers of the table.
LEMMA StretchOfConstruct ==
  ASSUME NEW ps, AreProductions(ps), NamesApart(ps), Valid(ps), NEW p \in DOMAIN ps
  PROVE  LET r == HandleOf(Construct(ps), p)
             s == SymbolsOf(ps, p)
         IN  /\ \A i \in 0..Len(s), j \in 1..Len(s) + 1 :
                  i < j => (MeetIn(NullableIds(ps), r, i, j) <=> Adjacent(Erasable(ps), s, i, j))
             /\ MayVanish(NullableIds(ps), r) => AllEpsilon(ps, s)
<1> DEFINE r == HandleOf(Construct(ps), p)
           s == SymbolsOf(ps, p)
           n == Len(s)
           M == NullableIds(ps)
           E == Erasable(ps)
<1>1. /\ n \in Nat /\ DOMAIN s = 1..n /\ DOMAIN r = 1..n
      /\ \A i \in 1..n : s[i] \in DOMAIN Ids(ps) /\ r[i] = Ids(ps)[s[i]]
  BY HandleOfConstruct
<1>2. \A i \in 1..n : r[i] \in M <=> s[i] \in E
  BY <1>1, IdSets, ErasableIsFlagged
<1>3. \A i \in 1..n : r[i] \in M <=> ContainsEpsilon(ps, s[i])
  BY <1>1, IdSets
<1> HIDE DEF r, s, n, M, E
<1>4. ASSUME NEW i \in 0..n, NEW j \in 1..n + 1, i < j
      PROVE  MeetIn(M, r, i, j) <=> Adjacent(E, s, i, j)
  <2>1. \A k \in i + 1..j - 1 : k \in 1..n
    BY <1>1
  <2> QED
    BY <1>2, <1>4, <2>1 DEF MeetIn, Adjacent
<1>5. MayVanish(M, r) => AllEpsilon(ps, s)
  BY <1>1, <1>3 DEF MayVanish, AllEpsilon, Range
<1> QED
  BY <1>4, <1>5 DEF r, s, n, M, E

\* What a handle in the numbers of the table starts with is in the set of its production.
LEMMA StartersOfConstruct ==
  ASSUME NEW ps, AreProductions(ps), NamesApart(ps), Valid(ps), NEW p \in DOMAIN ps,
         Settled(ps, p),
         NEW c, c \in Starters(NullableIds(ps), FirstIds(ps), HandleOf(Construct(ps), p))
  PROVE  \E w \in ps[p].first : c = Ids(ps)[w]
<1> DEFINE r == HandleOf(Construct(ps), p)
           s == SymbolsOf(ps, p)
           ids == Ids(ps)
           first == FirstIds(ps)
<1>1. /\ Len(s) \in Nat /\ DOMAIN s = 1..Len(s) /\ DOMAIN r = 1..Len(s)
      /\ \A i \in 1..Len(s) : s[i] \in DOMAIN ids /\ r[i] = ids[s[i]]
  BY HandleOfConstruct
<1>2. PICK j \in DOMAIN r : MeetIn(NullableIds(ps), r, 0, j) /\ c \in first[r[j]]
  BY DEF Starters
<1>3. PICK w \in FirstOf(ps, s[j]) : c = ids[w]
  BY <1>1, <1>2, IdSets
<1>4. Adjacent(Erasable(ps), s, 0, j)
  <2>1. 0 \in 0..Len(s) /\ j \in 1..Len(s) + 1 /\ 0 < j
    BY <1>1
  <2> HIDE DEF r, s
  <2> QED
    BY <1>2, <2>1, StretchOfConstruct DEF r, s
<1>5. s \in Seq(Range(s)) /\ j \in DOMAIN s
  BY <1>1, SymbolsOfType
<1>6. w \in FirstOfAll(ps, s)
  BY <1>3, <1>4, <1>5, FirstOfAllIsAdjacent
<1>7. w \in ps[p].first
  BY <1>6 DEF Settled
<1> QED
  BY <1>3, <1>7

\* And so is what may be read where it is to be applied.
LEMMA MetOfConstruct ==
  ASSUME NEW ps, AreProductions(ps), NamesApart(ps), Valid(ps), NEW p \in DOMAIN ps,
         Settled(ps, p),
         MayVanish(NullableIds(ps), HandleOf(Construct(ps), p)),
         NEW c, c \in FollowIds(ps)[Ids(ps)[ps[p].name]]
  PROVE  ps[p].epsilon /\ \E w \in ps[p].follow : c = Ids(ps)[w]
<1>1. ps[p].epsilon
  BY StretchOfConstruct DEF Settled
<1>2. ps[p].name \in DOMAIN Ids(ps)
  BY AllListed
<1>3. PICK w \in TerminalSymbols \cap Mentioned(ps) :
        c = Ids(ps)[w] /\ \A q \in DOMAIN ps : ps[q].name = ps[p].name => w \in ps[q].follow
  BY <1>2, IdSets
<1> QED
  BY <1>1, <1>3

\* What comes behind a nonterminal of a handle.
LEMMA TrailerOfConstruct ==
  ASSUME NEW ps, AreProductions(ps), NamesApart(ps), Justified(ps), Valid(ps),
         NEW p \in DOMAIN ps, Settled(ps, p)
  PROVE  LET r == HandleOf(Construct(ps), p)
             nullable == NullableIds(ps)
             first == FirstIds(ps)
             follow == FollowIds(ps)
         IN  \A i \in DOMAIN r :
               /\ \A j \in DOMAIN r :
                    i < j /\ MeetIn(nullable, r, i, j) => first[r[j]] \subseteq follow[r[i]]
               /\ MeetIn(nullable, r, i, Len(r) + 1)
                    => follow[Ids(ps)[ps[p].name]] \subseteq follow[r[i]]
<1> DEFINE r == HandleOf(Construct(ps), p)
           s == SymbolsOf(ps, p)
           n == Len(s)
           ids == Ids(ps)
           nullable == NullableIds(ps)
           first == FirstIds(ps)
           follow == FollowIds(ps)
           E == Erasable(ps)
<1>1. /\ n \in Nat /\ DOMAIN s = 1..n /\ Len(r) = n /\ DOMAIN r = 1..n
      /\ \A i \in 1..n : s[i] \in DOMAIN ids /\ s[i] \in Mentioned(ps) /\ r[i] = ids[s[i]]
                         /\ s[i] \notin Actions
  BY HandleOfConstruct
<1>2. \A i \in 0..n, j \in 1..n + 1 :
        i < j => (MeetIn(nullable, r, i, j) <=> Adjacent(E, s, i, j))
  BY StretchOfConstruct
<1>3. ps[p].name \in DOMAIN ids
  BY AllListed
<1>4. \A i \in 1..n : \A c : c \in first[r[i]] <=> \E w \in FirstOf(ps, s[i]) : c = ids[w]
  BY <1>1, IdSets
<1>5. \A i \in 1..n : \A c : c \in follow[r[i]] <=>
        \E w \in TerminalSymbols \cap Mentioned(ps) :
          c = ids[w] /\ \A q \in DOMAIN ps : ps[q].name = s[i] => w \in ps[q].follow
  BY <1>1, IdSets
<1>6. \A c \in follow[ids[ps[p].name]] :
        \E w \in TerminalSymbols \cap Mentioned(ps) : c = ids[w] /\ w \in ps[p].follow
  BY <1>3, IdSets
<1>7. ASSUME NEW i \in 1..n, NEW w \in Trailer(ps, p, i), NEW q \in DOMAIN ps, ps[q].name = s[i]
      PROVE  w \in ps[q].follow
  BY <1>1, <1>7 DEF Settled
<1>8. ASSUME NEW i \in 1..n, NEW w
      PROVE  w \in Trailer(ps, p, i) <=>
               \/ \E j \in 1..n : Adjacent(E, s, i, j) /\ w \in FirstOf(ps, s[j])
               \/ Adjacent(E, s, i, n + 1) /\ w \in FollowOf(ps, ps[p].name)
  BY <1>1, TrailerIsAdjacent
<1>9. ASSUME NEW j \in 1..n, NEW w \in FirstOf(ps, s[j])
      PROVE  w \in TerminalSymbols \cap Mentioned(ps)
  <2>1. CASE IsNonTerminal(s[j])
    <3>1. PICK q \in DOMAIN ps : w \in ps[q].first
      BY <2>1 DEF FirstOf, Named
    <3> QED
      BY <3>1, SetsMentioned
  <2>2. CASE ~IsNonTerminal(s[j])
    <3>1. w = s[j] /\ s[j] \in TerminalSymbols
      BY <1>1, <2>2 DEF FirstOf, IsNonTerminal
    <3> QED
      BY <1>1, <3>1
  <2> QED
    BY <2>1, <2>2
<1>10. \A w \in ps[p].follow : w \in FollowOf(ps, ps[p].name)
  BY DEF FollowOf, Named
<1> HIDE DEF r, s, n, ids, nullable, first, follow, E
<1> SUFFICES ASSUME NEW i \in 1..n
             PROVE  /\ \A j \in 1..n :
                         i < j /\ MeetIn(nullable, r, i, j) => first[r[j]] \subseteq follow[r[i]]
                    /\ MeetIn(nullable, r, i, n + 1) => follow[ids[ps[p].name]] \subseteq follow[r[i]]
  BY <1>1 DEF r, nullable, first, follow, ids
<1>11. ASSUME NEW j \in 1..n, i < j, MeetIn(nullable, r, i, j), NEW c \in first[r[j]]
       PROVE  c \in follow[r[i]]
  <2>1. Adjacent(E, s, i, j)
    <3>1. i \in 0..n /\ j \in 1..n + 1
      BY <1>1
    <3> QED
      BY <1>2, <1>11, <3>1
  <2>2. PICK w \in FirstOf(ps, s[j]) : c = ids[w]
    BY <1>4, <1>11
  <2>3. w \in Trailer(ps, p, i)
    BY <1>8, <2>1, <2>2
  <2>4. w \in TerminalSymbols \cap Mentioned(ps)
    BY <1>9, <2>2
  <2>5. \A q \in DOMAIN ps : ps[q].name = s[i] => w \in ps[q].follow
    BY <1>7, <2>3
  <2> QED
    BY <1>5, <2>2, <2>4, <2>5
<1>12. ASSUME MeetIn(nullable, r, i, n + 1), NEW c \in follow[ids[ps[p].name]]
       PROVE  c \in follow[r[i]]
  <2>1. Adjacent(E, s, i, n + 1)
    <3>1. i \in 0..n /\ n + 1 \in 1..n + 1 /\ i < n + 1
      BY <1>1
    <3> QED
      BY <1>2, <1>12, <3>1
  <2>2. PICK w \in TerminalSymbols \cap Mentioned(ps) : c = ids[w] /\ w \in ps[p].follow
    BY <1>6, <1>12
  <2>3. w \in Trailer(ps, p, i)
    BY <1>8, <1>10, <2>1, <2>2
  <2>4. \A q \in DOMAIN ps : ps[q].name = s[i] => w \in ps[q].follow
    BY <1>7, <2>3
  <2> QED
    BY <1>5, <2>2, <2>4
<1> QED
  BY <1>11, <1>12

\* When all is settled, the table of a grammar has an entry for all that may come.
LEMMA SettledPredicts ==
  ASSUME NEW ps, AreProductions(ps), NamesApart(ps), Justified(ps), Valid(ps), IsLL1(ps),
         \A p \in DOMAIN ps : Settled(ps, p)
  PROVE  PredictsItsGrammar(ps)
<1> DEFINE t == Construct(ps)
           ids == Ids(ps)
           nullable == NullableIds(ps)
           first == FirstIds(ps)
           follow == FollowIds(ps)
<1>1. ASSUME NEW a \in TerminalIds(t) PROVE a \notin nullable /\ first[a] = {a}
  <2> DEFINE names == SymbolNames(ps)
             l == Len(NonTerminals(ps))
             m == Len(Terminals(ps))
  <2>1. /\ l \in Nat /\ m \in Nat /\ Len(ActionsOf(ps)) \in Nat
        /\ Len(names) = l + m + Len(ActionsOf(ps))
        /\ \A i \in l + 1..l + m : names[i] \in TerminalSymbols
    BY NameLists
  <2>2. TerminalIds(t) = l..l + m - 1
    BY ConstructFields DEF TerminalIds
  <2>3. ASSUME a \in nullable PROVE FALSE
    <3>1. PICK b \in DOMAIN ids : ContainsEpsilon(ps, b) /\ a = ids[b]
      BY <2>3 DEF NullableIds
    <3>2. ids[b] \in TerminalIds(t) <=> b \in TerminalSymbols
      BY SymbolKinds
    <3> QED
      BY <3>1, <3>2 DEF ContainsEpsilon, IsNonTerminal
  <2>4. a \in 0..Len(names) - 1 /\ a + 1 \in l + 1..l + m
    <3> HIDE DEF names, l, m, t
    <3> QED
      BY <2>1, <2>2
  <2>5. ~IsNonTerminal(names[a + 1])
    BY <2>1, <2>4 DEF IsNonTerminal
  <2>6. first[a] = {a}
    BY <2>4, <2>5 DEF FirstIds
  <2> QED
    BY <2>3, <2>6
<1>2. DOMAIN t.productions = DOMAIN ps /\ \A p \in DOMAIN ps : t.productionNames[p] = ids[ps[p].name]
  BY ConstructFields
<1>3. ASSUME NEW p \in DOMAIN ps
      PROVE  LET s == HandleOf(t, p)
                 x == t.productionNames[p]
                 starters == Starters(nullable, first, s)
                 met == starters \cup IF MayVanish(nullable, s) THEN follow[x] ELSE {}
             IN  /\ MayVanish(nullable, s) => x \in nullable
                 /\ starters \subseteq first[x]
                 /\ \A i \in {i \in DOMAIN s : s[i] \in NonTerminalIds(t)} :
                      /\ \A j \in DOMAIN s :
                           i < j /\ MeetIn(nullable, s, i, j) => first[s[j]] \subseteq follow[s[i]]
                      /\ MeetIn(nullable, s, i, Len(s) + 1) => follow[x] \subseteq follow[s[i]]
                 /\ \A b \in met : HasEntry(t, x, b) /\ t.table[<<x, b>>] = p
  <2> DEFINE s == HandleOf(t, p)
             x == ids[ps[p].name]
             starters == Starters(nullable, first, s)
  <2>1. ps[p].name \in DOMAIN ids /\ IsNonTerminal(ps[p].name) /\ Settled(ps, p)
    BY AllListed DEF NamesApart
  <2>2. MayVanish(nullable, s) => x \in nullable
    <3>1. MayVanish(nullable, s) => ps[p].epsilon
      BY <2>1, StretchOfConstruct DEF Settled
    <3>2. ps[p].epsilon => ContainsEpsilon(ps, ps[p].name)
      BY <2>1 DEF ContainsEpsilon, Named
    <3> QED
      BY <2>1, <3>1, <3>2, IdSets
  <2>3. \A c \in starters : \E w \in ps[p].first : c = ids[w]
    BY <2>1, StartersOfConstruct
  <2>4. ASSUME NEW c \in starters PROVE c \in first[x]
    <3>1. PICK w \in ps[p].first : c = ids[w]
      BY <2>3
    <3>2. w \in FirstOf(ps, ps[p].name)
      BY <2>1 DEF FirstOf, Named
    <3> QED
      BY <2>1, <3>1, <3>2, IdSets
  <2>5. ASSUME NEW c, c \in starters \/ (MayVanish(nullable, s) /\ c \in follow[x])
        PROVE  HasEntry(t, x, c) /\ t.table[<<x, c>>] = p
    <3>1. PICK w \in FirstPlus(ps[p]) : c = ids[w]
      <4>1. CASE c \in starters
        BY <2>3, <4>1 DEF FirstPlus
      <4>2. CASE MayVanish(nullable, s) /\ c \in follow[x]
        <5>1. ps[p].epsilon /\ \E w \in ps[p].follow : c = ids[w]
          BY <2>1, <4>2, MetOfConstruct
        <5> QED
          BY <5>1 DEF FirstPlus
      <4> QED
        BY <2>5, <4>1, <4>2
    <3> QED
      BY <3>1, EntriesOfConstruct
  <2>6. \A i \in DOMAIN s :
          /\ \A j \in DOMAIN s :
               i < j /\ MeetIn(nullable, s, i, j) => first[s[j]] \subseteq follow[s[i]]
          /\ MeetIn(nullable, s, i, Len(s) + 1) => follow[x] \subseteq follow[s[i]]
    BY <2>1, TrailerOfConstruct
  <2>7. t.productionNames[p] = x
    BY <1>2
  <2> HIDE DEF s, x, starters, t, nullable, first, follow
  <2> QED
    BY <2>2, <2>4, <2>5, <2>6, <2>7 DEF s, starters
<1> HIDE DEF nullable, first, follow, t
<1>4. Predicts(t, nullable, first, follow)
  BY <1>1, <1>2, <1>3 DEF Predicts
<1> QED
  BY <1>4 DEF PredictsItsGrammar, t, nullable, first, follow

\* The table that construct() (cfg/ll/SyntaxTable.cpp:31-128) makes of what finalize()
\* (cfg/Grammar.cpp:185-248) leaves has an entry for whatever token may come where a
\* nonterminal is expected in a sentence, and it is the production that goes on with it.
\* That holds of every grammar that is valid and LL(1), as construct() asserts, whose
\* kinds of symbols have different names, and whose last pass set no flag.
THEOREM TablePredicts ==
  Spec => [](pc = "done" /\ ~flagged /\ NamesApart(productions)
             /\ Valid(productions) /\ IsLL1(productions)
             => PredictsItsGrammar(productions))
<1>1. Inv => (pc = "done" /\ ~flagged /\ NamesApart(productions)
              /\ Valid(productions) /\ IsLL1(productions)
              => PredictsItsGrammar(productions))
  <2> SUFFICES ASSUME Inv, pc = "done", ~flagged, NamesApart(productions),
                      Valid(productions), IsLL1(productions)
               PROVE  PredictsItsGrammar(productions)
    BY Zenon
  <2> DEFINE ps == productions
  <2>1. AreProductions(ps) /\ Justified(ps)
    BY DEF Inv, Shape
  <2>2. \A p \in DOMAIN ps : Settled(ps, p)
    <3>1. Len(ps) \in Nat /\ DOMAIN ps = 1..Len(ps) /\ visiting \in Nat
      BY <2>1, SequenceIsFunction DEF AreProductions, Inv, Shape
    <3>2. \A p \in DOMAIN ps : p < visiting
      BY <3>1 DEF Inv, PassSettles
    <3> QED
      BY <3>2 DEF Inv, PassSettles
  <2> QED
    BY <2>1, <2>2, SettledPredicts
<1> QED
  BY <1>1, Invariance, PTL

=============================================================================
