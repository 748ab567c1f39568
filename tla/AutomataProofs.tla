---------------------------- MODULE AutomataProofs ----------------------------
(***************************************************************************)
(* The table that the subset construction leaves is right, for every NFA   *)
(* with finitely many edges and however the construction ends; and what    *)
(* the minimizer makes of an automaton does the same and has no two states *)
(* alike, for every automaton with finitely many transitions.              *)
(***************************************************************************)
EXTENDS DFABuilder, DFAMinimizer, SequenceLemmas, FunctionTheorems

\* What has been looked at: the i-th configuration with the k-th symbol.
Visited(i, k) == i \in 1..taken /\ k \in 1..Len(Alphabet) /\ (i = taken => k < at)

RowsAreRight == \A i, k : Visited(i, k) => RowIsRight(i, k)
RowsAreVisited ==
  \A e \in DOMAIN T : \E i, k : Visited(i, k) /\ e = <<i - 1, Alphabet[k]>>
NumberedOnce == \A i, j \in DOMAIN Q : Q[i] = Q[j] => i = j
StartsRight == Q[1] = EpsilonClosure(nfa, InitialListing)

Progress ==
  /\ taken \in 1..Len(Q)
  /\ at \in Nat \ {0}
  /\ StartsRight
  /\ RowsAreRight
  /\ RowsAreVisited
  /\ NumberedOnce

\* The invariant that is inductive: the table is right as far as it has been
\* filled, and has nothing else.
BuilderInv ==
  /\ nfa \in Automata
  /\ \E S : Q \in Seq(S)
  /\ building = "start" => Q = <<>> /\ T = <<>> /\ at = 1
  /\ building = "work" => Progress

\* The alphabet of an automaton with finitely many edges is a finite list.
LEMMA AlphabetIsList ==
  ASSUME NEW n \in Automata
  PROVE  Len(AlphabetOf(n)) \in Nat
<1> DEFINE all == {e[2] : e \in n.edges}
           S == all \ {Epsilon}
           f == [e \in n.edges |-> e[2]]
<1>1. IsFiniteSet(n.edges)
  BY AutomataAssumption
<1>2. f \in Surjection(n.edges, all)
  BY DEF Surjection
<1>3. IsFiniteSet(all)
  BY <1>1, <1>2, FS_Surjection DEF ExistsSurjection
<1>4. IsFiniteSet(S)
  BY <1>3, FS_Subset, Zenon
<1>5. Cardinality(S) \in Nat
  BY <1>4, FS_CardinalityType
<1> HIDE DEF all, S
<1> DEFINE s == Ascending(S)
<1>6. DOMAIN s = 1..Cardinality(S)
  BY DEF Ascending
<1>7. s \in Seq({s[i] : i \in 1..Cardinality(S)})
  <2> DEFINE R == {s[i] : i \in 1..Cardinality(S)}
             m == Cardinality(S)
  <2>1. s = [i \in 1..m |-> s[i]]
    BY SMTT(30) DEF Ascending
  <2> HIDE DEF s, m
  <2>2. [i \in 1..m |-> s[i]] \in Seq({s[i] : i \in 1..m})
    BY <1>5 DEF m
  <2> QED
    BY <2>1, <2>2 DEF m
<1>8. Len(s) \in Nat
  BY <1>7, LenProperties, Zenon
<1> QED
  BY <1>8 DEF AlphabetOf, S, all

LEMMA Initially == BuilderInit => BuilderInv
<1> SUFFICES ASSUME BuilderInit PROVE BuilderInv
  OBVIOUS
<1>1. nfa \in Automata /\ building = "start" /\ Q = <<>> /\ T = <<>> /\ at = 1
  BY DEF BuilderInit, Fresh
<1>2. Q \in Seq({})
  BY <1>1
<1> QED
  BY <1>1, <1>2 DEF BuilderInv

\* Looking at one more symbol: the entry it adds, if any, is the only change.
LEMMA VisitOne ==
  ASSUME BuilderInv, VisitTarget
  PROVE  BuilderInv'
<1> DEFINE target == Target
           e0 == <<taken - 1, Alphabet[at]>>
           c == IF target \in Range(Q) THEN ConfigurationNumber(target) ELSE Len(Q)
<1>1. /\ building = "work" /\ at <= Len(Alphabet) /\ Listed(Arrived) # {}
      /\ Q' = IF target \in Range(Q) THEN Q ELSE Append(Q, target)
      /\ T' = Inserted(T, e0, c)
      /\ at' = at + 1
      /\ UNCHANGED <<nfa, building, taken>>
  BY DEF VisitTarget, Working, Visit
<1>2. Progress /\ nfa \in Automata
  BY <1>1 DEF BuilderInv
<1>3. PICK S : Q \in Seq(S)
  BY DEF BuilderInv
<1>4. Q \in Seq(S \cup {target})
  BY <1>3
<1>5. Len(Q) \in Nat /\ DOMAIN Q = 1..Len(Q)
  BY <1>3, LenProperties, Zenon
<1> HIDE DEF target
<1>6. /\ Q' \in Seq(S \cup {target})
      /\ Len(Q') \in {Len(Q), Len(Q) + 1}
      /\ DOMAIN Q' = 1..Len(Q')
      /\ \A j \in DOMAIN Q : j \in DOMAIN Q' /\ Q'[j] = Q[j]
  BY <1>1, <1>4, <1>5, AppendProperties, LenProperties
<1>7. c + 1 \in DOMAIN Q' /\ Q'[c + 1] = target
  <2>1. CASE target \in Range(Q)
    <3>1. PICK n \in DOMAIN Q : Q[n] = target
      BY <2>1 DEF Range
    <3> DEFINE j == CHOOSE i \in DOMAIN Q : Q[i] = target
    <3>2. j \in DOMAIN Q /\ Q[j] = target
      BY <3>1
    <3>3. c = j - 1
      BY <2>1 DEF ConfigurationNumber
    <3> QED
      BY <1>1, <1>5, <2>1, <3>2, <3>3
  <2>2. CASE target \notin Range(Q)
    BY <1>1, <1>4, <1>5, <2>2, AppendProperties, LenProperties
  <2> QED
    BY <2>1, <2>2
<1> HIDE DEF c
<1>8. /\ DOMAIN T' = DOMAIN T \cup {e0}
      /\ T'[e0] = c
      /\ \A e \in DOMAIN T : e # e0 => T'[e] = T[e]
  BY <1>1 DEF Inserted
<1>9. taken \in 1..Len(Q') /\ at' \in Nat \ {0}
  BY <1>1, <1>2, <1>5, <1>6 DEF Progress
<1>10. Alphabet' = Alphabet /\ Len(Alphabet) \in Nat
  BY <1>1, <1>2, AlphabetIsList DEF Alphabet
<1>11. /\ at \in 1..Len(Alphabet)
       /\ \A x, y : x = taken /\ y = at => Visited(x, y)'
  BY <1>1, <1>2, <1>5, <1>10 DEF Progress, Visited
<1>12. \A i, k : Visited(i, k)' => Visited(i, k) \/ (i = taken /\ k = at)
  BY <1>1, <1>2, <1>5, <1>10 DEF Progress, Visited
<1>13. StartsRight'
  BY <1>1, <1>2, <1>5, <1>6 DEF Progress, StartsRight, InitialListing
<1>14. RowsAreRight'
  <2> SUFFICES ASSUME NEW i, NEW k, Visited(i, k)' PROVE RowIsRight(i, k)'
    BY Zenon DEF RowsAreRight
  <2> DEFINE arrived == Delta(nfa, Q[i], Alphabet[k])
             e == <<i - 1, Alphabet[k]>>
  <2>1. i \in 1..taken /\ taken \in 1..Len(Q) /\ i \in DOMAIN Q
    BY <1>1, <1>2, <1>5 DEF Visited, Progress
  <2>2. Q'[i] = Q[i]
    BY <1>6, <2>1, Zenon
  <2>3. CASE e = e0
    <3>1. i = taken /\ Alphabet[k] = Alphabet[at]
      BY <2>1, <2>3, <1>5
    <3>2. arrived = Arrived
      BY <3>1 DEF Arrived
    <3> QED
      BY <1>1, <1>7, <1>8, <1>10, <2>2, <2>3, <3>2 DEF RowIsRight, target, Target
  <2>4. CASE e # e0
    <3>1. RowIsRight(i, k)
      BY <1>2, <1>12, <2>4 DEF Progress, RowsAreRight
    <3>2. CASE Listed(arrived) = {}
      <4>1. e \notin DOMAIN T'
        BY <1>8, <2>4, <3>1, <3>2 DEF RowIsRight
      <4> QED
        BY <1>1, <1>10, <2>2, <3>2, <4>1 DEF RowIsRight
    <3>3. CASE Listed(arrived) # {}
      <4>1. e \in DOMAIN T /\ T[e] + 1 \in DOMAIN Q /\ Q[T[e] + 1] = EpsilonClosure(nfa, arrived)
        BY <3>1, <3>3 DEF RowIsRight
      <4>2. e \in DOMAIN T' /\ T'[e] = T[e]
        BY <1>8, <2>4, <4>1
      <4>3. T[e] + 1 \in DOMAIN Q' /\ Q'[T[e] + 1] = Q[T[e] + 1]
        BY <1>6, <4>1, Zenon
      <4> QED
        BY <1>1, <1>10, <2>2, <3>3, <4>1, <4>2, <4>3 DEF RowIsRight
    <3> QED
      BY <3>2, <3>3
  <2> QED
    BY <2>3, <2>4
<1>15. RowsAreVisited'
  <2> SUFFICES ASSUME NEW e \in DOMAIN T'
               PROVE  \E i, k : Visited(i, k)' /\ e = <<i - 1, Alphabet[k]>>
    BY <1>10 DEF RowsAreVisited
  <2>1. CASE e = e0
    BY <1>11, <2>1
  <2>2. CASE e \in DOMAIN T
    <3>1. PICK i, k : Visited(i, k) /\ e = <<i - 1, Alphabet[k]>>
      BY <1>2, <2>2 DEF Progress, RowsAreVisited
    <3>2. Visited(i, k)'
      BY <1>1, <1>2, <1>10, <1>11, <3>1 DEF Visited, Progress
    <3> QED
      BY <3>1, <3>2
  <2> QED
    BY <1>8, <2>1, <2>2
<1>16. NumberedOnce'
  <2>1. CASE target \in Range(Q)
    BY <1>1, <1>2, <2>1 DEF Progress, NumberedOnce
  <2>2. CASE target \notin Range(Q)
    <3>1. /\ Len(Q') = Len(Q) + 1
          /\ Q'[Len(Q) + 1] = target
          /\ \A i \in 1..Len(Q) : Q[i] # target
      BY <1>1, <1>4, <1>5, <2>2, AppendProperties DEF Range
    <3> QED
      BY <1>2, <1>5, <1>6, <3>1 DEF Progress, NumberedOnce
  <2> QED
    BY <2>1, <2>2
<1> QED
  BY <1>1, <1>2, <1>6, <1>9, <1>13, <1>14, <1>15, <1>16 DEF BuilderInv, Progress

\* The first configuration: nothing has been looked at.
LEMMA StartOne ==
  ASSUME BuilderInv, Start
  PROVE  BuilderInv'
<1> DEFINE first == EpsilonClosure(nfa, InitialListing)
<1>1. /\ Q' = <<first>> /\ taken' = 1 /\ at' = 1 /\ T' = <<>>
      /\ UNCHANGED nfa /\ building' = "work"
  BY DEF BuilderInv, Start
<1>2. nfa' \in Automata
  BY <1>1 DEF BuilderInv
<1>3. InitialListing' = InitialListing
  BY <1>1 DEF InitialListing
<1> HIDE DEF first
<1>4. Q' \in Seq({first}) /\ Len(Q') = 1 /\ DOMAIN Q' = {1} /\ Q'[1] = first
  BY <1>1
<1>5. StartsRight'
  BY <1>1, <1>3, <1>4 DEF StartsRight, first
<1>6. \A i, k : ~Visited(i, k)'
  BY <1>1 DEF Visited
<1>7. RowsAreRight'
  BY <1>6, Zenon DEF RowsAreRight
<1>8. RowsAreVisited'
  BY <1>1 DEF RowsAreVisited
<1>9. NumberedOnce'
  BY <1>4 DEF NumberedOnce
<1>10. Progress'
  BY <1>1, <1>4, <1>5, <1>7, <1>8, <1>9 DEF Progress
<1>11. \E S : Q' \in Seq(S)
  BY <1>4, Zenon
<1> QED
  BY <1>1, <1>2, <1>10, <1>11 DEF BuilderInv

\* A symbol that leads nowhere: the table has had nothing for it.
LEMMA SkipOne ==
  ASSUME BuilderInv, Skip
  PROVE  BuilderInv'
<1>1. /\ building = "work" /\ at <= Len(Alphabet) /\ Listed(Arrived) = {}
      /\ at' = at + 1
      /\ UNCHANGED <<nfa, building, Q, taken, T>>
  BY DEF Skip, Working
<1>2. Progress /\ nfa \in Automata
  BY <1>1 DEF BuilderInv
<1>3. Len(Q) \in Nat /\ DOMAIN Q = 1..Len(Q)
  BY LenProperties, Zenon DEF BuilderInv
<1>4. Alphabet' = Alphabet /\ Len(Alphabet) \in Nat
  BY <1>1, <1>2, AlphabetIsList DEF Alphabet
<1>5. \A i, k : Visited(i, k)' => Visited(i, k) \/ (i = taken /\ k = at)
  BY <1>1, <1>2, <1>3, <1>4 DEF Progress, Visited
<1>6. \A i, k : Visited(i, k) => Visited(i, k)'
  BY <1>1, <1>2, <1>3, <1>4 DEF Progress, Visited
<1>7. RowsAreRight'
  <2> SUFFICES ASSUME NEW i, NEW k, Visited(i, k)' PROVE RowIsRight(i, k)'
    BY Zenon DEF RowsAreRight
  <2>1. RowIsRight(i, k)' <=> RowIsRight(i, k)
    BY <1>1, <1>4 DEF RowIsRight
  <2>2. CASE Visited(i, k)
    BY <1>2, <2>1, <2>2 DEF Progress, RowsAreRight
  <2>3. CASE i = taken /\ k = at
    <3>1. Delta(nfa, Q[i], Alphabet[k]) = Arrived
      BY <2>3 DEF Arrived
    <3>2. CASE <<i - 1, Alphabet[k]>> \notin DOMAIN T
      BY <1>1, <2>1, <3>1, <3>2 DEF RowIsRight
    <3>3. CASE <<i - 1, Alphabet[k]>> \in DOMAIN T
      <4>1. PICK j, l : Visited(j, l) /\ <<i - 1, Alphabet[k]>> = <<j - 1, Alphabet[l]>>
        BY <1>2, <3>3 DEF Progress, RowsAreVisited
      <4>2. i = j /\ Alphabet[k] = Alphabet[l]
        BY <1>2, <1>3, <2>3, <4>1 DEF Progress, Visited
      <4>3. RowIsRight(j, l)
        BY <1>2, <4>1 DEF Progress, RowsAreRight
      <4>4. RowIsRight(i, k)
        BY <4>2, <4>3 DEF RowIsRight
      <4> QED
        BY <2>1, <4>4
    <3> QED
      BY <3>2, <3>3
  <2> QED
    BY <1>5, <2>2, <2>3
<1>8. RowsAreVisited'
  <2> SUFFICES ASSUME NEW e \in DOMAIN T
               PROVE  \E i, k : Visited(i, k)' /\ e = <<i - 1, Alphabet[k]>>
    BY <1>1, <1>4 DEF RowsAreVisited
  <2>1. PICK i, k : Visited(i, k) /\ e = <<i - 1, Alphabet[k]>>
    BY <1>2 DEF Progress, RowsAreVisited
  <2> QED
    BY <1>6, <2>1
<1>9. StartsRight' /\ NumberedOnce'
  BY <1>1, <1>2 DEF Progress, StartsRight, NumberedOnce, InitialListing
<1>10. taken' \in 1..Len(Q') /\ at' \in Nat \ {0}
  BY <1>1, <1>2 DEF Progress
<1> QED
  BY <1>1, <1>2, <1>7, <1>8, <1>9, <1>10 DEF BuilderInv, Progress

\* The next configuration: all of the one before has been looked at.
LEMMA NextOne ==
  ASSUME BuilderInv, NextConfiguration
  PROVE  BuilderInv'
<1>1. /\ building = "work" /\ at > Len(Alphabet) /\ taken < Len(Q)
      /\ taken' = taken + 1 /\ at' = 1
      /\ UNCHANGED <<nfa, building, Q, T>>
  BY DEF NextConfiguration
<1>2. Progress /\ nfa \in Automata
  BY <1>1 DEF BuilderInv
<1>3. Len(Q) \in Nat
  BY LenProperties, Zenon DEF BuilderInv
<1>4. Alphabet' = Alphabet /\ Len(Alphabet) \in Nat
  BY <1>1, <1>2, AlphabetIsList DEF Alphabet
<1>5. \A i, k : Visited(i, k)' <=> Visited(i, k)
  BY <1>1, <1>2, <1>3, <1>4 DEF Progress, Visited
<1>6. \A i, k : RowIsRight(i, k)' <=> RowIsRight(i, k)
  BY <1>1, <1>4 DEF RowIsRight
<1>7. RowsAreRight'
  BY <1>2, <1>5, <1>6 DEF Progress, RowsAreRight
<1>8. RowsAreVisited'
  <2> SUFFICES ASSUME NEW e \in DOMAIN T
               PROVE  \E i, k : Visited(i, k)' /\ e = <<i - 1, Alphabet[k]>>
    BY <1>1, <1>4 DEF RowsAreVisited
  <2>1. PICK i, k : Visited(i, k) /\ e = <<i - 1, Alphabet[k]>>
    BY <1>2 DEF Progress, RowsAreVisited
  <2> QED
    BY <1>5, <2>1
<1>9. StartsRight' /\ NumberedOnce'
  BY <1>1, <1>2 DEF Progress, StartsRight, NumberedOnce, InitialListing
<1>10. taken' \in 1..Len(Q') /\ at' \in Nat \ {0}
  BY <1>1, <1>2, <1>3 DEF Progress
<1> QED
  BY <1>1, <1>2, <1>7, <1>8, <1>9, <1>10 DEF BuilderInv, Progress

LEMMA Step ==
  ASSUME BuilderInv, [BuilderStep]_builderVars
  PROVE  BuilderInv'
<1>1. CASE Start
  BY <1>1, StartOne
<1>2. CASE Skip
  BY <1>2, SkipOne
<1>3. CASE VisitTarget
  BY <1>3, VisitOne
<1>4. CASE NextConfiguration
  BY <1>4, NextOne
<1>5. CASE StartForever \/ VisitForever \/ VisitTooMany \/ Abort
  BY <1>5 DEF BuilderInv, StartForever, VisitForever, VisitTooMany, Abort, Stop
<1>6. CASE ConstructDFA
  BY <1>6 DEF BuilderInv, ConstructDFA
<1>7. CASE UNCHANGED builderVars
  <2>1. UNCHANGED <<nfa, building, Q, taken, at, T>>
    BY <1>7 DEF builderVars
  <2>2. UNCHANGED <<Alphabet, InitialListing>>
    BY <2>1 DEF Alphabet, InitialListing
  <2>3. \A i, k : RowIsRight(i, k)' = RowIsRight(i, k) /\ Visited(i, k)' = Visited(i, k)
    BY <2>1, <2>2 DEF RowIsRight, Visited
  <2>4. RowsAreRight => RowsAreRight'
    BY <2>3, Zenon DEF RowsAreRight
  <2>5. RowsAreVisited => RowsAreVisited'
    BY <2>1, <2>2, <2>3 DEF RowsAreVisited
  <2>6. Progress => Progress'
    BY <2>1, <2>2, <2>4, <2>5 DEF Progress, StartsRight, NumberedOnce
  <2> QED
    BY <2>1, <2>6 DEF BuilderInv
<1> QED
  BY <1>1, <1>2, <1>3, <1>4, <1>5, <1>6, <1>7 DEF BuilderStep

\* When the work list is empty, everything has been looked at.
LEMMA AllVisited == BuilderInv => TableIsRight
<1> SUFFICES ASSUME BuilderInv, Explored PROVE
      /\ Q[1] = EpsilonClosure(nfa, InitialListing)
      /\ \A i \in DOMAIN Q, k \in 1..Len(Alphabet) : RowIsRight(i, k)
      /\ \A i, j \in DOMAIN Q : Q[i] = Q[j] => i = j
  BY DEF TableIsRight
<1>1. Progress /\ at > Len(Alphabet) /\ taken = Len(Q) /\ nfa \in Automata
  BY DEF BuilderInv, Explored
<1>2. Len(Q) \in Nat /\ DOMAIN Q = 1..Len(Q)
  BY LenProperties, Zenon DEF BuilderInv
<1>3. Len(Alphabet) \in Nat
  BY <1>1, AlphabetIsList DEF Alphabet
<1>4. \A i \in DOMAIN Q, k \in 1..Len(Alphabet) : Visited(i, k)
  BY <1>1, <1>2, <1>3 DEF Visited, Progress
<1>5. \A i \in DOMAIN Q, k \in 1..Len(Alphabet) : RowIsRight(i, k)
  BY <1>1, <1>4 DEF Progress, RowsAreRight
<1> QED
  BY <1>1, <1>5 DEF Progress, StartsRight, NumberedOnce

\* For every automaton with finitely many edges, the subset construction leaves
\* the right table when its work list is empty (DFABuilder.cpp:82-122).
THEOREM TableTheorem == BuilderSpec => []TableIsRight
<1>1. BuilderInit => BuilderInv
  BY Initially
<1>2. BuilderInv /\ [BuilderStep]_builderVars => BuilderInv'
  BY Step
<1>3. BuilderInv => TableIsRight
  BY AllVisited
<1> QED
  BY <1>1, <1>2, <1>3, PTL DEF BuilderSpec

-----------------------------------------------------------------------------
(* The minimizer: for every automaton with finitely many transitions.      *)

\* Every state is in one of the groups gs, and no other.
IsGrouping(gs) ==
  /\ gs \in Seq(Seq(SourceStates))
  /\ \A s \in SourceStates : \E k \in 1..Len(gs) : s \in Range(gs[k])
  /\ \A k, l \in 1..Len(gs) : \A s \in SourceStates : s \in Range(gs[k]) /\ s \in Range(gs[l]) => k = l

LEMMA GroupsAre ==
  ASSUME NEW gs, IsGrouping(gs)
  PROVE  /\ Len(gs) \in Nat /\ DOMAIN gs = 1..Len(gs)
         /\ \A k \in 1..Len(gs) :
              /\ gs[k] \in Seq(SourceStates) /\ Range(gs[k]) \subseteq SourceStates
              /\ Len(gs[k]) \in Nat /\ DOMAIN gs[k] = 1..Len(gs[k])
<1> DEFINE St == SourceStates
<1>1. gs \in Seq(Seq(St))
  BY DEF IsGrouping
<1> HIDE DEF St
<1>2. Len(gs) \in Nat /\ DOMAIN gs = 1..Len(gs) /\ \A k \in 1..Len(gs) : gs[k] \in Seq(St)
  BY <1>1
<1>3. \A k \in 1..Len(gs) : /\ Len(gs[k]) \in Nat /\ DOMAIN gs[k] = 1..Len(gs[k])
                            /\ Range(gs[k]) \subseteq St
  <2> TAKE k \in 1..Len(gs)
  <2>1. gs[k] \in Seq(St)
    BY <1>2
  <2> QED
    BY <2>1 DEF Range
<1> QED
  BY <1>2, <1>3 DEF St

LEMMA InputAutomaton ==
  ASSUME IsMultiDFA(whole)
  PROVE  /\ dfa_.size \in Nat
         /\ SourceStates = 0..dfa_.size - 1 /\ SourceStates \subseteq Int
         /\ IsFiniteSet(SourceStates)
         /\ dfa_.initial \in SourceStates
         /\ DOMAIN dfa_.accepts \subseteq SourceStates
         /\ \A s, c : <<s, c>> \in DOMAIN dfa_.transitions =>
              /\ s \in SourceStates /\ c \in Range(Symbols)
              /\ dfa_.transitions[<<s, c>>] \in SourceStates
         /\ Symbols \in Seq(Int)
<1>1. IsAutomaton(dfa_)
  BY DEF IsMultiDFA, dfa_
<1>2. SourceStates = 0..dfa_.size - 1
  BY DEF SourceStates, StatesOf
<1>3. IsFiniteSet(SourceStates)
  <2>1. dfa_.size \in Nat
    BY <1>1 DEF IsAutomaton
  <2> QED
    BY <1>2, <2>1, FS_Interval
<1> DEFINE E == DOMAIN dfa_.transitions
           second == [e \in E |-> e[2]]
           C == {t[2] : t \in E}
<1>4. IsFiniteSet(E) /\ \A e \in E : e \in StatesOf(dfa_) \X Int /\ dfa_.transitions[e] \in StatesOf(dfa_)
  BY <1>1 DEF IsAutomaton
<1>5. second \in Surjection(E, C)
  BY DEF Surjection
<1> HIDE DEF second
<1>6. C \in SUBSET Int /\ IsFiniteSet(C)
  <2>1. IsFiniteSet(C)
    <3> HIDE DEF C, E
    <3> QED
      BY <1>4, <1>5, FS_Surjection
  <2>2. \A e \in E : e[2] \in Int
    BY <1>4
  <2> QED
    BY <2>1, <2>2
<1> HIDE DEF C
<1>7. Ascending(C) \in Seq(C) /\ Range(Ascending(C)) = C
  BY <1>6, AscendingLists
<1>8. Symbols = Ascending(C)
  BY DEF Symbols, SymbolsIn, C
<1>9. Symbols \in Seq(Int)
  <2>1. Symbols \in Seq(C) /\ C \subseteq Int
    BY <1>6, <1>7, <1>8
  <2> DEFINE q == Symbols
  <2> HIDE DEF q
  <2>2. /\ q = [i \in 1..Len(q) |-> q[i]] /\ Len(q) \in Nat
        /\ \A i \in 1..Len(q) : q[i] \in Int
    BY <2>1 DEF q
  <2>3. [i \in 1..Len(q) |-> q[i]] \in Seq(Int)
    BY <2>2
  <2> QED
    BY <2>2, <2>3 DEF q
<1>10. ASSUME NEW s, NEW c, <<s, c>> \in E
       PROVE  s \in SourceStates /\ c \in Range(Symbols) /\ dfa_.transitions[<<s, c>>] \in SourceStates
  <2>1. <<s, c>> \in StatesOf(dfa_) \X Int /\ dfa_.transitions[<<s, c>>] \in StatesOf(dfa_)
    BY <1>4, <1>10
  <2>2. c \in C
    <3>1. <<s, c>>[2] = c
      OBVIOUS
    <3> QED
      BY <1>10, <3>1 DEF C
  <2> QED
    BY <1>7, <1>8, <2>1, <2>2 DEF SourceStates
<1> QED
  BY <1>1, <1>2, <1>3, <1>9, <1>10 DEF IsAutomaton, SourceStates

\* The number of the group a state is in.
LEMMA PartitionIdIs ==
  ASSUME NEW gs, IsGrouping(gs), NEW k \in 1..Len(gs), NEW s \in SourceStates, s \in Range(gs[k])
  PROVE  PartitionId(gs, s) = k - 1
<1> DEFINE I == {i \in 1..Len(gs) : s \in Range(gs[i])}
<1>1. I = {k}
  BY DEF IsGrouping
<1>2. k \in Nat
  BY GroupsAre
<1>3. Min(I) \in I
  <2>1. I \subseteq Nat /\ I # {}
    BY <1>1, <1>2
  <2> HIDE DEF I
  <2> QED
    BY <2>1, MinIsMember
<1>4. PartitionId(gs, s) = (IF I # {} THEN Min(I) ELSE 0) - 1
  BY DEF PartitionId, SelectInSeq
<1> QED
  BY <1>1, <1>2, <1>3, <1>4

\* Every state has such a group, so that two states have the same number exactly if
\* they are in the same group.
LEMMA PartitionIds ==
  ASSUME NEW gs, IsGrouping(gs), NEW s \in SourceStates
  PROVE  \E k \in 1..Len(gs) : s \in Range(gs[k]) /\ PartitionId(gs, s) = k - 1
<1>1. PICK k \in 1..Len(gs) : s \in Range(gs[k])
  BY DEF IsGrouping
<1> QED
  BY <1>1, PartitionIdIs

LEMMA TargetGroupIs ==
  ASSUME IsMultiDFA(whole), NEW gs, IsGrouping(gs), NEW s \in SourceStates, NEW c
  PROVE  /\ TargetGroup(gs, s, c) \in Int
         /\ <<s, c>> \in DOMAIN dfa_.transitions => TargetGroup(gs, s, c) >= 0
         /\ <<s, c>> \notin DOMAIN dfa_.transitions => TargetGroup(gs, s, c) = -1
<1>1. CASE <<s, c>> \in DOMAIN dfa_.transitions
  <2>1. dfa_.transitions[<<s, c>>] \in SourceStates
    BY <1>1, InputAutomaton
  <2>2. PICK k \in 1..Len(gs) : PartitionId(gs, dfa_.transitions[<<s, c>>]) = k - 1
    BY <2>1, PartitionIds
  <2>3. TargetGroup(gs, s, c) = k - 1
    BY <1>1, <2>2 DEF TargetGroup
  <2>4. Len(gs) \in Nat
    BY GroupsAre
  <2> QED
    BY <1>1, <2>3, <2>4
<1>2. CASE <<s, c>> \notin DOMAIN dfa_.transitions
  BY <1>2 DEF TargetGroup
<1> QED
  BY <1>1, <1>2

\* What split() makes of a group S: disjoint parts of it, none of which is empty and
\* each two of which some symbol tells apart, or S itself if no symbol does.
IsSplit(parts, gs, S) ==
  /\ parts \in Seq(Seq(SourceStates))
  /\ Len(parts) >= 1
  /\ \A i \in 1..Len(parts) : Len(parts[i]) > 0 /\ Range(parts[i]) \subseteq Range(S)
  /\ \A s \in Range(S) : \E i \in 1..Len(parts) : s \in Range(parts[i])
  /\ \A i, j \in 1..Len(parts) : i # j =>
       \A s \in Range(parts[i]), t \in Range(parts[j]) :
         \E c \in Range(Symbols) : TargetGroup(gs, s, c) # TargetGroup(gs, t, c)
  /\ Len(parts) = 1 => \A c \in Range(Symbols) : ~Tells(gs, S, c)

LEMMA NonEmptyRange ==
  ASSUME NEW T1, NEW s \in Seq(T1)
  PROVE  Len(s) \in Nat /\ (Len(s) > 0 <=> Range(s) # {})
<1>1. Len(s) \in Nat /\ DOMAIN s = 1..Len(s)
  OBVIOUS
<1>2. Len(s) > 0 => s[1] \in Range(s)
  BY <1>1 DEF Range
<1>3. Range(s) # {} => Len(s) > 0
  BY <1>1 DEF Range
<1> QED
  BY <1>1, <1>2, <1>3

LEMMA SplitParts ==
  ASSUME IsMultiDFA(whole), NEW gs, IsGrouping(gs), NEW k0 \in 1..Len(gs), Len(gs[k0]) > 0
  PROVE  IsSplit(Split(gs, gs[k0]), gs, gs[k0])
<1> DEFINE S == gs[k0]
           I == {i \in 1..Len(Symbols) : Tells(gs, S, Symbols[i])}
           k == IF I # {} THEN Min(I) ELSE 0
           D == {TargetGroup(gs, s, Symbols[k]) : s \in Range(S)}
           order == Ascending(D)
           K(i) == {s \in Range(S) : TargetGroup(gs, s, Symbols[k]) = order[i]}
           parts == [i \in DOMAIN order |-> Kept(S, K(i))]
<1>1. Split(gs, S) = IF k = 0 THEN <<S>> ELSE parts
  BY DEF Split, SelectInSeq
<1>2. S \in Seq(SourceStates) /\ Range(S) \subseteq SourceStates /\ Len(S) \in Nat
  BY GroupsAre
<1>3. Symbols \in Seq(Int) /\ Len(Symbols) \in Nat /\ DOMAIN Symbols = 1..Len(Symbols)
      /\ IsFiniteSet(SourceStates)
  <2>1. Symbols \in Seq(Int) /\ IsFiniteSet(SourceStates)
    BY InputAutomaton
  <2> DEFINE q == Symbols
  <2> HIDE DEF q
  <2>2. q \in Seq(Int) => Len(q) \in Nat /\ DOMAIN q = 1..Len(q)
    OBVIOUS
  <2> QED
    BY <2>1, <2>2 DEF q
<1>4. I # {} => k \in I /\ k # 0
  <2> SUFFICES ASSUME I # {} PROVE k \in I /\ k # 0
    OBVIOUS
  <2>1. I \subseteq Nat /\ 0 \notin I
    BY <1>3
  <2> HIDE DEF I
  <2>2. Min(I) \in I
    BY <2>1, MinIsMember
  <2> QED
    BY <2>1, <2>2
<1>5. CASE k = 0
  <2>1. I = {}
    BY <1>4, <1>5
  <2>2. \A c \in Range(Symbols) : ~Tells(gs, S, c)
    BY <1>3, <2>1 DEF Range
  <2>3. <<S>> \in Seq(Seq(SourceStates)) /\ Len(<<S>>) = 1 /\ <<S>>[1] = S
    BY <1>2
  <2>4. \A i \in 1..1 : i = 1
    OBVIOUS
  <2> DEFINE one == <<S>>
  <2>5. Split(gs, S) = one
    BY <1>1, <1>5
  <2>6. one \in Seq(Seq(SourceStates)) /\ Len(one) = 1 /\ one[1] = S
    BY <2>3
  <2> HIDE DEF one, S
  <2>7. IsSplit(one, gs, S)
    <3>1. Len(S) > 0
      BY DEF S
    <3> QED
      BY <2>2, <2>4, <2>6, <3>1 DEF IsSplit
  <2> QED
    BY <2>5, <2>7 DEF S
<1>6. CASE k # 0
  <2>1. k \in 1..Len(Symbols) /\ Tells(gs, S, Symbols[k])
    BY <1>4, <1>6
  <2> DEFINE c == Symbols[k]
             move == [s \in Range(S) |-> TargetGroup(gs, s, c)]
  <2>2. c \in Range(Symbols)
    BY <1>3, <2>1 DEF Range
  <2> HIDE DEF S, k
  <2>3. IsFiniteSet(D) /\ D \in SUBSET Int
    <3>1. IsFiniteSet(Range(S))
      BY <1>2, <1>3, FS_Subset
    <3>2. move \in Surjection(Range(S), D)
      BY DEF Surjection
    <3>3. IsFiniteSet(D)
      <4> HIDE DEF move, D
      <4> QED
        BY <3>1, <3>2, FS_Surjection
    <3>4. \A s \in Range(S) : TargetGroup(gs, s, c) \in Int
      BY <1>2, TargetGroupIs
    <3> QED
      BY <3>3, <3>4
  <2>4. /\ order \in Seq(D) /\ Range(order) = D
        /\ \A i, j \in DOMAIN order : order[i] = order[j] => i = j
    <3> HIDE DEF D
    <3> QED
      BY <2>3, AscendingLists
  <2> DEFINE n == Len(order)
  <2>5. n \in Nat /\ DOMAIN order = 1..n /\ \A i \in 1..n : order[i] \in D
    <3> HIDE DEF D, order
    <3> QED
      BY <2>4
  <2>6. \A i \in 1..n : \E s \in Range(S) : TargetGroup(gs, s, c) = order[i]
    <3> HIDE DEF order
    <3> QED
      BY <2>5
  <2>7. \A s \in Range(S) : \E i \in 1..n : TargetGroup(gs, s, c) = order[i]
    <3> TAKE s \in Range(S)
    <3>1. TargetGroup(gs, s, c) \in Range(order)
      BY <2>4
    <3> HIDE DEF order
    <3> QED
      BY <2>5, <3>1 DEF Range
  <2>8. n >= 2
    <3>1. PICK s, t \in Range(S) : TargetGroup(gs, s, c) # TargetGroup(gs, t, c)
      BY <2>1 DEF Tells
    <3>2. PICK i \in 1..n : TargetGroup(gs, s, c) = order[i]
      BY <2>7
    <3>3. PICK j \in 1..n : TargetGroup(gs, t, c) = order[j]
      BY <2>7
    <3>4. i # j
      BY <3>1, <3>2, <3>3
    <3> HIDE DEF n
    <3> QED
      BY <2>5, <3>4
  <2> HIDE DEF order
  <2>9. \A i \in 1..n : /\ parts[i] \in Seq(SourceStates)
                        /\ Range(parts[i]) = K(i)
    <3> TAKE i \in 1..n
    <3>1. parts[i] = Kept(S, K(i))
      BY <2>5
    <3> HIDE DEF K
    <3>2. Kept(S, K(i)) \in Seq(SourceStates) /\ Range(Kept(S, K(i))) = Range(S) \cap K(i)
      BY <1>2, KeptType, KeptRange
    <3> QED
      BY <3>1, <3>2 DEF K
  <2>10. parts \in Seq(Seq(SourceStates)) /\ Len(parts) = n
    <3>1. parts = [i \in 1..n |-> parts[i]]
      BY <2>5
    <3> HIDE DEF parts, n
    <3>2. [i \in 1..n |-> parts[i]] \in Seq(Seq(SourceStates)) /\ Len([i \in 1..n |-> parts[i]]) = n
      BY <2>5, <2>9
    <3> QED
      BY <3>1, <3>2
  <2> HIDE DEF parts, n
  <2>11. \A i \in 1..n : Len(parts[i]) > 0 /\ Range(parts[i]) \subseteq Range(S)
    <3> TAKE i \in 1..n
    <3>1. Range(parts[i]) # {}
      BY <2>6, <2>9
    <3>2. parts[i] \in Seq(SourceStates)
      BY <2>9
    <3>3. Len(parts[i]) > 0
      BY <3>1, <3>2, NonEmptyRange
    <3> QED
      BY <2>9, <3>3
  <2>12. \A s \in Range(S) : \E i \in 1..n : s \in Range(parts[i])
    BY <2>7, <2>9
  <2>13. ASSUME NEW i \in 1..n, NEW j \in 1..n, i # j, NEW s \in Range(parts[i]), NEW t \in Range(parts[j])
         PROVE  TargetGroup(gs, s, c) # TargetGroup(gs, t, c)
    <3>1. TargetGroup(gs, s, c) = order[i] /\ TargetGroup(gs, t, c) = order[j]
      BY <2>9
    <3> QED
      BY <2>4, <2>5, <2>13, <3>1
  <2>14. n >= 1 /\ n # 1
    BY <2>5, <2>8
  <2> HIDE DEF c, K
  <2>15. IsSplit(parts, gs, S)
    BY <2>2, <2>10, <2>11, <2>12, <2>13, <2>14 DEF IsSplit
  <2> QED
    BY <1>1, <1>6, <2>15 DEF S
<1> QED
  BY <1>5, <1>6

-----------------------------------------------------------------------------
\* No symbol tells pairs apart at first; each round, what more of them do.
Tagged == {p \in SourceStates \X SourceStates : SameTag(p[1], p[2])}

LEMMA AlikeSteps ==
  ASSUME NEW n \in Nat
  PROVE  \E f \in [0..n -> SUBSET (SourceStates \X SourceStates)] :
           /\ f[0] = Tagged /\ \A i \in 1..n : f[i] = Kindred(f[i - 1])
           /\ Alike(n) = f[n]
<1> DEFINE V == SUBSET (SourceStates \X SourceStates)
           Body(f, i) == IF i = 0 THEN Tagged ELSE Kindred(f[i - 1])
           F == CHOOSE f : f = [i \in 0..n |-> Body(f, i)]
           G == [p \in V \X (1..n) |-> Kindred(p[1])]
<1>1. Alike(n) = F[n]
  BY DEF Alike, Tagged
<1>2. G \in [V \X (1..n) -> V]
  <2>1. \A R \in V : Kindred(R) \in V
    BY DEF Kindred
  <2>2. \A p \in V \X (1..n) : p[1] \in V
    OBVIOUS
  <2> HIDE DEF V
  <2> QED
    BY <2>1, <2>2
<1>3. PICK f \in [0..n -> V] : f[0] = Tagged /\ \A i \in 1..n : f[i] = G[<<f[i - 1], i>>]
  <2> DEFINE a == Tagged
  <2>1. a \in V
    BY DEF Tagged
  <2> HIDE DEF V, G, a, F, Body
  <2>2. \E f \in [0..n -> V] : Iterates(f, a, n, G)
    BY <1>2, <2>1, RecursiveFunction, Zenon
  <2> QED
    BY <2>2 DEF a, Iterates
<1>4. \A i \in 1..n : f[i] = Kindred(f[i - 1])
  <2> TAKE i \in 1..n
  <2> HIDE DEF V
  <2>1. i - 1 \in 0..n
    OBVIOUS
  <2>2. <<f[i - 1], i>> \in V \X (1..n)
    BY <2>1
  <2> QED
    BY <1>3, <2>2
<1> HIDE DEF G, V
<1>5. f = [i \in 0..n |-> Body(f, i)]
  <2>1. \A i \in 0..n : f[i] = Body(f, i)
    <3>1. \A i \in 0..n : i = 0 \/ i \in 1..n
      OBVIOUS
    <3>2. \A i \in 1..n : i # 0
      OBVIOUS
    <3> QED
      BY <1>3, <1>4, <3>1, <3>2
  <2> HIDE DEF Body
  <2> QED
    BY <2>1
<1>6. F = [i \in 0..n |-> Body(F, i)]
  <2> HIDE DEF Body
  <2> QED
    BY <1>5
<1> HIDE DEF F
<1>7. \A i \in 0..n : F[i] = Body(F, i)
  <2> HIDE DEF Body
  <2> QED
    BY <1>6
<1> DEFINE Same(i) == F[i] = f[i]
           I == {i \in Nat : i <= n => Same(i)}
<1>8. n \in I
  <2>1. 0 \in I
    BY <1>3, <1>7
  <2>2. \A i \in Nat : i \in I => i + 1 \in I
    <3> HIDE DEF Same
    <3> SUFFICES ASSUME NEW i \in Nat, i + 1 <= n, Same(i) PROVE Same(i + 1)
      OBVIOUS
    <3> USE DEF Same
    <3>1. i + 1 \in 0..n /\ i + 1 \in 1..n /\ (i + 1) - 1 = i /\ i + 1 # 0
      OBVIOUS
    <3> QED
      BY <1>4, <1>7, <3>1
  <2> HIDE DEF I
  <2> QED
    BY <2>1, <2>2, SetInduction
<1> QED
  BY <1>1, <1>3, <1>4, <1>8 DEF V

\* What no text of n + 1 symbols tells apart.
LEMMA AlikeNext ==
  /\ Alike(0) = Tagged
  /\ \A n \in Nat : Alike(n + 1) = Kindred(Alike(n))
<1>1. Alike(0) = Tagged
  BY AlikeSteps
<1>2. ASSUME NEW n \in Nat
      PROVE  Alike(n + 1) = Kindred(Alike(n))
  <2>1. PICK f : /\ f[0] = Tagged /\ \A i \in 1..n + 1 : f[i] = Kindred(f[i - 1])
                 /\ Alike(n + 1) = f[n + 1]
    <3>1. n + 1 \in Nat
      OBVIOUS
    <3> QED
      BY <3>1, AlikeSteps
  <2>2. PICK g : /\ g[0] = Tagged /\ \A i \in 1..n : g[i] = Kindred(g[i - 1])
                 /\ Alike(n) = g[n]
    BY AlikeSteps
  <2> DEFINE Same(i) == f[i] = g[i]
             I == {i \in Nat : i <= n => Same(i)}
  <2>3. 0 \in I
    BY <2>1, <2>2
  <2>4. \A i \in Nat : i \in I => i + 1 \in I
    <3> HIDE DEF Same
    <3> SUFFICES ASSUME NEW i \in Nat, i + 1 <= n, Same(i) PROVE Same(i + 1)
      OBVIOUS
    <3> USE DEF Same
    <3>1. i + 1 \in 1..n /\ i + 1 \in 1..n + 1 /\ (i + 1) - 1 = i
      OBVIOUS
    <3>2. f[i + 1] = Kindred(f[i]) /\ g[i + 1] = Kindred(g[i])
      BY <2>1, <2>2, <3>1
    <3> QED
      BY <3>2
  <2>5. n \in I
    <3> HIDE DEF I
    <3> QED
      BY <2>3, <2>4, SetInduction
  <2>6. n + 1 \in 1..n + 1 /\ (n + 1) - 1 = n
    OBVIOUS
  <2>7. f[n + 1] = Kindred(f[n])
    BY <2>1, <2>6
  <2> QED
    BY <2>1, <2>2, <2>5, <2>7
<1> QED
  BY <1>1, <1>2

\* A longer text tells more apart.
LEMMA AlikeShrinks ==
  ASSUME NEW n \in Nat, NEW m \in Nat, n <= m
  PROVE  Alike(m) \subseteq Alike(n)
<1> DEFINE Less(i) == Alike(n + i) \subseteq Alike(n)
           I == {i \in Nat : Less(i)}
<1>1. 0 \in I
  OBVIOUS
<1>2. \A i \in Nat : i \in I => i + 1 \in I
  <2> HIDE DEF Less
  <2> SUFFICES ASSUME NEW i \in Nat, Less(i) PROVE Less(i + 1)
    OBVIOUS
  <2> USE DEF Less
  <2>1. n + i \in Nat /\ n + (i + 1) = (n + i) + 1
    OBVIOUS
  <2>2. Alike(n + (i + 1)) = Kindred(Alike(n + i))
    BY <2>1, AlikeNext
  <2>3. Kindred(Alike(n + i)) \subseteq Alike(n + i)
    BY DEF Kindred
  <2> QED
    BY <2>2, <2>3
<1>3. m - n \in I
  <2> HIDE DEF I
  <2>1. m - n \in Nat
    OBVIOUS
  <2> QED
    BY <1>1, <1>2, <2>1, SetInduction
<1>4. n + (m - n) = m
  OBVIOUS
<1> QED
  BY <1>3, <1>4

-----------------------------------------------------------------------------
SameTagged(gs) == \A k \in 1..Len(gs) : \A s, t \in Range(gs[k]) : SameTag(s, t)

\* A text shorter than there are groups tells two groups apart.
ToldApart(gs) ==
  \A k, l \in 1..Len(gs) : k # l =>
    \A s \in Range(gs[k]), t \in Range(gs[l]) : <<s, t>> \notin Alike(Len(gs) - 1)

\* What holds of the groups in each round.
IsPartition(gs) == IsGrouping(gs) /\ Len(gs) >= 1 /\ SameTagged(gs) /\ ToldApart(gs)

NoneEmpty(gs) == \A k \in 1..Len(gs) : Len(gs[k]) > 0

Splits(gs) == [k \in DOMAIN gs |-> Split(gs, gs[k])]

LEMMA SplitsAre ==
  ASSUME IsMultiDFA(whole), NEW gs, IsGrouping(gs), NoneEmpty(gs)
  PROVE  /\ Splits(gs) \in Seq(Seq(Seq(SourceStates)))
         /\ Len(Splits(gs)) = Len(gs)
         /\ \A k \in 1..Len(gs) : IsSplit(Splits(gs)[k], gs, gs[k])
<1> DEFINE n == Len(gs)
           ss == Splits(gs)
<1>1. n \in Nat /\ DOMAIN gs = 1..n
  BY GroupsAre
<1>2. ss = [k \in 1..n |-> Split(gs, gs[k])]
  BY <1>1 DEF Splits
<1> HIDE DEF ss, n
<1>3. \A k \in 1..n : ss[k] = Split(gs, gs[k])
  BY <1>2
<1>4. \A k \in 1..n : IsSplit(ss[k], gs, gs[k])
  <2> TAKE k \in 1..n
  <2>1. Len(gs[k]) > 0
    BY DEF NoneEmpty, n
  <2>2. IsSplit(Split(gs, gs[k]), gs, gs[k])
    BY <2>1, SplitParts DEF n
  <2> QED
    BY <1>3, <2>2
<1>5. \A k \in 1..n : ss[k] \in Seq(Seq(SourceStates))
  BY <1>4 DEF IsSplit
<1> DEFINE V == Seq(Seq(SourceStates))
<1>6. ss = [k \in 1..n |-> ss[k]]
  BY <1>2
<1>7. ss \in Seq(V) /\ Len(ss) = n
  <2> HIDE DEF V
  <2>1. \A k \in 1..n : ss[k] \in V
    BY <1>5 DEF V
  <2>2. [k \in 1..n |-> ss[k]] \in Seq(V) /\ Len([k \in 1..n |-> ss[k]]) = n
    BY <1>1, <2>1
  <2> QED
    BY <1>6, <2>2
<1> QED
  BY <1>4, <1>7 DEF ss, n

\* Where the refined groups come from: the j-th is part col[j] of group row[j].
LEMMA RefinedFrom ==
  ASSUME IsMultiDFA(whole), NEW gs, IsGrouping(gs), NoneEmpty(gs)
  PROVE  /\ Refined(gs) \in Seq(Seq(SourceStates))
         /\ LongAs(Refined(gs), Splits(gs), Len(gs))
         /\ \E row, col : FlatBy(Refined(gs), Splits(gs), Len(gs), row, col)
<1> DEFINE V == Seq(SourceStates)
           ss == Splits(gs)
<1>1. ss \in Seq(Seq(V)) /\ Len(ss) = Len(gs)
  BY SplitsAre
<1>2. Refined(gs) = FlattenSeq(ss)
  BY DEF Refined, Splits
<1> HIDE DEF V, ss
<1>3. /\ FlattenSeq(ss) \in Seq(V)
      /\ LongAs(FlattenSeq(ss), ss, Len(ss))
      /\ \E row, col : FlatBy(FlattenSeq(ss), ss, Len(ss), row, col)
  BY <1>1, FlattenElements
<1> QED
  BY <1>1, <1>2, <1>3 DEF V, ss

\* Two states of one group whose next groups differ are told apart by one symbol more.
LEMMA TellsOneMore ==
  ASSUME IsMultiDFA(whole), NEW gs, IsPartition(gs), NEW s \in SourceStates, NEW t \in SourceStates,
         NEW c \in Range(Symbols), TargetGroup(gs, s, c) # TargetGroup(gs, t, c)
  PROVE  <<s, t>> \notin Alike(Len(gs))
<1> SUFFICES ASSUME <<s, t>> \in Alike(Len(gs)) PROVE FALSE
  OBVIOUS
<1> DEFINE n == Len(gs)
           R == Alike(n - 1)
           e == <<s, c>>
           f == <<t, c>>
           D == DOMAIN dfa_.transitions
<1>1. n \in Nat /\ n >= 1 /\ IsGrouping(gs)
  BY GroupsAre DEF IsPartition
<1>2. Alike(n) = Kindred(R)
  <2>1. n - 1 \in Nat /\ (n - 1) + 1 = n
    BY <1>1
  <2> HIDE DEF n
  <2> QED
    BY <2>1, AlikeNext
<1>3. <<s, t>> \in Kindred(R)
  BY <1>2
<1>4. /\ e \in D <=> f \in D
      /\ e \in D => <<dfa_.transitions[e], dfa_.transitions[f]>> \in R
  BY <1>3 DEF Kindred
<1>5. e \in D /\ f \in D
  <2>1. e \notin D /\ f \notin D => TargetGroup(gs, s, c) = TargetGroup(gs, t, c)
    BY DEF TargetGroup
  <2> QED
    BY <1>4, <2>1
<1> DEFINE s1 == dfa_.transitions[e]
           t1 == dfa_.transitions[f]
<1>6. s1 \in SourceStates /\ t1 \in SourceStates
  BY <1>5, InputAutomaton
<1>7. TargetGroup(gs, s, c) = PartitionId(gs, s1) /\ TargetGroup(gs, t, c) = PartitionId(gs, t1)
  BY <1>5 DEF TargetGroup
<1> HIDE DEF s1, t1
<1>8. PICK k \in 1..n : s1 \in Range(gs[k]) /\ PartitionId(gs, s1) = k - 1
  BY <1>1, <1>6, PartitionIds
<1>9. PICK l \in 1..n : t1 \in Range(gs[l]) /\ PartitionId(gs, t1) = l - 1
  BY <1>1, <1>6, PartitionIds
<1>10. k # l
  BY <1>7, <1>8, <1>9
<1>11. <<s1, t1>> \notin R
  BY <1>8, <1>9, <1>10 DEF IsPartition, ToldApart
<1> QED
  BY <1>4, <1>5, <1>11 DEF s1, t1

LEMMA RefinedKeeps ==
  ASSUME IsMultiDFA(whole), NEW gs, IsPartition(gs), NoneEmpty(gs)
  PROVE  /\ IsPartition(Refined(gs)) /\ NoneEmpty(Refined(gs))
         /\ Refined(gs) = gs =>
              \A k \in 1..Len(gs) : \A c \in Range(Symbols) : ~Tells(gs, gs[k], c)
<1> DEFINE r == Refined(gs)
           ss == Splits(gs)
           n == Len(gs)
           m == Len(r)
<1>1. IsGrouping(gs) /\ n \in Nat /\ n >= 1
  BY GroupsAre DEF IsPartition
<1>2. PICK row, col : FlatBy(r, ss, n, row, col)
  BY <1>1, RefinedFrom
<1>3. r \in Seq(Seq(SourceStates)) /\ LongAs(r, ss, n)
  BY <1>1, RefinedFrom
<1>4. \A k \in 1..n : IsSplit(ss[k], gs, gs[k])
  BY <1>1, SplitsAre
<1> HIDE DEF r, ss
<1>5. m \in Nat
  BY <1>3
<1>6. \A j \in 1..m : row[j] \in 1..n /\ col[j] \in 1..Len(ss[row[j]]) /\ r[j] = ss[row[j]][col[j]]
  BY <1>2 DEF FlatBy
<1>7. \A k \in 1..n : \A i \in 1..Len(ss[k]) : \E j \in 1..m : row[j] = k /\ col[j] = i
  BY <1>2 DEF FlatBy
<1>8. \A i, j \in 1..m : row[i] = row[j] /\ col[i] = col[j] => i = j
  BY <1>2 DEF FlatBy
<1>9. \A j \in 1..m : Len(r[j]) > 0 /\ Range(r[j]) \subseteq Range(gs[row[j]])
  <2>1. \A k \in 1..n : \A i \in 1..Len(ss[k]) :
          Len(ss[k][i]) > 0 /\ Range(ss[k][i]) \subseteq Range(gs[k])
    BY <1>4 DEF IsSplit
  <2> QED
    BY <1>6, <2>1
<1>10. NoneEmpty(r)
  BY <1>9 DEF NoneEmpty
<1>11. \A k \in 1..n : Len(ss[k]) \in Nat /\ Len(ss[k]) >= 1
  <2> TAKE k \in 1..n
  <2>1. ss[k] \in Seq(Seq(SourceStates)) /\ Len(ss[k]) >= 1
    BY <1>4 DEF IsSplit
  <2>2. Len(ss[k]) \in Nat
    BY <2>1, LenProperties, Zenon
  <2> QED
    BY <2>1, <2>2
<1>12. m >= n /\ ((\E k \in 1..n : Len(ss[k]) > 1) => m > n)
  <2>1. \A k \in 1..n : Len(ss[k]) > 0
    BY <1>11
  <2> QED
    BY <1>3, <2>1 DEF LongAs
\* States of two groups from one are told apart by a symbol.
<1>13. ASSUME NEW i \in 1..m, NEW j \in 1..m, i # j, row[i] = row[j],
              NEW s \in Range(r[i]), NEW t \in Range(r[j])
       PROVE  /\ \E c \in Range(Symbols) : TargetGroup(gs, s, c) # TargetGroup(gs, t, c)
              /\ m > n
  <2>1. col[i] # col[j]
    BY <1>8, <1>13
  <2> DEFINE k == row[i]
  <2>2. /\ k \in 1..n /\ col[i] \in 1..Len(ss[k]) /\ col[j] \in 1..Len(ss[k])
        /\ r[i] = ss[k][col[i]] /\ r[j] = ss[k][col[j]]
    BY <1>6, <1>13
  <2> HIDE DEF k
  <2>3. \E c \in Range(Symbols) : TargetGroup(gs, s, c) # TargetGroup(gs, t, c)
    <3> DEFINE part == ss[k]
    <3>1. IsSplit(part, gs, gs[k])
      BY <1>4, <2>2
    <3>2. s \in Range(part[col[i]]) /\ t \in Range(part[col[j]])
      BY <2>2
    <3>3. col[i] \in 1..Len(part) /\ col[j] \in 1..Len(part)
      BY <2>2
    <3> DEFINE Apart(p, q) == \E c \in Range(Symbols) : TargetGroup(gs, p, c) # TargetGroup(gs, q, c)
               x == col[i]
               y == col[j]
    <3> HIDE DEF part
    <3>4. \A a, b \in 1..Len(part) : a # b =>
            \A p \in Range(part[a]), q \in Range(part[b]) : Apart(p, q)
      BY <3>1 DEF IsSplit
    <3>5. x \in 1..Len(part) /\ y \in 1..Len(part) /\ x # y /\ s \in Range(part[x]) /\ t \in Range(part[y])
      BY <2>1, <3>2, <3>3
    <3> HIDE DEF Apart, x, y
    <3>6. Apart(s, t)
      BY <3>4, <3>5, Zenon
    <3> QED
      BY <3>6 DEF Apart
  <2>4. Len(ss[k]) > 1
    <3>1. Len(ss[k]) \in Nat
      BY <1>11, <2>2
    <3> QED
      BY <2>1, <2>2, <3>1
  <2> QED
    BY <1>12, <2>2, <2>3, <2>4
<1>14. \A j \in 1..m : Range(gs[row[j]]) \subseteq SourceStates
  BY <1>1, <1>6, GroupsAre
<1>15. IsGrouping(r)
  <2>1. ASSUME NEW s \in SourceStates
        PROVE  \E j \in 1..m : s \in Range(r[j])
    <3>1. PICK k \in 1..n : s \in Range(gs[k])
      BY <1>1 DEF IsGrouping
    <3>2. PICK i \in 1..Len(ss[k]) : s \in Range(ss[k][i])
      BY <1>4, <3>1 DEF IsSplit
    <3>3. PICK j \in 1..m : row[j] = k /\ col[j] = i
      BY <1>7
    <3> QED
      BY <1>6, <3>2, <3>3
  <2>2. ASSUME NEW i \in 1..m, NEW j \in 1..m, NEW s \in SourceStates, s \in Range(r[i]), s \in Range(r[j])
        PROVE  i = j
    <3>1. s \in Range(gs[row[i]]) /\ s \in Range(gs[row[j]])
      BY <1>9, <2>2
    <3>2. row[i] = row[j]
      BY <1>1, <1>6, <3>1 DEF IsGrouping
    <3> QED
      BY <1>13, <2>2, <3>2
  <2> QED
    BY <1>3, <2>1, <2>2 DEF IsGrouping
<1>16. SameTagged(r)
  <2> SUFFICES ASSUME NEW j \in 1..m, NEW s \in Range(r[j]), NEW t \in Range(r[j])
               PROVE  SameTag(s, t)
    BY DEF SameTagged
  <2>1. row[j] \in 1..n /\ s \in Range(gs[row[j]]) /\ t \in Range(gs[row[j]])
    BY <1>6, <1>9
  <2> QED
    BY <2>1 DEF IsPartition, SameTagged
<1>17. ToldApart(r)
  <2> SUFFICES ASSUME NEW i \in 1..m, NEW j \in 1..m, i # j, NEW s \in Range(r[i]), NEW t \in Range(r[j])
               PROVE  <<s, t>> \notin Alike(m - 1)
    BY DEF ToldApart
  <2>1. /\ row[i] \in 1..n /\ row[j] \in 1..n
        /\ s \in Range(gs[row[i]]) /\ t \in Range(gs[row[j]])
        /\ s \in SourceStates /\ t \in SourceStates
    BY <1>6, <1>9, <1>14
  <2>2. CASE row[i] # row[j]
    <3>1. <<s, t>> \notin Alike(n - 1)
      BY <2>1, <2>2 DEF IsPartition, ToldApart
    <3>2. n - 1 \in Nat /\ m - 1 \in Nat /\ n - 1 <= m - 1
      BY <1>1, <1>5, <1>12
    <3> HIDE DEF n, m
    <3>3. Alike(m - 1) \subseteq Alike(n - 1)
      BY <3>2, AlikeShrinks
    <3> QED
      BY <3>1, <3>3
  <2>3. CASE row[i] = row[j]
    <3>1. (\E c \in Range(Symbols) : TargetGroup(gs, s, c) # TargetGroup(gs, t, c)) /\ m > n
      BY <1>13, <2>3
    <3>2. <<s, t>> \notin Alike(n)
      BY <2>1, <3>1, TellsOneMore
    <3>3. n \in Nat /\ m - 1 \in Nat /\ n <= m - 1
      BY <1>1, <1>5, <3>1
    <3> HIDE DEF n, m
    <3>4. Alike(m - 1) \subseteq Alike(n)
      BY <3>3, AlikeShrinks
    <3> QED
      BY <3>2, <3>4
  <2> QED
    BY <2>2, <2>3
<1>18. m >= 1
  BY <1>1, <1>5, <1>12
<1>19. ASSUME r = gs, NEW k \in 1..n, NEW c \in Range(Symbols)
       PROVE  ~Tells(gs, gs[k], c)
  <2>1. ~(m > n)
    BY <1>1, <1>19
  <2>2. Len(ss[k]) = 1
    <3> DEFINE x == Len(ss[k])
    <3>1. ~(x > 1)
      BY <1>12, <2>1
    <3>2. x \in Nat /\ x >= 1
      BY <1>11
    <3> HIDE DEF x
    <3>3. x = 1
      BY <3>1, <3>2
    <3> QED
      BY <3>3 DEF x
  <2> QED
    BY <1>4, <2>2 DEF IsSplit
<1>20. IsPartition(r)
  BY <1>15, <1>16, <1>17, <1>18 DEF IsPartition
<1> QED
  BY <1>10, <1>19, <1>20 DEF r

-----------------------------------------------------------------------------
\* The groups Group starts with: one for each tag, and the states that have none.
TagGroup(s) == {t \in DOMAIN dfa_.accepts : dfa_.accepts[t] = dfa_.accepts[s]}

LEMMA SomeStates ==
  ASSUME IsMultiDFA(whole), NEW S \in SUBSET SourceStates
  PROVE  Ascending(S) \in Seq(SourceStates) /\ Range(Ascending(S)) = S
<1>1. S \in SUBSET Int /\ IsFiniteSet(S)
  <2>1. SourceStates \subseteq Int /\ IsFiniteSet(SourceStates)
    BY InputAutomaton
  <2> DEFINE St == SourceStates
  <2> HIDE DEF St
  <2>2. S \subseteq St
    BY DEF St
  <2> QED
    BY <2>1, <2>2, FS_Subset DEF St
<1> DEFINE l == Ascending(S)
<1>2. l \in Seq(S) /\ Range(l) = S
  BY <1>1, AscendingLists
<1> DEFINE St == SourceStates
<1> HIDE DEF l, St
<1>3. S \subseteq St
  BY DEF St
<1>4. l \in Seq(St)
  BY <1>2, <1>3
<1> QED
  BY <1>2, <1>4 DEF l, St

LEMMA TagGroups ==
  ASSUME IsMultiDFA(whole)
  PROVE  /\ GroupsByTag \in Seq(Seq(SourceStates))
         /\ \A k \in 1..Len(GroupsByTag) : \A s \in Range(GroupsByTag[k]) :
              s \in DOMAIN dfa_.accepts /\ Range(GroupsByTag[k]) = TagGroup(s)
         /\ \A s \in DOMAIN dfa_.accepts : \E k \in 1..Len(GroupsByTag) : s \in Range(GroupsByTag[k])
         /\ \A k, l \in 1..Len(GroupsByTag) :
              \A s \in Range(GroupsByTag[k]), t \in Range(GroupsByTag[l]) :
                dfa_.accepts[s] = dfa_.accepts[t] => k = l
<1> DEFINE A == DOMAIN dfa_.accepts
           acc(s) == dfa_.accepts[s]
           F == {s \in A : \A t \in A : acc(t) = acc(s) => s <= t}
           firsts == Ascending(F)
           gs == GroupsByTag
           n == Len(firsts)
<1>1. A \subseteq SourceStates /\ SourceStates \subseteq Nat
  <2>1. A \subseteq SourceStates /\ SourceStates = 0..dfa_.size - 1
    BY InputAutomaton
  <2>2. 0..dfa_.size - 1 \subseteq Nat
    BY InputAutomaton
  <2> QED
    BY <2>1, <2>2
<1>2. F \in SUBSET A
  OBVIOUS
<1>3. F \in SUBSET Int /\ IsFiniteSet(F)
  <2>1. F \in SUBSET SourceStates
    BY <1>1, <1>2
  <2> HIDE DEF F
  <2>2. SourceStates \subseteq Int /\ IsFiniteSet(SourceStates)
    BY InputAutomaton
  <2> DEFINE St == SourceStates
  <2> HIDE DEF St
  <2> QED
    BY <2>1, <2>2, FS_Subset DEF St
<1>4. /\ firsts \in Seq(F) /\ Range(firsts) = F
      /\ \A i, j \in DOMAIN firsts : firsts[i] = firsts[j] => i = j
  <2> HIDE DEF F
  <2> QED
    BY <1>3, AscendingLists
<1>5. AcceptStates(dfa_) \in Seq(SourceStates) /\ Range(AcceptStates(dfa_)) = A
  <2>1. A \in SUBSET SourceStates
    BY <1>1
  <2> QED
    BY <2>1, SomeStates DEF AcceptStates
<1>6. gs = [k \in DOMAIN firsts |-> Kept(AcceptStates(dfa_), TagGroup(firsts[k]))]
  BY DEF GroupsByTag, TagGroup
<1>7. \A s, t \in F : acc(s) = acc(t) => s = t
  <2> SUFFICES ASSUME NEW s \in F, NEW t \in F, acc(s) = acc(t) PROVE s = t
    OBVIOUS
  <2>1. s <= t /\ t <= s
    OBVIOUS
  <2>2. s \in Nat /\ t \in Nat
    BY <1>1, <1>2
  <2> HIDE DEF F
  <2> QED
    BY <2>1, <2>2
\* The least of the states with a tag is one of the first.
<1>8. ASSUME NEW s \in A
      PROVE  \E f \in F : acc(f) = acc(s)
  <2> DEFINE G == TagGroup(s)
  <2>1. G \subseteq Nat /\ G # {}
    BY <1>1 DEF TagGroup
  <2> HIDE DEF G
  <2>2. Min(G) \in G /\ \A y \in G : Min(G) <= y
    BY <2>1, MinIsLeast
  <2> DEFINE f == Min(G)
  <2> HIDE DEF f
  <2>3. f \in A /\ acc(f) = acc(s) /\ \A t \in A : acc(t) = acc(s) => f <= t
    BY <2>2 DEF G, TagGroup, f
  <2>4. f \in F
    BY <2>3
  <2> QED
    BY <2>3, <2>4
<1> HIDE DEF F, gs, firsts
<1>9. n \in Nat /\ DOMAIN firsts = 1..n /\ \A k \in 1..n : firsts[k] \in F
  BY <1>4
<1>10. \A f \in F : \E k \in 1..n : firsts[k] = f
  <2> TAKE f \in F
  <2>1. f \in Range(firsts)
    BY <1>4
  <2> QED
    BY <1>9, <2>1 DEF Range
<1> HIDE DEF n
<1>11. \A k \in 1..n : gs[k] = Kept(AcceptStates(dfa_), TagGroup(firsts[k]))
  BY <1>6, <1>9
<1>12. \A k \in 1..n : gs[k] \in Seq(SourceStates) /\ Range(gs[k]) = TagGroup(firsts[k])
  <2> TAKE k \in 1..n
  <2> DEFINE G == TagGroup(firsts[k])
             l == AcceptStates(dfa_)
  <2>1. gs[k] = Kept(l, G)
    BY <1>11
  <2>2. G \subseteq A
    BY DEF TagGroup
  <2> HIDE DEF G, l
  <2>3. l \in Seq(SourceStates) /\ Range(l) = A
    BY <1>5 DEF l
  <2>4. Kept(l, G) \in Seq(SourceStates) /\ Range(Kept(l, G)) = Range(l) \cap G
    BY <2>3, KeptType, KeptRange
  <2>5. A \cap G = G
    BY <2>2
  <2> QED
    BY <2>1, <2>3, <2>4, <2>5 DEF G
<1>13. gs \in Seq(Seq(SourceStates)) /\ Len(gs) = n
  <2>1. gs = [k \in 1..n |-> gs[k]]
    BY <1>6, <1>9
  <2> DEFINE V == Seq(SourceStates)
  <2> HIDE DEF V
  <2>2. \A k \in 1..n : gs[k] \in V
    BY <1>12 DEF V
  <2>3. [k \in 1..n |-> gs[k]] \in Seq(V) /\ Len([k \in 1..n |-> gs[k]]) = n
    BY <1>9, <2>2
  <2> QED
    BY <2>1, <2>3 DEF V
<1>14. ASSUME NEW k \in 1..n, NEW s \in Range(gs[k])
       PROVE  s \in A /\ acc(s) = acc(firsts[k]) /\ Range(gs[k]) = TagGroup(s)
  BY <1>12 DEF TagGroup
<1>15. ASSUME NEW s \in A
       PROVE  \E k \in 1..n : s \in Range(gs[k])
  <2>1. PICK f \in F : acc(f) = acc(s)
    BY <1>8
  <2>2. PICK k \in 1..n : firsts[k] = f
    BY <1>10
  <2> QED
    BY <1>12, <2>1, <2>2 DEF TagGroup
<1>16. ASSUME NEW k \in 1..n, NEW l \in 1..n, NEW s \in Range(gs[k]), NEW t \in Range(gs[l]),
              acc(s) = acc(t)
       PROVE  k = l
  <2>1. acc(firsts[k]) = acc(firsts[l])
    BY <1>14, <1>16
  <2>2. firsts[k] = firsts[l]
    BY <1>7, <1>9, <2>1
  <2> QED
    BY <1>4, <1>9, <2>2
<1> QED
  BY <1>13, <1>14, <1>15, <1>16 DEF gs

LEMMA InitialGroups ==
  ASSUME IsMultiDFA(whole)
  PROVE  IsPartition(Append(GroupsByTag, NonAcceptStates(dfa_)))
<1> DEFINE A == DOMAIN dfa_.accepts
           tags == GroupsByTag
           n == Len(tags)
           rest == NonAcceptStates(dfa_)
           gs == Append(tags, rest)
<1>1. rest \in Seq(SourceStates) /\ Range(rest) = SourceStates \ A
  <2>1. SourceStates \ A \in SUBSET SourceStates
    OBVIOUS
  <2>2. rest = Ascending(SourceStates \ A)
    BY DEF NonAcceptStates, SourceStates
  <2> QED
    BY <2>1, <2>2, SomeStates
<1>2. /\ tags \in Seq(Seq(SourceStates))
      /\ \A k \in 1..n : \A s \in Range(tags[k]) : s \in A /\ Range(tags[k]) = TagGroup(s)
      /\ \A s \in A : \E k \in 1..n : s \in Range(tags[k])
      /\ \A k, l \in 1..n : \A s \in Range(tags[k]), t \in Range(tags[l]) :
           dfa_.accepts[s] = dfa_.accepts[t] => k = l
  BY TagGroups
<1> HIDE DEF rest, tags
<1>3. /\ gs \in Seq(Seq(SourceStates)) /\ n \in Nat /\ Len(gs) = n + 1
      /\ gs[n + 1] = rest /\ \A k \in 1..n : gs[k] = tags[k]
  <2> DEFINE V == Seq(SourceStates)
  <2> HIDE DEF V
  <2>1. tags \in Seq(V) /\ rest \in V
    BY <1>1, <1>2 DEF V
  <2>2. /\ gs \in Seq(V) /\ n \in Nat /\ Len(gs) = n + 1
        /\ gs[n + 1] = rest /\ \A k \in 1..n : gs[k] = tags[k]
    BY <2>1
  <2> QED
    BY <2>2 DEF V
<1> HIDE DEF gs, n
<1>4. \A k \in 1..n + 1 : k \in 1..n \/ (k = n + 1 /\ k \notin 1..n)
  BY <1>3
<1>5. 1..n \subseteq 1..n + 1 /\ n + 1 \in 1..n + 1
  BY <1>3
<1>6. \A k \in 1..n + 1 : \A s \in Range(gs[k]) :
        /\ k \in 1..n => s \in A /\ Range(gs[k]) = TagGroup(s)
        /\ k = n + 1 => s \in SourceStates /\ s \notin A
  <2>1. \A s \in Range(gs[n + 1]) : s \in SourceStates /\ s \notin A
    BY <1>1, <1>3
  <2>2. \A k \in 1..n : \A s \in Range(gs[k]) : s \in A /\ Range(gs[k]) = TagGroup(s)
    BY <1>2, <1>3
  <2> QED
    BY <2>1, <2>2
<1>7. SameTagged(gs)
  <2> SUFFICES ASSUME NEW k \in 1..n + 1, NEW s \in Range(gs[k]), NEW t \in Range(gs[k])
               PROVE  SameTag(s, t)
    BY <1>3 DEF SameTagged
  <2>1. CASE k \in 1..n
    <3>1. s \in A /\ t \in TagGroup(s)
      BY <1>6, <2>1
    <3> QED
      BY <3>1 DEF SameTag, TagGroup
  <2>2. CASE k = n + 1
    BY <1>6, <2>2 DEF SameTag
  <2> QED
    BY <1>4, <2>1, <2>2
<1>8. ASSUME NEW k \in 1..n + 1, NEW l \in 1..n + 1, NEW s \in Range(gs[k]), NEW t \in Range(gs[l]),
             SameTag(s, t)
      PROVE  k = l
  <2>1. CASE k \in 1..n /\ l \in 1..n
    <3>1. dfa_.accepts[s] = dfa_.accepts[t]
      BY <1>6, <1>8, <2>1 DEF SameTag
    <3>2. s \in Range(tags[k]) /\ t \in Range(tags[l])
      BY <1>3, <2>1
    <3> QED
      BY <1>2, <2>1, <3>1, <3>2
  <2>2. CASE k = n + 1 /\ l \in 1..n
    BY <1>6, <1>8, <2>2 DEF SameTag
  <2>3. CASE k \in 1..n /\ l = n + 1
    BY <1>6, <1>8, <2>3 DEF SameTag
  <2> QED
    BY <1>4, <2>1, <2>2, <2>3
<1>9. ToldApart(gs)
  <2> SUFFICES ASSUME NEW k \in 1..n + 1, NEW l \in 1..n + 1, k # l, NEW s \in Range(gs[k]), NEW t \in Range(gs[l]),
                      <<s, t>> \in Alike((n + 1) - 1)
               PROVE  FALSE
    BY <1>3 DEF ToldApart
  <2>1. 0 \in Nat /\ (n + 1) - 1 \in Nat /\ 0 <= (n + 1) - 1
    BY <1>3
  <2>2. Alike((n + 1) - 1) \subseteq Alike(0)
    BY <2>1, AlikeShrinks
  <2>3. <<s, t>> \in Tagged
    BY <2>2, AlikeNext
  <2>4. SameTag(s, t)
    BY <2>3 DEF Tagged
  <2> QED
    BY <1>8, <2>4
<1>10. IsGrouping(gs)
  <2>1. \A s \in SourceStates : \E k \in 1..n + 1 : s \in Range(gs[k])
    <3> TAKE s \in SourceStates
    <3>1. CASE s \in A
      BY <1>2, <1>3, <1>5, <3>1
    <3>2. CASE s \notin A
      <4>1. s \in Range(gs[n + 1])
        BY <1>1, <1>3, <3>2
      <4> QED
        BY <1>5, <4>1
    <3> QED
      BY <3>1, <3>2
  <2>2. \A s : SameTag(s, s)
    BY DEF SameTag
  <2>3. \A k, l \in 1..n + 1 : \A s \in SourceStates : s \in Range(gs[k]) /\ s \in Range(gs[l]) => k = l
    BY <1>8, <2>2
  <2> QED
    BY <1>3, <2>1, <2>3 DEF IsGrouping
<1>11. Len(gs) >= 1
  BY <1>3
<1> QED
  BY <1>7, <1>9, <1>10, <1>11 DEF IsPartition, gs, tags, rest

\* Once no symbol tells two states of a group apart, no text does.
LEMMA StableGroups ==
  ASSUME IsMultiDFA(whole), NEW gs, IsPartition(gs),
         \A k \in 1..Len(gs) : \A c \in Range(Symbols) : ~Tells(gs, gs[k], c)
  PROVE  \A n \in Nat : \A k \in 1..Len(gs) : \A s, t \in Range(gs[k]) : <<s, t>> \in Alike(n)
<1> DEFINE Together(n) == \A k \in 1..Len(gs) : \A s, t \in Range(gs[k]) : <<s, t>> \in Alike(n)
           I == {n \in Nat : Together(n)}
<1>1. IsGrouping(gs) /\ SameTagged(gs)
  BY DEF IsPartition
<1>2. 0 \in I
  <2> SUFFICES ASSUME NEW k \in 1..Len(gs), NEW s \in Range(gs[k]), NEW t \in Range(gs[k])
               PROVE  <<s, t>> \in Alike(0)
    OBVIOUS
  <2>1. s \in SourceStates /\ t \in SourceStates
    BY <1>1, GroupsAre
  <2>2. SameTag(s, t)
    BY <1>1 DEF SameTagged
  <2> QED
    BY <2>1, <2>2, AlikeNext DEF Tagged
<1>3. ASSUME NEW n \in Nat, Together(n)
      PROVE  Together(n + 1)
  <2> SUFFICES ASSUME NEW k \in 1..Len(gs), NEW s \in Range(gs[k]), NEW t \in Range(gs[k])
               PROVE  <<s, t>> \in Alike(n + 1)
    OBVIOUS
  <2>1. <<s, t>> \in Alike(n) /\ s \in SourceStates /\ t \in SourceStates
    BY <1>1, <1>3, GroupsAre
  <2>2. ASSUME NEW c \in Range(Symbols)
        PROVE  /\ <<s, c>> \in DOMAIN dfa_.transitions <=> <<t, c>> \in DOMAIN dfa_.transitions
               /\ <<s, c>> \in DOMAIN dfa_.transitions =>
                    <<dfa_.transitions[<<s, c>>], dfa_.transitions[<<t, c>>]>> \in Alike(n)
    <3> DEFINE e == <<s, c>>
               f == <<t, c>>
               D == DOMAIN dfa_.transitions
    <3>1. TargetGroup(gs, s, c) = TargetGroup(gs, t, c)
      BY DEF Tells
    <3>2. /\ e \in D => TargetGroup(gs, s, c) >= 0
          /\ e \notin D => TargetGroup(gs, s, c) = -1
          /\ f \in D => TargetGroup(gs, t, c) >= 0
          /\ f \notin D => TargetGroup(gs, t, c) = -1
      BY <1>1, <2>1, TargetGroupIs
    <3>3. e \in D <=> f \in D
      <4> HIDE DEF e, f, D
      <4> QED
        BY <3>1, <3>2
    <3>4. ASSUME e \in D
          PROVE  <<dfa_.transitions[e], dfa_.transitions[f]>> \in Alike(n)
      <4> DEFINE s1 == dfa_.transitions[e]
                 t1 == dfa_.transitions[f]
      <4>1. s1 \in SourceStates /\ t1 \in SourceStates
        BY <3>3, <3>4, InputAutomaton
      <4>2. TargetGroup(gs, s, c) = PartitionId(gs, s1) /\ TargetGroup(gs, t, c) = PartitionId(gs, t1)
        BY <3>3, <3>4 DEF TargetGroup
      <4> HIDE DEF s1, t1
      <4>3. PICK i \in 1..Len(gs) : s1 \in Range(gs[i]) /\ PartitionId(gs, s1) = i - 1
        BY <1>1, <4>1, PartitionIds
      <4>4. PICK j \in 1..Len(gs) : t1 \in Range(gs[j]) /\ PartitionId(gs, t1) = j - 1
        BY <1>1, <4>1, PartitionIds
      <4>5. i = j
        <5>1. i \in Int /\ j \in Int
          OBVIOUS
        <5>2. i - 1 = j - 1
          BY <3>1, <4>2, <4>3, <4>4
        <5> QED
          BY <5>1, <5>2
      <4> QED
        BY <1>3, <4>3, <4>4, <4>5 DEF s1, t1
    <3> QED
      BY <3>3, <3>4
  <2>3. <<s, t>> \in Kindred(Alike(n))
    BY <2>1, <2>2 DEF Kindred
  <2> QED
    BY <2>3, AlikeNext
<1>4. \A n \in Nat : n \in I => n + 1 \in I
  <2> HIDE DEF Together
  <2> QED
    BY <1>3
<1>5. \A n \in Nat : n \in I
  <2> HIDE DEF I
  <2> QED
    BY <1>2, <1>4, SetInduction
<1> QED
  BY <1>5

\* The groups P when refining them changes nothing any more.
LastGroups(gs) ==
  /\ IsPartition(gs) /\ NoneEmpty(gs)
  /\ \A k \in 1..Len(gs) : \A c \in Range(Symbols) : ~Tells(gs, gs[k], c)

\* Then two states are in the same group exactly if no text tells them apart, and
\* none longer than there are groups does if a shorter one does not.
LEMMA SameGroup ==
  ASSUME IsMultiDFA(whole), NEW gs, LastGroups(gs), NEW s \in SourceStates, NEW t \in SourceStates
  PROVE  /\ PartitionId(gs, s) = PartitionId(gs, t) <=> <<s, t>> \in Alike(Len(gs))
         /\ PartitionId(gs, s) = PartitionId(gs, t) <=> \A n \in Nat : <<s, t>> \in Alike(n)
<1>1. IsPartition(gs) /\ IsGrouping(gs)
  BY DEF LastGroups, IsPartition
<1>2. Len(gs) \in Nat /\ Len(gs) >= 1
  BY <1>1, GroupsAre DEF IsPartition
<1>3. PICK i \in 1..Len(gs) : s \in Range(gs[i]) /\ PartitionId(gs, s) = i - 1
  BY <1>1, PartitionIds
<1>4. PICK j \in 1..Len(gs) : t \in Range(gs[j]) /\ PartitionId(gs, t) = j - 1
  BY <1>1, PartitionIds
<1>5. PartitionId(gs, s) = PartitionId(gs, t) => i = j
  <2> SUFFICES ASSUME PartitionId(gs, s) = PartitionId(gs, t) PROVE i = j
    OBVIOUS
  <2>1. i \in Int /\ j \in Int
    OBVIOUS
  <2>2. i - 1 = j - 1
    BY <1>3, <1>4
  <2> QED
    BY <2>1, <2>2
<1>6. i = j => \A n \in Nat : <<s, t>> \in Alike(n)
  <2>1. \A n \in Nat : \A k \in 1..Len(gs) : \A x, y \in Range(gs[k]) : <<x, y>> \in Alike(n)
    BY <1>1, StableGroups DEF LastGroups
  <2> QED
    BY <1>3, <1>4, <2>1
<1>7. i # j => <<s, t>> \notin Alike(Len(gs))
  <2> SUFFICES ASSUME i # j PROVE <<s, t>> \notin Alike(Len(gs))
    OBVIOUS
  <2>1. <<s, t>> \notin Alike(Len(gs) - 1)
    BY <1>1, <1>3, <1>4 DEF IsPartition, ToldApart
  <2> DEFINE n == Len(gs)
  <2>2. n - 1 \in Nat /\ n \in Nat /\ n - 1 <= n
    BY <1>2
  <2> HIDE DEF n
  <2>3. Alike(n) \subseteq Alike(n - 1)
    BY <2>2, AlikeShrinks
  <2> QED
    BY <2>1, <2>3 DEF n
<1>8. i = j => PartitionId(gs, s) = PartitionId(gs, t)
  BY <1>3, <1>4
<1> QED
  BY <1>2, <1>5, <1>6, <1>7, <1>8

-----------------------------------------------------------------------------
\* All this depends on nothing but the groups and the automaton, which no step changes.
LEMMA AlikeStays ==
  ASSUME whole' = whole
  PROVE  \A n : Alike(n)' = Alike(n)
<1>1. \A R : Kindred(R)' = Kindred(R)
  BY DEF Kindred, Symbols, dfa_
<1>2. Tagged' = Tagged
  BY DEF Tagged, SourceStates, dfa_, SameTag
<1> QED
  BY <1>1, <1>2 DEF Alike, SourceStates, dfa_, Kindred, SameTag, Symbols

LEMMA LastGroupsStay ==
  ASSUME whole' = whole, NEW gs
  PROVE  /\ IsPartition(gs)' <=> IsPartition(gs)
         /\ LastGroups(gs)' <=> LastGroups(gs)
<1>1. SourceStates' = SourceStates /\ Symbols' = Symbols
  BY DEF SourceStates, dfa_, Symbols
<1>2. IsGrouping(gs)' <=> IsGrouping(gs)
  BY <1>1 DEF IsGrouping
<1>3. SameTagged(gs)' <=> SameTagged(gs)
  BY DEF SameTagged, SameTag, dfa_
<1>4. ToldApart(gs)' <=> ToldApart(gs)
  <2>1. Alike(Len(gs) - 1)' = Alike(Len(gs) - 1)
    BY AlikeStays
  <2> QED
    BY <2>1 DEF ToldApart
<1>5. \A s, c : TargetGroup(gs, s, c)' = TargetGroup(gs, s, c)
  BY DEF TargetGroup, dfa_
<1>6. \A S, c : Tells(gs, S, c)' <=> Tells(gs, S, c)
  BY <1>5 DEF Tells
<1>7. IsPartition(gs)' <=> IsPartition(gs)
  BY <1>2, <1>3, <1>4 DEF IsPartition
<1> QED
  BY <1>1, <1>6, <1>7 DEF LastGroups, NoneEmpty

LEMMA DoesStay ==
  ASSUME whole' = whole, P' = P, NEW m
  PROVE  DoesAsWhole(m)' <=> DoesAsWhole(m)
<1>1. SourceStates' = SourceStates /\ Symbols' = Symbols /\ dfa_' = dfa_
  BY DEF SourceStates, dfa_, Symbols
<1>2. \A s : GroupOf(s)' = GroupOf(s)
  BY DEF GroupOf
<1>3. \A d, s : Mirrors(d, s)' <=> Mirrors(d, s)
  BY <1>1, <1>2 DEF Mirrors
<1> QED
  BY <1>1, <1>2, <1>3 DEF DoesAsWhole

-----------------------------------------------------------------------------
\* A group does what its states do, and every group has some.
LEMMA GroupsDo ==
  ASSUME IsMultiDFA(whole), LastGroups(P), NEW s \in SourceStates
  PROVE  LET q == GroupOf(s)
             r == Representative(q)
         IN  /\ q \in GroupIds
             /\ r \in SourceStates /\ SameTag(r, s)
             /\ \A c \in Range(Symbols) :
                  /\ <<r, c>> \in DOMAIN dfa_.transitions <=> <<s, c>> \in DOMAIN dfa_.transitions
                  /\ <<r, c>> \in DOMAIN dfa_.transitions =>
                       GroupOf(dfa_.transitions[<<r, c>>]) = GroupOf(dfa_.transitions[<<s, c>>])
<1>1. IsPartition(P) /\ IsGrouping(P) /\ SameTagged(P)
  BY DEF LastGroups, IsPartition
<1>2. PICK k \in 1..Len(P) : s \in Range(P[k]) /\ PartitionId(P, s) = k - 1
  BY <1>1, PartitionIds
<1> DEFINE q == GroupOf(s)
           r == Representative(q)
           D == DOMAIN dfa_.transitions
<1>3. q = k - 1
  BY <1>2 DEF GroupOf
<1>4. k \in Int /\ 1 <= k /\ k <= Len(P) /\ Len(P) \in Nat
  BY <1>1, GroupsAre
<1>5. q \in GroupIds /\ q + 1 = k
  <2> HIDE DEF q
  <2> QED
    BY <1>3, <1>4 DEF GroupIds
<1>6. r \in Range(P[k])
  <2>1. Len(P[k]) > 0 /\ Len(P[k]) \in Nat /\ DOMAIN P[k] = 1..Len(P[k])
    BY <1>1, GroupsAre DEF LastGroups, NoneEmpty
  <2>2. r = P[k][1]
    BY <1>5 DEF Representative
  <2> HIDE DEF r
  <2> QED
    BY <2>1, <2>2 DEF Range
<1>7. r \in SourceStates
  BY <1>1, <1>6, GroupsAre
<1>8. SameTag(r, s)
  BY <1>1, <1>2, <1>6 DEF SameTagged
<1>9. ASSUME NEW c \in Range(Symbols)
      PROVE  /\ <<r, c>> \in D <=> <<s, c>> \in D
             /\ <<r, c>> \in D => GroupOf(dfa_.transitions[<<r, c>>]) = GroupOf(dfa_.transitions[<<s, c>>])
  <2> HIDE DEF r, q
  <2>1. TargetGroup(P, r, c) = TargetGroup(P, s, c)
    BY <1>2, <1>6 DEF LastGroups, Tells
  <2>2. /\ <<r, c>> \in D => TargetGroup(P, r, c) >= 0
        /\ <<r, c>> \notin D => TargetGroup(P, r, c) = -1
        /\ <<s, c>> \in D => TargetGroup(P, s, c) >= 0
        /\ <<s, c>> \notin D => TargetGroup(P, s, c) = -1
    BY <1>1, <1>7, TargetGroupIs
  <2>3. <<r, c>> \in D <=> <<s, c>> \in D
    <3> DEFINE e == <<r, c>>
               f == <<s, c>>
    <3> HIDE DEF e, f, D
    <3>1. e \in D <=> f \in D
      BY <2>1, <2>2 DEF e, f
    <3> QED
      BY <3>1 DEF e, f
  <2>4. <<r, c>> \in D => GroupOf(dfa_.transitions[<<r, c>>]) = GroupOf(dfa_.transitions[<<s, c>>])
    BY <2>1, <2>3 DEF TargetGroup, GroupOf
  <2> QED
    BY <2>3, <2>4
<1> QED
  BY <1>5, <1>7, <1>8, <1>9

LEMMA GroupsInhabited ==
  ASSUME IsMultiDFA(whole), LastGroups(P), NEW q \in GroupIds
  PROVE  \E s \in SourceStates : GroupOf(s) = q
<1>1. IsGrouping(P)
  BY DEF LastGroups, IsPartition
<1>2. Len(P) \in Nat
  BY <1>1, GroupsAre
<1>3. q + 1 \in 1..Len(P) /\ (q + 1) - 1 = q
  BY <1>2 DEF GroupIds
<1> DEFINE k == q + 1
           s == P[k][1]
<1> HIDE DEF k
<1>4. Len(P[k]) > 0 /\ Len(P[k]) \in Nat /\ DOMAIN P[k] = 1..Len(P[k]) /\ Range(P[k]) \subseteq SourceStates
  BY <1>1, <1>3, GroupsAre DEF LastGroups, NoneEmpty, k
<1>5. s \in Range(P[k])
  BY <1>4 DEF Range
<1> HIDE DEF s
<1>6. s \in SourceStates
  BY <1>4, <1>5
<1>7. PartitionId(P, s) = k - 1
  BY <1>1, <1>3, <1>5, <1>6, PartitionIdIs DEF k
<1> QED
  BY <1>3, <1>6, <1>7 DEF GroupOf, k

\* So does the automaton made of the groups.
LEMMA ReducedMirrors ==
  ASSUME IsMultiDFA(whole), LastGroups(P), NEW s \in SourceStates
  PROVE  LET q == GroupOf(s)
             d == Reduced
         IN  /\ q \in StatesOf(d)
             /\ q \in DOMAIN d.accepts <=> s \in DOMAIN dfa_.accepts
             /\ q \in DOMAIN d.accepts => d.accepts[q] = dfa_.accepts[s]
             /\ \A c \in Range(Symbols) :
                  /\ <<q, c>> \in DOMAIN d.transitions <=> <<s, c>> \in DOMAIN dfa_.transitions
                  /\ <<q, c>> \in DOMAIN d.transitions =>
                       d.transitions[<<q, c>>] = GroupOf(dfa_.transitions[<<s, c>>])
<1> DEFINE q == GroupOf(s)
           r == Representative(q)
           d == Reduced
           D == DOMAIN dfa_.transitions
<1>1. /\ q \in GroupIds /\ r \in SourceStates /\ SameTag(r, s)
      /\ \A c \in Range(Symbols) :
           /\ <<r, c>> \in D <=> <<s, c>> \in D
           /\ <<r, c>> \in D => GroupOf(dfa_.transitions[<<r, c>>]) = GroupOf(dfa_.transitions[<<s, c>>])
  BY GroupsDo
<1>2. d.size = Len(P)
  BY DEF Reduced
<1>3. d.accepts = [p \in {x \in GroupIds : Representative(x) \in DOMAIN dfa_.accepts} |->
                     dfa_.accepts[Representative(p)]]
  BY DEF Reduced
<1>4. d.transitions = [e \in {p \in GroupIds \X Range(Symbols) : <<Representative(p[1]), p[2]>> \in D} |->
                         GroupOf(dfa_.transitions[<<Representative(e[1]), e[2]>>])]
  BY DEF Reduced
<1> HIDE DEF d, q
<1>5. q \in StatesOf(d)
  BY <1>1, <1>2 DEF StatesOf, GroupIds
<1>6. /\ q \in DOMAIN d.accepts <=> r \in DOMAIN dfa_.accepts
      /\ q \in DOMAIN d.accepts => d.accepts[q] = dfa_.accepts[r]
  BY <1>1, <1>3
<1>7. ASSUME NEW c \in Range(Symbols)
      PROVE  /\ <<q, c>> \in DOMAIN d.transitions <=> <<r, c>> \in D
             /\ <<q, c>> \in DOMAIN d.transitions =>
                  d.transitions[<<q, c>>] = GroupOf(dfa_.transitions[<<r, c>>])
  <2> DEFINE e == <<q, c>>
  <2>1. e \in GroupIds \X Range(Symbols) /\ e[1] = q /\ e[2] = c
    BY <1>1
  <2> HIDE DEF e, r, D
  <2>2. e \in DOMAIN d.transitions <=> <<r, c>> \in D
    BY <1>4, <2>1 DEF r
  <2>3. e \in DOMAIN d.transitions => d.transitions[e] = GroupOf(dfa_.transitions[<<r, c>>])
    BY <1>4, <2>1 DEF r
  <2> QED
    BY <2>2, <2>3 DEF e
<1>8. /\ r \in DOMAIN dfa_.accepts <=> s \in DOMAIN dfa_.accepts
      /\ s \in DOMAIN dfa_.accepts => dfa_.accepts[r] = dfa_.accepts[s]
  BY <1>1 DEF SameTag
<1> HIDE DEF r, D
<1>9. \A c \in Range(Symbols) :
        /\ <<q, c>> \in DOMAIN d.transitions <=> <<s, c>> \in D
        /\ <<q, c>> \in DOMAIN d.transitions =>
             d.transitions[<<q, c>>] = GroupOf(dfa_.transitions[<<s, c>>])
  BY <1>1, <1>7
<1> QED
  BY <1>5, <1>6, <1>8, <1>9 DEF d, q, D

LEMMA ReducedDoes ==
  ASSUME IsMultiDFA(whole), LastGroups(P), DOMAIN whole.initialStates = {}
  PROVE  DoesAsWhole([initialStates |-> <<>>, dfa |-> Reduced])
<1> DEFINE d == Reduced
           m == [initialStates |-> <<>>, dfa |-> d]
<1>1. d.initial = GroupOf(dfa_.initial) /\ StatesOf(d) = GroupIds
  BY DEF Reduced, StatesOf, GroupIds
<1>2. \A s \in SourceStates : Mirrors(d, s)
  BY ReducedMirrors DEF Mirrors
<1>3. \A q \in StatesOf(d) : \E s \in SourceStates : GroupOf(s) = q
  BY <1>1, GroupsInhabited
<1> DEFINE e == <<>>
<1>4. DOMAIN e = {}
  OBVIOUS
<1> HIDE DEF d, e
<1> DEFINE l == [initialStates |-> e, dfa |-> d]
<1>5. l.dfa = d /\ l.initialStates = e
  OBVIOUS
<1> HIDE DEF l
<1>6. DoesAsWhole(l)
  BY <1>1, <1>2, <1>3, <1>4, <1>5 DEF DoesAsWhole
<1> QED
  BY <1>6 DEF l, e, d

\* Relabelling disturbs the transitions of the group of the master state only.
LEMMA RelabelledKeeps ==
  LET d == Reduced
      e == Relabelled(d)
  IN  /\ e.size = d.size /\ e.initial = d.initial /\ e.accepts = d.accepts
      /\ \A q, c : q # d.initial =>
           /\ <<q, c>> \in DOMAIN e.transitions <=> <<q, c>> \in DOMAIN d.transitions
           /\ <<q, c>> \in DOMAIN e.transitions => e.transitions[<<q, c>>] = d.transitions[<<q, c>>]
<1> DEFINE d == Reduced
           e == Relabelled(d)
           old == {<<d.initial, s>> : s \in Range(whole.initialStates)}
           new == {<<d.initial, GroupOf(s)>> : s \in Range(whole.initialStates)}
           h == [p \in new \cup (DOMAIN d.transitions \ old) |-> IF p \in new THEN p[2] ELSE d.transitions[p]]
<1>1. e = [d EXCEPT !.transitions = h]
  BY DEF Relabelled
<1>2. {"size", "initial", "transitions", "accepts"} \subseteq DOMAIN d
  BY DEF Reduced
<1> HIDE DEF d, e
<1>3. DOMAIN h = new \cup (DOMAIN d.transitions \ old)
  OBVIOUS
<1>4. \A p \in DOMAIN h : p \notin new => h[p] = d.transitions[p]
  OBVIOUS
<1> HIDE DEF h
<1>6. e.size = d.size /\ e.initial = d.initial /\ e.accepts = d.accepts /\ e.transitions = h
  BY <1>1, <1>2
<1>7. ASSUME NEW q, NEW c, q # d.initial
      PROVE  /\ <<q, c>> \in DOMAIN h <=> <<q, c>> \in DOMAIN d.transitions
             /\ <<q, c>> \in DOMAIN h => h[<<q, c>>] = d.transitions[<<q, c>>]
  <2> DEFINE p == <<q, c>>
  <2>1. \A s : p # <<d.initial, s>>
    BY <1>7
  <2> HIDE DEF p
  <2>2. p \notin new /\ p \notin old
    BY <2>1
  <2>3. p \in DOMAIN h <=> p \in DOMAIN d.transitions
    BY <1>3, <2>2
  <2>4. p \in DOMAIN h => h[p] = d.transitions[p]
    BY <1>4, <2>2
  <2> QED
    BY <2>3, <2>4 DEF p
<1> QED
  BY <1>6, <1>7 DEF d, e

LEMMA RelabelledDoes ==
  ASSUME IsMultiDFA(whole), LastGroups(P), DOMAIN whole.initialStates # {}
  PROVE  DoesAsWhole([initialStates |-> [name \in DOMAIN whole.initialStates |->
                                           GroupOf(whole.initialStates[name])],
                      dfa |-> Relabelled(Reduced)])
<1> DEFINE d == Reduced
           e == Relabelled(Reduced)
           i == [name \in DOMAIN whole.initialStates |-> GroupOf(whole.initialStates[name])]
           m == [initialStates |-> i, dfa |-> e]
<1>1. d.initial = GroupOf(dfa_.initial) /\ StatesOf(d) = GroupIds
  BY DEF Reduced, StatesOf, GroupIds
<1>2. /\ e.size = d.size /\ e.initial = d.initial /\ e.accepts = d.accepts
      /\ \A q, c : q # d.initial =>
           /\ <<q, c>> \in DOMAIN e.transitions <=> <<q, c>> \in DOMAIN d.transitions
           /\ <<q, c>> \in DOMAIN e.transitions => e.transitions[<<q, c>>] = d.transitions[<<q, c>>]
  BY RelabelledKeeps
<1>3. StatesOf(e) = StatesOf(d)
  BY <1>2 DEF StatesOf
<1>4. ASSUME NEW s \in SourceStates
      PROVE  Mirrors(e, s)
  <2> DEFINE q == GroupOf(s)
  <2>1. /\ q \in StatesOf(d)
        /\ q \in DOMAIN d.accepts <=> s \in DOMAIN dfa_.accepts
        /\ q \in DOMAIN d.accepts => d.accepts[q] = dfa_.accepts[s]
        /\ \A c \in Range(Symbols) :
             /\ <<q, c>> \in DOMAIN d.transitions <=> <<s, c>> \in DOMAIN dfa_.transitions
             /\ <<q, c>> \in DOMAIN d.transitions =>
                  d.transitions[<<q, c>>] = GroupOf(dfa_.transitions[<<s, c>>])
    BY ReducedMirrors
  <2> HIDE DEF d, e
  <2> QED
    BY <1>2, <1>3, <2>1 DEF Mirrors
<1>5. \A q \in StatesOf(e) : \E s \in SourceStates : GroupOf(s) = q
  BY <1>1, <1>3, GroupsInhabited
<1>6. DOMAIN i = DOMAIN whole.initialStates
      /\ \A name \in DOMAIN whole.initialStates : i[name] = GroupOf(whole.initialStates[name])
  OBVIOUS
<1> HIDE DEF d, e, i
<1>7. m.dfa = e /\ m.initialStates = i
  OBVIOUS
<1> HIDE DEF m
<1>8. DoesAsWhole(m)
  BY <1>1, <1>2, <1>4, <1>5, <1>6, <1>7 DEF DoesAsWhole
<1> QED
  BY <1>8 DEF m, i, e

-----------------------------------------------------------------------------
\* The invariant that is inductive: the groups of each round are a partition that no
\* text contradicts, the last ones are refined by nothing, and their automaton is
\* the result.
MinimizerInv ==
  /\ IsMultiDFA(whole)
  /\ minimizing \in {"group", "refine", "done", "aborted"}
  /\ minimizing = "group" => P = <<>>
  /\ minimizing # "group" => IsPartition(groups)
  /\ minimizing \in {"refine", "done"} /\ P = groups => LastGroups(P)
  /\ minimizing = "done" => P = groups /\ DoesAsWhole(minimal)

LEMMA GroupStep ==
  MinimizerInv /\ Group => MinimizerInv'
<1> SUFFICES ASSUME MinimizerInv, Group PROVE MinimizerInv'
  OBVIOUS
<1> DEFINE g == Append(GroupsByTag, NonAcceptStates(dfa_))
<1>1. /\ IsMultiDFA(whole) /\ whole' = whole /\ minimizing' = "refine"
      /\ groups' = g /\ P' = <<>>
  BY DEF MinimizerInv, Group
<1>2. IsMultiDFA(whole)'
  BY <1>1
<1>3. IsPartition(g)
  BY <1>1, InitialGroups
<1>4. Len(g) >= 1
  BY <1>3 DEF IsPartition
<1> HIDE DEF g
<1>5. IsPartition(groups)'
  <2>1. \A gs : IsPartition(gs)' <=> IsPartition(gs)
    BY <1>1, LastGroupsStay
  <2> QED
    BY <1>1, <1>3, <2>1
<1>6. P' # groups'
  <2> DEFINE none == <<>>
  <2>1. Len(none) = 0
    OBVIOUS
  <2>2. P' = none
    BY <1>1
  <2> HIDE DEF none
  <2> QED
    BY <1>1, <1>4, <2>1, <2>2
<1> QED
  BY <1>1, <1>2, <1>5, <1>6 DEF MinimizerInv

LEMMA RefineStep ==
  MinimizerInv /\ Refine => MinimizerInv'
<1> SUFFICES ASSUME MinimizerInv, Refine PROVE MinimizerInv'
  OBVIOUS
<1>1. /\ IsMultiDFA(whole) /\ IsPartition(groups) /\ whole' = whole
      /\ minimizing = "refine" /\ minimizing' = "refine"
      /\ P' = groups /\ groups' = Refined(groups)
      /\ \A k \in DOMAIN groups : groups[k] # <<>>
  BY DEF MinimizerInv, Refine
<1>2. IsMultiDFA(whole)'
  BY <1>1
<1>3. NoneEmpty(groups)
  <2> SUFFICES ASSUME NEW k \in 1..Len(groups) PROVE Len(groups[k]) > 0
    BY DEF NoneEmpty
  <2> DEFINE g == groups[k]
             St == SourceStates
  <2>1. g \in Seq(St) /\ DOMAIN groups = 1..Len(groups)
    BY <1>1, GroupsAre DEF IsPartition
  <2>2. g # <<>>
    BY <1>1, <2>1
  <2> HIDE DEF g, St
  <2>3. Len(g) \in Nat /\ Len(g) # 0
    BY <2>1, <2>2, EmptySeq
  <2>4. Len(g) > 0
    <3> DEFINE x == Len(g)
    <3>1. x \in Nat /\ x # 0
      BY <2>3
    <3> HIDE DEF x
    <3>2. x > 0
      BY <3>1
    <3> QED
      BY <3>2 DEF x
  <2> QED
    BY <2>4 DEF g
<1>4. /\ IsPartition(Refined(groups))
      /\ Refined(groups) = groups => LastGroups(groups)
  BY <1>1, <1>3, RefinedKeeps DEF LastGroups
<1>5. \A gs : (IsPartition(gs)' <=> IsPartition(gs)) /\ (LastGroups(gs)' <=> LastGroups(gs))
  BY <1>1, LastGroupsStay
<1>6. IsPartition(groups)'
  BY <1>1, <1>4, <1>5
<1>7. P' = groups' => LastGroups(P)'
  BY <1>1, <1>4, <1>5
<1> QED
  BY <1>1, <1>2, <1>6, <1>7 DEF MinimizerInv

LEMMA ConstructStep ==
  MinimizerInv /\ (ConstructMinimal \/ ConstructMultiDFA) => MinimizerInv'
<1> SUFFICES ASSUME MinimizerInv, ConstructMinimal \/ ConstructMultiDFA PROVE MinimizerInv'
  OBVIOUS
<1>1. /\ IsMultiDFA(whole) /\ minimizing = "refine" /\ P = groups
      /\ IsPartition(groups) /\ LastGroups(P)
      /\ minimizing' = "done" /\ whole' = whole /\ P' = P /\ groups' = groups
  BY DEF MinimizerInv, ConstructMinimal, ConstructMultiDFA, Minimized
<1>2. IsMultiDFA(whole)'
  BY <1>1
<1>3. (\A gs : (IsPartition(gs)' <=> IsPartition(gs)) /\ (LastGroups(gs)' <=> LastGroups(gs)))
  BY <1>1, LastGroupsStay
<1>4. \A m : DoesAsWhole(m)' <=> DoesAsWhole(m)
  BY <1>1, DoesStay
<1>5. IsPartition(groups)' /\ LastGroups(P)'
  BY <1>1, <1>3
<1>6. DoesAsWhole(minimal')
  <2>1. CASE ConstructMinimal
    BY <1>1, <2>1, ReducedDoes DEF ConstructMinimal
  <2>2. CASE ConstructMultiDFA
    BY <1>1, <2>2, RelabelledDoes DEF ConstructMultiDFA
  <2> QED
    BY <2>1, <2>2
<1>7. DoesAsWhole(minimal)'
  BY <1>4, <1>6
<1> QED
  BY <1>1, <1>2, <1>5, <1>7 DEF MinimizerInv

LEMMA MinimizerStep ==
  MinimizerInv /\ [MinimizerNext]_minimizerVars => MinimizerInv'
<1> SUFFICES ASSUME MinimizerInv, [MinimizerNext]_minimizerVars PROVE MinimizerInv'
  OBVIOUS
<1>1. CASE Group
  BY <1>1, GroupStep
<1>2. CASE Refine
  BY <1>2, RefineStep
<1>3. CASE ConstructMinimal \/ ConstructMultiDFA
  BY <1>3, ConstructStep
<1>4. CASE AbortSplit \/ UNCHANGED minimizerVars
  <2>1. /\ whole' = whole /\ P' = P /\ groups' = groups /\ minimal' = minimal
        /\ minimizing' = minimizing \/ (minimizing = "refine" /\ minimizing' = "aborted")
    BY <1>4 DEF AbortSplit, minimizerVars
  <2>2. \A gs : (IsPartition(gs)' <=> IsPartition(gs)) /\ (LastGroups(gs)' <=> LastGroups(gs))
    BY <2>1, LastGroupsStay
  <2>3. \A m : DoesAsWhole(m)' <=> DoesAsWhole(m)
    BY <2>1, DoesStay
  <2>4. IsMultiDFA(whole)'
    BY <2>1 DEF MinimizerInv
  <2>5. IsPartition(groups)' <=> IsPartition(groups)
    BY <2>1, <2>2
  <2>6. LastGroups(P)' <=> LastGroups(P)
    BY <2>1, <2>2
  <2>7. DoesAsWhole(minimal)' <=> DoesAsWhole(minimal)
    BY <2>1, <2>3
  <2> QED
    BY <2>1, <2>4, <2>5, <2>6, <2>7 DEF MinimizerInv
<1> QED
  BY <1>1, <1>2, <1>3, <1>4 DEF MinimizerNext

LEMMA MinimizerDone == MinimizerInv => Minimal
<1> SUFFICES ASSUME MinimizerInv, minimizing = "done"
             PROVE  /\ DoesAsWhole(minimal)
                    /\ \A s, t \in SourceStates : GroupOf(s) = GroupOf(t) <=> <<s, t>> \in Alike(Len(P))
  BY DEF Minimal
<1>1. IsMultiDFA(whole) /\ LastGroups(P) /\ DoesAsWhole(minimal)
  BY DEF MinimizerInv
<1> QED
  BY <1>1, SameGroup DEF GroupOf

\* Two states are in the same group exactly if no text of any length tells them
\* apart (DFAMinimizer.cpp:84-200).
SharesGroupIfAlike ==
  minimizing = "done" =>
    \A s, t \in SourceStates : GroupOf(s) = GroupOf(t) <=> \A n \in Nat : <<s, t>> \in Alike(n)

LEMMA SharesDone == MinimizerInv => SharesGroupIfAlike
<1> SUFFICES ASSUME MinimizerInv, minimizing = "done", NEW s \in SourceStates, NEW t \in SourceStates
             PROVE  GroupOf(s) = GroupOf(t) <=> \A n \in Nat : <<s, t>> \in Alike(n)
  BY DEF SharesGroupIfAlike
<1>1. IsMultiDFA(whole) /\ LastGroups(P)
  BY DEF MinimizerInv
<1> QED
  BY <1>1, SameGroup DEF GroupOf

LEMMA MinimizerStarts == MinimizerInit => MinimizerInv
BY DEF MinimizerInit, MinimizerInv

\* Whatever automaton is minimized, and in however many rounds, the minimizer leaves
\* one that does the same and has no two states alike (DFAMinimizer.cpp:28-266).
THEOREM MinimizerCorrect == MinimizerSpec => []Minimal
<1>1. MinimizerInit => MinimizerInv
  BY MinimizerStarts
<1>2. MinimizerInv /\ [MinimizerNext]_minimizerVars => MinimizerInv'
  BY MinimizerStep
<1>3. MinimizerInv => Minimal
  BY MinimizerDone
<1> QED
  BY <1>1, <1>2, <1>3, PTL DEF MinimizerSpec

\* It merges the states that no text tells apart, and no others
\* (DFAMinimizer.cpp:84-200).
THEOREM MergesTheAlike == MinimizerSpec => []SharesGroupIfAlike
<1>1. MinimizerInit => MinimizerInv
  BY MinimizerStarts
<1>2. MinimizerInv /\ [MinimizerNext]_minimizerVars => MinimizerInv'
  BY MinimizerStep
<1>3. MinimizerInv => SharesGroupIfAlike
  BY SharesDone
<1> QED
  BY <1>1, <1>2, <1>3, PTL DEF MinimizerSpec

=============================================================================
