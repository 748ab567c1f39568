------------------------------ MODULE DFABuilder ------------------------------
(***************************************************************************)
(* The subset construction (klex/regular/DFABuilder.cpp).  A configuration *)
(* is a StateIdVec, which may list a state of the NFA more than once, and  *)
(* two configurations that list a state differently often are different:   *)
(* the construction ends only if there are finitely many of them.          *)
(*                                                                         *)
(* The work list holds the configurations of Q that follow Q[taken].       *)
(***************************************************************************)
EXTENDS NFA

CONSTANTS
  Automata,   \* the automata considered
  MaxTimes    \* bound: a configuration that lists a state more often ends the run

ASSUME AutomataAssumption ==
  /\ MaxTimes \in Nat \ {0}
  /\ \A n \in Automata : IsFiniteSet(n.edges)

VARIABLES
  nfa, building,
  Q, taken,     \* the configurations, and the number of the one being expanded
  at,           \* the place in the alphabet
  T,            \* the transition table
  dfa, overshadows

builderVars == <<nfa, building, Q, taken, at, T, dfa, overshadows>>

NoDFA == [size |-> 0, transitions |-> <<>>, initial |-> 0, accepts |-> <<>>,
          backtracking |-> <<>>]

Fresh(n) == nfa = n /\ building = "start" /\ Q = <<>> /\ taken = 0 /\ at = 1
            /\ T = <<>> /\ dfa = NoDFA

\* A new builder is made for another automaton.
Load(n) == /\ nfa' = n /\ building' = "start" /\ Q' = <<>> /\ taken' = 0 /\ at' = 1
           /\ T' = <<>> /\ dfa' = NoDFA
           /\ UNCHANGED overshadows

Stop(result) ==
  /\ building' = result
  /\ UNCHANGED <<nfa, Q, taken, at, T, dfa, overshadows>>

InitialListing == nfa.initial :> 1

StartForever ==
  /\ building = "start"
  /\ ClosureDiverges(nfa, InitialListing)
  /\ Stop("diverged")

Start ==
  /\ building = "start"
  /\ ~ClosureDiverges(nfa, InitialListing)
  /\ building' = "work"
  /\ Q' = <<EpsilonClosure(nfa, InitialListing)>>
  /\ taken' = 1
  /\ UNCHANGED <<nfa, at, T, dfa, overshadows>>

Alphabet == AlphabetOf(nfa)
Working == building = "work" /\ at <= Len(Alphabet)
Arrived == Delta(nfa, Q[taken], Alphabet[at])
Target  == EpsilonClosure(nfa, Arrived)
Bounded(q) == \A s \in Listed(q) : q[s] <= MaxTimes

\* Mutant: counted from 1.
ConfigurationNumberFromOne(t) == CHOOSE i \in DOMAIN Q : Q[i] = t

\* The number of a configuration that Q has, counted from 0.
ConfigurationNumber(t) == (CHOOSE i \in DOMAIN Q : Q[i] = t) - 1

VisitForever ==
  /\ Working
  /\ ClosureDiverges(nfa, Arrived)
  /\ Stop("diverged")

VisitTooMany ==
  /\ Working
  /\ ~ClosureDiverges(nfa, Arrived)
  /\ ~Bounded(Target)
  /\ Stop("overfull")

Skip ==
  /\ Working
  /\ Listed(Arrived) = {}
  /\ at' = at + 1
  /\ UNCHANGED <<nfa, building, Q, taken, T, dfa, overshadows>>

\* TransitionTable::insert().
Inserted(table, e, t) ==
  [x \in {e} \cup DOMAIN table |-> IF x = e THEN t ELSE table[x]]

Visit(target) ==
  /\ Bounded(target)
  /\ IF target \in Range(Q)
     THEN /\ T' = Inserted(T, <<taken - 1, Alphabet[at]>>, ConfigurationNumber(target))
          /\ UNCHANGED Q
     ELSE /\ T' = Inserted(T, <<taken - 1, Alphabet[at]>>, Len(Q))
          /\ Q' = Append(Q, target)
  /\ at' = at + 1
  /\ UNCHANGED <<nfa, building, taken, dfa, overshadows>>

VisitTarget ==
  /\ Working
  /\ Listed(Arrived) # {}
  /\ ~ClosureDiverges(nfa, Arrived)
  /\ LET target == Target IN Visit(target)

\* Mutant: the next configuration is not looked at from the first symbol on.
NextConfigurationKeepsPlace ==
  /\ building = "work"
  /\ at > Len(Alphabet)
  /\ taken < Len(Q)
  /\ taken' = taken + 1
  /\ UNCHANGED <<nfa, building, Q, at, T, dfa, overshadows>>

NextConfiguration ==
  /\ building = "work"
  /\ at > Len(Alphabet)
  /\ taken < Len(Q)
  /\ taken' = taken + 1
  /\ at' = 1
  /\ UNCHANGED <<nfa, building, Q, T, dfa, overshadows>>

-----------------------------------------------------------------------------
(* constructDFA().                                                         *)

Tags(q) == {nfa.tags[s] : s \in Listed(q) \cap DOMAIN nfa.tags}

\* determineTag(): of several rules, the lowest tag wins.
Accepting == {i \in DOMAIN Q : Tags(Q[i]) # {}}

\* Mutant: the highest tag wins.
HighestTag(i) == Max(Tags(Q[i]))
WinningTag(i) == Min(Tags(Q[i]))

\* Mutant: remaps[] remembers the first one.
RemapFirst(s) ==
  LET listing == {i \in DOMAIN Q : s \in Listed(Q[i])}
  IN  IF listing = {} THEN 0 ELSE Min(listing) - 1

\* remaps[] remembers the last configuration that lists a state.
Remap(s) ==
  LET listing == {i \in DOMAIN Q : s \in Listed(Q[i])}
  IN  IF listing = {} THEN 0 ELSE Max(listing) - 1

BacktrackStates(q) == Listed(q) \cap DOMAIN nfa.backtrack
Rewinding == {i \in DOMAIN Q : BacktrackStates(Q[i]) # {}}

\* overshadowing[tag]: the tag that beat it in the last configuration that has
\* both.  A tag that an automaton has twice can be beaten by itself.
Beaten(i) ==
  {t \in Tags(Q[i]) :
     \/ t # WinningTag(i)
     \/ \E s, u \in Listed(Q[i]) \cap DOMAIN nfa.tags : s # u /\ nfa.tags[s] = t /\ nfa.tags[u] = t
     \/ \E s \in Listed(Q[i]) \cap DOMAIN nfa.tags : nfa.tags[s] = t /\ Q[i][s] > 1}

Result ==
  [size |-> Len(Q), transitions |-> T, initial |-> 0,
   accepts |-> [s \in {i - 1 : i \in Accepting} |-> WinningTag(s + 1)],
   backtracking |-> [s \in {i - 1 : i \in Rewinding} |->
                       Remap(nfa.backtrack[Min(BacktrackStates(Q[s + 1]))])]]

\* Mutant: a rule that wins elsewhere is reported, too.
OvershadowedSomewhere ==
  LET by(s) == WinningTag(Max({i \in Accepting : nfa.tags[s] \in Beaten(i)}))
      states == Ascending({s \in DOMAIN nfa.tags : \E i \in Accepting : nfa.tags[s] \in Beaten(i)})
  IN  [k \in DOMAIN states |-> <<nfa.tags[states[k]], by(states[k])>>]

\* The rules of the automaton that its DFA accepts nowhere, in the order of
\* their accept states, each with the one that overshadows it.
Overshadowed ==
  LET lost(s) == /\ \A i \in Accepting : WinningTag(i) # nfa.tags[s]
                 /\ \E i \in Accepting : nfa.tags[s] \in Beaten(i)
      by(s) == WinningTag(Max({i \in Accepting : nfa.tags[s] \in Beaten(i)}))
      states == Ascending({s \in DOMAIN nfa.tags : lost(s)})
  IN  [k \in DOMAIN states |-> <<nfa.tags[states[k]], by(states[k])>>]

Explored == building = "work" /\ at > Len(Alphabet) /\ taken = Len(Q)

\* A lookahead within a rule: the assertion that its end accepts fails.
Abort ==
  /\ Explored
  /\ ~(Rewinding \subseteq Accepting)
  /\ Stop("aborted")

ConstructDFA ==
  /\ Explored
  /\ Rewinding \subseteq Accepting
  /\ dfa' = Result
  /\ overshadows' = overshadows \o Overshadowed
  /\ building' = "done"
  /\ UNCHANGED <<nfa, Q, taken, at, T>>

-----------------------------------------------------------------------------

BuilderInit == \E n \in Automata : Fresh(n) /\ overshadows = <<>>

BuilderStep ==
  \/ Start \/ StartForever
  \/ Skip \/ VisitTarget \/ VisitForever \/ VisitTooMany
  \/ NextConfiguration
  \/ Abort \/ ConstructDFA

BuilderSpec == BuilderInit /\ [][BuilderStep]_builderVars

\* The row of a configuration: the table has the configuration the NFA gets to
\* with a symbol, and nothing if it gets to none.
RowIsRight(i, k) ==
  LET arrived == Delta(nfa, Q[i], Alphabet[k])
      e == <<i - 1, Alphabet[k]>>
  IN  IF Listed(arrived) = {} THEN e \notin DOMAIN T
      ELSE /\ e \in DOMAIN T
           /\ T[e] + 1 \in DOMAIN Q
           /\ Q[T[e] + 1] = EpsilonClosure(nfa, arrived)

\* When the work list is empty, the table is the NFA's own step on configurations
\* from the first of them on, and no configuration has two numbers
\* (DFABuilder.cpp:84-118).
TableIsRight ==
  Explored =>
    /\ Q[1] = EpsilonClosure(nfa, InitialListing)
    /\ \A i \in DOMAIN Q, k \in 1..Len(Alphabet) : RowIsRight(i, k)
    /\ \A i, j \in DOMAIN Q : Q[i] = Q[j] => i = j

=============================================================================
