--------------------------------- MODULE DFA ---------------------------------
(***************************************************************************)
(* Deterministic automata (klex/regular/DFA.cpp) and several of them put   *)
(* together under one master state, one for each start condition           *)
(* (klex/regular/MultiDFA.cpp).  The states are 0..size-1; transitions is  *)
(* keyed by pairs (state, symbol).                                         *)
(***************************************************************************)
EXTENDS Containers

StatesOf(d) == 0..d.size - 1

\* A table whose states are those there are.
IsAutomaton(d) ==
  /\ d.size \in Nat
  /\ d.initial \in StatesOf(d)
  /\ IsFiniteSet(DOMAIN d.transitions)
  /\ \A e \in DOMAIN d.transitions :
       /\ e \in StatesOf(d) \X Int
       /\ d.transitions[e] \in StatesOf(d)
  /\ DOMAIN d.accepts \subseteq StatesOf(d)
  /\ \A s \in DOMAIN d.backtracking : s \in StatesOf(d) /\ d.backtracking[s] \in StatesOf(d)

IsMultiDFA(multi) ==
  /\ IsAutomaton(multi.dfa)
  /\ \A name \in DOMAIN multi.initialStates : multi.initialStates[name] \in StatesOf(multi.dfa)

SymbolsIn(d) == Ascending({t[2] : t \in DOMAIN d.transitions})

AcceptStates(d) == Ascending(DOMAIN d.accepts)
NonAcceptStates(d) == Ascending(StatesOf(d) \ DOMAIN d.accepts)

\* append(): the states of other follow those of d, except for its initial
\* state 0, whose place in d is q0.
Appended(d, other, q0) ==
  LET moved(s) == IF s # other.initial THEN d.size + s - 1 ELSE q0
      back(s)  == CHOOSE t \in 0..other.size - 1 : moved(t) = s
      images(S) == {moved(s) : s \in S}
      edges == {<<moved(e[1]), e[2]>> : e \in DOMAIN other.transitions}
  IN  [d EXCEPT
         !.size = @ + other.size - 1,
         !.transitions =
            [e \in edges |-> moved(other.transitions[<<back(e[1]), e[2]>>])] @@ @,
         !.accepts = @ @@ [s \in images(DOMAIN other.accepts) |-> other.accepts[back(s)]],
         !.backtracking = @ @@ [s \in images(DOMAIN other.backtracking) |->
                                  moved(other.backtracking[back(s)])]]

\* constructMultiDFA(): names are the keys of the map of automata, in its order.
Joined(names, automata) ==
  LET k == Len(names)
      masters == [size |-> 1 + k, transitions |-> <<>>, initial |-> 0,
                  accepts |-> <<>>, backtracking |-> <<>>]
      appended == FoldLeft(LAMBDA d, q0 : Appended(d, automata[names[q0]], q0),
                           masters, [q0 \in 1..k |-> q0])
  IN  [initialStates |-> [name \in Range(names) |-> CHOOSE q0 \in 1..k : names[q0] = name],
       dfa |-> [appended EXCEPT
                  !.transitions = [e \in {<<0, q0>> : q0 \in 1..k} |-> e[2]] @@ @]]

=============================================================================
