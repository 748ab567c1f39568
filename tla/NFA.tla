--------------------------------- MODULE NFA ---------------------------------
(***************************************************************************)
(* Nondeterministic automata and the operations that build them            *)
(* (klex/regular/NFA.cpp).  The states are 0..size-1; edges holds triples  *)
(* (from, symbol, to), acceptTags and backtrackStates are the maps of      *)
(* those names.                                                            *)
(*                                                                         *)
(* A StateIdVec that the code keeps sorted, and in which it may list a     *)
(* state more than once, is a function from the states listed to how often *)
(* they are.                                                               *)
(***************************************************************************)
EXTENDS Containers

Epsilon == -1

NoMap == <<>>

EmptyNFA ==
  [size |-> 0, edges |-> {}, initial |-> 0, accept |-> 0,
   backtrack |-> NoMap, tags |-> NoMap]

NFAOf(symbols) ==
  [size |-> 2, edges |-> {<<0, c, 1>> : c \in symbols}, initial |-> 0,
   accept |-> 1, backtrack |-> NoMap, tags |-> NoMap]

SetAccept(n, tag) == [n EXCEPT !.tags = (n.accept :> tag) @@ @]

\* prepareStateIds()
Shifted(n, base) ==
  [size |-> n.size,
   edges |-> {<<base + e[1], e[2], base + e[3]>> : e \in n.edges},
   initial |-> base + n.initial,
   accept |-> base + n.accept,
   backtrack |-> [s \in {base + t : t \in DOMAIN n.backtrack} |->
                    base + n.backtrack[s - base]],
   tags |-> [s \in {base + t : t \in DOMAIN n.tags} |-> n.tags[s - base]]]

\* The states of l, then extra new states, then those of r.
Beside(l, extra, r) == Shifted(r, l.size + extra)

LookAheadOf(l, r) ==
  IF l.size = 0
  THEN [r EXCEPT !.backtrack = (r.accept :> r.initial) @@ @]
  ELSE LET s == Beside(l, 0, r)
       IN [size |-> l.size + r.size,
           edges |-> l.edges \cup s.edges \cup {<<l.accept, Epsilon, s.initial>>},
           initial |-> l.initial,
           accept |-> s.accept,
           backtrack |-> (s.accept :> l.accept) @@ l.backtrack,
           tags |-> l.tags @@ s.tags]

Alternate(l, r) ==
  LET start == l.size
      end == l.size + 1
      s == Beside(l, 2, r)
  IN [size |-> l.size + 2 + r.size,
      edges |-> l.edges \cup s.edges \cup
                {<<start, Epsilon, l.initial>>, <<start, Epsilon, s.initial>>,
                 <<l.accept, Epsilon, end>>, <<s.accept, Epsilon, end>>},
      initial |-> start,
      accept |-> end,
      backtrack |-> l.backtrack @@ s.backtrack,
      tags |-> l.tags @@ s.tags]

Concatenate(l, r) ==
  LET s == Beside(l, 0, r)
  IN [size |-> l.size + r.size,
      edges |-> l.edges \cup s.edges \cup {<<l.accept, Epsilon, s.initial>>},
      initial |-> l.initial,
      accept |-> s.accept,
      backtrack |-> l.backtrack @@ s.backtrack,
      tags |-> l.tags @@ s.tags]

\* What optional() and recurring() share: a way around n.
Bypassed(n, more) ==
  LET start == n.size
      end == n.size + 1
  IN [n EXCEPT
        !.size = @ + 2,
        !.edges = @ \cup more \cup
                  {<<start, Epsilon, n.initial>>, <<start, Epsilon, end>>,
                   <<n.accept, Epsilon, end>>},
        !.initial = start,
        !.accept = end]

OptionalOf(n) == Bypassed(n, {})
Recurring(n) == Bypassed(n, {<<n.accept, Epsilon, n.initial>>})

\* Mutant: the first occurrence may repeat, too.
PositiveOfLoops(n) == Concatenate(Recurring(n), Recurring(n))
Positive(n) == Concatenate(n, Recurring(n))

Times(n, factor) ==
  LET times[k \in 1..factor] == IF k = 1 THEN n ELSE Concatenate(times[k - 1], n)
  IN  times[factor]

\* Between min and max times: an alternative for each number.
Repeat(n, min, max) ==
  LET least == IF min = 0 THEN n ELSE Times(n, min)
      more == FoldLeft(LAMBDA m, k : Alternate(m, Times(n, k)), least,
                       [i \in 1..max - min |-> min + i])
  IN  IF min = 0 THEN OptionalOf(more) ELSE more

\* Mutant: every automaton goes behind the states of the first.
JoinedOverlapping(automata) ==
  LET add(n, k) ==
        LET s == Shifted(automata[k], 1 + Len(automata))
        IN  [n EXCEPT !.size = Max({@, s.size + 1 + Len(automata)}),
                      !.edges = @ \cup s.edges \cup {<<n.initial, k, s.initial>>},
                      !.tags = @ @@ s.tags]
  IN  IF Len(automata) = 1 THEN automata[1]
      ELSE FoldLeft(add, [EmptyNFA EXCEPT !.size = 1 + Len(automata)], [k \in DOMAIN automata |-> k])

\* join(): the automata under a master state that leads to the k-th with symbol
\* k, and to states that nothing leads to.
JoinedNFA(automata) ==
  LET add(n, k) ==
        LET s == Shifted(automata[k], n.size)
        IN  [size |-> n.size + s.size,
             edges |-> n.edges \cup s.edges \cup {<<n.initial, k, s.initial>>},
             initial |-> n.initial,
             accept |-> s.accept,
             backtrack |-> (s.accept :> n.accept) @@ n.backtrack,
             tags |-> n.tags @@ s.tags]
  IN  IF Len(automata) = 1 THEN automata[1]
      ELSE FoldLeft(add, [EmptyNFA EXCEPT !.size = 1 + Len(automata)], [k \in DOMAIN automata |-> k])

-----------------------------------------------------------------------------
(* Running an automaton.                                                   *)

States(n) == 0..n.size - 1

\* alphabet(), in the order of a std::set of int.
AlphabetOf(n) == Ascending({e[2] : e \in n.edges} \ {Epsilon})

Listed(S) == DOMAIN S
Listing(count, states) == [s \in {s \in states : count[s] > 0} |-> count[s]]

\* How often symbol leads from the states of S to t.
Arrivals(n, S, symbol, t) ==
  LET from == {s \in Listed(S) : <<s, symbol, t>> \in n.edges}
  IN  SumFunctionOnSet(S, from)

Delta(n, S, symbol) ==
  Listing([t \in States(n) |-> Arrivals(n, S, symbol, t)], States(n))

\* What can be reached from X by epsilon transitions within a set of states.
ReachableWithin(n, X, within) ==
  LET next(Y) == {t \in within : \E s \in Y : <<s, Epsilon, t>> \in n.edges}
      all[Y \in SUBSET within] == IF next(Y) \subseteq Y THEN Y ELSE all[Y \cup next(Y)]
  IN  all[next(X)]

Found(n, S) == ReachableWithin(n, Listed(S), States(n) \ Listed(S))

\* epsilonClosure() marks the states of S only: another state is found once for
\* every path of epsilon transitions that leads to it around S.
EpsilonClosure(n, S) ==
  LET others == Found(n, S)
      steps == {e \in n.edges : e[2] = Epsilon /\ e[1] \in others}
      found[t \in others] ==
        Arrivals(n, S, Epsilon, t)
          + MapThenSumSet(LAMBDA e : found[e[1]], {e \in steps : e[3] = t})
  IN  S @@ found

\* If such paths run in a circle, it finds states for ever.
ClosureDiverges(n, S) ==
  LET others == States(n) \ Listed(S)
  IN  \E t \in Found(n, S) : t \in ReachableWithin(n, {t}, others)

=============================================================================
