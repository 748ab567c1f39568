----------------------------- MODULE DFAMinimizer -----------------------------
(***************************************************************************)
(* Minimization by partition refinement (klex/regular/DFAMinimizer.cpp).   *)
(* P and T are lists of groups, which are lists of states; T is called      *)
(* groups here.                                                             *)
(***************************************************************************)
EXTENDS DFA

VARIABLES
  whole,          \* the automaton to minimize and the initial states in it
  minimizing,
  P, groups,      \* the groups of the round before, and those of this one
  minimal         \* the result, in the form of whole

minimizerVars == <<whole, minimizing, P, groups, minimal>>

Nothing == [initialStates |-> <<>>,
            dfa |-> [size |-> 0, transitions |-> <<>>, initial |-> 0,
                     accepts |-> <<>>, backtracking |-> <<>>]]

MinimizerIdle == whole = Nothing /\ minimizing = "idle" /\ P = <<>> /\ groups = <<>> /\ minimal = Nothing

LoadDFA(multi) ==
  /\ whole' = multi
  /\ minimizing' = "group"
  /\ P' = <<>> /\ groups' = <<>>
  /\ UNCHANGED minimal

dfa_ == whole.dfa
Symbols == SymbolsIn(dfa_)

\* Mutant: every accepting state is a group of its own.
GroupsOfOne == [k \in DOMAIN AcceptStates(dfa_) |-> <<AcceptStates(dfa_)[k]>>]

\* The states by their tags, in the order of the first state that has the tag.
GroupsByTag ==
  LET firsts == Ascending({s \in DOMAIN dfa_.accepts :
                             \A t \in DOMAIN dfa_.accepts :
                               dfa_.accepts[t] = dfa_.accepts[s] => s <= t})
  IN  [k \in DOMAIN firsts |->
         Kept(AcceptStates(dfa_),
              {s \in DOMAIN dfa_.accepts : dfa_.accepts[s] = dfa_.accepts[firsts[k]]})]

\* The states that do not accept are the last group.
Group ==
  /\ minimizing = "group"
  /\ minimizing' = "refine"
  /\ groups' = Append(GroupsByTag, NonAcceptStates(dfa_))
  /\ UNCHANGED <<whole, P, minimal>>

\* The group of gs, counted from 0, that a state is in.
PartitionId(gs, s) == SelectInSeq(gs, LAMBDA g : s \in Range(g)) - 1

\* The group that symbol leads to from s, -1 if none.
TargetGroup(gs, s, symbol) ==
  IF <<s, symbol>> \in DOMAIN dfa_.transitions
  THEN PartitionId(gs, dfa_.transitions[<<s, symbol>>])
  ELSE -1

Tells(gs, S, symbol) ==
  \E s, t \in Range(S) : TargetGroup(gs, s, symbol) # TargetGroup(gs, t, symbol)

\* split(): by the first symbol that leads from the states of S to different
\* groups; the parts are in the order of those groups.
Split(gs, S) ==
  LET k == SelectInSeq(Symbols, LAMBDA c : Tells(gs, S, c))
      targets == Ascending({TargetGroup(gs, s, Symbols[k]) : s \in Range(S)})
  IN  IF k = 0 THEN <<S>>
      ELSE [i \in DOMAIN targets |->
              Kept(S, {s \in Range(S) : TargetGroup(gs, s, Symbols[k]) = targets[i]})]

Refined(gs) == FlattenSeq([k \in DOMAIN gs |-> Split(gs, gs[k])])

\* The empty group of an automaton all of whose states accept fails an assertion
\* of split(), or its first state is taken later on.
AbortSplit ==
  /\ minimizing = "refine"
  /\ P # groups
  /\ \E k \in DOMAIN groups : groups[k] = <<>>
  /\ minimizing' = "aborted"
  /\ UNCHANGED <<whole, P, groups, minimal>>

Refine ==
  /\ minimizing = "refine"
  /\ P # groups
  /\ \A k \in DOMAIN groups : groups[k] # <<>>
  /\ P' = groups
  /\ groups' = Refined(groups)
  /\ UNCHANGED <<whole, minimizing, minimal>>

-----------------------------------------------------------------------------
(* constructFromPartitions() and what constructMultiDFA() adds.            *)

GroupOf(s) == PartitionId(P, s)
Representative(q) == P[q + 1][1]
GroupIds == 0..Len(P) - 1

Rewinders(q) == SelectSeq(P[q + 1], LAMBDA s : s \in DOMAIN dfa_.backtracking)

Reduced ==
  [size |-> Len(P),
   initial |-> GroupOf(dfa_.initial),
   transitions |->
     [e \in {p \in GroupIds \X Range(Symbols) :
               <<Representative(p[1]), p[2]>> \in DOMAIN dfa_.transitions} |->
        GroupOf(dfa_.transitions[<<Representative(e[1]), e[2]>>])],
   accepts |->
     [q \in {r \in GroupIds : Representative(r) \in DOMAIN dfa_.accepts} |->
        dfa_.accepts[Representative(q)]],
   backtracking |->
     [q \in {r \in GroupIds : Rewinders(r) # <<>>} |->
        GroupOf(dfa_.backtracking[Rewinders(q)[1]])]]

\* The master state's transitions carry the initial states' new numbers.
Relabelled(d) ==
  LET old == {<<d.initial, s>> : s \in Range(whole.initialStates)}
      new == {<<d.initial, GroupOf(s)>> : s \in Range(whole.initialStates)}
  IN  [d EXCEPT !.transitions =
         [e \in new \cup (DOMAIN @ \ old) |-> IF e \in new THEN e[2] ELSE @[e]]]

Minimized ==
  /\ minimizing = "refine"
  /\ P = groups
  /\ minimizing' = "done"
  /\ UNCHANGED <<whole, P, groups>>

ConstructMinimal ==
  /\ Minimized
  /\ DOMAIN whole.initialStates = {}
  /\ minimal' = [initialStates |-> <<>>, dfa |-> Reduced]

ConstructMultiDFA ==
  /\ Minimized
  /\ DOMAIN whole.initialStates # {}
  /\ minimal' = [initialStates |-> [name \in DOMAIN whole.initialStates |->
                                      GroupOf(whole.initialStates[name])],
                 dfa |-> Relabelled(Reduced)]

MinimizerNext == Group \/ AbortSplit \/ Refine \/ ConstructMinimal \/ ConstructMultiDFA

-----------------------------------------------------------------------------

MinimizerInit ==
  /\ IsMultiDFA(whole)
  /\ minimizing = "group"
  /\ P = <<>> /\ groups = <<>>
  /\ minimal = Nothing

MinimizerSpec == MinimizerInit /\ [][MinimizerNext]_minimizerVars

SourceStates == StatesOf(dfa_)

SameTag(s, t) ==
  /\ s \in DOMAIN dfa_.accepts <=> t \in DOMAIN dfa_.accepts
  /\ s \in DOMAIN dfa_.accepts => dfa_.accepts[s] = dfa_.accepts[t]

\* The pairs of R that every symbol leads to a pair of R, or neither anywhere.
Kindred(R) ==
  {p \in R : \A c \in Range(Symbols) :
     LET e == <<p[1], c>>
         f == <<p[2], c>>
     IN  /\ e \in DOMAIN dfa_.transitions <=> f \in DOMAIN dfa_.transitions
         /\ e \in DOMAIN dfa_.transitions =>
              <<dfa_.transitions[e], dfa_.transitions[f]>> \in R}

\* The pairs of states that no text of n symbols or fewer tells apart.
Alike(n) ==
  LET alike[i \in 0..n] ==
        IF i = 0 THEN {p \in SourceStates \X SourceStates : SameTag(p[1], p[2])}
        ELSE Kindred(alike[i - 1])
  IN  alike[n]

\* d does in the group of a state what dfa_ does in the state: it accepts with
\* the same tag, and goes on to the group of where dfa_ goes.  The group of the
\* master state goes where Relabelled says instead.
Mirrors(d, s) ==
  LET q == GroupOf(s)
  IN  /\ q \in StatesOf(d)
      /\ q \in DOMAIN d.accepts <=> s \in DOMAIN dfa_.accepts
      /\ q \in DOMAIN d.accepts => d.accepts[q] = dfa_.accepts[s]
      /\ q # d.initial \/ DOMAIN whole.initialStates = {} =>
           \A c \in Range(Symbols) :
             /\ <<q, c>> \in DOMAIN d.transitions <=> <<s, c>> \in DOMAIN dfa_.transitions
             /\ <<q, c>> \in DOMAIN d.transitions =>
                  d.transitions[<<q, c>>] = GroupOf(dfa_.transitions[<<s, c>>])

\* m does what whole does, starts where it does, and has no state that is no group.
DoesAsWhole(m) ==
  /\ \A s \in SourceStates : Mirrors(m.dfa, s)
  /\ \A q \in StatesOf(m.dfa) : \E s \in SourceStates : GroupOf(s) = q
  /\ m.dfa.initial = GroupOf(dfa_.initial)
  /\ DOMAIN m.initialStates = DOMAIN whole.initialStates
  /\ \A name \in DOMAIN whole.initialStates :
       m.initialStates[name] = GroupOf(whole.initialStates[name])

\* What is minimized does what it did, though states of different conditions may be
\* merged, and becomes minimal: two states are in the same group exactly if no text
\* tells them apart.  None that is longer than there are groups does, if a shorter one
\* does not (DFAMinimizer.cpp:84-266).
Minimal ==
  minimizing = "done" =>
    /\ DoesAsWhole(minimal)
    /\ LET alike == Alike(Len(P))
       IN  \A s, t \in SourceStates : GroupOf(s) = GroupOf(t) <=> <<s, t>> \in alike

=============================================================================
