------------------------------- MODULE Grammar -------------------------------
(***************************************************************************)
(* Grammar::finalize (klex/cfg/Grammar.cpp): the FIRST and FOLLOW sets and *)
(* the epsilon flags of all productions, by passes over the productions    *)
(* until a pass has changed no set.  One step visits one production.       *)
(***************************************************************************)
EXTENDS GrammarDef

VARIABLES
  productions,  \* the member of that name
  visiting,     \* the production the inner loop is at
  updated,      \* the local of that name
  flagged,      \* history: did this pass set an epsilon flag?
  pc

grammarVars == <<productions, visiting, updated, flagged, pc>>

-----------------------------------------------------------------------------
Finalize ==
  /\ pc = "grammar"
  /\ pc' = "pass"
  /\ productions' = InjectEof(productions)
  /\ UNCHANGED <<visiting, updated, flagged>>

Visit ==
  /\ pc = "pass"
  /\ visiting <= Len(productions)
  /\ \E first \in {VisitFirst(productions, visiting)} :
       productions' = VisitFollow(first, visiting)
  /\ visiting' = visiting + 1
  /\ updated' = (updated \/ Grew(productions, productions'))
  /\ flagged' = (flagged \/ Flags(productions) # Flags(productions'))
  /\ UNCHANGED pc

NextPass ==
  /\ pc = "pass"
  /\ visiting > Len(productions)
  /\ updated
  /\ visiting' = 1
  /\ updated' = FALSE
  /\ flagged' = FALSE
  /\ UNCHANGED <<productions, pc>>

Done ==
  /\ pc = "pass"
  /\ visiting > Len(productions)
  /\ ~updated
  /\ pc' = "done"
  /\ UNCHANGED <<productions, visiting, updated, flagged>>

Pass == Visit \/ NextPass \/ Done

-----------------------------------------------------------------------------
(* What the sets of a grammar are, by definition rather than by passes over it: *)
(* nullable is the least set closed under the productions, FIRST and FOLLOW are *)
(* reachability in relations between symbols.                                   *)

\* The productions without their order, their actions and their sets.
RulesOf(ps) ==
  {[name |-> ps[p].name, symbols |-> Symbols(ps[p].handle)] : p \in DOMAIN ps}

Names(rules) == {r.name : r \in rules}

ClosedUnderEpsilon(rules, N) ==
  \A r \in rules : Range(r.symbols) \subseteq N => r.name \in N

Nullable(rules) ==
  {nt \in Names(rules) :
     \A N \in SUBSET Names(rules) : ClosedUnderEpsilon(rules, N) => nt \in N}

\* Is all that lies between positions i and j of s nullable?
Adjacent(nullable, s, i, j) == i < j /\ \A k \in i+1..j-1 : s[k] \in nullable

\* A sentential form that starts with a can come to start with b.
BeginsWith(rules, nullable) ==
  UNION {{<<r.name, r.symbols[i]>> :
            i \in {i \in DOMAIN r.symbols : Adjacent(nullable, r.symbols, 0, i)}} :
         r \in rules}

\* A sentential form that ends with a can come to end with b.
EndsWith(rules, nullable) ==
  UNION {{<<r.name, r.symbols[i]>> :
            i \in {i \in DOMAIN r.symbols :
                     Adjacent(nullable, r.symbols, i, Len(r.symbols) + 1)}} :
         r \in rules}

\* Symbols that stand side by side in some sentential form.
Meets(rules, nullable) ==
  UNION {{<<r.symbols[ij[1]], r.symbols[ij[2]]>> :
            ij \in {ij \in (DOMAIN r.symbols) \X (DOMAIN r.symbols) :
                      Adjacent(nullable, r.symbols, ij[1], ij[2])}} :
         r \in rules}

\* The symbols that rel leads to from those of X, in any number of steps.
Reached(rel, X) ==
  LET step[n \in 0..Cardinality(rel)] ==
        IF n = 0 THEN X
        ELSE LET before == step[n - 1]
             IN  before \cup {e[2] : e \in {e \in rel : e[1] \in before}}
  IN  step[Cardinality(rel)]

SymbolSets(rules) ==
  LET nullable == Nullable(rules)
      begins == BeginsWith(rules, nullable)
      ends == EndsWith(rules, nullable)
      meets == Meets(rules, nullable)
      first(symbols) == Reached(begins, symbols) \cap TerminalSymbols
      next(nt) == {m[2] : m \in {m \in meets : nt \in Reached(ends, {m[1]})}}
  IN [nullable |-> nullable,
      first |-> [nt \in Names(rules) |-> first({nt})],
      follow |-> [nt \in Names(rules) |-> first(next(nt))]]

-----------------------------------------------------------------------------
\* Whatever pass the loop of Grammar.cpp:230 is in, no set holds a terminal
\* and no production a flag that the grammar does not justify.
SetsAreJustified ==
  pc \in {"pass", "done"} =>
  LET sets == SymbolSets(RulesOf(productions)) IN
  \A p \in DOMAIN productions :
    LET nt == productions[p].name IN
    /\ productions[p].epsilon => nt \in sets.nullable
    /\ productions[p].first \subseteq sets.first[nt]
    /\ productions[p].follow \subseteq sets.follow[nt]

\* When the loop ends with a pass that set no epsilon flag, the accumulated
\* sets of a nonterminal (firstOf, followOf and containsEpsilon) are its FIRST
\* set, its FOLLOW set and its nullability (Grammar.h:202-204).
SetsAreComplete ==
  pc = "done" /\ ~flagged =>
    LET sets == SymbolSets(RulesOf(productions)) IN
    \A nt \in Names(RulesOf(productions)) :
      /\ FirstOf(productions, nt) = sets.first[nt]
      /\ FollowOf(productions, nt) = sets.follow[nt]
      /\ ContainsEpsilon(productions, nt) <=> nt \in sets.nullable

\* finalize() leaves in first what Grammar.h:203 says of it, the FIRST set, also
\* when its last pass set an epsilon flag that no earlier production has seen.
FirstSetsAccumulated ==
  pc = "done" =>
    LET sets == SymbolSets(RulesOf(productions)) IN
    \A nt \in Names(RulesOf(productions)) : FirstOf(productions, nt) = sets.first[nt]

=============================================================================
