------------------------------ MODULE GrammarDef ------------------------------
(***************************************************************************)
(* Grammars (klex/cfg/Grammar.h) and the functions over them that          *)
(* Grammar::finalize, LeftRecursion and SyntaxTable::construct share.      *)
(*                                                                         *)
(* A symbol is a string.  A name that has a production is a nonterminal,   *)
(* the others are terminals, named by their pattern, and actions.  The     *)
(* sorted vectors of terminals that the code keeps are sets here.          *)
(***************************************************************************)
EXTENDS Containers

CONSTANTS
  TerminalOrder,  \* the terminals, in the order operator< gives their patterns
  ActionOrder     \* the actions, in the order operator< gives their names

TerminalSymbols == Range(TerminalOrder)
Actions == Range(ActionOrder)
Eof == "<<EOF>>"

ASSUME OrderAssumption ==
  /\ TerminalOrder \in Seq(TerminalSymbols) /\ ActionOrder \in Seq(Actions)
  /\ Eof \in TerminalSymbols /\ TerminalSymbols \cap Actions = {}

\* A production as the parser leaves it.
Production(name, handle) ==
  [name |-> name, handle |-> handle, epsilon |-> FALSE, first |-> {},
   follow |-> {}]

Named(ps, nt) == {p \in DOMAIN ps : ps[p].name = nt}

\* symbols(): a handle without its actions.
Symbols(handle) == Kept(handle, Range(handle) \ Actions)

IsNonTerminal(b) == b \notin TerminalSymbols \cup Actions

\* nonterminals(): in the order of their first productions.
NonTerminals(ps) ==
  LET firsts == Ascending({p \in DOMAIN ps :
                             \A q \in 1..p-1 : ps[q].name # ps[p].name})
  IN  [i \in DOMAIN firsts |-> ps[firsts[i]].name]

\* What the handles mention.
Mentioned(ps) == UNION {Range(ps[p].handle) : p \in DOMAIN ps}

\* terminals(), without the ignored ones, which no handle can mention.
Terminals(ps) == Kept(TerminalOrder, Mentioned(ps))

\* actions()
ActionsOf(ps) == Kept(ActionOrder, Mentioned(ps))

ContainsEpsilon(ps, b) ==
  IsNonTerminal(b) /\ \E p \in Named(ps, b) : ps[p].epsilon

\* Mutant: a nonterminal starts with itself.
FirstOfItself(ps, b) == {b}

FirstOf(ps, b) ==
  IF IsNonTerminal(b) THEN UNION {ps[p].first : p \in Named(ps, b)} ELSE {b}

FollowOf(ps, nt) == UNION {ps[p].follow : p \in Named(ps, nt)}

\* The first nonterminal of a handle, if it has one; it need not be its first
\* symbol.
FirstNonTerminal(handle) ==
  {handle[i] : i \in {i \in DOMAIN handle :
     IsNonTerminal(handle[i]) /\ \A j \in 1..i-1 : ~IsNonTerminal(handle[j])}}

\* GrammarValidator::validate
Valid(ps) ==
  \A p \in DOMAIN ps : \A b \in Range(ps[p].handle) :
    IsNonTerminal(b) => Named(ps, b) # {}

\* injectEof(): after the last symbol of the first production, before its
\* action.  The search for that symbol reads in front of an empty handle.
InjectEof(ps) ==
  LET handle == ps[1].handle
      place == IF Symbols(handle) = <<>> THEN Len(handle)
               ELSE CHOOSE i \in DOMAIN handle :
                      /\ handle[i] \notin Actions
                      /\ \A j \in i+1..Len(handle) : handle[j] \in Actions
  IN [ps EXCEPT ![1].handle = InsertAt(handle, place + 1, Eof)]

-----------------------------------------------------------------------------
\* What one round of the inner loop of Grammar::finalize does to the sets and flags
\* of the productions.

\* May every symbol of s be nothing?
AllEpsilon(ps, s) == \A b \in Range(s) : ContainsEpsilon(ps, b)

\* The symbols of s up to the first that is not nothing start a sentence.
FirstOfAll(ps, s) ==
  UNION {FirstOf(ps, s[i]) :
           i \in {i \in DOMAIN s : AllEpsilon(ps, SubSeq(s, 1, i - 1))}}

\* Mutant: only the first symbol is looked at.
VisitFirstSymbol(ps, p) ==
  LET s == Symbols(ps[p].handle)
  IN [ps EXCEPT ![p].first = @ \cup UNION {FirstOf(ps, s[i]) : i \in DOMAIN s \cap {1}},
                ![p].epsilon = @ \/ AllEpsilon(ps, s)]

VisitFirst(ps, p) ==
  LET s == Symbols(ps[p].handle)
  IN [ps EXCEPT ![p].first = @ \cup FirstOfAll(ps, s),
                ![p].epsilon = @ \/ AllEpsilon(ps, s)]

\* Mutant: a symbol that is not nullable does not end the trailer behind it.
TrailerOfAll(ps, p, i) ==
  LET s == Symbols(ps[p].handle)
  IN  UNION {FirstOf(ps, s[j]) : j \in i+1..Len(s)} \cup FollowOf(ps, ps[p].name)

\* The trailer of the i-th symbol, which the code builds from right to left.
Trailer(ps, p, i) ==
  LET s == Symbols(ps[p].handle)
      behind == SubSeq(s, i + 1, Len(s))
  IN  FirstOfAll(ps, behind)
        \cup IF AllEpsilon(ps, behind) THEN FollowOf(ps, ps[p].name) ELSE {}

VisitFollow(ps, p) ==
  LET s == Symbols(ps[p].handle)
      trailers(nt) == UNION {Trailer(ps, p, i) : i \in {i \in DOMAIN s : s[i] = nt}}
  IN [q \in DOMAIN ps |->
        [ps[q] EXCEPT !.follow = @ \cup trailers(ps[q].name)]]

VisitProduction(ps, p) == VisitFollow(VisitFirst(ps, p), p)

\* Mutant: a merge that adds nothing is an update.
GrewOrNot(ps, qs) == \E p \in DOMAIN ps : ps[p].first \subseteq qs[p].first

\* What merge() counts as an update: a set that grew, and not a flag.
Grew(ps, qs) ==
  \E p \in DOMAIN ps : ps[p].first # qs[p].first \/ ps[p].follow # qs[p].follow

Flags(ps) == {p \in DOMAIN ps : ps[p].epsilon}

=============================================================================
