------------------------- MODULE SyntaxTableConstruct -------------------------
(***************************************************************************)
(* SyntaxTable::construct (klex/cfg/ll/SyntaxTable.cpp): the table of a    *)
(* finalized grammar.                                                      *)
(***************************************************************************)
EXTENDS GrammarDef, SyntaxTable

\* finalize() as a function: what Next of Grammar computes step by step.  The
\* set of the grammars that a pass may end with is a singleton.
AfterPass(ps) ==
  FoldLeft(LAMBDA all, p : {VisitProduction(qs, p) : qs \in all}, {ps},
           [p \in DOMAIN ps |-> p])

Finalized(g) ==
  LET passes[ps \in Seq([name : STRING, handle : Seq(STRING), epsilon : BOOLEAN,
                         first : SUBSET TerminalSymbols,
                         follow : SUBSET TerminalSymbols])] ==
        UNION {IF Grew(ps, qs) THEN passes[qs] ELSE {qs} : qs \in AfterPass(ps)}
  IN  CHOOSE ps \in passes[InjectEof(g)] : TRUE

\* first1().  Its set_union appends to the vector it reads from, which is
\* undefined unless that vector is empty or the production is not nullable.
FirstPlus(p) == p.first \cup IF p.epsilon THEN p.follow ELSE {}
FirstPlusDefined(p) == ~p.epsilon \/ p.first = {}

\* The assertions of construct(): one production at most for a nonterminal
\* and a lookahead.
IsLL1(ps) ==
  /\ \A p \in DOMAIN ps : FirstPlusDefined(ps[p])
  /\ \A p, q \in DOMAIN ps :
       p # q /\ ps[p].name = ps[q].name =>
         FirstPlus(ps[p]) \cap FirstPlus(ps[q]) = {}

\* The positions of the symbols in the concatenated lists of names.
SymbolNames(ps) == NonTerminals(ps) \o Terminals(ps) \o ActionsOf(ps)

Ids(ps) ==
  LET names == SymbolNames(ps)
  IN  [b \in Range(names) |-> (CHOOSE i \in DOMAIN names : names[i] = b) - 1]

Construct(ps) ==
  LET ids == Ids(ps)
      entries == UNION {{<<ids[ps[p].name], ids[w]>> : w \in FirstPlus(ps[p])}
                        : p \in DOMAIN ps}
  IN [nonterminalCount |-> Len(NonTerminals(ps)),
      terminalCount |-> Len(Terminals(ps)),
      actionCount |-> Len(ActionsOf(ps)),
      productions |->
        [p \in DOMAIN ps |-> [i \in DOMAIN ps[p].handle |-> ids[ps[p].handle[i]]]],
      productionNames |-> [p \in DOMAIN ps |-> ids[ps[p].name]],
      table |->
        [entry \in entries |->
           CHOOSE p \in DOMAIN ps :
             /\ ids[ps[p].name] = entry[1]
             /\ \E w \in FirstPlus(ps[p]) : ids[w] = entry[2]],
      startSymbol |-> ids[ps[1].name],
      eof |-> ids[Eof]]

-----------------------------------------------------------------------------
(* The sets of a finalized grammar in the symbols of its table.  Productions of *)
(* one nonterminal have the same set of what follows it.                        *)

NullableIds(ps) ==
  LET ids == Ids(ps) IN {ids[b] : b \in {b \in DOMAIN ids : ContainsEpsilon(ps, b)}}

FirstIds(ps) ==
  LET ids == Ids(ps)
      names == SymbolNames(ps)
  IN  [i \in 0..Len(names) - 1 |->
         IF IsNonTerminal(names[i + 1]) THEN {ids[w] : w \in FirstOf(ps, names[i + 1])}
         ELSE {i}]

FollowIds(ps) ==
  LET ids == Ids(ps)
      names == SymbolNames(ps)
      follows(b) == {w \in Range(Terminals(ps)) : \A p \in Named(ps, b) : w \in ps[p].follow}
  IN  [i \in 0..Len(names) - 1 |-> {ids[w] : w \in follows(names[i + 1])}]

\* What the entries of Construct's table are for.
PredictsItsGrammar(ps) ==
  Predicts(Construct(ps), NullableIds(ps), FirstIds(ps), FollowIds(ps))

=============================================================================
