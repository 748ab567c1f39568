------------------------------ MODULE Derivation ------------------------------
(***************************************************************************)
(* What a parser promises: the leftmost derivations of a grammar.  A step  *)
(* replaces the first nonterminal of the sentential form by one of its     *)
(* handles.                                                                *)
(***************************************************************************)
EXTENDS SyntaxTable

VARIABLES st, form

Start == form = <<st.startSymbol>>

Derive ==
  \E i \in DOMAIN form, p \in DOMAIN st.productions :
    /\ \A j \in 1..i - 1 : IsTerminalId(st, form[j])
    /\ st.productionNames[p] = form[i]
    /\ form' = SubSeq(form, 1, i - 1) \o GrammarSymbols(st, st.productions[p])
                 \o SubSeq(form, i + 1, Len(form))
    /\ UNCHANGED st

Spec == Start /\ [][Derive]_<<st, form>>

=============================================================================
