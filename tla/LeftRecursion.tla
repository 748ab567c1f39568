---------------------------- MODULE LeftRecursion ----------------------------
(***************************************************************************)
(* LeftRecursion (klex/cfg/LeftRecursion.cpp): directly left-recursive     *)
(* productions rewritten, one nonterminal after another.                   *)
(***************************************************************************)
EXTENDS GrammarDef

\* isLeftRecursive()
IsLeftRecursive(ps) ==
  \E p \in DOMAIN ps :
    LET s == Symbols(ps[p].handle) IN Len(s) > 1 /\ s[1] = ps[p].name

\* split(): the productions of nt that are taken to be left-recursive.
TailOf(ps, nt) ==
  {p \in Named(ps, nt) :
     /\ nt \in FirstNonTerminal(ps[p].handle)
     /\ Len(Symbols(ps[p].handle)) > 1}

\* createRelatedNonTerminal(): nt with as few underscores as make it new.
RelatedNonTerminal(ps, nt) ==
  LET name[k \in 0..Len(ps) + 1] == IF k = 0 THEN nt ELSE name[k - 1] \o "_"
      isNew(k) == k > 0 /\ Named(ps, name[k]) = {}
  IN  name[CHOOSE k \in DOMAIN name : isNew(k) /\ \A j \in 0..k-1 : ~isNew(j)]

\* Mutant: a production that is not left-recursive does not go on.
EliminateTailsOnly(ps, nt) ==
  LET tail == TailOf(ps, nt)
      tailSymbol == RelatedNonTerminal(ps, nt)
  IN  IF tail = {} THEN ps
      ELSE Append([p \in DOMAIN ps |->
                     IF p \in tail
                     THEN [ps[p] EXCEPT !.name = tailSymbol,
                                        !.handle = Tail(Append(@, tailSymbol))]
                     ELSE ps[p]],
                  Production(tailSymbol, <<>>))

\* Of A ::= A t | h it makes A ::= h A_ and A_ ::= t A_ | nothing, taking the
\* first element of a handle to be the A, which it need not be.
EliminateDirect(ps, nt) ==
  LET tail == TailOf(ps, nt)
      tailSymbol == RelatedNonTerminal(ps, nt)
      recursive(p) == [ps[p] EXCEPT !.name = tailSymbol,
                                    !.handle = Tail(Append(@, tailSymbol))]
      other(p) == [ps[p] EXCEPT !.handle = Append(@, tailSymbol)]
  IN  IF tail = {} THEN ps
      ELSE Append([p \in DOMAIN ps |-> CASE p \in tail -> recursive(p)
                                         [] p \in Named(ps, nt) \ tail -> other(p)
                                         [] OTHER -> ps[p]],
                  Production(tailSymbol, <<>>))

=============================================================================
