----------------------------- MODULE SyntaxTable -----------------------------
(***************************************************************************)
(* The LL(1) table (klex/cfg/ll/SyntaxTable.h) as the analyzer sees it:    *)
(* symbols are numbers, the nonterminals first, then the terminals, then   *)
(* the actions.  Productions are numbered from 1 here, from 0 in the code. *)
(***************************************************************************)
EXTENDS Containers

NonTerminalIds(t) == 0..t.nonterminalCount - 1
TerminalIds(t) == t.nonterminalCount..t.nonterminalCount + t.terminalCount - 1
ActionIds(t) ==
  t.nonterminalCount + t.terminalCount
    ..t.nonterminalCount + t.terminalCount + t.actionCount - 1
SymbolIds(t) == NonTerminalIds(t) \cup TerminalIds(t) \cup ActionIds(t)

IsNonTerminalId(t, id) == id \in NonTerminalIds(t)
IsTerminalId(t, id) == id \in TerminalIds(t)
IsActionId(t, id) == id \in ActionIds(t)

\* What a derivation sees of a handle or of a stack: neither actions nor markers.
GrammarSymbols(t, s) == Kept(s, NonTerminalIds(t) \cup TerminalIds(t))

\* productionNames holds the nonterminal's number instead of its name, and
\* eof the number of the terminal that injectEof() adds.
IsSyntaxTable(t) ==
  /\ t.nonterminalCount \in Nat
  /\ t.terminalCount \in Nat
  /\ t.actionCount \in Nat
  /\ t.productions \in Seq(Seq(SymbolIds(t)))
  /\ t.productionNames \in [DOMAIN t.productions -> NonTerminalIds(t)]
  /\ DOMAIN t.table \subseteq NonTerminalIds(t) \X TerminalIds(t)
  /\ \A entry \in DOMAIN t.table :
       /\ t.table[entry] \in DOMAIN t.productions
       /\ t.productionNames[t.table[entry]] = entry[1]
  /\ t.startSymbol \in NonTerminalIds(t)
  /\ t.eof \in TerminalIds(t)

\* lookup() finds a production.
HasEntry(t, nonterminal, lookahead) ==
  <<nonterminal, lookahead>> \in DOMAIN t.table

Handle(t, nonterminal, lookahead) ==
  t.productions[t.table[<<nonterminal, lookahead>>]]

-----------------------------------------------------------------------------
(* What an LL(1) table is made for.                                             *)

\* The grammar symbols of a production's handle.
HandleOf(t, p) == GrammarSymbols(t, t.productions[p])

\* s may stand for nothing.
MayVanish(nullable, s) == \A i \in DOMAIN s : s[i] \in nullable

\* What stands between two positions of s may stand for nothing.
MeetIn(nullable, s, i, j) == \A k \in i + 1..j - 1 : s[k] \in nullable

\* What the words of s may start with.
Starters(nullable, first, s) ==
  UNION {first[s[j]] : j \in {j \in DOMAIN s : MeetIn(nullable, s, 0, j)}}

\* What may stand for nothing, what the symbols start with and what comes behind the
\* nonterminals agree with the handles, and the table has an entry for all a handle
\* may meet.
Predicts(t, nullable, first, follow) ==
  /\ \A a \in TerminalIds(t) : a \notin nullable /\ first[a] = {a}
  /\ \A p \in DOMAIN t.productions :
       LET s == HandleOf(t, p)
           x == t.productionNames[p]
           starters == Starters(nullable, first, s)
           met == starters \cup IF MayVanish(nullable, s) THEN follow[x] ELSE {}
       IN  /\ MayVanish(nullable, s) => x \in nullable
           /\ starters \subseteq first[x]
           /\ \A i \in {i \in DOMAIN s : s[i] \in NonTerminalIds(t)} :
                /\ \A j \in DOMAIN s :
                     i < j /\ MeetIn(nullable, s, i, j) => first[s[j]] \subseteq follow[s[i]]
                /\ MeetIn(nullable, s, i, Len(s) + 1) => follow[x] \subseteq follow[s[i]]
           /\ \A b \in met : HasEntry(t, x, b) /\ t.table[<<x, b>>] = p

=============================================================================
