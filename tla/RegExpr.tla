------------------------------- MODULE RegExpr -------------------------------
(***************************************************************************)
(* Regular expressions as the parser leaves them (klex/regular/RegExpr.h). *)
(* CharacterExpr, CharacterClassExpr and DotExpr are one term here, the    *)
(* set of the symbols they match, and EndOfFileExpr is the set of that     *)
(* symbol.                                                                 *)
(***************************************************************************)
EXTENDS LexerDef

Infinity == 2147483647   \* numeric_limits<unsigned>::max() in the code

Chars(S)              == [op |-> "chars", symbols |-> S]
Char(c)               == Chars({c})
EndOfFileExpr         == Chars({EndOfFile})
EmptyExpr             == [op |-> "empty"]
BeginOfLineExpr       == [op |-> "bol"]
EndOfLineExpr         == [op |-> "eol"]
Alternation(l, r)     == [op |-> "alternation", left |-> l, right |-> r]
Concatenation(l, r)   == [op |-> "concatenation", left |-> l, right |-> r]
LookAhead(l, r)       == [op |-> "lookahead", left |-> l, right |-> r]
Closure(e, min, max)  == [op |-> "closure", sub |-> e, min |-> min, max |-> max]

Optional(e)  == Closure(e, 0, 1)
Star(e)      == Closure(e, 0, Infinity)
Plus(e)      == Closure(e, 1, Infinity)

RECURSIVE ContainsBeginOfLine(_)
ContainsBeginOfLine(e) ==
  CASE e.op = "bol" -> TRUE
    [] e.op \in {"alternation", "concatenation", "lookahead"} ->
         ContainsBeginOfLine(e.left) \/ ContainsBeginOfLine(e.right)
    [] e.op = "closure" -> ContainsBeginOfLine(e.sub)
    [] OTHER -> FALSE

=============================================================================
