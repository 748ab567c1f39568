------------------------------ MODULE NFABuilder ------------------------------
(***************************************************************************)
(* The automaton of a regular expression (klex/regular/NFABuilder.cpp).    *)
(***************************************************************************)
EXTENDS NFA, RegExpr

\* What construct() has no automaton for: a closure of no occurrences fails an
\* assertion, one with its bounds the wrong way round throws.
RECURSIVE Buildable(_)
Buildable(e) ==
  CASE e.op \in {"alternation", "concatenation", "lookahead"} ->
         Buildable(e.left) /\ Buildable(e.right)
    [] e.op = "closure" -> Buildable(e.sub) /\ e.min <= e.max /\ e.max > 0
    [] OTHER -> TRUE

\* The visitor's ClosureExpr case.
Repetition(n, min, max) ==
  CASE min = 0 /\ max = 1        -> OptionalOf(n)
    [] min = 0 /\ max = Infinity -> Recurring(n)
    [] min = 1 /\ max = Infinity -> Positive(n)
    [] min < max /\ <<min, max>> \notin {<<0, 1>>, <<0, Infinity>>, <<1, Infinity>>}
                                 -> Repeat(n, min, max)
    [] min = max                 -> Times(n, min)

RECURSIVE Construct(_)
Construct(e) ==
  CASE e.op = "chars" -> NFAOf(e.symbols)
    [] e.op \in {"bol", "empty"} -> NFAOf({Epsilon})
    [] e.op = "eol" -> LookAheadOf(EmptyNFA, NFAOf({LineFeed}))
    [] e.op = "alternation" -> Alternate(Construct(e.left), Construct(e.right))
    [] e.op = "concatenation" -> Concatenate(Construct(e.left), Construct(e.right))
    [] e.op = "lookahead" -> LookAheadOf(Construct(e.left), Construct(e.right))
    [] e.op = "closure" -> Repetition(Construct(e.sub), e.min, e.max)

ConstructRule(e, tag) == SetAccept(Construct(e), tag)

=============================================================================
