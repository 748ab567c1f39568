----------------------------- MODULE RulesWritten -----------------------------
(***************************************************************************)
(* What is written in a file of rules, told from its lines and from what   *)
(* their patterns are meant to be, without reading a pattern; and what     *)
(* regular expressions mean, without automata.                             *)
(*                                                                         *)
(* The field meant of a line is an expression that may name refs; NoExpr   *)
(* is that of a pattern that is none.                                      *)
(***************************************************************************)
EXTENDS Compiler

\* A rule stands for pairs of a word and of the text that must follow it.
Size(m) == Len(m[1]) + Len(m[2])

\* What l and r stand for one after the other, in at most n symbols.
Then(L, R, n) ==
  {m \in {<<l[1] \o r[1], r[2]>> : l \in {l \in L : l[2] = <<>>}, r \in R} :
     Size(m) <= n}

\* L from min to max times in a row.
Repeated(L, min, max, n) ==
  LET once == {l \in L : l[1] # <<>>}
      times[k \in 0..n] ==
        IF k = 0 THEN {<< <<>>, <<>> >>} ELSE Then(times[k - 1], once, n)
      nullable == << <<>>, <<>> >> \in L
  IN  UNION {times[k] : k \in {k \in 0..n : k <= max /\ (k >= min \/ nullable)}}

\* What e stands for, if that is no longer than n symbols.
RECURSIVE Meaning(_, _)
Meaning(e, n) ==
  {m \in CASE e.op = "chars" -> {<< <<c>>, <<>> >> : c \in e.symbols}
           [] e.op = "eol" -> {<< <<>>, <<LineFeed>> >>}
           [] e.op \in {"bol", "empty"} -> {<< <<>>, <<>> >>}
           [] e.op = "alternation" -> Meaning(e.left, n) \cup Meaning(e.right, n)
           [] e.op = "concatenation" -> Then(Meaning(e.left, n), Meaning(e.right, n), n)
           [] e.op = "closure" -> Repeated(Meaning(e.sub, n), e.min, e.max, n)
           [] e.op = "lookahead" ->
                {<<l[1], r[1]>> : l \in Meaning(e.left, n), r \in Meaning(e.right, n)} :
     Size(m) <= n}

-----------------------------------------------------------------------------
\* What an expression is made of.

SubExprs(e) ==
  CASE e.op \in {"alternation", "concatenation", "lookahead"} -> {e.left, e.right}
    [] e.op = "closure" -> {e.sub}
    [] OTHER -> {}

RECURSIVE SymbolsOf(_)
SymbolsOf(e) ==
  CASE e.op = "chars" -> e.symbols
    [] e.op = "eol" -> {LineFeed}
    [] OTHER -> UNION {SymbolsOf(f) : f \in SubExprs(e)}

RECURSIVE LooksAhead(_)
LooksAhead(e) == e.op \in {"lookahead", "eol"} \/ \E f \in SubExprs(e) : LooksAhead(f)

RECURSIVE LooksAheadAtEnd(_)
LooksAheadAtEnd(e) ==
  CASE e.op = "concatenation" -> ~LooksAhead(e.left) /\ LooksAheadAtEnd(e.right)
    [] e.op = "alternation"   -> LooksAheadAtEnd(e.left) /\ LooksAheadAtEnd(e.right)
    [] OTHER -> \A f \in SubExprs(e) : ~LooksAhead(f)

\* How many times e repeats something without a bound.
RECURSIVE Loops(_)
Loops(e) ==
  CASE e.op = "closure" /\ e.max = Infinity -> 1 + Loops(e.sub)
    [] e.op = "closure" /\ e.max # Infinity -> e.max * Loops(e.sub)
    [] e.op \in {"alternation", "concatenation", "lookahead"} -> Loops(e.left) + Loops(e.right)
    [] OTHER -> 0

RECURSIVE LoopsOnSymbols(_)
LoopsOnSymbols(e) ==
  /\ e.op = "closure" /\ e.max = Infinity => e.sub.op = "chars"
  /\ \A f \in SubExprs(e) : LoopsOnSymbols(f)

-----------------------------------------------------------------------------
\* What a file says.
NoExpr == [op |-> "none"]
Reference(name) == [op |-> "ref", name |-> name]

Of(kind) == {i \in DOMAIN source : source[i].kind = kind}

RefLines  == {i \in Of("rule") : source[i].option = "ref"}
RuleLines == Of("rule") \ RefLines

\* Whether line i is in a block, and where that was opened.
InBlock(i) == Cardinality({j \in Of("open") : j < i}) > Cardinality({j \in Of("close") : j < i})
Opening(i) == Max({j \in Of("open") : j < i})
ConditionsOf(i) == source[IF InBlock(i) THEN Opening(i) ELSE i].conditions

\* A line of a rule and those that go on with it.
LinesFrom(i) ==
  {i} \cup {k \in Of("alternative") : k > i /\ ~\E j \in Of("rule") : i < j /\ j < k}

\* The alternatives of an expression, as they are written in one line.
RECURSIVE Branches(_)
Branches(e) == IF e.op = "alternation" THEN Append(Branches(e.left), e.right) ELSE <<e>>

InOrder(S) == SetToSortSeq(S, <)

\* The expression of the rule that starts in line i, where a ref of a line above
\* is an expression of its own.
RECURSIVE Meant(_), Resolved(_, _)
Resolved(e, i) ==
  LET lines == {j \in RefLines : j < i /\ e.op = "ref" /\ source[j].name = e.name} IN
  CASE e.op = "ref" /\ lines # {} -> Meant(Max(lines))
    [] e.op \in {"alternation", "concatenation", "lookahead"} ->
         [e EXCEPT !.left = Resolved(@, i), !.right = Resolved(@, i)]
    [] e.op = "closure" -> [e EXCEPT !.sub = Resolved(@, i)]
    [] OTHER -> e
Meant(i) ==
  LET add(all, k) == all \o Branches(source[k].meant)
      branches == FoldLeft(add, <<>>, InOrder(LinesFrom(i)))
  IN  Resolved(FoldLeft(Alternation, Head(branches), Tail(branches)), i)

RECURSIVE HasMeaning(_)
HasMeaning(e) == e.op \notin {"none", "ref"} /\ \A f \in SubExprs(e) : HasMeaning(f)

AllDifferent(lines) == \A i, j \in lines : source[i].name = source[j].name => i = j

\* Rule files as they should be (RuleParser.cpp:88-91, 219, 250).
WellFormed ==
  /\ Of("faulty") = {}
  /\ AllDifferent(RuleLines) /\ AllDifferent(RefLines)
  /\ \A i \in Of("rule") : /\ source[i].option \in {"", "ignore", "ref"}
                           /\ InBlock(i) => source[i].conditions = {}
  /\ \A i \in RefLines : ConditionsOf(i) = {}
  /\ \A i \in Of("alternative") : \E j \in Of("rule") : j < i
  /\ \A i \in Of("open") : ~InBlock(i)
  /\ \A i \in Of("close") : InBlock(i)
  /\ ~InBlock(Len(source) + 1)
  /\ \A i \in RuleLines : HasMeaning(Meant(i))

Labels == UNION {Conditions(ConditionsOf(i)) : i \in RuleLines} \ {"*"}

\* The tag of the rule in line i: the rules are counted, but for the ignored.
TagOf(i) ==
  IF source[i].option = "ignore" THEN IgnoreTag
  ELSE Cardinality({j \in RuleLines : j <= i /\ source[j].option = ""})

WrittenRule(i) ==
  [name |-> source[i].name, tag |-> TagOf(i), regexpr |-> Meant(i),
   conditions |-> IF ConditionsOf(i) = {"*"} THEN Labels ELSE Conditions(ConditionsOf(i))]

-----------------------------------------------------------------------------
\* Files the code and its documentation do not agree about.

\* In an alternative of its own, a ref that is not whole yet is put in as it is.
RECURSIVE Mentions(_, _)
Mentions(e, name) == e = Reference(name) \/ \E f \in SubExprs(e) : Mentions(f, name)
NamesItself ==
  \E i \in RefLines : \E k \in LinesFrom(i) : Mentions(source[k].meant, source[i].name)

\* Comments and empty lines are to be ignored, and any rule may have further
\* lines (src/docs/index.md:22-23, 34); in a block they are unexpected, but for
\* empty lines in front of its rules (RuleParser.cpp:114-122).
RefusedInBlock(i) ==
  /\ InBlock(i)
  /\ \/ i \in Of("comment") \cup Of("alternative")
     \/ i \in Of("blank") /\ \E j \in Of("rule") : Opening(i) < j /\ j < i

\* A rule of all conditions is to be one of INITIAL (src/docs/index.md:68-72), and
\* is one only if another rule is (RuleParser.cpp:63-85).
InitialIsMissing ==
  "INITIAL" \notin Labels /\ \E i \in RuleLines : ConditionsOf(i) = {"*"}

\* A byte above 127 ends a file, even in a comment (RuleParser.cpp:343).
Disputed ==
  \/ Of("foreign") # {}
  \/ \E i \in DOMAIN source : RefusedInBlock(i)
  \/ InitialIsMissing
  \/ NamesItself

-----------------------------------------------------------------------------
\* A file is accepted if and only if it is as it should be, and then the rules
\* have the names, tags and start conditions written and the expressions meant:
\* a ref takes its place as a whole, a line with a bar adds an alternative to
\* the rule above, and operators bind as they should.  Of Disputed files it says
\* nothing (RuleParser.cpp:41-285, RegExprParser.cpp:123-479).
RulesAsWritten ==
  ~Disputed =>
  /\ parsing = "thrown" \/ compiling = "thrown" => ~WellFormed
  /\ compiling = "declare" /\ declared = 0 =>
       /\ WellFormed
       /\ Len(rules) = Cardinality(RuleLines)
       /\ \A n \in DOMAIN rules :
            LET written == WrittenRule(InOrder(RuleLines)[n])
            IN  \A field \in DOMAIN written : rules[n][field] = written[field]

=============================================================================
