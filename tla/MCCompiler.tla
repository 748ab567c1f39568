------------------------------ MODULE MCCompiler ------------------------------
EXTENDS CompilerLanguage

a == 97
b == 98
c == 99

\* A rule by its tag, its expression and the names of its start conditions.
Rule(tag, e) == [tag |-> tag, regexpr |-> e, conditions |-> {"INITIAL"}]
In(condition, rule) == [rule EXCEPT !.conditions = condition]

\* The strings used as names, as std::string orders them.
MCNameOrder == <<"ASM", "ASM_0", "Digit", "INITIAL", "INITIAL_0", "Word">>

-----------------------------------------------------------------------------
\* How expressions are written: with parentheses where they are needed only.
Binding(e) ==
  CASE e.op = "lookahead" -> 0
    [] e.op = "alternation" -> 1
    [] e.op = "concatenation" -> 2
    [] e.op = "closure" -> 3
    [] OTHER -> 4

Written1(n) == IF n = LineFeed THEN "\\n" ELSE CHOOSE text \in Character : Code[text] = n

Times1(e) ==
  CASE e.min = 0 /\ e.max = 1 -> "?"
    [] e.min = 0 /\ e.max = Infinity -> "*"
    [] e.min = 1 /\ e.max = Infinity -> "+"
    [] e.min = e.max -> "{" \o ToString(e.min) \o "}"
    [] OTHER -> "{" \o ToString(e.min) \o "," \o ToString(e.max) \o "}"

RECURSIVE Notation(_)
Notation(e) ==
  LET part(f, k) == IF Binding(f) >= k THEN Notation(f) ELSE "(" \o Notation(f) \o ")"
      add(text, n) == text \o Written1(n)
      all == FoldLeft(add, "", SetToSortSeq(e.symbols, <))
  IN CASE e.op = "lookahead" -> part(e.left, 1) \o "/" \o part(e.right, 1)
       [] e.op = "alternation" -> part(e.left, 1) \o "|" \o part(e.right, 2)
       [] e.op = "concatenation" -> part(e.left, 2) \o part(e.right, 3)
       [] e.op = "closure" -> part(e.sub, 4) \o Times1(e)
       [] e.op = "ref" -> "{" \o e.name \o "}"
       [] e.op = "bol" -> "^"
       [] e.op = "eol" -> "$"
       [] e.op = "empty" -> "()"
       [] e.op = "chars" /\ e = EndOfFileExpr -> "<<EOF>>"
       [] e.op = "chars" /\ e # EndOfFileExpr ->
            IF Cardinality(e.symbols) = 1 THEN all ELSE "[" \o all \o "]"

\* The lines of a file.
Bare(kind) == [kind |-> kind]
RuleLine(name, option, conditions, text, e) ==
  [kind |-> "rule", name |-> name, option |-> option, conditions |-> conditions,
   pattern |-> CharsOf(text), meant |-> e]
Plain(name, e) == RuleLine(name, "", {}, Notation(e), e)
Ref(name, e) == RuleLine(name, "ref", {}, Notation(e), e)
Or(e) == [kind |-> "alternative", pattern |-> CharsOf(" " \o Notation(e)), meant |-> e]
Open(conditions) == [kind |-> "open", conditions |-> conditions]

\* A file of one line for each rule.
File(rs) ==
  [i \in DOMAIN rs |->
     RuleLine(<<"A", "B", "C">>[i], IF rs[i].tag = IgnoreTag THEN "ignore" ELSE "",
              rs[i].conditions, Notation(rs[i].regexpr), rs[i].regexpr)]
Files(sets) == {File(rs) : rs \in sets}

-----------------------------------------------------------------------------
AB == Chars({a, b})
Atoms == {Char(a), Char(b), AB, Optional(Char(a)), Star(Char(b)), Plus(AB),
          Closure(Char(a), 2, 2), Closure(Char(b), 0, 2)}
Pairs == {Concatenation(l, r) : l \in Atoms, r \in Atoms}
         \cup {Alternation(l, r) : l \in Atoms, r \in Atoms}
Other == {Char(a), Plus(AB), Concatenation(Char(a), Char(b))}

\* Every two atoms one after the other or as alternatives, alone and before and
\* after another rule.
TwoRules == {<<Rule(1, e)>> : e \in Pairs}
            \cup {<<Rule(1, e), Rule(2, f)>> : e \in Pairs, f \in Other}
            \cup {<<Rule(1, f), Rule(2, e)>> : e \in Pairs, f \in Other}

Repetitions ==
  {<<Rule(1, e)>> :
     e \in {Star(Concatenation(Char(a), Char(b))), Plus(Alternation(Char(a), Char(b))),
            Concatenation(Star(AB), Char(a)), Concatenation(Star(Char(a)), Star(Char(a))),
            Star(Star(Char(a))), Concatenation(Char(b), Star(Star(Char(a)))), Star(Optional(Char(a))),
            Concatenation(Star(Alternation(Char(a), Char(a))), Char(b)),
            Closure(Concatenation(Char(a), Optional(Char(b))), 1, 3),
            Closure(AB, 2, 3), Concatenation(EndOfLineExpr, Char(a))}}

Lookaheads ==
  { <<Rule(1, LookAhead(Plus(Char(a)), Concatenation(Char(b), Char(c))))>>,
    <<Rule(1, Concatenation(Char(a), EndOfLineExpr)), Rule(2, Char(a)), Rule(3, Char(LineFeed))>>,
    <<Rule(1, LookAhead(Char(a), EndOfFileExpr)), Rule(2, Plus(Char(a)))>>,
    <<Rule(1, LookAhead(Plus(Char(a)), Char(b))), Rule(2, Concatenation(Char(c), Char(a)))>>,
    <<Rule(1, LookAhead(Char(a), Char(b))), Rule(2, LookAhead(Chars({a, c}), Char(b)))>> }

LineStarts ==
  { <<Rule(1, Concatenation(BeginOfLineExpr, Char(a))), Rule(2, AB)>>,
    <<Rule(1, Plus(AB)), Rule(2, Concatenation(BeginOfLineExpr, Char(c)))>>,
    <<Rule(1, Concatenation(BeginOfLineExpr, Char(a))), Rule(2, Char(a)),
      In({"ASM"}, Rule(3, Char(b)))>>,
    <<In({"ASM", "INITIAL"}, Rule(1, Plus(Char(a)))),
      Rule(2, Concatenation(BeginOfLineExpr, Char(b)))>> }

Conditional ==
  { <<Rule(1, Char(a)), In({"ASM"}, Rule(2, Plus(Char(a))))>>,
    <<In({"ASM", "INITIAL"}, Rule(IgnoreTag, Char(c))), Rule(1, Plus(AB)),
      In({"ASM"}, Rule(2, Char(b)))>>,
    <<In({"ASM", "INITIAL"}, Rule(1, AB)), In({"ASM"}, Rule(2, Char(a)))>> }

\* Lines that end in a word, beside words of one letter: an accepting state of the
\* former is in more than one configuration.
SharedStarts == { <<Rule(1, Concatenation(Plus(AB), EndOfLineExpr)), Rule(2, AB)>> }

-----------------------------------------------------------------------------
Seq3(x, y, z) == Concatenation(Concatenation(x, y), z)

\* What can be written in a pattern, and what is not one, as far as documentation
\* and tests do not say otherwise.
Patterns ==
  << <<"a|bc*", Alternation(Char(a), Concatenation(Char(b), Star(Char(c))))>>,
     <<"(a|b)?c", Concatenation(Optional(Alternation(Char(a), Char(b))), Char(c))>>,
     <<"ab|c/b+", LookAhead(Alternation(Concatenation(Char(a), Char(b)), Char(c)), Plus(Char(b)))>>,
     <<"(a|)b", Concatenation(Alternation(Char(a), EmptyExpr), Char(b))>>,
     <<"^a b $", Concatenation(Seq3(BeginOfLineExpr, Char(a), Char(b)), EndOfLineExpr)>>,
     <<"\"a |\"*", Star(Seq3(Char(a), Char(32), Char(124)))>>,
     <<"\\x41\\101\\0", Seq3(Char(65), Char(65), Char(0))>>,
     <<"\\s\\n\\[", Seq3(Char(32), Char(10), Char(91))>>,
     <<"<<EOF>>", EndOfFileExpr>>,
     <<"[a-c_]{2,3}", Closure(Chars({a, b, c, 95}), 2, 3)>>,
     <<"[\\]\\x20-\\043]{2}", Closure(Chars({93, 32, 33, 34, 35}), 2, 2)>>,
     <<"[^[:print:][:cntrl:]]", Chars(128..255)>>,
     <<"[[:graph:][:blank:]]", Chars({9} \cup 32..126)>>,
     <<"[[:digit:][:alpha:]_]", Chars(48..57 \cup 65..90 \cup {95} \cup 97..122)>>,
     <<"[^[:alnum:][:punct:]]", Chars(0..32 \cup 127..255)>>,
     <<"[[:xdigit:]]", Chars(48..57 \cup 65..70 \cup 97..102)>>,
     <<"[[:lower:][:upper:]]+", Plus(Chars(65..90 \cup 97..122))>> >>

NoPatterns == {"(a", "\"a", "[a", "[\\xAZ]", "[\\028]", "[\\282]", "[\\777]", "a{2", "a{2,3", "a{B}",
               "[[:other:]]", "[[:digit]]"}

Impossible == Closure(Char(c), 3, 2)   \* is parsed, and not built

Patterned ==
  {<<RuleLine("A", "", {}, p[1], p[2]), Plain("B", Impossible)>> : p \in Range(Patterns)}
  \cup {<<RuleLine("A", "", {}, p, NoExpr)>> : p \in NoPatterns}

\* Every four lines of these.
SomeLines ==
  {Bare("blank"), Bare("comment"), Bare("close"), Bare("faulty"), Bare("foreign"), Open({"ASM"}),
   Plain("A", Impossible), Ref("Digit", Alternation(Char(a), Char(b))),
   RuleLine("B", "ignore", {"*"}, "c{Digit}", Concatenation(Char(c), Reference("Digit"))),
   Or(Concatenation(Char(a), Reference("Digit")))}
FewLines == UNION {[1..n -> SomeLines] : n \in 1..4}

\* Refs of refs and of several lines, blocks, conditions.
SomeFiles ==
  { <<Ref("Digit", Char(a)), Or(Char(b)), Bare("blank"),
      Ref("Word", Concatenation(Reference("Digit"), Reference("Digit"))), Bare("comment"),
      Plain("A", Concatenation(Reference("Word"), Char(c))), Or(Reference("Digit"))>>,
    <<Plain("A", Char(a)), RuleLine("B", "", {"ASM"}, "b  ", Char(b)),
      RuleLine("C", "ignore", {"*"}, "c", Char(c))>>,
    <<Ref("Digit", AB), Open({"ASM", "INITIAL"}), Bare("close"), Open({"ASM"}), Bare("blank"),
      Plain("A", Reference("Digit")), RuleLine("B", "ignore", {}, "c", Char(c)), Bare("close"),
      Or(Char(LineFeed)), Plain("Digit", Char(b))>>,
    <<Plain("A", Char(a)), Plain("A", Char(b))>>,
    <<Ref("Digit", Char(a)), Ref("Digit", Char(b))>>,
    <<RuleLine("A", "other", {}, "a", Char(a))>>,
    <<RuleLine("Digit", "ref", {"ASM"}, "a", Char(a))>>,
    <<Open({"ASM"}), RuleLine("A", "", {"ASM"}, "a", Char(a)), Bare("close")>> }

MCSources ==
  Files(TwoRules \cup Repetitions \cup Lookaheads \cup LineStarts \cup Conditional)
  \cup Patterned \cup FewLines \cup SomeFiles
LineStartFiles == Files(LineStarts)
SharedStartFiles == Files(SharedStarts)

=============================================================================
