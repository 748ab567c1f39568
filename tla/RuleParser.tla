------------------------------ MODULE RuleParser ------------------------------
(***************************************************************************)
(* RuleParser (klex/regular/RuleParser.cpp): the rules of a file.          *)
(*                                                                         *)
(* A file is a sequence of lines, each what the parser finds it to be.  A  *)
(* "faulty" line is one it throws at wherever it stands, and a "foreign"   *)
(* one starts with a byte above 127, also in the middle of a pattern or of *)
(* a comment, which then is the line before.  What opens a block, or a     *)
(* rule behind it, is a line of its own.                                   *)
(***************************************************************************)
EXTENDS RegExprParser

CONSTANTS
  Sources,      \* the files considered
  NameOrder     \* the names of refs and automata, as std::string orders them

VARIABLES
  source, line,   \* the file, and the line the parser is at
  parsing,      \* between rules, behind the brace of a block, in one, or at an end
  block,        \* the start conditions of the block
  rules,        \* those read so far
  refRules,     \* refRules_: the pattern of each
  lastRef,      \* the name of lastParsedRule_ if it is a ref
  nextTag

parserVars == <<source, line, parsing, block, rules, refRules, lastRef, nextTag>>

FirstUserTag == 1

\* A char below zero is taken for the end of the file.
Line == IF line > Len(source) \/ source[line].kind = "foreign" THEN [kind |-> "end"]
        ELSE source[line]

Between == parsing = "rules"
Within  == parsing \in {"open", "block"}

\* parseRuleConditions(); without any, a rule is INITIAL's.
Conditions(conditions) == IF conditions = {} THEN {"INITIAL"} ELSE conditions

Braced(name) == CharsOf("{" \o name \o "}")

\* t with other in the place of name.
Replaced(t, name, other) ==
  LET from[i \in 1..Len(t) + 1] ==
        CASE i > Len(t) -> <<>>
          [] i <= Len(t) /\ IsPrefix(name, SubSeq(t, i, Len(t))) -> other \o from[i + Len(name)]
          [] OTHER -> <<t[i]>> \o from[i + 1]
  IN  from[1]

\* parseExpression(): the refs take their places one after another, in the order
\* of their names.
Expression(refs, pattern) ==
  LET graphs  == {i \in DOMAIN pattern : pattern[i] \notin {" ", "\t", "\r"}}
      trimmed == SubSeq(pattern, 1, IF graphs = {} THEN 0 ELSE Max(graphs))
      replace(t, name) == Replaced(t, Braced(name), refs[name])
  IN  FoldLeft(replace, trimmed, SelectSeq(NameOrder, LAMBDA name : name \in DOMAIN refs))

\* Mutant: a ref is not set in parentheses.
RefsAsTheyAre == refRules

\* What is done about the last ref when a line does not go on with it.
Finalized ==
  IF lastRef = "" THEN refRules
  ELSE [refRules EXCEPT ![lastRef] = <<"(">> \o @ \o <<")">>]

-----------------------------------------------------------------------------
InitParser ==
  /\ source \in Sources
  /\ line = 1
  /\ parsing = "rules"
  /\ block = {}
  /\ rules = <<>> /\ refRules = <<>> /\ lastRef = ""
  /\ nextTag = FirstUserTag

\* consumeSpace(); consumeAnySP() knows no comments.
SkipLine ==
  /\ \/ Between /\ Line.kind \in {"blank", "comment"}
     \/ parsing = "open" /\ Line.kind = "blank"
  /\ line' = line + 1
  /\ UNCHANGED <<source, parsing, block, rules, refRules, lastRef, nextTag>>

\* A line that starts with a bar goes on with the last rule.
Alternative ==
  /\ Between
  /\ Line.kind = "alternative"
  /\ LET more == <<"|">> \o Expression(refRules, Line.pattern) IN
     \/ /\ lastRef # ""
        /\ refRules' = [refRules EXCEPT ![lastRef] = @ \o more]
        /\ UNCHANGED rules
     \/ /\ lastRef = "" /\ rules # <<>>
        /\ rules' = [rules EXCEPT ![Len(rules)].pattern = @ \o more]
        /\ UNCHANGED refRules
  /\ line' = line + 1
  /\ UNCHANGED <<source, parsing, block, lastRef, nextTag>>

\* parseBasicRule(): in a block a rule has the conditions of the block.
Readable == Line.kind = "rule" /\ (Between \/ (Within /\ Line.conditions = {}))
Refs     == IF Between THEN Finalized ELSE refRules
Given    == IF Between THEN Line.conditions ELSE block
Known    == \E i \in DOMAIN rules : rules[i].name = Line.name

BasicRule ==
  /\ Readable
  /\ Line.option \in {"", "ignore"}
  /\ ~Known
  /\ LET ignore == Line.option = "ignore" IN
       /\ rules' = Append(rules, [name |-> Line.name,
                                  tag |-> IF ignore THEN IgnoreTag ELSE nextTag,
                                  conditions |-> Conditions(Given),
                                  pattern |-> Expression(Refs, Line.pattern),
                                  regexpr |-> EmptyExpr])
       /\ nextTag' = IF ignore THEN nextTag ELSE nextTag + 1
  /\ refRules' = Refs
  /\ lastRef' = ""
  /\ line' = line + 1
  /\ parsing' = IF Within THEN "block" ELSE parsing
  /\ UNCHANGED <<source, block>>

RefRule ==
  /\ Readable
  /\ Line.option = "ref"
  /\ Given = {}
  /\ Line.name \notin DOMAIN refRules
  /\ refRules' = Refs @@ (Line.name :> Expression(Refs, Line.pattern))
  /\ lastRef' = Line.name
  /\ line' = line + 1
  /\ UNCHANGED <<source, parsing, block, rules, nextTag>>

OpenBlock ==
  /\ Between
  /\ Line.kind = "open"
  /\ refRules' = Finalized
  /\ block' = Line.conditions
  /\ parsing' = "open"
  /\ line' = line + 1
  /\ UNCHANGED <<source, rules, lastRef, nextTag>>

CloseBlock ==
  /\ Within
  /\ Line.kind = "close"
  /\ parsing' = "rules"
  /\ line' = line + 1
  /\ UNCHANGED <<source, block, rules, refRules, lastRef, nextTag>>

\* UnexpectedChar and UnexpectedToken.
Unexpected ==
  \/ Line.kind = "faulty"
  \/ Between /\ Line.kind = "close"
  \/ Between /\ Line.kind = "alternative" /\ rules = <<>> /\ lastRef = ""
  \/ Within /\ Line.kind \in {"alternative", "comment", "open", "end"}
  \/ parsing = "block" /\ Line.kind = "blank"
  \/ Within /\ Line.kind = "rule" /\ Line.conditions # {}

\* InvalidRuleOption, InvalidRefRuleWithConditions and DuplicateRule.
Invalid ==
  /\ Readable
  /\ \/ Line.option \notin {"", "ignore", "ref"}
     \/ Line.option = "ref" /\ (Given # {} \/ Line.name \in DOMAIN refRules)
     \/ Line.option \in {"", "ignore"} /\ Known

Throw ==
  /\ Between \/ Within
  /\ Unexpected \/ Invalid
  /\ parsing' = "thrown"
  /\ UNCHANGED <<source, line, block, rules, refRules, lastRef, nextTag>>

\* The rules of the condition * get those of all others.
EndOfFileReached ==
  /\ Between
  /\ Line.kind = "end"
  /\ LET labels == UNION {rules[i].conditions : i \in DOMAIN rules} \ {"*"}
     IN  rules' = [i \in DOMAIN rules |->
                     IF "*" \in rules[i].conditions
                     THEN [rules[i] EXCEPT !.conditions = labels] ELSE rules[i]]
  /\ parsing' = "done"
  /\ UNCHANGED <<source, line, block, refRules, lastRef, nextTag>>

\* parseRules()
ReadLine == SkipLine \/ Alternative \/ BasicRule \/ RefRule \/ OpenBlock \/ CloseBlock
            \/ Throw \/ EndOfFileReached

=============================================================================
