--------------------------- MODULE CompilerLanguage ---------------------------
(***************************************************************************)
(* The compiler against what its rules mean.                               *)
(***************************************************************************)
EXTENDS RulesWritten

CONSTANT MaxText   \* bound: the length of the texts the result is tried on

Control == {"parse", "thrown", "declare", "unbuildable", "build", "minimize", "done"}

\* The result is a definition a lexer can be made from (LexerDef.h:41-69),
\* every configuration of a running subset construction has its row in the table,
\* and what is minimized is an automaton.
TypeOK ==
  /\ parsing \in {"rules", "open", "block", "thrown", "done"}
  /\ line \in 1..Len(source) + 1
  /\ compiling \in Control
  /\ declared \in 0..Len(rules)
  /\ DOMAIN dfaMap \subseteq DOMAIN fa
  /\ building \in {"start", "work", "done", "diverged", "overfull", "aborted"}
  /\ \A e \in DOMAIN T : e[1] \in 0..taken - 1 /\ T[e] \in 0..Len(Q) - 1
  /\ minimizing \in {"idle", "group", "refine", "done", "aborted"}
  /\ minimizing # "idle" => IsMultiDFA(whole)
  /\ compiling = "done" /\ Names # <<>> => IsLexerDef(def)

-----------------------------------------------------------------------------

AllConditions == UNION {rules[i].conditions : i \in DOMAIN rules}

\* The rules that count when a condition is on, at the start of a line or not.
RulesOf(condition, lineStart) ==
  {i \in DOMAIN rules :
     /\ condition \in rules[i].conditions
     /\ lineStart \/ ~ContainsBeginOfLine(rules[i].regexpr)}

TextsOver(S) == UNION {[1..n -> S] : n \in 0..MaxText}
Texts == TextsOver(UNION {SymbolsOf(rules[i].regexpr) : i \in DOMAIN rules})

\* For each rule, what it stands for: pairs of a word and what follows it.
Meanings == [i \in DOMAIN rules |-> Meaning(rules[i].regexpr, MaxText)]

Matching(meanings, candidates, text) ==
  {i \in candidates : \E m \in meanings[i] : m[1] \o m[2] = text}

\* The states the automaton goes through.
Run(s, text) ==
  LET run[n \in 0..Len(text)] ==
        IF n = 0 THEN s ELSE Apply(def, run[n - 1], text[n])
  IN  run

\* Started in s, the automaton accepts what the rules match, and tells of
\* several rules the one with the lowest tag.
RecognizesFrom(s, candidates, meanings) ==
  \A text \in Texts :
    LET q == Run(s, text)[Len(text)]
        matching == Matching(meanings, candidates, text)
    IN  IF matching = {} THEN ~IsAcceptState(def, q)
        ELSE /\ IsAcceptState(def, q)
             /\ def.acceptStates[q] = Min({rules[i].tag : i \in matching})

Done == compiling = "done"

AllStates == {e[1] : e \in DOMAIN def.transitions} \cup Range(def.transitions)
               \cup DOMAIN def.acceptStates \cup Range(def.initialStates)

\* The states an accepting one is reached from.
Alive ==
  LET more(S) == S \cup {e[1] : e \in {e \in DOMAIN def.transitions : def.transitions[e] \in S}}
      all[S \in SUBSET AllStates] == IF more(S) = S THEN S ELSE all[more(S)]
  IN  all[DOMAIN def.acceptStates]

\* From rules to tables, through Thompson's construction, the determinization of
\* each condition, their union and its minimization: in every condition the lexer
\* finds a text acceptable if and only if a rule of that condition matches it,
\* takes the one with the lowest tag, which is that of an ignored rule and after it
\* that of the rule written first, and goes on only while a rule may match
\* (Compiler.cpp:140-189, DFABuilder.cpp:82-218, DFAMinimizer.cpp:84-265).
Recognizes ==
  Done =>
    LET meanings == Meanings
    IN /\ AllStates \subseteq Alive
       /\ \A c \in AllConditions :
            /\ c \in DOMAIN def.initialStates
            /\ RecognizesFrom(def.initialStates[c],
                 RulesOf(c, ~def.containsBeginOfLineStates), meanings)
            /\ def.containsBeginOfLineStates =>
                 RecognizesFrom(def.initialStates[AtLineStart(c)], RulesOf(c, TRUE), meanings)

\* The lexer starts a word at the start of a line in the state after the one
\* its condition has in the definition (Lexable.h:288-294).  From there the
\* rules with ^ are recognized.
RecognizesAtLineStart ==
  Done /\ def.containsBeginOfLineStates =>
    LET meanings == Meanings
    IN \A c \in AllConditions :
         RecognizesFrom(def.initialStates[c] + 1, RulesOf(c, TRUE), meanings)

\* Where the lexer ends a word it has read with its lookahead (Lexable.h:350-361).
WordEnd(s, text) ==
  LET run == Run(s, text)
      q == run[Len(text)]
      ends == {n \in 0..Len(text) : run[n] = def.backtrackingStates[q]}
  IN  IF ~HasLookahead(def, q) THEN Len(text)
      ELSE IF ends = {} THEN 0 ELSE Max(ends)

\* The word of a rule r/s ends where r does: the text up to there is matched by r
\* and the rest by s (NFA.cpp:211-231, DFABuilder.cpp:131-135,
\* DFAMinimizer.cpp:246-247, Lexable.h:350-361).
WordEndsWithRule ==
  Done =>
    LET meanings == Meanings
    IN \A c \in AllConditions : \A text \in Texts :
         LET s == def.initialStates[c]
             q == Run(s, text)[Len(text)]
         IN  IsAcceptState(def, q) =>
               \E i \in RulesOf(c, ~def.containsBeginOfLineStates) :
                 /\ rules[i].tag = def.acceptStates[q]
                 /\ \E m \in meanings[i] :
                      m[1] \o m[2] = text /\ Len(m[1]) = WordEnd(s, text)

-----------------------------------------------------------------------------

\* A rule is reported as overshadowed if and only if some condition has texts it
\* matches but always prefers another rule for them; the rule named with it is one
\* that is preferred for such a text (DFABuilder.cpp:154-164, 198-218).
Overshadowing(meanings, i, c, lineStart) ==
  LET candidates == RulesOf(c, lineStart)
      lost == {text \in Texts : i \in Matching(meanings, {i}, text)}
      best(text) == Min({rules[k].tag : k \in Matching(meanings, candidates, text)})
  IN  IF i \notin candidates \/ \E text \in lost : best(text) = rules[i].tag THEN {}
      ELSE {best(text) : text \in lost}

OvershadowsAreRight ==
  Done /\ multiple =>
    LET meanings == Meanings
        reasons(i) == UNION {Overshadowing(meanings, i, c, lineStart) :
                               c \in AllConditions,
                               lineStart \in {TRUE, ~def.containsBeginOfLineStates}}
    IN \A i \in DOMAIN rules :
         LET named == {o[2] : o \in {o \in Range(overshadows) : o[1] = rules[i].tag}}
         IN  named \subseteq reasons(i) /\ (named = {} <=> reasons(i) = {})

-----------------------------------------------------------------------------

\* A rule that repeats without bound one symbol at most, and in one place, and
\* looks ahead at its end only.
Orderly(e) == Loops(e) <= 1 /\ LoopsOnSymbols(e) /\ LooksAheadAtEnd(e)

\* Some text is not matched, but the start of one that is.
SomePrefixUnmatched ==
  LET meanings == Meanings
      matched == {text \in Texts : Matching(meanings, DOMAIN rules, text) # {}}
  IN  \E text \in matched : \E n \in 0..Len(text) : SubSeq(text, 1, n) \notin matched

Stuck == building \in {"diverged", "overfull", "aborted"} \/ minimizing = "aborted"

\* Such rules are compiled, whatever they are alternatives of: the construction
\* lists a state once for each way to it and would go on for ever if there were
\* ever more of them (DFABuilder.cpp:82-122, NFA.cpp:113-140), a lookahead
\* elsewhere would fail an assertion (DFABuilder.cpp:134), and so would, in
\* compile(), an automaton that accepts in every state (DFAMinimizer.cpp:112).
OrderlyRulesCompile ==
  Stuck => \/ \E i \in DOMAIN rules : ~Orderly(rules[i].regexpr)
           \/ ~multiple /\ ~SomePrefixUnmatched

=============================================================================
