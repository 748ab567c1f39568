------------------------------- MODULE Compiler -------------------------------
(***************************************************************************)
(* From a file of rules to the definition of a lexer                       *)
(* (klex/regular/Compiler.cpp): the rules are read and their patterns      *)
(* parsed, an automaton is made for each start condition, made             *)
(* deterministic, put together under one master state and minimized.       *)
(***************************************************************************)
EXTENDS RuleParser, NFABuilder, DFABuilder, DFAMinimizer

VARIABLES
  multiple,             \* whether for compileMulti() or compile()
  compiling,
  declared,             \* how many rules have been declared
  fa, dfaMap,           \* the NFA and the DFA of each condition
  def                   \* the result

compilerVars  == <<multiple, compiling, declared, fa, dfaMap, def>>
vars == <<parserVars, compilerVars, builderVars, minimizerVars>>

\* parse()
ReadRules ==
  /\ compiling = "parse"
  /\ ReadLine
  /\ UNCHANGED <<compilerVars, builderVars, minimizerVars>>

\* compile() is for one condition and no ^.
Single(rs) ==
  /\ Cardinality(UNION {rs[i].conditions : i \in DOMAIN rs}) = 1
  /\ \A i \in DOMAIN rs : ~ContainsBeginOfLine(rs[i].regexpr)

\* declareAll(): the patterns are parsed, and one that cannot be is thrown at.
DeclareAll ==
  /\ compiling = "parse"
  /\ parsing = "done"
  /\ \E results \in {[i \in DOMAIN rules |-> Parse(rules[i].pattern)]} :
       IF \E i \in DOMAIN rules : results[i].at = Thrown
       THEN compiling' = "thrown" /\ UNCHANGED <<rules, multiple>>
       ELSE /\ compiling' = "declare"
            /\ rules' = [i \in DOMAIN rules |-> [rules[i] EXCEPT !.regexpr = results[i].expr]]
            /\ multiple' \in (IF Single(rules') THEN BOOLEAN ELSE {TRUE})
  /\ UNCHANGED <<source, line, parsing, block, refRules, lastRef, nextTag, declared, fa, dfaMap,
                 def, builderVars, minimizerVars>>

ContainsBeginOfLineStates ==
  \E i \in DOMAIN rules : ContainsBeginOfLine(rules[i].regexpr)

AtLineStart(condition) == condition \o "_0"

\* declare(): the first automaton of a condition, or an alternative to those
\* it has.
Declared(automata, n, conditions) ==
  [c \in conditions |->
     IF c \in DOMAIN automata THEN Alternate(automata[c], n) ELSE n] @@ automata

\* Of rules with and without ^, the automata used at the start of a line get
\* them all and the others those without, which are put in twice.
Declare ==
  /\ compiling = "declare"
  /\ declared < Len(rules)
  /\ Buildable(rules[declared + 1].regexpr)
  /\ LET rule  == rules[declared + 1]
         n     == ConstructRule(rule.regexpr, rule.tag)
         plain == Declared(Declared(fa, n, rule.conditions), n, rule.conditions)
     IN  fa' = IF ~ContainsBeginOfLineStates
               THEN Declared(fa, n, rule.conditions)
               ELSE Declared(IF ContainsBeginOfLine(rule.regexpr) THEN fa ELSE plain,
                             n, {AtLineStart(c) : c \in rule.conditions})
  /\ declared' = declared + 1
  /\ UNCHANGED <<multiple, compiling, dfaMap, def, parserVars, builderVars, minimizerVars>>

\* NFABuilder throws, or fails an assertion.
DeclareFails ==
  /\ compiling = "declare"
  /\ declared < Len(rules)
  /\ ~Buildable(rules[declared + 1].regexpr)
  /\ compiling' = "unbuildable"
  /\ UNCHANGED <<multiple, declared, fa, dfaMap, def, parserVars, builderVars, minimizerVars>>

\* The names of the automata in the order of the map.
Names == SelectSeq(NameOrder, LAMBDA name : name \in DOMAIN fa)
Nth == Len(SelectSeq(Names, LAMBDA name : name \in DOMAIN dfaMap)) + 1

AllDeclared == compiling = "declare" /\ declared = Len(rules)

\* compileDFA() takes the first automaton, compileMultiDFA() one after another.
Build ==
  /\ AllDeclared
  /\ Names # <<>>
  /\ compiling' = "build"
  /\ Load(fa[Names[1]])
  /\ UNCHANGED <<multiple, declared, fa, dfaMap, def, parserVars, minimizerVars>>

\* Of rules without any automaton the master state is all there is.
BuildNothing ==
  /\ AllDeclared
  /\ Names = <<>>
  /\ compiling' = "minimize"
  /\ LoadDFA(Joined(<<>>, <<>>))
  /\ UNCHANGED <<multiple, declared, fa, dfaMap, def, parserVars, builderVars>>

BuildStep ==
  /\ compiling = "build"
  /\ BuilderStep
  /\ UNCHANGED <<parserVars, compilerVars, minimizerVars>>

Building == compiling = "build" /\ building = "done"

BuildNext ==
  /\ Building
  /\ multiple
  /\ Nth < Len(Names)
  /\ dfaMap' = (Names[Nth] :> dfa) @@ dfaMap
  /\ Load(fa[Names[Nth + 1]])
  /\ UNCHANGED <<multiple, compiling, declared, fa, def, parserVars, minimizerVars>>

Minimize ==
  /\ Building
  /\ multiple => Nth = Len(Names)
  /\ compiling' = "minimize"
  /\ dfaMap' = (Names[Nth] :> dfa) @@ dfaMap
  /\ LoadDFA(IF multiple THEN Joined(Names, dfaMap')
             ELSE [initialStates |-> <<>>, dfa |-> dfa])
  /\ UNCHANGED <<multiple, declared, fa, def, parserVars, builderVars>>

MinimizeStep ==
  /\ compiling = "minimize"
  /\ MinimizerNext
  /\ UNCHANGED <<parserVars, compilerVars, builderVars>>

\* generateTables()
Tables(initialStates, d) ==
  [initialStates |-> initialStates,
   containsBeginOfLineStates |-> ContainsBeginOfLineStates,
   transitions |-> d.transitions,
   acceptStates |-> d.accepts,
   backtrackingStates |-> d.backtracking]

\* compile() calls the only initial state INITIAL.
GenerateTables ==
  /\ compiling = "minimize"
  /\ minimizing = "done"
  /\ compiling' = "done"
  /\ def' = Tables(IF multiple THEN minimal.initialStates ELSE "INITIAL" :> minimal.dfa.initial,
                   minimal.dfa)
  /\ UNCHANGED <<multiple, declared, fa, dfaMap, parserVars, builderVars, minimizerVars>>

\* names_: of the ignored rules, which share a tag, the last one's name is kept.
TagNames ==
  [tag \in {rules[i].tag : i \in DOMAIN rules} |->
     rules[Max({i \in DOMAIN rules : rules[i].tag = tag})].name]

NoDef == [initialStates |-> <<>>, containsBeginOfLineStates |-> FALSE,
          transitions |-> <<>>, acceptStates |-> <<>>, backtrackingStates |-> <<>>]

Init ==
  /\ InitParser
  /\ multiple = TRUE
  /\ compiling = "parse"
  /\ declared = 0
  /\ fa = <<>> /\ dfaMap = <<>>
  /\ def = NoDef
  /\ Fresh(EmptyNFA) /\ overshadows = <<>>
  /\ MinimizerIdle

Next == ReadRules \/ DeclareAll \/ Declare \/ DeclareFails \/ Build \/ BuildNothing \/ BuildStep
        \/ BuildNext \/ Minimize \/ MinimizeStep \/ GenerateTables

Spec == Init /\ [][Next]_vars

=============================================================================
