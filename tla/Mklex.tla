-------------------------------- MODULE Mklex --------------------------------
(***************************************************************************)
(* The tool mklex (src/mklex.cpp): a file of rules in, the C++ source of   *)
(* its tables and that of its tokens out.  It composes the parser of       *)
(* command lines and the compiler, and looks at what they did in between.  *)
(*                                                                         *)
(* source is the content of the file RulesFile; any other file there is    *)
(* none of.                                                                *)
(***************************************************************************)
EXTENDS Compiler, Flags

CONSTANT RulesFile

VARIABLES
  running,    \* where main() is; how it ended
  outputs     \* what it wrote, in order: kind, file name and content

toolVars == <<running, outputs>>

Stream == <<"-">>

\* prepareAndParseCLI()
MklexProgram ==
  [flagDefs |->
     << FlagDef("Bool", "verbose", "v", {}), FlagDef("Bool", "help", "h", {}),
        FlagDef("String", "file", "f", {}), FlagDef("String", "output-table", "t", {}),
        FlagDef("String", "output-token", "T", {}),
        FlagDef("String", "table-name", "n", {<<"lexerDef">>}),
        FlagDef("String", "token-name", "N", {<<"Token">>}),
        FlagDef("String", "machine-name", "M", {<<"Machine">>}),
        FlagDef("String", "debug-dfa", "x", {<<>>}), FlagDef("Bool", "debug-nfa", "d", {}),
        FlagDef("Bool", "no-dfa-minimize", None, {}), FlagDef("Bool", "perf", "p", {}) >>,
   parametersEnabled |-> FALSE]

Exit(status) ==
  /\ running' = status
  /\ UNCHANGED <<vars, flagsVars, outputs>>

ParseArguments ==
  /\ running = "arguments"
  /\ ParseFlags
  /\ UNCHANGED <<vars, toolVars>>

\* What parse() throws is caught here, what getString() throws is not.
RefuseArguments == running = "arguments" /\ reading = "error" /\ Exit("failure")

ArgumentsRead == running = "arguments" /\ reading = "done"

Help   == ArgumentsRead /\ GetBool("help") /\ Exit("success")
NoFile == ArgumentsRead /\ ~GetBool("help") /\ ~IsSet("file") /\ Exit("terminated")

\* A stream that could not be opened is at its end.
OpenFile ==
  /\ ArgumentsRead
  /\ ~GetBool("help")
  /\ IsSet("file")
  /\ running' = "compile"
  /\ source' = IF GetString("file") = RulesFile THEN source ELSE <<>>
  /\ UNCHANGED <<line, parsing, block, rules, refRules, lastRef, nextTag,
                 compilerVars, builderVars, minimizerVars, flagsVars, outputs>>

-----------------------------------------------------------------------------
\* What the compiler throws is not caught either.
Compiling == running = "compile"
Uncaught ==
  /\ Compiling
  /\ parsing = "thrown" \/ compiling \in {"thrown", "unbuildable"}
  /\ Exit("terminated")

ReadFile ==
  /\ Compiling
  /\ ReadRules \/ (DeclareAll /\ multiple') \/ Declare \/ DeclareFails
  /\ UNCHANGED <<flagsVars, toolVars>>

\* Nothing comes of a file without a name, and nobody is told.
Put(kind, name, content) ==
  outputs' = IF name = <<>> THEN outputs
             ELSE Append(outputs, [kind |-> kind, name |-> name, content |-> content])

\* What a DotWriter is shown of an automaton: the edges from one state to another
\* are one arrow, and the master state's have the names of the start conditions.
Drawing(initial, accepting, edges, entries) ==
  [initial |-> initial, accepting |-> accepting, entries |-> entries,
   arrows |-> {<<p[1], {e[2] : e \in {e \in edges : <<e[1], e[3]>> = p}}, p[2]>> :
                 p \in {<<e[1], e[3]>> : e \in edges}}]

\* NFA::visit()
DrawnNFA(n) == Drawing(n.initial, DOMAIN n.tags, n.edges, {})

\* DFA::visit(); of several conditions that start in the same state, the arrow
\* has the name of the first.
DrawnDFA(multi) ==
  LET edges == {<<e[1], e[2], multi.dfa.transitions[e]>> : e \in DOMAIN multi.dfa.transitions}
      entering == {e \in edges : e[1] = multi.dfa.initial}
      label(s) == SelectSeq(Names, LAMBDA name : multi.initialStates[name] = s)[1]
  IN  Drawing(multi.dfa.initial, DOMAIN multi.dfa.accepts, edges \ entering,
              {<<label(e[2]), e[3]>> : e \in entering})

\* --debug-nfa
DrawNFA ==
  /\ Compiling
  /\ AllDeclared
  /\ GetBool("debug-nfa")
  /\ Put("graph", Stream, DrawnNFA(JoinedNFA([k \in DOMAIN Names |-> fa[Names[k]]])))
  /\ running' = "success"
  /\ UNCHANGED <<vars, flagsVars>>

CompileMultiDFA ==
  /\ Compiling
  /\ ~(AllDeclared /\ GetBool("debug-nfa"))
  /\ Build \/ BuildNothing \/ BuildStep \/ BuildNext \/ Minimize
  /\ UNCHANGED <<flagsVars, toolVars>>

Constructed == Compiling /\ compiling = "minimize"

ReportOvershadows == Constructed /\ overshadows # <<>> /\ Exit("failure")

MinimizeAll ==
  /\ Constructed
  /\ overshadows = <<>>
  /\ ~GetBool("no-dfa-minimize")
  /\ MinimizeStep
  /\ UNCHANGED <<flagsVars, toolVars>>

\* The variable multiDFA.
MultiDFA == IF minimizing = "done" THEN minimal ELSE whole

\* Mutant: rules that are overshadowed are reported, and no more.
GenerateAnyway ==
  /\ Constructed
  /\ minimizing = "done" \/ GetBool("no-dfa-minimize") \/ overshadows # <<>>
  /\ running' = "draw"
  /\ compiling' = "done"
  /\ def' = Tables(MultiDFA.initialStates, MultiDFA.dfa)
  /\ UNCHANGED <<multiple, declared, fa, dfaMap, parserVars, builderVars, minimizerVars,
                 flagsVars, outputs>>

Generate ==
  /\ Constructed
  /\ overshadows = <<>>
  /\ minimizing = "done" \/ GetBool("no-dfa-minimize")
  /\ running' = "draw"
  /\ compiling' = "done"
  /\ def' = Tables(MultiDFA.initialStates, MultiDFA.dfa)
  /\ UNCHANGED <<multiple, declared, fa, dfaMap, parserVars, builderVars, minimizerVars,
                 flagsVars, outputs>>

\* --debug-dfa
DrawDFA ==
  /\ running = "draw"
  /\ IF GetString("debug-dfa") = <<>> THEN UNCHANGED outputs
     ELSE Put("graph", GetString("debug-dfa"), DrawnDFA(MultiDFA))
  /\ running' = "tables"
  /\ UNCHANGED <<vars, flagsVars>>

-----------------------------------------------------------------------------
\* Mutant: who names no file for the tokens wants none.
NoNameIsFine ==
  \/ running = "tables" /\ ~IsSet("output-table") /\ Exit("terminated")
  \/ running = "tokens" /\ ~IsSet("output-token") /\ Exit("success")

\* Neither name has a default value.
NoName ==
  /\ \/ running = "tables" /\ ~IsSet("output-table")
     \/ running = "tokens" /\ ~IsSet("output-token")
  /\ Exit("terminated")

\* generateTableDefCxx()
TableDef ==
  [def |-> def, tagNames |-> [tag \in DOMAIN TagNames \ {IgnoreTag} |-> TagNames[tag]]]

WriteTables ==
  /\ running = "tables"
  /\ IsSet("output-table")
  /\ Put("tables", GetString("output-table"), TableDef)
  /\ running' = "tokens"
  /\ UNCHANGED <<vars, flagsVars>>

\* generateTokenDefCxx()
TokenDef ==
  LET named == SelectSeq(rules, LAMBDA rule : rule.tag # IgnoreTag)
  IN  [tokens |-> [k \in DOMAIN named |-> <<named[k].name, named[k].tag>>],
       machines |-> def.initialStates]

WriteTokens ==
  /\ running = "tokens"
  /\ IsSet("output-token")
  /\ rules # <<>> /\ DOMAIN def.initialStates # {}
  /\ Put("tokens", GetString("output-token"), TokenDef)
  /\ running' = "success"
  /\ UNCHANGED <<vars, flagsVars>>

\* The longest name of none is read.
LongestOfNone ==
  /\ running = "tokens"
  /\ IsSet("output-token")
  /\ rules = <<>> \/ DOMAIN def.initialStates = {}
  /\ Exit("undefined")

-----------------------------------------------------------------------------
MklexInit ==
  /\ Init
  /\ InitFlags
  /\ commandLine.program = MklexProgram
  /\ running = "arguments"
  /\ outputs = <<>>

\* main()
MklexNext ==
  \/ ParseArguments \/ RefuseArguments \/ Help \/ NoFile \/ OpenFile
  \/ Uncaught \/ ReadFile \/ DrawNFA
  \/ CompileMultiDFA \/ ReportOvershadows \/ MinimizeAll \/ Generate
  \/ DrawDFA \/ NoName \/ WriteTables \/ WriteTokens \/ LongestOfNone

=============================================================================
