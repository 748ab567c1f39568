------------------------------- MODULE MCMklex -------------------------------
EXTENDS MCCompiler, MklexLanguage

MCRulesFile == <<"rules">>

-----------------------------------------------------------------------------
\* The other programs that read their command lines with Flags: an example with
\* parameters (examples/mathexpr.cpp:161-164), and some of the flags of the unit
\* tests (klex/util/testing.cpp:188-197).
Mathexpr ==
  [flagDefs |-> << FlagDef("Bool", "dfa", "x", {}) >>, parametersEnabled |-> TRUE]
UnitTest ==
  [flagDefs |-> << FlagDef("Bool", "help", "h", {}), FlagDef("Bool", "verbose", "v", {}),
                   FlagDef("String", "filter", "f", {<<"*">>}),
                   FlagDef("Bool", "no-progress", None, {}),
                   FlagDef("Number", "repeat", "r", {<<"1">>}) >>,
   parametersEnabled |-> FALSE]
MCPrograms == {MklexProgram, Mathexpr, UnitTest}

Setting(style, flag, value) == [style |-> style, flag |-> flag, value |-> value, joined |-> FALSE]
WrittenTogether(s) == [s EXCEPT !.joined = TRUE]

Switch(flag) == {Setting("switch", flag, <<>>), Setting("letter", flag, <<>>),
                 Setting("equals", flag, <<"false">>)}
Valued(flag, values) ==
  {Setting(style, flag, value) : style \in {"long", "equals", "short"}, value \in values}
  \cup {Setting("glued", flag, value) : value \in values \ {<<>>}}
WithoutItsValue(flag) == {Setting("switch", flag, <<>>), Setting("letter", flag, <<>>)}
Strange == {Setting("switch", "other", <<>>), Setting("letter", "other", <<>>),
            Setting("equals", "other", <<"x">>)}
Words == {Setting("word", "", <<"w">>), Setting("word", "", <<"-">>), Setting("word", "", <<>>),
          Setting("rest", "", <<>>)}

\* Up to n settings, whose letters may go on in the argument before them, and one
\* of those that may come last.
CommandsOf(n, some, ending) ==
  LET joining == {WrittenTogether(s) : s \in {s \in some : s.style \in {"letter", "short", "glued"}}}
      fits(l) == \A k \in DOMAIN l :
                      l[k].joined => k > 1 /\ l[k - 1].style = "letter"
      words(m) == {l \in [1..m -> some \cup joining] : fits(l)}
  IN  UNION {words(m) : m \in 0..n}
      \cup {Append(l, s) : l \in UNION {words(m) : m \in 0..n - 1}, s \in ending}

UnitTestLines ==
  CommandsOf(2, Switch("verbose") \cup Valued("filter", {<<"x">>, <<"-", "x">>, <<>>})
             \cup Valued("repeat", {<<"2">>}) \cup Strange
             \cup {Setting("switch", "no-progress", <<>>), Setting("word", "", <<"w">>)},
           WithoutItsValue("filter") \cup WithoutItsValue("repeat"))
  \cup CommandsOf(3, Switch("verbose") \cup {Setting("long", "filter", <<"x">>),
                  Setting("short", "filter", <<"y">>), Setting("glued", "filter", <<"-", "-">>),
                  Setting("letter", "help", <<>>), Setting("letter", "other", <<>>)},
             WithoutItsValue("filter"))
MathexprLines == CommandsOf(3, Switch("dfa") \cup Words \cup {Setting("letter", "other", <<>>)}, {})

-----------------------------------------------------------------------------
\* Calls of mklex: the file, where the tables and the tokens go, and how.
RulesSetting == Setting("long", "file", MCRulesFile)
FileLines == {<<>>, <<RulesSetting>>, <<Setting("equals", "file", <<"other">>)>>}
TableLines ==
  {<<>>, <<Setting("short", "output-table", <<"x">>)>>, <<Setting("equals", "output-table", Stream)>>,
   <<Setting("short", "output-table", Stream)>>, <<Setting("equals", "output-table", <<>>)>>}
TokenLines ==
  {<<>>, <<Setting("glued", "output-token", <<"y">>)>>, <<Setting("long", "output-token", Stream)>>,
   <<Setting("equals", "output-token", <<"x">>)>>}
HowLines ==
  {<<>>, <<Setting("switch", "no-dfa-minimize", <<>>)>>, <<Setting("short", "debug-dfa", <<"g">>)>>,
   <<Setting("letter", "debug-nfa", <<>>)>>, <<Setting("letter", "help", <<>>)>>}
MklexLines == {h \o f \o t \o k : h \in HowLines, f \in FileLines, t \in TableLines, k \in TokenLines}

\* One file of two rules with each of them, and each of these with a few.
ShortFile == File(<<Rule(1, Char(a)), Rule(IgnoreTag, Char(b))>>)
ToolFiles ==
  Files(LineStarts \cup Conditional \cup
        { <<Rule(1, Plus(AB)), Rule(2, Char(a))>>,
          <<Rule(1, Char(a)), Rule(IgnoreTag, Plus(AB))>>,
          <<Rule(1, LookAhead(Char(a), Char(b))), Rule(2, Plus(Char(a)))>>,
          <<In({"*"}, Rule(1, Char(a)))>> })
  \cup { <<RuleLine("A", "", {}, "(a", NoExpr)>>, <<Bare("faulty")>>, <<Plain("A", Impossible)>>,
         <<Bare("blank")>>, <<Ref("Digit", AB), Plain("A", Reference("Digit"))>> }
Usual == <<RulesSetting, Setting("short", "output-table", <<"x">>), Setting("glued", "output-token", <<"y">>)>>
UsualLines ==
  {h \o Usual : h \in
     {<<>>, <<Setting("switch", "no-dfa-minimize", <<>>)>>, <<Setting("letter", "debug-nfa", <<>>)>>,
      <<Setting("equals", "debug-dfa", Stream)>>,
      <<Setting("equals", "debug-dfa", Stream), Setting("switch", "no-dfa-minimize", <<>>)>>}}

CallsOf(program, commands) == {CallOf(program, l) : l \in commands}
MCCommandLines ==
  CallsOf(UnitTest, UnitTestLines) \cup CallsOf(Mathexpr, MathexprLines)
  \cup CallsOf(MklexProgram, MklexLines \cup UsualLines)

ASSUME WrittenAssumption == \A call \in MCCommandLines : IsWritten(call)

ToolSources == MCSources \cup ToolFiles \cup {ShortFile}

-----------------------------------------------------------------------------
\* The compiler as a library, which reads no command line; a program that does and
\* no more; mklex.
Idle == CallOf(MklexProgram, Usual)

MCInit ==
  /\ outputs = <<>>
  /\ InitFlags
  /\ \/ running = "library" /\ commandLine = Idle /\ source \in MCSources /\ Init
     \/ /\ running = "other"
        /\ commandLine \in CallsOf(UnitTest, UnitTestLines) \cup CallsOf(Mathexpr, MathexprLines)
        /\ source = ShortFile
        /\ Init
     \/ /\ \/ commandLine \in CallsOf(MklexProgram, MklexLines) /\ source = ShortFile
           \/ commandLine \in CallsOf(MklexProgram, UsualLines) /\ source \in ToolFiles
        /\ MklexInit

MCNext ==
  \/ running = "library" /\ Next /\ UNCHANGED <<flagsVars, toolVars>>
  \/ running = "other" /\ ParseFlags /\ UNCHANGED <<vars, toolVars>>
  \/ MklexNext

MCSpec == MCInit /\ [][MCNext]_<<vars, flagsVars, toolVars>>

=============================================================================
