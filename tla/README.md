# klex in TLA+

klex generates lexers from rules and LL(1) parsers from grammars. This directory
models the program's core in TLA+: the lexer that runs on generated tables, the
compiler from a file of rules to those tables, the tool `mklex` around it with its command
line, grammar files from their text to the sets of their grammar, the LL(1) table and the
analyzer that runs on it. TLC checks the modules on small instances; TLAPS
proves the theorems listed below for every value of the constants.

`tlc -config X.cfg M.tla` runs a check (the table under *Runs* names M),
`tlapm M.tla` checks the proofs of a `...Proofs` module. `PROJECT.json` maps every
definition to the lines it models.

Paths are relative to `src/src/klex/` unless they start with `src/`.

## The system

```
 rules text --RuleParser, RegExprParser--> Rules with RegExprs
      Compiler: NFABuilder -> DFABuilder -> MultiDFA -> DFAMinimizer
                                  |
                              LexerDef  -------------> Lexable / LexerIterator
                                  |                    Lexer
 command line --Flags--> mklex ---+--> C++ source         | tokens
 grammar text --GrammarParser--> Grammar --finalize-->  ll::SyntaxTable --> ll::Analyzer
```

Everything is sequential: no threads, no persistence, no network. What is hard is
of other kinds: a push-back buffer, a state stack, a read-ahead stream and
four counters that must stay in step through overshoot and rollback; client calls
in an order nobody tested (`setMachine()`, `begin()`, `reset()` in the middle of
things); a stream that fails; work lists and fixpoints that must end; numbering of
states that later stages rely on; two files that are written one after the other and
compiled together; two stacks in the analyzer that are undone by
counts carried on one of them.

| component | state | operations | what makes it correct |
|---|---|---|---|
| **Lexable, LexerIterator** (`regular/Lexable.h`) | the stream; `buffered_`, `offset_`, `oldOffset_`, `isBeginOfLine_`, `initialStateId_`, `eof_`, the token | `begin()`, `end()`, `==`, `++`, `setMachine()`; inside, `recognizeOne()` with `nextChar()` and `rollback()` | no character lost, doubled or reordered; words are the longest match; offsets and line starts right; the loop ends and gets every token |
| **Lexer** (`regular/Lexer.h`, `Lexer-inl.h`) | the same members and `token_`, `word_`; the iterator's `end` | `recognize()`, `reset()`, `setMachine()`, `begin()`, `++` | the same, with callers that mix them and go on after `LexerError` |
| **Symbols, Alphabet** | sets of symbols | traversal, printing | order of traversal is the order of states |
| **RegExpr, RegExprParser** | syntax trees | parse, `containsBeginOfLine` | the tree the text means |
| **Rule, RuleParser** | tags, patterns, conditions | parse | tags in order, conditions expanded |
| **NFA, NFABuilder** | states, edges, accept and backtrack maps | Thompson's construction, `delta`, `epsilonClosure` | language of the expression; closures end |
| **DFA, DFABuilder** | configurations Q, work list, table T | subset construction, tags, backtrack states, overshadowed rules | table is the NFA's step; one number per configuration; ends |
| **DFAMinimizer** | partitions P and T | refine, build the automaton of groups | same language, tags and word ends; no two states alike |
| **MultiDFA, Compiler** | one NFA per start condition, the DFAs | declare rules, compile, generate tables | each condition recognizes its own rules, at the start of a line and elsewhere |
| **Grammar** (`cfg/Grammar.cpp`) | FIRST, FOLLOW and epsilon flags of the productions | `finalize()` and queries | the sets are what they are called |
| **GrammarLexer, GrammarParser, GrammarValidator** | tokens, productions | parse, validate | productions as written |
| **LeftRecursion** | productions | `direct()`, `indirect()` | same language |
| **ll::SyntaxTable** | ids, productions, table | `construct()`, `lookup()` | the LL(1) table |
| **ll::Analyzer** | symbol stack, value stack, error count | `analyze()` | accepts the sentences, values balanced, returns |
| **Flags** (`util/Flags.cpp`) | the flags set, the parameters | `define...()`, `parse()`, `get...()` | a command line means what it was written for, or is refused; what was read can be read back |
| **mklex** (`src/mklex.cpp`) | the command line, the compiler, the files written | `main()` | both files or neither; the tables and the tokens belong together |
| **Dot output** (`DotWriter`, the `visit()` of NFA and DFA) | the drawing | `visit()` | a graph shows the automaton it is of |
| **Report, utilities** | messages | formatting | not modelled |

## Modules

Lexer runtime

- `LexerDef`: the tables a lexer runs on (`LexerDef.h`, `TransitionMap`), the queries on them and what `Lexable`'s constructor demands.
- `Recognizer`: `recognizeOne()`, `nextChar()`, `rollback()`, which `Lexable.h` and `Lexer-inl.h` both have. One step per call of `nextChar()` or `rollback()`: reading from `buffered_`, past the end, at the end, or a byte; the backtrack loop and the rewind loop; `Accept` and `Fail`. `consumed` is history: what the words of this pass took.
- `LexerIterator`: a `LexerIterator`, its `Lexable` and a client's loop, which may leave at any word, call `begin()` again and switch machines.
- `MaximalMunch`: the abstract specification: cut the text into longest words, one step a word, no stream and no stack. The refinement mapping (`Munched`) is in `LexerIterator`.
- `Lexer`: class `Lexer` under a client that mixes `recognize()`, the iterator, `reset()` and `setMachine()`.
- `SampleDefs`, `MCLexerIterator`, `MCLexer`: instances. `SequenceLemmas`, `RecognizerProofs`, `LexerIteratorProofs`, `LexerProofs`: proofs.

From rules to tables

- `RegExprParser`: the recursive descent over the characters of a pattern, one operator per function of the class; each tells what it read and the place it came to, and place 0 is that of an exception. What is read is handed to the next operator as an argument.
- `RuleParser`: `parseRules()`, one action per line. Whether a line is a rule, a `|`, a brace or something the parser throws at is given with it; the state is the rules so far, the refs with their patterns, which of them a `|` would extend, and whether the parser is between rules or in a block. `ref`s are put into patterns as text, as in the code.
- `RulesWritten`: what a file says, told from its lines and from the expressions their patterns are meant to be, with no parser: the reference for both parsers. `Disputed` names the files about which the documentation says something else than the code does; `RulesAsWritten` is silent about them, for neither is the reference. It also says what expressions mean, without automata, as pairs of a word and what must follow it: the reference the compiler is checked against.
- `RegExpr`: expressions as terms.
- `NFA`, `NFABuilder`: the construction, `join()` and, as functions, `delta()` and `epsilonClosure()`. The code's closure is a sorted list in which a state can occur more than once, since states found are never marked (`NFA.cpp:131`); a list is a function from states to how often they occur, because two lists that differ only in that are two DFA states.
- `DFABuilder`: the work list, one action per symbol of a configuration, and `constructDFA()`. Runs that never end in the code end in a state of their own: `StartForever`, `VisitForever` (a circle of epsilon transitions) and `VisitTooMany` (a list beyond the bound `MaxTimes`).
- `DFA`: automata and `MultiDFA`'s union of them; `DFAMinimizer`: one step a round of refinement.
- `Compiler`: composes the stages (`ReadRules`, `DeclareAll`, `Declare`, `Build`..., `Minimize`...), one after another, each with its own variables; it ends in `thrown` or `unbuildable` where the code throws or fails an assertion; `multiple` tells `compileMulti()` from `compile()`. Without any rules (`BuildNothing`) the tables are those of a master state alone; `Tables` is `generateTables()`, `TagNames` the member `names_`. `CompilerLanguage` states its properties, `MCCompiler` the files: rules as terms are written down by `Notation`, with as few parentheses as possible, and read back by the model. `AutomataProofs`: proofs about `DFABuilder` and `DFAMinimizer`.
- `Containers`: the order of a `std::set` of integers, and what a filter leaves of a sequence.

The tool

- `Flags`: `parse()`, one action for each kind of argument, for a letter of an argument of short options, for what is thrown, and for filling in the defaults; and the queries. An argument is a sequence of pieces (dashes, equal signs, letters, whole names and words). The reference: a command line is made of *settings* (a flag, its value, and the style it is written in); what it means is told from them and from no argument. `FlagsProofs`: proofs.
- `Mklex`: `main()`, from the command line to the exit status. It extends `Compiler` and `Flags`, takes their steps as its own, and has actions for what is between them: the help, the file opened, exceptions nobody catches (`Uncaught`), the graph of the NFA, the overshadowed rules, the graph of the DFA, the two outputs in their order, and the longest name of none (`LongestOfNone`, undefined). An output has a kind, a name and its content, which is the `LexerDef` with the names of the tags, the enumerators, or what a `DotWriter` is shown.
- `MklexLanguage`: the properties of what is left behind. `MCMklex`: the command lines and the files; besides mklex, those of an example with parameters and of the unit tests' main program, which use `Flags` too.

Grammars

- `GrammarDef`, `Grammar`: productions and one visit of `finalize()`'s inner loop; the loop; and the sets by definition. `GrammarProofs`: proofs.
- `GrammarParser`: the functions of `GrammarLexer` and `GrammarParser` over sequences of lexemes, with the number of mismatches each reports. `LeftRecursion`: `isLeftRecursive()`, `split()`, `eliminateDirect()`.
- `GrammarFile`: composes them: a text is read rule by rule (`ReadRule`, `ReadTokenBlock`, `Abort`, `EndOfFile`), its left recursion may be eliminated (`Direct`, `Eliminate` per nonterminal), and `Grammar`'s `finalize()` runs. `errors` is what was reported. `GrammarLanguage`: what is written in a text, by cutting it up at its separators, and the words a grammar stands for; the properties that compare.
- `SyntaxTable`, `SyntaxTableConstruct`: the table and how it is made of a finalized grammar; and what it is made for: `Predicts` says that the table has the right entry for whatever a handle may meet, `PredictsItsGrammar` that a grammar's table does.
- `Analyzer`: `analyze()`, one action per branch of its loop; the lexer behind it is a text, with the position at which its stream was found exhausted chosen freely (`exhaustedAt`), since lookahead and ignored text decide that. `Derivation`: the abstract specification, leftmost derivations. `AnalyzerLanguage`: the language a table's productions generate, by growing the set of words each symbol stands for until it is all (`Generated`), without a stack or a table entry; the properties that compare with it. `AnalyzerProofs`: proofs.

How they compose: `LexerIterator` and `Lexer` share `Recognizer`; `Compiler` extends
`RuleParser`, `NFABuilder`, `DFABuilder` and `DFAMinimizer`; its result is a
`LexerDef`, the input of `Recognizer`. `Mklex` extends `Compiler` and `Flags`. `MCAnalyzer` gives `Analyzer` the tables that
`Grammar` and `SyntaxTableConstruct` make. The `SampleDefs` are numbered as the
compiler numbers them, so that an automaton's numbering is as in the program.

## Runs

| run | module | bounds | shows |
|---|---|---|---|
| `IterWords` | MCLexerIterator | six rule sets (plain and ignored words, `^`, `r/s`, an ignored `r/s`, a rule that overshoots by three, start conditions); texts over {a,b} up to 5 and over {a,b,LF} up to 3; two passes | every rollback gives back what was taken; offsets, line starts and words are right; the second pass sees what the first saw; `LexerIterator` implements `MaximalMunch`; the loop ends |
| `IterLostTokens` | MCLexerIterator | the lookahead rule sets, one pass | violated: see *Findings* |
| `LexerCalls` | MCLexer | the six rule sets; texts over {a,b} up to 3 and {a,LF} up to 2; 9 tokens, one `reset()`, a read error anywhere | any mix of calls: end of file comes, and last; line starts are right |
| `LexerReset` | MCLexer | two rule sets, texts over {a,LF} up to 3, one `reset()` | violated: see *Findings* |
| `CompilerRules` | MCMklex | The compiler as a library: every two of eight atoms (`a`, `b`, `[ab]`, `a?`, `b*`, `[ab]+`, `a{2}`, `b{0,2}`) concatenated or alternated, alone and before and after three other rules; nested repetitions; lookaheads, `^`, conditions, ignored rules; texts up to 5. Files: every one of up to four lines out of ten kinds; 17 patterns in all notations but `.`, 12 that are none; refs of refs, blocks, `*`. mklex: 300 command lines (three files, five table files, four token files, five other flags) on a file of two rules, and 16 files, some of them faulty, with five command lines. Other programs: up to two settings of all the unit tests' flags in all styles, up to three of six settings, up to three settings and words of a program with parameters | a file is accepted exactly if it is as it should be, and read as written, unless code and documentation disagree about it (`Disputed`, see *Findings*); tables accept what rules mean, the lowest tag wins (an ignored rule's, then the first rule's), words end where their rule does, no two states alike, overshadowed rules reported, which rules compile at all; command lines mean what was written; both outputs or neither, and they agree; graphs show the rules (116 991 states) |
| `CompilerLineStart`, `CompilerLookahead` | MCCompiler | a few rule sets each | violated: see *Findings* |
| `GrammarSets` | MCGrammar | 864 grammars of three nonterminals; 84 with left recursion beside other recursion; a file with tokens and actions; two files with one lexeme missing, doubled or strange anywhere; words up to 4 | a file is accepted exactly if it is well-formed, and read as written; plain left recursion is rewritten without losing or adding a word, and none is left; no unjustified element in any pass; complete at the end, unless the last pass set a flag; ends |
| `GrammarFlags`, `GrammarRewritten` | MCGrammar | the same | violated: see *Findings* |
| `AnalyzerParse` | MCAnalyzer | four grammars (expressions, a sum, nested lists with epsilon rules, an optional first symbol); all texts of up to 5 words, an unrecognizable word, any `exhaustedAt` | stacks balanced, one handle rewound at a time, an epsilon rule finds a value unless nothing came before it, nothing but sentences accepted unreported, sentences accepted, steps are leftmost derivations, `analyze()` returns |
| `AnalyzerEnd` | MCAnalyzer | the same | violated: see *Findings* |

Why the bounds are enough. The longest overshoot of the sample rules is three
characters and the longest text is longer by two, so that a rolled-back stretch is
read again, partly, by a following word that overshoots too. A third pass starts
from the same states as the second. For rules, two atoms one after the other reach
every operation of Thompson's construction inside every other once, a third rule
only repeats the tag comparison; texts of five symbols are longer than any
automaton here has states on a path without a circle. On command lines a flag that is
given twice, a value that looks like a flag, letters that go on in one argument before a
letter with a value, and a missing value at the end all need three settings at most. `MaxTimes` is 16: the rules that
compile list a state at most 13 times, those that do not exceed any bound. Four lines are a block with a rule in it and a line around it, or a ref, its
alternative, a rule and another line. Files that are read but not to be compiled (with
classes of a hundred symbols, whose texts would be too many) hold a rule that cannot be
built. Three
nonterminals make chains, mutual recursion and an order in which a flag comes late.
Five words nest an expression in parentheses with an operator in it.

`CHECK_DEADLOCK FALSE` everywhere: a loop, a compilation, an analysis ends.

## Fairness

One thread runs a call to its end: `WF(Word)`. The client's loop calls `++` and
leaves at the end: `WF(Increment)`, `WF(Leave)` (`LexerIterator`), and asks for tokens until it has the
last: `WF(CallRecognize)` (`Lexer`). `begin()`, `setMachine()` and `reset()` are the client's
choice and get none. The calls on a grammar file and `analyze()` are made one after another in one thread: `WF(Next)`. The
compiler has no liveness property: whether it ends is stated as a safety property,
`OrderlyRulesCompile`, on the states that stand for not ending.

## Proofs

- `LexerIteratorProofs`: `TypeCorrect`, `StackSafety`, `OffsetCorrect`, `Conservation`, for every set of definitions and texts. The inductive invariant is the conjunction `TypeOK /\ StackMatchesWord /\ OffsetCountsReads /\ ReadConservation`: conservation needs the stack to be as long as the word, or a rollback would take characters that belong to the word before. `RecognizerProofs` has one lemma per step of the recognizer, used by both classes.
  - `MunchesLongest` is the refinement of `MaximalMunch`. `Accept` is one step of it, `Fail` the one that fails, `Begin` starts over, everything else is none. The abstract side takes the longest prefix that some run of the automaton accepts (`WordRun`); the invariant `Matching` follows that run: while the recognizer advances, its stack is the run up to where it reads and the characters are those of the text (`OnRun`); while it goes back, no longer prefix is accepted (`NoneFinal`), because the run is stuck where it turned round (`StuckStays`) and nothing accepted lies in between; in a rule with lookahead the word ends at the last place whose state is that rule's `backtrackingStates` (`RewindsFrom`). What it takes is `PlainReading`: no read fails within the text, its bytes are 7-bit (`rollback()` turns others into something else), and an automaton does not go on for ever on end-of-file symbols, so that the longest word is one of finitely many (`RunEnds`). The stack, pushing back and reading again are nowhere in what it implements, which is why it says that they cannot be noticed.
  - `OffsetsArePositions` holds where the end of the file ends words (`EofEndsWords`): a definition that reads an end-of-file symbol and goes on reads the stream past its end without counting, and its later offsets are too small. The inductive invariant `Offsets` says how far beyond the end reading has got: one symbol beyond the last place a word may begin at (`OneBeyond`), or two if the first was matched by a rule and the second is still to be given back (`TwoBeyond`); that while there is anything to be read again, the stream is not asked; and so that the count between two words is the place (`OffsetBetweenWords`).
  - `BolCorrect` holds as long as no word is empty (`NoEmptyWord`): of an empty word the code takes `back()`, which is undefined.
  - `ReplayCorrect` puts the three together: a pass is the text's start, and word after word what the automaton alone makes of the place where it is (`IsPass`, `Advances`, in which there is no stream and no stack). Both the pass at hand and the one before are such (`Replayed`), and of two the shorter is where the longer begins (`PassesAgree`, `PassGrows`), since at each place there is one word (`WordUnique`).
- `LexerProofs`: `TypeCorrect` and `StackSafety` also through `reset()`; `ConservationWithoutReset`, of the states before the first `reset()`, since the code breaks it with one; `EofIsLast`, whose invariant `Undisturbed` adds that the stream fails at its end only (or where reads may fail), and that a token handed out was consumed last; `BolCorrect`, as above, through `reset()` and `LexerError`.
- `AnalyzerProofs`: `TypeCorrect` and `Balanced`, for every syntax table and text, mismatches reported or not. The inductive invariant adds to `ValuesBalanced` that the stacks of a new call are fresh. `RewindsHandle`, on top of it: the inductive invariant `HandlesAligned` says that to each element of the stack belong the symbols that precede its own in the handle it was pushed for (`Follows`, up to the marker of that handle), that their values lie right below (`Remembered`), and that a marker on top finds a complete handle. `Completes` is the step that takes the top off, `Expands` the one that pushes a production. `EpsilonBehindValue`: as long as there is no value, the first word is the current token (`UntilFirstValue`). `ReturnsValue`: each value is that of the symbol it belongs to, and the symbol at the bottom is the start symbol (`StartValued`); its value is that of a token or an action if each of its alternatives ends with one (`StartIsClosed`). `DerivesLeftmost` is the refinement of `Derivation`: `MatchedTerminals` and what the stack holds, markers and actions left out, are one sentential form; applying a production is one of its steps, everything else none.
  - `DecidesLanguage` is `ParsesTheLanguage`, for every text and every table that predicts: no error in a sentence, and nothing but a sentence accepted without one. The words of the reference are the least closed set of pairs of a symbol and a word (`ClosingIsLeast`, `GeneratedIsLanguage`): a growing set of finitely many pairs is all at some time. The inductive invariant `Parses` says that what was taken off the stack is the text so far, if nothing was reported; that whatever the stack's symbols stand for makes a sentence with it (`StandsFor`); that what is behind a nonterminal on the stack may follow it (`InContext`); and that, if the text is a sentence, nothing was reported and the stack stands for the rest of it. Productions keep the second part because a handle's words are words of its nonterminal; and the last because the next word of a sentence is one that the table has an entry for, whose production is the only one that can go on with it (`PredictsHandle`): induction over the length of derivations says that FIRST, FOLLOW and nullability by the table's `Predicts` hold what may start a word, follow one, or be empty. A mismatch or a missing entry therefore refutes the text. The hypothesis `TablesPredict` is `Predicts`, which `TablePredicts` below proves of what `construct()` makes, and `EofEndsSentences`: the end-of-file token ends the start symbol's handles and is nowhere else, as `injectEof()` has it if the start symbol has one alternative.
- `FlagsProofs`: `TypeCorrect` and `CanBeRead`, for every program whose flags have different names and every command line. The inductive invariant adds `SetAsDefined`: each flag that is set is one that was defined, and has its type. That `findDef()` finds a definition (`FindsDefinition`), and by its name the one that has it (`FindsOwnDefinition`), needs that the least index of those that fit is one of them (`MinIsLeast`).
  - `ReadsAsWritten` is `FlagsAsWritten`, for every program and every command line whose settings say what they are meant to (`IsWritten`: no two letters the same, a word that looks like an option comes behind `--` only, a switch gets a value in one argument only, nothing follows a flag that lacks its value). The settings are written down from the last to the first, letters joined to one argument (`WriteFrom`), and read from the first: the inductive invariant `WrittenInv` says that some number of settings has been read (`ReadTo`), none of them wrong, that the flags set are those they name with the value given last, the parameters their words, and that what has not been read, the letters left in an argument included, is what the other settings are written as; and that behind `--` (`ReadToRest`) the parameters and what has not been read are, together, the words and what was written behind it. Half the proof is about what an argument can be taken for (`Looks`, `NameIs`, `LettersBegin`): it starts as its setting's style says, and like no other. A step then reads exactly the next setting (`LongOptionReads`, `ShortOptionReads`, `WordReads`...) or refuses it rightly (`RefusesWrong`). A command line that can be read in two ways is left out by the hypothesis, not by the model.
- `AutomataProofs`: `TableTheorem`, for every NFA with finitely many edges: when the work list is empty the table is the NFA's step, complete, and no configuration has two numbers. The inductive invariant says this of the pairs looked at, that the table has nothing else (so that skipping a symbol leaves a right row), and that numbering is one to one.
  - `MinimizerCorrect` is `Minimal`, for every automaton (`IsMultiDFA`: finitely many transitions, between states that there are; `CompilerRules` checks in `TypeOK` that the stage before makes such). The inductive invariant `MinimizerInv` says of the groups of every round that each state is in exactly one of them (`IsGrouping`), that its states accept alike (`SameTagged`), and that states of different groups are told apart by a text shorter than there are groups (`ToldApart`): a round that splits a group adds at least one group and at most one symbol (`RefinedKeeps`). When a round changes nothing, no symbol leads from one group to two (`LastGroups`), and so no text tells states of a group apart (`StableGroups`, by induction over its length). `MergesTheAlike` draws the conclusion for texts of any length. The first state of a group may therefore speak for all (`GroupsDo`). Not in it: the transitions of the group of the master state, which `Relabelled` changes; backtrack states, which the code does not compare (`WordEndsWithRule`); that the rounds come to an end.

- `GrammarProofs`: `TypeCorrect`, `SetsJustified` and `SetsComplete`, for all texts, whether well-formed or not, and with or without elimination of left recursion. The inductive invariant `Inv` has three parts: `Shape` (types; where a loop is, there is a production to visit), `Justified` (all that is in a set has a reason), `PassSettles` (as long as neither `updated` nor a flag was set in this pass, each production visited in it is `Settled`: what its visit would add is there). At the end of such a pass all are settled, and what is settled is complete: the sets by definition are reached in rounds, as many as there are productions or symbols, and a chain of sets that grows for so long must have stopped growing (`ReachedClosed`), by counting. Completeness is proved of grammars in which no terminal or action has the name of a nonterminal with productions (`NamesApart`): the code tells them apart by the type in a variant, the model by name.
  - `TablePredicts` goes on to the table: when no flag was set in the last pass and the grammar is valid and LL(1), as `construct()` asserts, the table made of it `PredictsItsGrammar`. The sets are settled and hold names, the table has numbers; that they tell symbols apart (each name has one number, of its kind's range) is half the proof. The other half: what a settled production's FIRST and FOLLOW sets hold includes all that its handle may meet, and of two productions for one entry LL(1) leaves one. With `DecidesLanguage`, where the table is a constant, this is the chain from a grammar file to the decision about a text, save for the epsilon flags of the last pass (finding 3) and a start symbol with alternatives.
- `SequenceLemmas`: what they share, on sequences, and induction. The library's induction theorems take operators, which these provers cannot instantiate; here induction is over a *set* of numbers (`SetInduction`, `DescendingInduction`), and that a recursive function satisfies its equation (`RecursiveFunction`, `DescendingFunction`) is proved of any function of functions that looks at smaller arguments only. `TypedDescent` gives such a function its type: the parser's operators, which call each other further on in the text, are one. Growing a finite set until it is all is another (`ClosingIsLeast`): the recursion is over how much is missing.

Assumptions: `DefsAssumption`, `InputsAssumption`, `FlagsAssumption` (the shape of definitions and texts), `ClientAssumption` and `CallerAssumption` (bounds are numbers), `TablesAssumption` and `WordsAssumption` (tables are syntax tables), `OrderAssumption` (the orders are sequences, names of terminals and actions differ), `LL1Assumption` (the sample grammars), `AutomataAssumption` (finitely many edges), `ProgramsAssumption` (a program defines a list of flags with different names) and `CommandLinesAssumption` (a command line is of a program, its arguments are sequences of pieces), `WrittenAssumption` (the command lines are written for settings, which `ReadsAsWritten` has as its hypothesis), `SwitchAssumption` (`true` and `false` are strings, which no backend of the prover knows), `SourcesAssumption` (texts are sequences of lexemes). TLC evaluates all of them, and `NamesAssumption`, from which `NamesApart` follows for the sample grammars. `StartIsClosed`, `NamesApart`, `TablesPredict`, `PlainReading` and `EofEndsWords` are hypotheses of theorems, each of which some definitions, tables or texts do not satisfy; TLC evaluates all but the second on the samples (`ClosedAssumption`, `SentencesAssumption` and `PredictAssumption`, `PlainAssumption`, `EofAssumption`). `Valid`, `IsLL1` and `~flagged` in `TablePredicts` are what the code checks, asserts, and fails to ensure. `NoEmptyWord` is a hypothesis on a behaviour.

Model-checked only: liveness (`PassesEnd`, `EofComes`, `Returns`, `SentencesAccepted`), which this prover does not do under fairness; what `CompilerLanguage` (but `Minimal`) and `MklexLanguage` state, where the expressions are recursive data and the compiler's operators, which mklex runs, are recursive; and `ReadAsWritten` and `RewrittenIsRightRecursive`, whose references are recursive over the text and over the words of two grammars at a time.

## Findings

1. **`IterLostTokens`** (`regular/Lexable.h:256`). `end()` is told by `eof_ == 2` or `offset_ == 0`. `eof_` counts each `++` that meets an exhausted stream, while rolled-back characters still wait in `buffered_`. After an overshoot of two the loop is left before they are read.
2. **`LexerReset`** (`Lexer-inl.h:84`). `reset()` leaves `buffered_`: the new text starts with characters of the old one.
3. **`GrammarFlags`** (`cfg/Grammar.cpp:248`). A flag set in a pass does not make another pass necessary: FIRST sets that depend on it stay incomplete.
4. **`AnalyzerEnd`** (`cfg/ll/Analyzer-inl.h:65`). Success needs the iterator to equal `eof`, that is, the stream exhausted by exactly the last word. With ignored text after it `back()` of an empty stack is read.
5. **`GrammarRewritten`** (`cfg/LeftRecursion.cpp:120`). "Left-recursive" is judged by the first nonterminal of a handle, not by its first symbol, and the first symbol is dropped: `A ::= 'b' A` becomes `A_ ::= A A_`. Renaming the first production changes the start symbol. `RewrittenIsRightRecursive` states for which grammars the result is right: `PlainlyLeftRecursive`.
6. **`CompilerLineStart`** (`regular/Lexable.h:384`). The lexer starts a line in state `initialStateId_ + 1`; the minimizer merges initial states and numbers by group, so that this may be another condition's state or none at all.
7. **`CompilerLookahead`** (`regular/DFABuilder.cpp:134`). The state to go back to after `r/s` is the last configuration with the end of `r` in it, whether the word passed it or not. `[ab]+$` beside `[ab]` rolls `a` and a line feed back to the empty word.

Met while modelling, covered by no run of their own. What is said here of patterns and rule files is outside `RulesAsWritten`: its files have no such pattern, or are `Disputed`. It therefore does not say that these are read as documented, which they are not:

- `LexerIterator`: an empty text gives no token; ignored text at the end gives the end-of-file token twice (`Lexable.h:268-272`). A rule that looks ahead to `<<EOF>>` makes later offsets too small, as a read past the end is not counted and its rollback is (`427-431`, `451-460`). Bytes above 127 come back from a rollback negative (`458`): the properties about text assume 7-bit characters (`Ascii`). `setMachine()` is documented to return the previous machine and returns the new one (`69-75`, `246-250`).
- `Lexer`: `setMachine()` has no return statement; `begin()`'s first `TokenInfo` has offset 0 after ignored text.
- Patterns: `r{m,}` is documented (`docs/index.md:234`) and read as `r{m,0}`, which cannot be built. A blank in front of `|` makes it a literal bar (`RegExprParser_test.cpp:31-36` has it so), which the second line of a rule with blanks around its bars meets. `[[:space:]]` has NUL in it and no blank; `.` is tab and 32 to 126 only, though documented as any character but a newline (`docs/index.md:213`, `NFABuilder.cpp:111`). `\z`, documented to be the letter (`docs/index.md:226-227`), is refused, and a test has it so (`RegExprParser_test.cpp:123`). `^` is documented as not yet supported (`docs/index.md:240`), and is: the files have it, since code and tests agree. What is left of a pattern after an expression (`a)b`, `a/b/c`) is not read and not reported. Octal escapes up to 777 are taken. `""` throws. In `[]^-]` the first bracket is a member and `^-]` a range. `docs/index.md:81` shows `/.*/` as a rule; it is a lookahead of nothing before `.*` and nothing again.
- Rule files: a byte above 127, even in a comment, ends the file silently (`RuleParser.cpp:343`), since `char` is signed. `{B}` without a ref `B` is read as it stands, and as a bound `{0}` behind an atom. A ref can name one of a line below if its own name sorts first. A ref that names itself in a second alternative gets its first one, without parentheses. An alternative after a pattern with `/` belongs to what is looked ahead to. No blank may stand in front of `(ref)` (`docs/index.md:29-30` allows it); in a block, no comment, no `|`, and an empty line only at its start, though empty lines and comments are documented to be ignored everywhere (`docs/index.md:22-23`). A `<*>` rule is not in `INITIAL` unless another rule is; in a file all of whose rules are `<*>` none has a condition: there is nothing to build. `DuplicateRule` keeps a reference into a list that is gone when it is caught.
- Construction: a configuration gets its backtrack state whichever rule wins it (`DFABuilder.cpp:157-161`): with `a/b` after `ab`, the word of the rule `ab` is `a`; `WordEndsWithRule` is checked of rules of which none does so. `(a*)*`, `(a|a)*b` and even `a*a*` never finish compiling, since closures list states more and more often (`OrderlyRulesCompile` says which do). A lookahead inside a rule fails the assertion in `DFABuilder.cpp:160`; `x{0}` one in `NFA.cpp:309`; with `compile()`, rules that accept in every state (`a?`) one in `DFAMinimizer.cpp:112`. `DFAMinimizer.cpp:117-129` builds groups and drops them. The symbols of the master state are the numbers of the initial states, which are codes of characters too (`MultiDFA.cpp`): of `(b\x01)*c` and `(b\x01)*a` in two conditions, the state behind `b` is merged with the master state, whose transitions are then renumbered (`DFAMinimizer.cpp:167-177`), so that `b\x01` is no longer read as it was written. With a `^`-rule, each other rule is put twice into its automaton (`Compiler.cpp:53-66`), which changes no language. A condition all of whose rules have `^` gets no automaton for elsewhere. The order of condition names (`"A"`, `"AB"`, `"A_0"`) may alone break that a condition's line-start automaton is next.
- mklex: the help says that `-` stands for stderr (`src/mklex.cpp:226-234`; for `--debug-dfa`, stdout); `-t -` is refused, since the value of a letter must not start with a dash (`util/Flags.cpp:409`), `-t-` and `--output-table=-` are not. A file of rules that is not there is read as one without rules; its tables are written before the longest name of none is looked for (`src/mklex.cpp:187-200`), as they are when `--output-token` is missing, for which nobody catches the exception. An empty name or a file that cannot be written is not reported. With one name for both outputs the tokens overwrite the tables. The names of several ignored rules are meant to be joined (`regular/Compiler.cpp:78-80`), but the condition there is never true: the last one's is kept. Of start conditions that share a state, the graph of the DFA names the first only (`DotWriter.cpp:82-84`).
- Grammars: `first1()` appends to the vector it iterates (`Grammar.cpp:112-119`); `find_last` of an empty first handle reads before it (`172`); a start symbol with alternatives gets `<<EOF>>` in the first only (`169-181`). Keyword or pattern is decided by the order of pattern texts (`SyntaxTable.cpp:132`).
- Grammar files: any token that is neither a rule's name nor `token` ends the process (`GrammarParser.cpp:54`), although it is reported; a token declared behind its use, or twice, is not what the later declaration says (`findExplicitTerminal`, `102-111`).
- `Analyzer`: an epsilon rule before anything else fails the assertion in `Analyzer-inl.h:117`; `EpsilonFindsValue` says that it fails nowhere else. A reported mismatch drops the token and goes on to a result; the value of a sentence is that of the last element of the start symbol's handle.

## Not modelled, and why

- Printing and reports: string work. Of mklex the layout of the C++ it writes, the timer, `create_directories()` and whatever fails in the file system; of a graph how it is written, with the grouping of symbols into ranges; of the command line the characters of names and values, `helpText()`, `to_s()` and callbacks, which no program has. Of the grammar files' lexer the kinds of lexemes are modelled, not their characters, and of rule files the characters of patterns only. Positions in error messages.
- Parsing twice with one `Compiler`, which starts tags again from 1. `validate()` is the predicate `Valid`.
- Two live iterators of one `Lexable`, which share a stream.
- `recognizeOne()` of `Lexer` called from outside; `fileSize()`.
- `compile()` of rules with `^` (it keeps one of two automata). In `compile()` the code passes no list for overshadowed rules; the model fills one and `OvershadowsAreRight` does not look at it.
- The lexer tables inside `SyntaxTable::construct()`: `Analyzer` gets terminals.
- The values an undefined read returns: such a state is the end of the behaviour (`aborted`), or is kept out of the inputs by a stated assumption.
- `indirect()`, whose inner loop is a stub, does what `direct()` does; `select()` has no effect.

## Plan

Written first, because everything rests on it: the recognizer and its two clients, with proofs; then grammar sets, table and analyzer, with proofs; then rules to tables; then grammar files and left recursion; then rule files; then the command line and the tool. Left to do:

1. `RegExpr`'s printing, and whether parsing undoes it.
2. Two iterators over one stream, as a composition of two `LexerIterator`s.
3. The lexers' tables compiled from a file under `LexerIterator`, from rules to words.
4. Proofs: that the minimizer's rounds end; `WritesBothOrNeither` of the command line tool.
5. Compiled tables for the terminals of a grammar under `Analyzer`, so that keyword priority is part of the composition.
