----------------------------- MODULE GrammarFile -----------------------------
(***************************************************************************)
(* What becomes of a grammar file: GrammarParser::parse reads it (one step *)
(* per rule or token block), LeftRecursion::direct may rewrite it (one     *)
(* step per nonterminal), and Grammar::finalize computes its sets.         *)
(***************************************************************************)
EXTENDS Grammar, GrammarParser, LeftRecursion

CONSTANT Sources  \* the texts considered

ASSUME SourcesAssumption == \A text \in Sources : text \in Seq(Range(text))

VARIABLES
  source,    \* the text
  at,        \* the lexeme that is lexer_.currentToken()
  explicit,  \* explicitTerminals: the pattern of each token declared so far
  errors,    \* how much was reported
  todo,      \* the nonterminals that direct() has not come to
  original   \* history: the productions as they were read

fileVars == <<source, at, explicit, errors, todo, original>>
vars == <<grammarVars, fileVars>>

Init ==
  /\ source \in Sources
  /\ at = RecognizeFrom(source, 1)
  /\ explicit = <<>>
  /\ errors = 0
  /\ todo = <<>>
  /\ original = <<>>
  /\ productions = <<>>
  /\ visiting = 1
  /\ updated = FALSE
  /\ flagged = FALSE
  /\ pc = "file"

-----------------------------------------------------------------------------
ReadRule ==
  /\ pc = "file"
  /\ TokenAt(source, at) = "Identifier"
  /\ \E rule \in {ParseRule(source, explicit, at)} :
       /\ at' = rule.at
       /\ errors' = errors + rule.errors
       /\ productions' = productions \o rule.value
  /\ UNCHANGED <<source, explicit, todo, original, visiting, updated, flagged, pc>>

\* Of two tokens of one name the first one counts; RuleParser throws when they
\* are in one block.
ReadTokenBlock ==
  /\ pc = "file"
  /\ TokenAt(source, at) = "Token"
  /\ \E block \in {ParseTokenBlock(source, at)} :
       IF AreRules(block.value)
       THEN /\ at' = block.at
            /\ errors' = errors + block.errors
            /\ explicit' = explicit @@ PatternsOf(block.value)
            /\ UNCHANGED pc
       ELSE /\ pc' = "thrown"
            /\ UNCHANGED <<at, errors, explicit>>
  /\ UNCHANGED <<source, todo, original, productions, visiting, updated, flagged>>

\* Anything else is reported, and abort() called.
Abort ==
  /\ pc = "file"
  /\ TokenAt(source, at) \notin {"Identifier", "Token", "Eof"}
  /\ errors' = errors + 1
  /\ pc' = "aborted"
  /\ UNCHANGED <<source, at, explicit, todo, original, productions, visiting, updated, flagged>>

\* The nonterminals without a production are reported at the end of the text,
\* each time one is used; the grammar is not to be used if anything was.
EndOfFile ==
  /\ pc = "file"
  /\ TokenAt(source, at) = "Eof"
  /\ original' = productions
  /\ errors' = IF Valid(productions) THEN errors ELSE errors + 1
  /\ pc' = IF errors' = 0 THEN "grammar" ELSE "rejected"
  /\ UNCHANGED <<source, at, explicit, todo, productions, visiting, updated, flagged>>

\* direct(), which goes over the nonterminals there were when it was called.
\* indirect() does the same; what else it is to do is not written yet.
Direct ==
  /\ pc = "grammar"
  /\ productions = original
  /\ IsLeftRecursive(productions)
  /\ todo' = NonTerminals(productions)
  /\ pc' = "eliminate"
  /\ UNCHANGED <<source, at, explicit, errors, original, productions, visiting, updated, flagged>>

Eliminate ==
  /\ pc = "eliminate"
  /\ todo # <<>>
  /\ productions' = EliminateDirect(productions, Head(todo))
  /\ todo' = Tail(todo)
  /\ UNCHANGED <<source, at, explicit, errors, original, visiting, updated, flagged, pc>>

Eliminated ==
  /\ pc = "eliminate"
  /\ todo = <<>>
  /\ pc' = "grammar"
  /\ UNCHANGED <<fileVars, productions, visiting, updated, flagged>>

Read == ReadRule \/ ReadTokenBlock \/ Abort \/ EndOfFile

Next ==
  \/ Read
  \/ Direct \/ Eliminate \/ Eliminated
  \/ (Finalize \/ Pass) /\ UNCHANGED fileVars

Spec == Init /\ [][Next]_vars

\* The calls are made one after the other in one thread, and each returns.
FairSpec == Spec /\ WF_vars(Next)

-----------------------------------------------------------------------------
TypeOK ==
  /\ \A p \in DOMAIN productions :
       /\ productions[p].first \subseteq TerminalSymbols
       /\ productions[p].follow \subseteq TerminalSymbols
       /\ productions[p].epsilon \in BOOLEAN
  /\ visiting \in 1..Len(productions) + 1
  /\ updated \in BOOLEAN /\ flagged \in BOOLEAN
  /\ at \in 1..Len(source) + 1
  /\ errors \in Nat
  /\ pc \in {"file", "grammar", "eliminate", "pass", "done", "rejected", "aborted", "thrown"}

\* Reading a file, rewriting its grammar and finalize() come to an end.
Returns == <>(pc \in {"done", "rejected", "aborted", "thrown"})

=============================================================================
