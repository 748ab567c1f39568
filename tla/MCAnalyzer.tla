------------------------------ MODULE MCAnalyzer ------------------------------
(***************************************************************************)
(* The analyzer on the tables that finalize() and construct() make of the  *)
(* grammars of Analyzer_test.cpp, reduced to one operator, and of some     *)
(* others.                                                                 *)
(***************************************************************************)
EXTENDS AnalyzerLanguage, SyntaxTableConstruct

MCTerminalOrder == <<"(", ")", "+", "<<EOF>>", "n">>
MCActionOrder == <<"add", "num", "start">>

\* ETF_with_actions
ETF ==
  <<Production("Start", <<"Expr">>),
    Production("Expr", <<"Term", "Expr_">>),
    Production("Expr_", <<"+", "Term", "Expr_", "add">>),
    Production("Expr_", <<>>),
    Production("Term", <<"n", "num">>),
    Production("Term", <<"(", "Expr", ")">>)>>

\* action1
Sum ==
  <<Production("Start", <<"F", "+", "F", "add">>),
    Production("F", <<"n", "num">>)>>

\* Nested epsilon rules, an action with nothing before it, and mismatches in
\* the middle of a handle.
Lists ==
  <<Production("Start", <<"(", "Items", ")", "start">>),
    Production("Items", <<"n", "More">>),
    Production("Items", <<>>),
    Production("More", <<"+", "Mark", "n", "More">>),
    Production("More", <<>>),
    Production("Mark", <<"add">>)>>

\* The first symbol of a sentence may be nothing.
Optional ==
  <<Production("Start", <<"Sign", "n">>),
    Production("Sign", <<"+">>),
    Production("Sign", <<>>)>>

TablesOf(grammars) == {Construct(ps) : ps \in {Finalized(g) : g \in grammars}}

MCGrammars == {ETF, Sum, Lists, Optional}
MCTables == TablesOf(MCGrammars)

ASSUME LL1Assumption ==
  /\ \A g \in MCGrammars : Valid(g)
  /\ \A ps \in {Finalized(g) : g \in MCGrammars} : IsLL1(ps)

ASSUME ClosedAssumption == StartIsClosed

ASSUME PredictAssumption == \A ps \in {Finalized(g) : g \in MCGrammars} : PredictsItsGrammar(ps)

ASSUME SentencesAssumption == \A t \in Tables : EofEndsSentences(t)

\* A sentence whose last word is the one that exhausted the stream is accepted,
\* unless it starts with an epsilon rule.
SentencesAccepted ==
  [](exhaustedAt = Len(input) /\ Sentence =>
       <>(errors = 0 /\ pc \in {"accepted", "aborted"}))

=============================================================================
