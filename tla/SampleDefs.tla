------------------------------ MODULE SampleDefs ------------------------------
(***************************************************************************)
(* Lexer definitions for the model-checking runs: the automata of small    *)
(* rule sets, numbered the way the compiler numbers them (state 0 is the   *)
(* initial state; with several start conditions state 0 is the common      *)
(* initial state and each condition has its own after it).                 *)
(***************************************************************************)
EXTENDS LexerDef, TLC

a == 97
b == 98
space == 32

Def(initial, bol, transitions, accepts, backtracking) ==
  [ initialStates             |-> initial,
    containsBeginOfLineStates |-> bol,
    transitions               |-> transitions,
    acceptStates              |-> accepts,
    backtrackingStates        |-> backtracking ]

NoMap == <<>>
Initial0 == "INITIAL" :> 0

\* Space(ignore) ::= [\s\n]+    A ::= a    B ::= b    Eof ::= <<EOF>>
\* (the rules of Lexer_test.cpp:326-331)
Words ==
  Def(Initial0, FALSE,
      <<0, space>> :> 1 @@ <<0, LineFeed>> :> 1 @@ <<1, space>> :> 1
      @@ <<1, LineFeed>> :> 1 @@ <<0, a>> :> 2 @@ <<0, b>> :> 3
      @@ <<0, EndOfFile>> :> 4,
      1 :> IgnoreTag @@ 2 :> 1 @@ 3 :> 2 @@ 4 :> 3, NoMap)

\* Spacing(ignore) ::= [\n]+   Pragma ::= ^aa   Test ::= a   Eof ::= <<EOF>>
\* (the shape of Lexer_test.cpp:237-241)
Lines ==
  Def("INITIAL" :> 1 @@ "INITIAL_0" :> 2, TRUE,
      <<1, a>> :> 3 @@ <<1, LineFeed>> :> 4 @@ <<1, EndOfFile>> :> 5
      @@ <<4, LineFeed>> :> 4
      @@ <<2, a>> :> 6 @@ <<2, LineFeed>> :> 4 @@ <<2, EndOfFile>> :> 5
      @@ <<6, a>> :> 7,
      3 :> 2 @@ 4 :> IgnoreTag @@ 5 :> 3 @@ 6 :> 2 @@ 7 :> 1, NoMap)

\* A_BB ::= a/bb    B ::= b    Eof ::= <<EOF>>
\* (the shape of AB_CD and CD, Lexer_test.cpp:38-41)
Lookahead ==
  Def(Initial0, FALSE,
      <<0, a>> :> 1 @@ <<1, b>> :> 2 @@ <<2, b>> :> 3 @@ <<0, b>> :> 4
      @@ <<0, EndOfFile>> :> 5,
      3 :> 1 @@ 4 :> 2 @@ 5 :> 3, 3 :> 1)

\* Skip(ignore) ::= a+/b    B ::= b    Eof ::= <<EOF>>
IgnoredLookahead ==
  Def(Initial0, FALSE,
      <<0, a>> :> 1 @@ <<1, a>> :> 1 @@ <<1, b>> :> 2 @@ <<0, b>> :> 3
      @@ <<0, EndOfFile>> :> 4,
      2 :> IgnoreTag @@ 3 :> 2 @@ 4 :> 3, 2 :> 1)

\* A ::= a    AAAB ::= aaab    Eof ::= <<EOF>>
Prefix ==
  Def(Initial0, FALSE,
      <<0, a>> :> 1 @@ <<1, a>> :> 2 @@ <<2, a>> :> 3 @@ <<3, b>> :> 4
      @@ <<0, EndOfFile>> :> 5,
      1 :> 1 @@ 4 :> 2 @@ 5 :> 3, NoMap)

\* A ::= a    <RE>RegExpr ::= ab*a    <*>Eof ::= <<EOF>>
\* (the shape of docs/index.md:79-82)
Conditions ==
  Def("INITIAL" :> 1 @@ "RE" :> 2, FALSE,
      <<1, a>> :> 3 @@ <<1, EndOfFile>> :> 4
      @@ <<2, a>> :> 5 @@ <<5, b>> :> 5 @@ <<5, a>> :> 6
      @@ <<2, EndOfFile>> :> 4,
      3 :> 1 @@ 4 :> 3 @@ 6 :> 2, NoMap)

=============================================================================
