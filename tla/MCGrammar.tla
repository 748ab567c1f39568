------------------------------ MODULE MCGrammar ------------------------------
(***************************************************************************)
(* Grammar files: all grammars of a shape, one production of S, two of A   *)
(* and one of B, with chains, cycles, empty handles and left and right     *)
(* recursion among them; and files with tokens, actions and errors.        *)
(***************************************************************************)
EXTENDS GrammarLanguage

MCTerminalOrder == <<"<<EOF>>", "[0-9]+", "a", "b">>
MCActionOrder == <<"{act}", "{}">>

StartHandles == {<<"A">>, <<"A", "B">>, <<"A", "b", "A">>, <<"B", "{act}">>}
HandlesOfA == {<<>>, <<"a">>, <<"B">>, <<"B", "A">>, <<"A", "a">>, <<"a", "A", "B">>}
HandlesOfB == {<<>>, <<"b">>, <<"A">>, <<"B", "b">>, <<"A", "a">>, <<"{act}">>}

Lexeme(kind, literal) == [kind |-> kind, literal |-> literal]
Id(name) == Lexeme("Identifier", name)
Quoted(text) == Lexeme("Literal", text)
Sign(kind) == Lexeme(kind, "")

HandleText(h) ==
  LET text(x) == CASE x = "{act}" -> <<Sign("SetOpen"), Id("act"), Sign("SetClose")>>
                   [] x \in TerminalSymbols -> <<Quoted(x)>>
                   [] OTHER -> <<Id(x)>>
      add(lexemes, x) == lexemes \o text(x)
  IN  FoldLeft(add, <<>>, h)

RuleText(name, handles) ==
  LET add(lexemes, h) == lexemes \o <<Sign("Or")>> \o HandleText(h)
  IN  <<Id(name), Sign("Assoc")>>
        \o FoldLeft(add, HandleText(handles[1]), Tail(handles)) \o <<Sign("Semicolon")>>

GrammarTexts ==
  {RuleText("S", <<s>>) \o RuleText("A", <<a1, a2>>) \o RuleText("B", <<b>>) :
   s \in StartHandles, a1 \in HandlesOfA, a2 \in HandlesOfA, b \in HandlesOfB}

Block ==
  <<Lexeme("Token", "token"), Sign("SetOpen"), Sign("LineFeed"),
    Id("num"), Sign("Assoc"), Lexeme("Pattern", "[0-9]+"), Sign("LineFeed"),
    Sign("SetClose")>>

\* S ::= A num | {act}; A ::= 'a' {act}; with the token num, without a
\* declaration of it, and with one that comes late.
Use == RuleText("S", << <<"A", "num">>, <<"{act}">> >>) \o RuleText("A", << <<"a", "{act}">> >>)
TokenTexts == {Block \o Use, Use}

\* One lexeme missing, one written twice, and one that is none, anywhere in a
\* text but in the pattern and the end of its line.
Spoiled(text) ==
  LET places == {i \in DOMAIN text : text[i].kind \notin {"Pattern", "LineFeed"}}
      bad(i) == SubSeq(text, 1, i) \o <<Sign("Colon")>> \o SubSeq(text, i + 1, Len(text))
  IN  {RemoveAt(text, i) : i \in places}
      \cup {InsertAt(text, i, text[i]) : i \in {i \in places : i \notin 4..5}}
      \cup {bad(i) : i \in {i \in places : i \notin 4..5}}

\* Left recursion beside other recursion, and of the start symbol.
RecursiveTexts ==
  LET handles == {<<"A", "b">>, <<"A", "A">>, <<"A", "B", "{act}">>, <<"b", "A">>,
                  <<"b", "A", "B">>, <<"A">>, <<"B", "A">>, <<"B">>, <<>>}
  IN  {RuleText("S", << <<"A">>, <<"B", "S">> >>) \o RuleText("A", <<x, y, <<"a", "{act}">> >>)
         \o RuleText("B", << <<"B", "b">>, <<"b">> >>) : x \in handles, y \in handles}
      \cup {RuleText("S", <<s, <<"a">> >>) : s \in {<<"S", "b">>, <<"S", "S">>, <<"b", "S">>}}

MCSources ==
  GrammarTexts \cup RecursiveTexts \cup TokenTexts \cup Spoiled(Block \o Use)
    \cup Spoiled(RuleText("S", << <<"A", "b">>, <<>> >>) \o RuleText("A", << <<"a", "S", "{act}">> >>))

\* A NonTerminal of the code is no Terminal and no Action, whatever its name is;
\* here they are told apart by name, and so must be those that rewriting makes.
ASSUME NamesAssumption ==
  \A text \in MCSources : \A i \in DOMAIN text :
    text[i].kind = "Identifier" =>
      \A tail \in {"", "_", "__"} : IsNonTerminal(text[i].literal \o tail)

=============================================================================
