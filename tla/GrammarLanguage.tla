--------------------------- MODULE GrammarLanguage ---------------------------
(***************************************************************************)
(* A grammar file against what is written in it, and a rewritten grammar   *)
(* against the words of the one it was made of.                            *)
(***************************************************************************)
EXTENDS GrammarFile

CONSTANT MaxWord  \* the longest words that are compared

-----------------------------------------------------------------------------
(* What is written in a text, by cutting it up.                            *)

Kinds(text) == [i \in DOMAIN text |-> text[i].kind]

\* The parts of s between the lexemes of that kind.
Cut(s, kind) ==
  LET add(parts, x) == IF x.kind = kind THEN Append(parts, <<>>)
                       ELSE Append(Front(parts), Append(Last(parts), x))
  IN  FoldLeft(add, << <<>> >>, s)

HasBlock(text) == text # <<>> /\ text[1].kind = "Token"

\* A block of tokens, a line each, at the head of the text.
BlockEnd(text) ==
  IF HasBlock(text) THEN SelectInSeq(text, LAMBDA x : x.kind = "SetClose") ELSE 0
BlockLines(text) == Cut(SubSeq(text, 1, BlockEnd(text) - 1), "LineFeed")
BlockRules(text) == IF HasBlock(text) THEN Front(Tail(BlockLines(text))) ELSE <<>>
Rules(text) == Cut(SubSeq(text, BlockEnd(text) + 1, Len(text)), "Semicolon")

WellFormedBlock(text) ==
  HasBlock(text) =>
    /\ Len(BlockLines(text)) > 1
    /\ Kinds(BlockLines(text)[1]) = <<"Token", "SetOpen">>
    /\ Last(BlockLines(text)) = <<>>
    /\ \A r \in Range(BlockRules(text)) : Kinds(r) = <<"Identifier", "Assoc", "Pattern">>

WellFormedHandle(h) ==
  LET symbols == SelectSeq(Kinds(h), LAMBDA k : k \in {"Identifier", "Literal"}) IN
  \/ Kinds(h) = symbols
  \/ /\ Len(h) >= 3
     /\ SubSeq(Kinds(h), 1, Len(h) - 3) = Front(symbols)
     /\ SubSeq(Kinds(h), Len(h) - 2, Len(h)) = <<"SetOpen", "Identifier", "SetClose">>

WellFormedRule(r) ==
  /\ Len(r) >= 2 /\ Kinds(SubSeq(r, 1, 2)) = <<"Identifier", "Assoc">>
  /\ \A h \in Range(Cut(SubSeq(r, 3, Len(r)), "Or")) : WellFormedHandle(h)

WellFormed(text) ==
  /\ WellFormedBlock(text)
  /\ Last(Rules(text)) = <<>>
  /\ \A r \in Range(Front(Rules(text))) : WellFormedRule(r)

\* A name stands for the pattern of the token declared by it, else for itself.
WrittenElement(text, x) ==
  LET named == {r \in Range(BlockRules(text)) : r[1].literal = x.literal}
  IN  IF x.kind = "Identifier" /\ named # {} THEN (CHOOSE r \in named : TRUE)[3].literal
      ELSE x.literal

WrittenHandle(text, h) ==
  IF h # <<>> /\ Last(h).kind = "SetClose"
  THEN [i \in 1..Len(h) - 3 |-> WrittenElement(text, h[i])]
         \o <<ActionNamed(h[Len(h) - 1].literal)>>
  ELSE [i \in DOMAIN h |-> WrittenElement(text, h[i])]

Written(text) ==
  LET handles(r) == Cut(SubSeq(r, 3, Len(r)), "Or")
      productions_(r) == [h \in DOMAIN handles(r) |->
                            Production(r[1].literal, WrittenHandle(text, handles(r)[h]))]
      add(ps, r) == ps \o productions_(r)
  IN  FoldLeft(add, <<>>, Front(Rules(text)))

\* A file is read without a report exactly if it is well-formed and every name
\* in it has a production or is a token's, and then its productions are those
\* written in it, in that order (GrammarParser.cpp:37, 81, 113).
ReadAsWritten ==
  pc # "file" =>
    /\ errors = 0 /\ pc # "thrown" <=> WellFormed(source) /\ Valid(Written(source))
    /\ errors = 0 /\ pc # "thrown" => original = Written(source)

-----------------------------------------------------------------------------
(* The words of a grammar.                                                 *)

\* Those of at most MaxWord symbols that s stands for, if known holds pairs of
\* a nonterminal and a word.
Words(known, s) ==
  LET extend(words, x) ==
        IF IsNonTerminal(x) THEN {w \o k[2] : w \in words, k \in {k \in known : k[1] = x}}
        ELSE {Append(w, x) : w \in words}
  IN  {w \in FoldLeft(extend, {<<>>}, s) : Len(w) <= MaxWord}

Generated(ps) ==
  LET grown(known) == UNION {{r.name} \X Words(known, r.symbols) : r \in RulesOf(ps)}
      all[known \in SUBSET (STRING \X Seq(STRING))] ==
        UNION {IF more = known THEN known ELSE all[more] : more \in {grown(known)}}
  IN  all[{}]

Language(ps) == {k[2] : k \in {k \in Generated(ps) : k[1] = ps[1].name}}

Rewritten == pc = "eliminate" /\ todo = <<>>

\* Every nonterminal that comes first in its own productions comes first of all
\* symbols there, and is not the start symbol.
PlainlyLeftRecursive(ps) ==
  \A p \in DOMAIN ps :
    p \in TailOf(ps, ps[p].name) =>
      Symbols(ps[p].handle)[1] = ps[p].name /\ ps[p].name # ps[1].name

\* A plainly left-recursive grammar is rewritten to one that stands for the same
\* words, and direct() leaves no directly left-recursive production, also where it
\* makes a wrong grammar, unless one was nothing but its own name
\* (LeftRecursion.h:18, LeftRecursion.cpp:38-99).
RewrittenIsRightRecursive ==
  Rewritten =>
    /\ PlainlyLeftRecursive(original) => Language(productions) = Language(original)
    /\ (\A p \in DOMAIN original : Symbols(original[p].handle) # <<original[p].name>>)
         => ~IsLeftRecursive(productions)

\* LeftRecursion rewrites a grammar "into an equivalent right-recursion grammar"
\* (LeftRecursion.h:18).
RewrittenIsEquivalent == Rewritten => Language(productions) = Language(original)

=============================================================================
