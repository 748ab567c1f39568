---------------------------- MODULE GrammarParser ----------------------------
(***************************************************************************)
(* GrammarLexer and the productions of GrammarParser                       *)
(* (klex/cfg/GrammarLexer.cpp, GrammarParser.cpp): a recursive descent     *)
(* that reports a token it does not expect and takes it all the same.      *)
(*                                                                         *)
(* A text is a sequence of lexemes, records of a kind, a Token of          *)
(* GrammarLexer.h, and a literal.  Spacing is left out but for a line feed *)
(* where the end of a line matters.  "Colon" is the character that         *)
(* recognizeOne() calls Illegal without taking it, and "Pattern" the rest  *)
(* of the line behind the ::= of a token, as a grammar's token Illegal.    *)
(***************************************************************************)
EXTENDS GrammarDef

\* recognize(): spacing is skipped; the end of the text is a token of its own.
RecognizeFrom(text, i) ==
  CHOOSE j \in i..Len(text) + 1 :
    /\ j \in DOMAIN text => text[j].kind # "LineFeed"
    /\ \A k \in i..j-1 : k \in DOMAIN text /\ text[k].kind = "LineFeed"

\* consumeToken()
After(text, i) ==
  IF i > Len(text) \/ text[i].kind = "Colon" THEN i ELSE RecognizeFrom(text, i + 1)

TokenAt(text, i) ==
  CASE i > Len(text) -> "Eof"
    [] i \in DOMAIN text /\ text[i].kind \in {"Colon", "Pattern"} -> "Illegal"
    [] OTHER -> text[i].kind

LiteralAt(text, i) == IF i > Len(text) THEN "" ELSE text[i].literal

\* consumeToken(expected): what it reports.
Mismatch(text, i, expected) == IF TokenAt(text, i) = expected THEN 0 ELSE 1

ActionNamed(id) == "{" \o id \o "}"

\* What parsing has come to: the next token, how much was reported and what
\* was read.
ReadTo(i, errors, value) == [at |-> i, errors |-> errors, value |-> value]

\* parseHandle() from each token of a text; an action ends a handle.  explicit
\* has the pattern of each token that was declared before.
Handles(text, explicit) ==
  LET element(x) ==
        IF x.kind = "Identifier" /\ x.literal \in DOMAIN explicit THEN explicit[x.literal]
        ELSE x.literal
      action(id, close) ==
        ReadTo(After(text, close),
               Mismatch(text, id, "Identifier") + Mismatch(text, close, "SetClose"),
               <<ActionNamed(LiteralAt(text, id))>>)
      handle[i \in 1..Len(text) + 1] ==
        CASE TokenAt(text, i) \in {"Literal", "Identifier"} ->
               [handle[After(text, i)] EXCEPT !.value = <<element(text[i])>> \o @]
          [] TokenAt(text, i) = "SetOpen" ->
               action(After(text, i), After(text, After(text, i)))
          [] TokenAt(text, i) \in {"Semicolon", "Or"} -> ReadTo(i, 0, <<>>)
          [] OTHER -> ReadTo(i, 1, <<>>)
  IN  handle

\* Alternatives from each token of a text, up to what should be a semicolon.
Alternatives(text, explicit) ==
  LET handle == Handles(text, explicit)
      before(first, rest) == [rest EXCEPT !.errors = first.errors + @,
                                          !.value = <<first.value>> \o @]
      end(i) == ReadTo(After(text, i), Mismatch(text, i, "Semicolon"), <<>>)
      alternatives[i \in 1..Len(text) + 1] ==
        before(handle[i],
               IF TokenAt(text, handle[i].at) = "Or"
               THEN alternatives[After(text, handle[i].at)]
               ELSE end(handle[i].at))
  IN  alternatives

\* Mutant: the ::= is taken on trust.
ParseRuleWithoutAssoc(text, explicit, i) ==
  LET handles == Alternatives(text, explicit)[After(text, After(text, i))]
      name == LiteralAt(text, i)
  IN  ReadTo(handles.at, handles.errors,
             [h \in DOMAIN handles.value |-> Production(name, handles.value[h])])

\* parseRule()
ParseRule(text, explicit, i) ==
  LET assoc == After(text, i)
      handles == Alternatives(text, explicit)[After(text, assoc)]
      name == LiteralAt(text, i)
  IN  ReadTo(handles.at, handles.errors + Mismatch(text, assoc, "Assoc"),
             [h \in DOMAIN handles.value |-> Production(name, handles.value[h])])

\* consumeLiteralUntilLF(): the line feed that ends the line of i.
LineEnd(text, i) ==
  CHOOSE j \in i..Len(text) + 1 :
    /\ j \in DOMAIN text => text[j].kind = "LineFeed"
    /\ \A k \in i..j-1 : text[k].kind # "LineFeed"

\* The lines of a token block, each a name and a definition, up to a token that
\* is not an identifier.
Definitions(text) ==
  LET line(i) == <<LiteralAt(text, i), SubSeq(text, i + 1, LineEnd(text, i) - 1)>>
      behind(i) == RecognizeFrom(text, Min({LineEnd(text, i), Len(text)}) + 1)
      definitions[i \in 1..Len(text) + 1] ==
        IF TokenAt(text, i) = "Identifier"
        THEN [definitions[behind(i)] EXCEPT !.value = <<line(i)>> \o @]
        ELSE ReadTo(i, 0, <<>>)
  IN  definitions

\* parseTokenBlock()
ParseTokenBlock(text, i) ==
  LET open == After(text, i)
      definitions == Definitions(text)[After(text, open)]
  IN  ReadTo(After(text, definitions.at),
           Mismatch(text, open, "SetOpen") + Mismatch(text, definitions.at, "SetClose"),
           definitions.value)

\* What RuleParser makes of such lines: it throws at one without ::= and at a
\* name it knows from a line above.
AreRules(definitions) ==
  /\ \A d \in DOMAIN definitions :
       definitions[d][2] # <<>> /\ definitions[d][2][1].kind = "Assoc"
  /\ \A d, e \in DOMAIN definitions : definitions[d][1] = definitions[e][1] => d = e

PatternsOf(definitions) ==
  [name \in {definitions[d][1] : d \in DOMAIN definitions} |->
     LET d == CHOOSE d \in DOMAIN definitions : definitions[d][1] = name
         add(pattern, lexeme) == pattern \o lexeme.literal
     IN  FoldLeft(add, "", Tail(definitions[d][2]))]

=============================================================================
