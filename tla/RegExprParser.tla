----------------------------- MODULE RegExprParser -----------------------------
(***************************************************************************)
(* RegExprParser (klex/regular/RegExprParser.cpp): a recursive descent     *)
(* over a pattern, a sequence of characters, which are strings of length   *)
(* one.  Each operator takes the place it starts at and tells what it read *)
(* and the place it came to.  Place 0 is that of an exception (or of an    *)
(* assertion that fails): nothing is read there, and nothing leads away.   *)
(*                                                                         *)
(* The terms have no node for a character, a class or a dot but the set of *)
(* symbols NFABuilder makes of it.                                         *)
(***************************************************************************)
EXTENDS RegExpr, SequencesExt

Thrown == 0

\* The characters of a string.
CharsOf(string) == [i \in 1..Len(string) |-> SubSeq(string, i, i)]
SetOf(string) == Range(CharsOf(string))

\* The characters from a number on.
From(n, string) ==
  [c \in SetOf(string) |-> n - 1 + CHOOSE k \in 1..Len(string) : SubSeq(string, k, k) = c]

\* The number of a character; of the ASCII ones a pattern is written in, the
\* backquote, which no string may have here, is left out.
Code == From(32, " !\"#$%&'()*+,-./0123456789:;<=>?@ABCDEFGHIJKLMNOPQRSTUVWXYZ[\\]^_")
          @@ From(97, "abcdefghijklmnopqrstuvwxyz{|}~")
          @@ "\t" :> 9 @@ "\n" :> 10 @@ "\f" :> 12 @@ "\r" :> 13
Character == DOMAIN Code

Digits == 48..57
Upper  == 65..90
Lower  == 97..122
AnySymbol == 0..255          \* what a SymbolSet has room for
DotSymbols == {9} \cup 32..126

OctalDigits   == SetOf("01234567")
DecimalDigits == SetOf("0123456789")
HexDigits     == SetOf("0123456789abcdefABCDEF")
Letters       == {c \in Character : Code[c] \in Upper \cup Lower}

\* parseNamedCharacterClass(): the classes.
NamedClass ==
  [alnum  |-> Digits \cup Upper \cup Lower,
   alpha  |-> Upper \cup Lower,
   blank  |-> {9, 32},
   cntrl  |-> 0..31 \cup {127},
   digit  |-> Digits,
   graph  |-> 33..126,
   lower  |-> Lower,
   print  |-> 32..126,
   punct  |-> 33..126 \ (Digits \cup Upper \cup Lower),
   space  |-> 9..13 \cup {0},   \* of a literal, and so with the NUL at its end
   upper  |-> Upper,
   xdigit |-> {Code[c] : c \in HexDigits}]

-----------------------------------------------------------------------------
\* currentChar(); "" at the end of the text.
At(t, i) == IF i \in DOMAIN t THEN t[i] ELSE ""

\* consume(expected)
Expect(t, i, c) == IF At(t, i) = c THEN i + 1 ELSE Thrown

\* The first place from i on with a character that is not in S.
Behind(t, i, S) == Min({j \in i..Len(t) + 1 : At(t, j) \notin S})

\* The number that digits of a base stand for.
Value(n) == CASE n \in Digits -> n - 48
              [] n \in Upper -> n - 55
              [] OTHER -> n - 87
Number(digits, base) ==
  LET add(n, c) == base * n + Value(Code[c])
  IN  FoldLeft(add, 0, digits)

\* parseInt()
ParseInt(t, i) ==
  LET to(end) == [value |-> Number(SubSeq(t, i, end - 1), 10), at |-> end]
  IN  to(Behind(t, i, DecimalDigits))

Escapes == "a" :> 7 @@ "b" :> 8 @@ "f" :> 12 @@ "n" :> 10 @@ "r" :> 13 @@ "s" :> 32
             @@ "t" :> 9 @@ "v" :> 11
Literals == SetOf("\"$()*+:?['\\]^{}./")

NoSymbol == [symbol |-> 0, at |-> Thrown]

\* Exactly n digits.
NumberEscape(t, i, n, digits, base) ==
  IF \A j \in i..i + n - 1 : At(t, j) \in digits
  THEN [symbol |-> Number(SubSeq(t, i, i + n - 1), base), at |-> i + n]
  ELSE NoSymbol

\* What is behind a backslash.
Escape(t, i) ==
  CASE At(t, i) \in DOMAIN Escapes -> [symbol |-> Escapes[t[i]], at |-> i + 1]
    [] At(t, i) = "x" -> NumberEscape(t, i + 1, 2, HexDigits, 16)
    [] At(t, i) = "0" /\ At(t, i + 1) \notin DecimalDigits -> [symbol |-> 0, at |-> i + 1]
    [] At(t, i) \in OctalDigits /\ (At(t, i) = "0" => At(t, i + 1) \in DecimalDigits) ->
         NumberEscape(t, i, 3, OctalDigits, 8)
    [] At(t, i) \in Literals -> [symbol |-> Code[t[i]], at |-> i + 1]
    [] OTHER -> NoSymbol

\* parseSingleCharacter()
ParseSingleCharacter(t, i) ==
  CASE At(t, i) = "" -> NoSymbol
    [] At(t, i) = "\\" -> Escape(t, i + 1)
    [] OTHER -> [symbol |-> Code[t[i]], at |-> i + 1]

\* parseNamedCharacterClass()
ParseNamedCharacterClass(t, i) ==
  LET class(name, end) ==
        IF name \in DOMAIN NamedClass
        THEN [symbols |-> NamedClass[name], at |-> Expect(t, Expect(t, end, ":"), "]")]
        ELSE [symbols |-> {}, at |-> Thrown]
      add(name, c) == name \o c
      named(end) == class(FoldLeft(add, "", SubSeq(t, i + 2, end - 1)), end)
  IN  named(Behind(t, Expect(t, i + 1, ":"), Letters))

\* parseCharacterClassFragment()
Span(first, last) ==
  [symbols |-> first.symbol..last.symbol,
   at |-> IF first.symbol..last.symbol \subseteq AnySymbol THEN last.at ELSE Thrown]
ParseCharacterClassFragment(t, i) ==
  LET from(first) == IF At(t, first.at) = "-"
                     THEN Span(first, ParseSingleCharacter(t, first.at + 1))
                     ELSE Span(first, first)
  IN  IF At(t, i) = "[" THEN ParseNamedCharacterClass(t, i)
      ELSE from(ParseSingleCharacter(t, i))

RECURSIVE MoreFragments(_, _)
MoreFragments(t, class) ==
  LET unite(more) == [symbols |-> class.symbols \cup more.symbols, at |-> more.at]
  IN  IF At(t, class.at) \in {"]", ""} THEN class
      ELSE MoreFragments(t, unite(ParseCharacterClassFragment(t, class.at)))
ParseFragments(t, i) == MoreFragments(t, ParseCharacterClassFragment(t, i))

-----------------------------------------------------------------------------
Parsed(e, i) == [expr |-> e, at |-> i]

\* What was parsed after l is joined to it.
Join(Op(_, _), l, r) == Parsed(Op(l.expr, r.expr), r.at)

\* parseCharacterClass()
ParseCharacterClass(t, i) ==
  LET closed(class) == Parsed(Chars(class.symbols), Expect(t, class.at, "]"))
  IN  IF At(t, i + 1) # "^" THEN closed(ParseFragments(t, i + 1))
      ELSE closed([ParseFragments(t, i + 2) EXCEPT !.symbols = AnySymbol \ @])

\* What is in quotes: at least one character, whatever it is.
ParseQuoted(t, i) ==
  LET add(e, c) == Concatenation(e, Char(Code[c]))
      to(end) == Parsed(FoldLeft(add, Char(Code[t[i + 1]]), SubSeq(t, i + 2, end - 1)),
                        Expect(t, end, "\""))
  IN  IF At(t, i + 1) = "" THEN Parsed(EmptyExpr, Thrown)
      ELSE to(Behind(t, i + 2, Character \ {"\""}))

EofText == CharsOf("<<EOF>>")
ParseEof(t, i) == Parsed(EndOfFileExpr, IF IsPrefix(EofText, SubSeq(t, i, Len(t)))
                                        THEN i + Len(EofText) ELSE Thrown)

\* parseAtom(), which skips blanks; enclosed is what there is in parentheses.
Atom(t, i, enclosed) ==
  LET single(s) == Parsed(Char(s.symbol), s.at) IN
  CASE At(t, i) \in {"", ")"} -> Parsed(EmptyExpr, i)
    [] At(t, i) = "<"  -> ParseEof(t, i)
    [] At(t, i) = "("  -> Parsed(enclosed.expr, Expect(t, enclosed.at, ")"))
    [] At(t, i) = "\"" -> ParseQuoted(t, i)
    [] At(t, i) = "["  -> ParseCharacterClass(t, i)
    [] At(t, i) = "."  -> Parsed(Chars(DotSymbols), i + 1)
    [] At(t, i) = "^"  -> Parsed(BeginOfLineExpr, i + 1)
    [] At(t, i) = "$"  -> Parsed(EndOfLineExpr, i + 1)
    [] OTHER -> single(ParseSingleCharacter(t, i))

\* parseClosure(): what is behind an atom.
Closed(t, sub) ==
  LET exactly(m) == Parsed(Closure(sub.expr, m.value, m.value), Expect(t, m.at, "}"))
      upTo(m, n) == Parsed(Closure(sub.expr, m.value, n.value), Expect(t, n.at, "}"))
      bounds(m)  == IF At(t, m.at) = "," THEN upTo(m, ParseInt(t, m.at + 1)) ELSE exactly(m)
  IN  CASE At(t, sub.at) = "?" -> Parsed(Optional(sub.expr), sub.at + 1)
        [] At(t, sub.at) = "*" -> Parsed(Star(sub.expr), sub.at + 1)
        [] At(t, sub.at) = "+" -> Parsed(Plus(sub.expr), sub.at + 1)
        [] At(t, sub.at) = "{" -> bounds(ParseInt(t, sub.at + 1))
        [] OTHER -> sub

RECURSIVE ParseLookAheadExpr(_, _)
ParseClosure(t, blanks) ==
  LET atom(i) == Atom(t, i, ParseLookAheadExpr(t, i + 1))
  IN  Closed(t, atom(Behind(t, blanks, {" ", "\t", "\f", "\r"})))

\* parseConcatenation(), and what ends one.
Follow == {"", "/", "|", ")"}
RECURSIVE MoreFactors(_, _)
MoreFactors(t, lhs) ==
  IF At(t, lhs.at) \in Follow THEN lhs
  ELSE MoreFactors(t, Join(Concatenation, lhs, ParseClosure(t, lhs.at)))
ParseConcatenation(t, i) == MoreFactors(t, ParseClosure(t, i))

\* parseAlternation()
RECURSIVE MoreAlternatives(_, _)
MoreAlternatives(t, lhs) ==
  IF At(t, lhs.at) # "|" THEN lhs
  ELSE MoreAlternatives(t, Join(Alternation, lhs, ParseConcatenation(t, lhs.at + 1)))
ParseAlternation(t, i) == MoreAlternatives(t, ParseConcatenation(t, i))

\* parseLookAheadExpr()
ParseLookAheadExpr(t, i) ==
  LET lookAhead(lhs) ==
        IF At(t, lhs.at) # "/" THEN lhs
        ELSE Join(LookAhead, lhs, ParseAlternation(t, lhs.at + 1))
  IN  lookAhead(ParseAlternation(t, i))

\* parse(), which leaves what it does not understand at the end unread.
Parse(t) == ParseLookAheadExpr(t, 1)

=============================================================================
