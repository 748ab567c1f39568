--------------------------- MODULE MCLexerIterator ---------------------------
(***************************************************************************)
(* Instances of LexerIterator for TLC.                                     *)
(***************************************************************************)
EXTENDS LexerIterator, SampleDefs

AllDefs ==
  {Words, Lines, Lookahead, IgnoredLookahead, Prefix, Conditions}
LookaheadDefs == {Lookahead, IgnoredLookahead, Prefix}

Texts == SeqOf({a, b}, 5) \cup SeqOf({a, b, LineFeed}, 3)
ShortTexts == SeqOf({a, b}, 3)
Conditional == {"INITIAL", "RE"}

ASSUME PlainAssumption == PlainReading
ASSUME EofAssumption == EofEndsWords

=============================================================================
