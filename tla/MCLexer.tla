------------------------------- MODULE MCLexer -------------------------------
(* Instances of Lexer for TLC.                                               *)
EXTENDS Lexer, SampleDefs

AllDefs ==
  {Words, Lines, Lookahead, IgnoredLookahead, Prefix, Conditions}
ReopenDefs == {Lines, Prefix}

Texts == SeqOf({a, b}, 3) \cup SeqOf({a, LineFeed}, 2)
ShortTexts == SeqOf({a, LineFeed}, 3)
Conditional == {"INITIAL", "RE"}
=============================================================================
