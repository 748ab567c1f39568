------------------------------- MODULE Analyzer -------------------------------
(***************************************************************************)
(* The LL(1) analyzer (klex/cfg/ll/Analyzer.h, Analyzer-inl.h): analyze()  *)
(* drives the iterator of Lexer and two stacks, that of the symbols still  *)
(* to come, and that of the semantic values of the symbols that came.  One *)
(* step is one round of its loop.                                          *)
(*                                                                         *)
(* The text is the sequence of words its lexer recognizes, ignored words   *)
(* left out, and exhaustedAt is the token whose recognition found the end  *)
(* of the stream: the last word, which is found to end there; the          *)
(* end-of-file token, if ignored text follows the last word; or an earlier *)
(* word, if the recognizer looked further ahead.                           *)
(***************************************************************************)
EXTENDS SyntaxTable

CONSTANTS
  Tables,   \* the syntax tables considered
  MaxWords  \* bound on the words of a text

ASSUME TablesAssumption == \A t \in Tables : IsSyntaxTable(t)
ASSUME WordsAssumption == MaxWords \in Nat

VARIABLES
  \* the text behind the lexer
  st, input, exhaustedAt,
  \* the iterator currentToken: the tokens it has gone over, and its end
  at, end,
  \* stack_ and valueStack_, their tops last, and the errors reported
  stack, valueStack, errors,
  \* where analyze() is, and what it returned
  pc, result,
  \* history: for each element of stack, the symbol it completes and the size
  \* of the value stack it was pushed to find; for each value, the symbol it
  \* is the value of; the terminals taken off the stack
  frames, meaning, matched

textVars   == <<st, input, exhaustedAt>>
cursorVars == <<at, end>>
vars == <<textVars, cursorVars, stack, valueStack, errors, pc, result, frames,
          meaning, matched>>

Unrecognized == -1   \* a word that makes the lexer throw LexerError
NoAction == -1       \* SemanticValue{}; an action's value is its number
NoResult == -2

\* What follows an unrecognized word is never read.
Texts(t) ==
  LET words == TerminalIds(t) \ {t.eof}
  IN  BoundedSeq(words, MaxWords)
        \cup {Append(s, Unrecognized) : s \in BoundedSeq(words, MaxWords - 1)}

TokenAt(i) == IF i <= Len(input) THEN input[i] ELSE st.eof

-----------------------------------------------------------------------------
Init ==
  /\ st \in Tables
  /\ input \in Texts(st)
  /\ exhaustedAt \in 1..Len(input) + 1
  /\ at = 0 /\ end = 0
  /\ stack = <<>> /\ valueStack = <<>> /\ errors = 0
  /\ pc = "begin" /\ result = NoResult
  /\ frames = <<>> /\ meaning = <<>> /\ matched = <<>>

\* begin(lexer_), then the start symbol is pushed.
Begin ==
  /\ pc = "begin"
  /\ at' = 1
  /\ IF TokenAt(1) = Unrecognized
     THEN pc' = "thrown" /\ UNCHANGED <<stack, frames>>
     ELSE /\ pc' = "analyzing"
          /\ stack' = <<st.startSymbol>>
          /\ frames' = <<[symbol |-> st.startSymbol, height |-> 0]>>
  /\ UNCHANGED <<textVars, end, valueStack, errors, result, meaning, matched>>

Analyzing == pc = "analyzing"
Current == TokenAt(at)

\* currentToken == eof
AtEnd == end = 2

Accept ==
  /\ Analyzing
  /\ stack = <<>>
  /\ AtEnd
  /\ pc' = "accepted"
  /\ result' = IF valueStack # <<>> THEN Last(valueStack) ELSE NoAction
  /\ UNCHANGED <<textVars, cursorVars, stack, valueStack, errors, frames,
                 meaning, matched>>

\* back() of an empty stack_: undefined.
Overrun ==
  /\ Analyzing
  /\ stack = <<>>
  /\ ~AtEnd
  /\ pc' = "undefined"
  /\ UNCHANGED <<textVars, cursorVars, stack, valueStack, errors, result,
                 frames, meaning, matched>>

\* The rounds that look at the top of the stack.
Round == Analyzing /\ stack # <<>>
Top == Last(stack)

Pop == stack' = Front(stack) /\ frames' = Front(frames)

PushValue(value, symbol) ==
  /\ valueStack' = Append(valueStack, value)
  /\ meaning' = Append(meaning, symbol)

\* Mutant: one value too many is left.
ResizedTooLittle(values) == SubSeq(values, 1, Len(values) + Top + 1)

\* valueStack_.resize(valueStack_.size() + X)
Resized(values) == SubSeq(values, 1, Len(values) + Top)

\* Mutant: the first value of the handle is taken.
ValueOfFirst == valueStack[Len(valueStack) + Top + 1]

\* The value of a handle is that of its last element.
ValueOfHandle == Last(valueStack)

\* Mutant: the marker stays.
RewindStays ==
  /\ Round
  /\ Top < 0
  /\ valueStack' = Append(Resized(valueStack), ValueOfHandle)
  /\ meaning' = Append(Resized(meaning), Last(frames).symbol)
  /\ UNCHANGED <<textVars, cursorVars, stack, frames, errors, pc, result, matched>>

\* A negative element: the values of a handle become that of its nonterminal.
Rewind ==
  /\ Round
  /\ Top < 0
  /\ Pop
  /\ valueStack' = Append(Resized(valueStack), ValueOfHandle)
  /\ meaning' = Append(Resized(meaning), Last(frames).symbol)
  /\ UNCHANGED <<textVars, cursorVars, errors, pc, result, matched>>

\* Mutants: the end of the stream is counted after the recognition; is counted
\* down.
AdvanceCountsLate ==
  /\ end' = IF exhaustedAt <= at + 1 THEN end + 1 ELSE end
  /\ at' = at + 1
  /\ pc' = IF TokenAt(at + 1) = Unrecognized THEN "thrown" ELSE pc
AdvanceCountsDown ==
  /\ end' = IF exhaustedAt <= at THEN end - 1 ELSE end
  /\ at' = at + 1
  /\ pc' = IF TokenAt(at + 1) = Unrecognized THEN "thrown" ELSE pc

\* ++currentToken, which counts the end of the stream before it recognizes.
Advance ==
  /\ end' = IF exhaustedAt <= at THEN end + 1 ELSE end
  /\ at' = at + 1
  /\ pc' = IF TokenAt(at + 1) = Unrecognized THEN "thrown" ELSE pc

\* Mutant: a mismatch is not reported.
EatAnyTerminal ==
  /\ Round
  /\ IsTerminalId(st, Top)
  /\ Pop
  /\ PushValue(NoAction, Top)
  /\ matched' = Append(matched, Top)
  /\ Advance
  /\ UNCHANGED <<textVars, errors, result>>

\* Mutant: a terminal has no value.
EatTerminalWithoutValue ==
  /\ Round
  /\ IsTerminalId(st, Top)
  /\ Pop
  /\ errors' = IF Top # Current THEN errors + 1 ELSE errors
  /\ matched' = Append(matched, Top)
  /\ Advance
  /\ UNCHANGED <<textVars, valueStack, meaning, result>>

\* The token is eaten, and has a value, whether it is the one expected or not.
EatTerminal ==
  /\ Round
  /\ IsTerminalId(st, Top)
  /\ Pop
  /\ errors' = IF Top # Current THEN errors + 1 ELSE errors
  /\ PushValue(NoAction, Top)
  /\ matched' = Append(matched, Top)
  /\ Advance
  /\ UNCHANGED <<textVars, result>>

Expanding == Round /\ IsNonTerminalId(st, Top)

\* The stack l with x in place of its top, and above that the elements of s.
ReplaceTop(l, x, s) == Append(Front(l), x) \o s

\* Mutant: the last symbol of a handle comes out on top.
PushedInOrder(handle) == handle

\* The symbols of a handle, the first of them on top.
Pushed(handle) == Reverse(handle)

\* A marker that takes the handle's values off again, and above it the handle,
\* its first symbol on top.
ApplyProduction ==
  /\ Expanding
  /\ HasEntry(st, Top, Current)
  /\ LET handle == Handle(st, Top, Current)
         n == Len(handle)
         h == Len(valueStack)
     IN /\ handle # <<>>
        /\ stack' = ReplaceTop(stack, -n, Pushed(handle))
        /\ frames' =
             ReplaceTop(frames, [symbol |-> Top, height |-> h + n],
               [i \in 1..n |-> [symbol |-> Pushed(handle)[i], height |-> h + n - i]])
  /\ UNCHANGED <<textVars, cursorVars, valueStack, errors, pc, result, meaning,
                 matched>>

\* An epsilon rule takes the value to its left for its own.
ApplyEpsilon ==
  /\ Expanding
  /\ HasEntry(st, Top, Current)
  /\ Handle(st, Top, Current) = <<>>
  /\ valueStack # <<>>
  /\ Pop
  /\ PushValue(Last(valueStack), Top)
  /\ UNCHANGED <<textVars, cursorVars, errors, pc, result, matched>>

\* assert(!valueStack_.empty())
EpsilonFirst ==
  /\ Expanding
  /\ HasEntry(st, Top, Current)
  /\ Handle(st, Top, Current) = <<>>
  /\ valueStack = <<>>
  /\ Pop
  /\ pc' = "aborted"
  /\ UNCHANGED <<textVars, cursorVars, valueStack, errors, result, meaning, matched>>

Reject ==
  /\ Expanding
  /\ ~HasEntry(st, Top, Current)
  /\ errors' = errors + 1
  /\ pc' = "rejected"
  /\ UNCHANGED <<textVars, cursorVars, stack, valueStack, result, frames,
                 meaning, matched>>

RunAction ==
  /\ Round
  /\ IsActionId(st, Top)
  /\ Pop
  /\ PushValue(Top, Top)
  /\ UNCHANGED <<textVars, cursorVars, errors, pc, result, matched>>

Next ==
  \/ Begin \/ Accept \/ Overrun
  \/ Rewind \/ EatTerminal \/ RunAction
  \/ ApplyProduction \/ ApplyEpsilon \/ EpsilonFirst \/ Reject

Spec == Init /\ [][Next]_vars

\* analyze() is one call in one thread.
FairSpec == Spec /\ WF_vars(Next)

-----------------------------------------------------------------------------
TypeOK ==
  /\ IsSyntaxTable(st)
  /\ input \in Seq(TerminalIds(st) \cup {Unrecognized})
  /\ exhaustedAt \in 1..Len(input) + 1
  /\ at \in Nat /\ end \in Nat /\ errors \in Nat
  /\ stack \in Seq(Int) /\ valueStack \in Seq(Int)
  /\ meaning \in Seq(Int) /\ matched \in Seq(Int)
  /\ frames \in Seq([symbol : Int, height : Nat])
  /\ pc \in {"begin", "analyzing", "accepted", "rejected", "thrown", "aborted",
             "undefined"}
  /\ result \in Int

\* What an element of stack will have added to the size of the value stack
\* once it is taken off.
Gain(x) == IF x < 0 THEN x + 1 ELSE 1

\* The "rewind-magic" of Analyzer-inl.h:109: an element that comes up finds
\* the value stack at the size it was pushed for, each element finds what the
\* one above it leaves, and one value is left when the start symbol is done.
\* So a marker never takes off more values than there are.
ValuesBalanced ==
  Analyzing =>
    /\ Len(frames) = Len(stack) /\ Len(meaning) = Len(valueStack)
    /\ \A i \in DOMAIN stack :
         /\ stack[i] < 0 => frames[i].height >= -stack[i]
         /\ frames[i].height + Gain(stack[i]) =
              IF i = 1 THEN 1 ELSE frames[i - 1].height
    /\ Len(valueStack) = IF stack = <<>> THEN 1 ELSE Last(frames).height

\* The values a marker takes off are those of one handle of its nonterminal,
\* symbol by symbol: this is what semanticValue(-2) and (-4) of an action in
\* Analyzer_test.cpp:93 count on.
RewindsOneHandle ==
  Round /\ Top < 0 =>
    \E p \in DOMAIN st.productions :
      /\ st.productionNames[p] = Last(frames).symbol
      /\ st.productions[p] = SubSeq(meaning, Len(meaning) + Top + 1, Len(meaning))

=============================================================================
