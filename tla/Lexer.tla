-------------------------------- MODULE Lexer --------------------------------
(***************************************************************************)
(* The class Lexer (klex/regular/Lexer.h, Lexer-inl.h): the recognizer     *)
(* behind recognize(), reset() and setMachine(), and the iterator that the *)
(* LL analyzer drives.  The caller may mix all of them.                    *)
(***************************************************************************)
EXTENDS Recognizer

CONSTANTS
  MaxTokens,     \* bound on the tokens asked for between two resets
  MaxResets,     \* bound on the calls of reset()
  SwitchTo,      \* the start conditions the caller may switch to
  UseIterator    \* does the caller use begin() and ++ beside recognize()?

ASSUME CallerAssumption ==
  MaxTokens \in Nat /\ MaxResets \in Nat /\ UseIterator \in BOOLEAN

VARIABLES
  end,       \* the member of that name of the caller's iterator, if any
  resets     \* history: calls of reset() so far

callerVars == <<end, resets>>
vars == <<recognizerVars, callerVars>>

NoIterator == -1

\* Any of the constructors: with a stream, or through reset() on a lexer that
\* has read nothing yet.
Init ==
  /\ def \in {d \in Defs : Constructible(d, RequiresBeginOfLine)}
  /\ \E text \in Inputs : FreshStream(text)
  /\ FreshLexer
  /\ NoToken
  /\ NoWord
  /\ NoHistory
  /\ pc = "unopened"
  /\ end = NoIterator
  /\ resets = 0

\* A caller that catches LexerError may go on.
Idle == pc \in {"unopened", "returned", "thrown"}

Call ==
  /\ Idle
  /\ Len(tokens) < MaxTokens
  /\ pc' = "start"
  /\ UNCHANGED <<streamVars, def, machine, offset, bol, buffered, tokenVars,
                 literal, runVars, histVars, resets>>

CallRecognize == Call /\ UNCHANGED end

\* begin() recognizes a word; ++ counts the calls made after the
\* stream was found exhausted, and recognizes.
BeginIterator ==
  /\ UseIterator
  /\ end' = 0
  /\ Call

\* operator== of two iterators, against end().
AtEnd == end = 2

Increment ==
  /\ end # NoIterator
  /\ ~AtEnd
  /\ end' = IF good THEN end ELSE end + 1
  /\ Call

\* Mutant: the new text is not known to start a line.
ResetKeepsBol ==
  /\ Idle
  /\ resets < MaxResets
  /\ resets' = resets + 1
  /\ input' \in Inputs
  /\ pos' = 0
  /\ good' = TRUE
  /\ offset' = 0
  /\ tokenOffset' = 0
  /\ pc' = "unopened"
  /\ consumed' = <<>>
  /\ tokens' = <<>>
  /\ UNCHANGED <<def, machine, bol, buffered, token, literal, runVars, end>>

\* reset(): a new stream is opened; buffered_, token_ and word_ stay.
Reset ==
  /\ Idle
  /\ resets < MaxResets
  /\ resets' = resets + 1
  /\ input' \in Inputs
  /\ pos' = 0
  /\ good' = TRUE
  /\ offset' = 0
  /\ tokenOffset' = 0
  /\ bol' = TRUE
  /\ pc' = "unopened"
  /\ consumed' = <<>>
  /\ tokens' = <<>>
  /\ UNCHANGED <<def, machine, buffered, token, literal, runVars, end>>

SetMachine ==
  /\ Idle
  /\ machine' \in Machines(def, SwitchTo)
  /\ UNCHANGED <<streamVars, def, offset, bol, buffered, tokenVars, literal,
                 pc, runVars, histVars, callerVars>>

Word == Recognize /\ UNCHANGED callerVars

Next ==
  CallRecognize \/ BeginIterator \/ Increment \/ Reset \/ SetMachine \/ Word

Spec == Init /\ [][Next]_vars

\* The caller's loop is single-threaded and asks for tokens until it is done.
FairSpec ==
  Spec /\ WF_vars(Word) /\ WF_vars(CallRecognize)

-----------------------------------------------------------------------------
TypeOK == RecognizerTypeOK /\ end \in Int /\ resets \in 0..MaxResets

EofWord == <<EndOfFile>>
LastWord == tokens[Len(tokens)].word

\* The loop of README.md:69, "until t == Token::Eof": whoever stops at the
\* end-of-file token has been given the text, from its first to its last
\* character, or to the one the stream failed at.
EofComesLast ==
  Ascii /\ resets = 0 /\ pc = "returned" /\ LastWord = EofWord =>
    /\ Len(consumed) > pos
    /\ \A i \in 1..pos : consumed[i] = input[i]
    /\ pos = Len(input) \/ ReadErrors

\* That loop always gets there, or gets a LexerError, however many words one
\* overshoot rolled back.
EofComes ==
  <>(pc = "thrown" \/ \E i \in DOMAIN tokens : tokens[i].word = EofWord)

=============================================================================
