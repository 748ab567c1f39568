----------------------------- MODULE Recognizer -----------------------------
(***************************************************************************)
(* recognizeOne, the table-driven recognizer that LexerIterator            *)
(* (klex/regular/Lexable.h) and Lexer (klex/regular/Lexer-inl.h) share     *)
(* line by line, and the character source it reads from: one word is       *)
(* recognized by running the automaton until it is stuck, going back to    *)
(* the last accepting state, and, for a lookahead rule r/s, going back     *)
(* further to the end of r.  Every character gone back over is pushed onto *)
(* buffered and read again for the next word.                              *)
(*                                                                         *)
(* The module has no Next of its own: LexerIterator and Lexer add the      *)
(* operations their callers invoke.                                        *)
(***************************************************************************)
EXTENDS LexerDef, SequencesExt

CONSTANTS
  Defs,                 \* the lexer definitions considered
  Inputs,               \* the texts a stream may hold: sequences of bytes
  RequiresBeginOfLine,  \* the template parameter of that name
  ReadErrors            \* may a read fail before the end of the text?

ASSUME DefsAssumption == \A d \in Defs : IsLexerDef(d)
ASSUME InputsAssumption == Inputs \subseteq Seq(0..255)
ASSUME FlagsAssumption == RequiresBeginOfLine \in BOOLEAN /\ ReadErrors \in BOOLEAN

VARIABLES
  \* the std::istream
  input, pos, good,
  \* the members that live from word to word
  def, machine, offset, bol, buffered,
  \* currentToken_ (Lexable.h), resp. token_, word_ and oldOffset_ (Lexer.h)
  token, literal, tokenOffset,
  \* the locals of recognizeOne and where it is; accepted is its tmp
  pc, state, stack, accepted,
  \* history: the characters of the words recognized so far, and the tokens
  \* handed to the caller
  consumed, tokens

streamVars == <<input, pos, good>>
tokenVars  == <<token, tokenOffset>>
runVars    == <<state, stack, accepted>>
histVars   == <<consumed, tokens>>
recognizerVars ==
  <<streamVars, def, machine, offset, bol, buffered, tokenVars, literal,
    pc, runVars, histVars>>

\* literal is a std::string: a symbol pushed onto it becomes a (signed) char.
Narrow(symbol) == IF symbol >= 128 THEN symbol - 256 ELSE symbol

-----------------------------------------------------------------------------
(* The members' initial values, for a stream at its first character.       *)

FreshStream(text) == input = text /\ pos = 0 /\ good = TRUE

FreshLexer ==
  /\ machine = DefaultMachine(def)
  /\ offset = 0
  /\ bol = TRUE
  /\ buffered = <<>>

NoToken == token = 0 /\ literal = <<>> /\ tokenOffset = 0

NoWord ==
  /\ state = BadState
  /\ stack = <<>>
  /\ accepted = BadState

NoHistory == consumed = <<>> /\ tokens = <<>>

-----------------------------------------------------------------------------
(* One word.                                                               *)

InitialState ==
  IF RequiresBeginOfLine /\ bol /\ def.containsBeginOfLineStates
  THEN machine + 1
  ELSE machine

StartWord ==
  /\ pc = "start"
  /\ pc' = "advance"
  /\ tokenOffset' = offset
  /\ literal' = <<>>
  /\ state' = InitialState
  /\ stack' = <<BadState>>
  /\ UNCHANGED <<streamVars, def, machine, offset, bol, buffered, token,
                 accepted, histVars>>

\* Mutant: only a state that the automaton leaves is stacked.
StepStacksSuccess(symbol) ==
  /\ literal' = Append(literal, Narrow(symbol))
  /\ state' = Apply(def, state, symbol)
  /\ stack' = IF state' = ErrorState THEN stack ELSE Append(stack, state)
  /\ UNCHANGED <<def, machine, bol, tokenVars, pc, accepted, histVars>>

\* The part of the advance loop that follows nextChar.
Step(symbol) ==
  /\ literal' = Append(literal, Narrow(symbol))
  /\ stack' = Append(stack, state)
  /\ state' = Apply(def, state, symbol)
  /\ UNCHANGED <<def, machine, bol, tokenVars, pc, accepted, histVars>>

Advancing == pc = "advance" /\ state # ErrorState

\* Mutant: offset counts the reads of the stream only.
FetchBufferedUncounted ==
  /\ Advancing
  /\ buffered # <<>>
  /\ buffered' = Tail(buffered)
  /\ Step(Head(buffered))
  /\ UNCHANGED <<streamVars, offset>>

\* nextChar from the push-back stack, whose top is modelled as its head.
FetchBuffered ==
  /\ Advancing
  /\ buffered # <<>>
  /\ buffered' = Tail(buffered)
  /\ offset' = offset + 1
  /\ Step(Head(buffered))
  /\ UNCHANGED streamVars

\* nextChar when the stream has already failed: offset stays.
FetchPastEnd ==
  /\ Advancing
  /\ buffered = <<>>
  /\ ~good
  /\ Step(EndOfFile)
  /\ UNCHANGED <<streamVars, offset, buffered>>

\* Mutant: the stream position moves past the end.
FetchEndMoves ==
  /\ Advancing
  /\ buffered = <<>>
  /\ good
  /\ pos = Len(input) \/ ReadErrors
  /\ good' = FALSE
  /\ pos' = pos + 1
  /\ offset' = offset + 1
  /\ Step(EndOfFile)
  /\ UNCHANGED <<input, buffered>>

\* nextChar whose get() hits the end of the text, or fails: offset grows.
FetchEnd ==
  /\ Advancing
  /\ buffered = <<>>
  /\ good
  /\ pos = Len(input) \/ ReadErrors
  /\ good' = FALSE
  /\ offset' = offset + 1
  /\ Step(EndOfFile)
  /\ UNCHANGED <<input, pos, buffered>>

FetchByte ==
  /\ Advancing
  /\ buffered = <<>>
  /\ good
  /\ pos < Len(input)
  /\ pos' = pos + 1
  /\ offset' = offset + 1
  /\ Step(input[pos + 1])
  /\ UNCHANGED <<input, good, buffered>>

StopAdvance ==
  /\ pc = "advance"
  /\ state = ErrorState
  /\ pc' = "backtrack"
  /\ UNCHANGED <<streamVars, def, machine, offset, bol, buffered, tokenVars,
                 literal, runVars, histVars>>

\* Mutants: offset is not counted down; characters queue up in buffered.
PopStateUncounted ==
  /\ state' = Last(stack)
  /\ stack' = Front(stack)
  /\ literal' = IF literal = <<>> THEN <<>> ELSE Front(literal)
  /\ buffered' = IF literal = <<>> THEN buffered ELSE <<Last(literal)>> \o buffered
  /\ UNCHANGED <<streamVars, def, machine, offset, bol, tokenVars, pc, accepted,
                 histVars>>
PopStateQueues ==
  /\ state' = Last(stack)
  /\ stack' = Front(stack)
  /\ literal' = IF literal = <<>> THEN <<>> ELSE Front(literal)
  /\ IF literal = <<>> \/ Last(literal) = -1
     THEN UNCHANGED <<offset, buffered>>
     ELSE offset' = offset - 1 /\ buffered' = Append(buffered, Last(literal))
  /\ UNCHANGED <<streamVars, def, machine, bol, tokenVars, pc, accepted,
                 histVars>>

\* Take the last state off the stack and, while the word has characters,
\* push its last one back; rollback drops a char of value -1.
PopState ==
  /\ state' = Last(stack)
  /\ stack' = Front(stack)
  /\ literal' = IF literal = <<>> THEN <<>> ELSE Front(literal)
  /\ IF literal = <<>> \/ Last(literal) = -1
     THEN UNCHANGED <<offset, buffered>>
     ELSE /\ offset' = offset - 1
          /\ buffered' = <<Last(literal)>> \o buffered
  /\ UNCHANGED <<streamVars, def, machine, bol, tokenVars, pc, accepted,
                 histVars>>

Backtracking == state # BadState /\ ~IsAcceptState(def, state)

Backtrack == pc = "backtrack" /\ Backtracking /\ PopState

\* Mutant: the end of r in a rule r/s is not looked for.
StopBacktrackAtLongest ==
  /\ pc = "backtrack"
  /\ ~Backtracking
  /\ accepted' = state
  /\ pc' = "decide"
  /\ UNCHANGED <<streamVars, def, machine, offset, bol, buffered, tokenVars,
                 literal, state, stack, histVars>>

StopBacktrack ==
  /\ pc = "backtrack"
  /\ ~Backtracking
  /\ accepted' = state
  /\ pc' = IF HasLookahead(def, state) THEN "rewind" ELSE "decide"
  /\ UNCHANGED <<streamVars, def, machine, offset, bol, buffered, tokenVars,
                 literal, state, stack, histVars>>

\* Mutant: the word is rewound to its start.
RewindingToStart == stack # <<>>

Rewinding == stack # <<>> /\ state # def.backtrackingStates[accepted]

Rewind == pc = "rewind" /\ Rewinding /\ PopState

StopRewind ==
  /\ pc = "rewind"
  /\ ~Rewinding
  /\ state' = accepted
  /\ pc' = "decide"
  /\ UNCHANGED <<streamVars, def, machine, offset, bol, buffered, tokenVars,
                 literal, stack, accepted, histVars>>

\* No rule matches: LexerError is thrown.
Fail ==
  /\ pc = "decide"
  /\ ~IsAcceptState(def, state)
  /\ pc' = "thrown"
  /\ UNCHANGED <<streamVars, def, machine, offset, bol, buffered, tokenVars,
                 literal, runVars, histVars>>

\* Mutant: an ignored word does not set bol.
AcceptKeepsBol ==
  /\ pc = "decide"
  /\ IsAcceptState(def, state)
  /\ token' = def.acceptStates[state]
  /\ bol' \in IF literal = <<>> THEN BOOLEAN
              ELSE {IF token' = IgnoreTag THEN bol ELSE Last(literal) = LineFeed}
  /\ consumed' = consumed \o literal
  /\ IF token' = IgnoreTag
     THEN pc' = "start" /\ UNCHANGED tokens
     ELSE /\ pc' = "returned"
          /\ tokens' = Append(tokens,
                [tag |-> token', offset |-> tokenOffset, word |-> literal])
  /\ UNCHANGED <<streamVars, def, machine, offset, buffered, tokenOffset,
                 literal, runVars>>

\* A word is recognized.  For an empty one literal.back() is undefined: bol
\* may get either value.  recognize() starts over when the word is ignored.
Accept ==
  /\ pc = "decide"
  /\ IsAcceptState(def, state)
  /\ token' = def.acceptStates[state]
  /\ bol' \in IF literal = <<>> THEN BOOLEAN ELSE {Last(literal) = LineFeed}
  /\ consumed' = consumed \o literal
  /\ IF token' = IgnoreTag
     THEN pc' = "start" /\ UNCHANGED tokens
     ELSE /\ pc' = "returned"
          /\ tokens' = Append(tokens,
                [tag |-> token', offset |-> tokenOffset, word |-> literal])
  /\ UNCHANGED <<streamVars, def, machine, offset, buffered, tokenOffset,
                 literal, runVars>>

\* recognize(), one step of it at a time.
Recognize ==
  \/ StartWord
  \/ FetchBuffered \/ FetchPastEnd \/ FetchEnd \/ FetchByte
  \/ StopAdvance \/ Backtrack \/ StopBacktrack \/ Rewind \/ StopRewind
  \/ Fail \/ Accept

-----------------------------------------------------------------------------
(* What holds of the recognizer whoever calls it.                          *)

Scanning == {"advance", "backtrack", "rewind", "decide"}
Control  == Scanning \cup {"unopened", "start", "returned", "thrown", "ended"}

Marks == StateId \cup {ErrorState, BadState}

\* The members, the locals and the history have their types, and the stream
\* never points past its text.
RecognizerTypeOK ==
  /\ input \in Inputs /\ pos \in 0..Len(input) /\ good \in BOOLEAN
  /\ def \in Defs /\ machine \in StateId
  /\ offset \in Int /\ tokenOffset \in Int /\ token \in Int
  /\ bol \in BOOLEAN
  /\ buffered \in Seq(Int) /\ literal \in Seq(Int) /\ consumed \in Seq(Int)
  /\ pc \in Control
  /\ state \in Marks /\ accepted \in Marks /\ stack \in Seq(Marks)
  /\ tokens \in Seq([tag : Int, offset : Int, word : Seq(Int)])

\* The characters the lexer has taken from the stream, in the order of the
\* text: recognized, in the word at hand, waiting to be read again.
InFlight == IF pc \in Scanning THEN literal ELSE <<>>
Seen == (consumed \o InFlight) \o buffered

Ascii == \A i \in DOMAIN input : input[i] < 128

SeenIsText ==
  /\ pos <= Len(Seen)
  /\ good => Len(Seen) = pos
  /\ \A i \in 1..Len(Seen) :
        Seen[i] = IF i <= pos THEN input[i] ELSE EndOfFile

\* However often words overshoot and are rolled back (Lexable.h:312-361), no
\* character of a 7-bit text is lost, doubled, reordered or made up: what was
\* recognized, what the current word holds and what waits in buffered_ are
\* together the text read so far, followed by end-of-file symbols only.
ReadConservation == Ascii => SeenIsText

\* offset_, which nextChar() and rollback() count up and down in five places,
\* always is the number of reads made of the stream less the characters that
\* wait in buffered_ (Lexable.h:413-460).
Reads == IF good THEN pos ELSE pos + 1
OffsetCountsReads == offset = Reads - Len(buffered)

\* The offset a token carries, and the one LexerError carries, is where its
\* word starts in the text (Lexable.h:300, 369).
WordStart == IF Len(consumed) <= pos THEN Len(consumed) ELSE pos
OffsetIsPosition ==
  /\ pc \in Scanning => tokenOffset = WordStart
  /\ pc = "thrown" => offset = WordStart

\* What that takes: the end of the file is matched by rules that end with it, not by
\* one that goes on and reads past it, nor by one that only looks ahead to it.
EndsWithEof(d, q) ==
  IsAcceptState(d, q) /\ ~HasLookahead(d, q) /\ Apply(d, q, EndOfFile) = ErrorState
EofEndsWords ==
  /\ \A text \in Inputs : \A i \in DOMAIN text : text[i] < 128
  /\ \A d \in Defs : \A t \in DOMAIN d.transitions :
       t[2] = EndOfFile => EndsWithEof(d, d.transitions[t])

\* stack and literal move in lockstep: BadState lies at the bottom, and above
\* it the state in which each character of the word was read, so that going
\* back by one state is going back by one character, and the stack is never
\* popped empty-handed.  A word that matches nothing has been given back to the
\* last character when LexerError is thrown (Lexable.h:325-369).
Lockstep ==
  /\ Len(stack) = Len(literal) + 1
  /\ stack[1] = BadState
  /\ \A i \in 2..Len(stack) : stack[i] # BadState
  /\ state # BadState
RolledBack == state = BadState /\ stack = <<>> /\ literal = <<>>
StackMatchesWord ==
  /\ pc = "advance" => Lockstep
  /\ pc \in {"backtrack", "rewind"} => Lockstep \/ RolledBack
  /\ pc = "rewind" => HasLookahead(def, accepted)
  /\ pc = "decide" /\ ~IsAcceptState(def, state) => literal = <<>>

\* The begin-of-line flag that selects the automaton tells whether the text
\* recognized so far is empty or ends in a line feed (Lexable.h:374, 379).
BolFollowsText ==
  pc \in {"start", "returned"} \cup Scanning =>
    (bol <=> consumed = <<>> \/ Last(consumed) = LineFeed)

=============================================================================
