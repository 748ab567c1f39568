------------------------- MODULE LexerIteratorProofs -------------------------
(***************************************************************************)
(* Theorems about LexerIterator, for every set of lexer definitions, every *)
(* set of texts, any number of passes, and with or without read errors and *)
(* machine switches.                                                       *)
(***************************************************************************)
EXTENDS LexerIterator, RecognizerProofs

\* The inductive invariant.  The stack invariant is what keeps types: it says
\* that a state is only popped off a stack that has one.  Conservation and the
\* offset rest on both.
IInv ==
  /\ TypeOK
  /\ StackMatchesWord
  /\ OffsetCountsReads
  /\ ReadConservation

\* A fresh iterator on a fresh stream satisfies it.
LEMMA InitIInv == Init => IInv
<1> SUFFICES ASSUME Init PROVE IInv
  OBVIOUS
<1> USE DEF Init, FreshStream, FreshLexer, NoToken, NoWord, NoHistory
<1>1. def \in Defs /\ input \in Inputs
  OBVIOUS
<1>2. machine \in StateId
  BY <1>1, DefTypes
<1>3. Len(input) \in Nat
  BY <1>1, InputsAssumption, LenProperties
<1>4. RecognizerTypeOK
  BY <1>1, <1>2, <1>3 DEF RecognizerTypeOK, Control, Scanning, Marks
<1>5. TypeOK
  BY <1>4, ClientAssumption DEF TypeOK
<1>6. StackMatchesWord
  BY DEF StackMatchesWord
<1>7. OffsetCountsReads
  BY DEF OffsetCountsReads, Reads
<1>8. ReadConservation
  <2>1. Seen = <<>>
    BY DEF Seen, InFlight, Scanning
  <2> QED
    BY <2>1 DEF ReadConservation, SeenIsText
<1> QED
  BY <1>5, <1>6, <1>7, <1>8 DEF IInv

\* begin() makes a fresh iterator of whatever the last one left behind.
LEMMA BeginIInv == IInv /\ Begin => IInv'
<1> SUFFICES ASSUME IInv, Begin PROVE IInv'
  OBVIOUS
<1>1. RecognizerTypeOK /\ TypeOK
  BY DEF IInv, TypeOK
<1>2. machine' \in StateId
  BY <1>1, DefTypes DEF Begin, RecognizerTypeOK
<1>3. Len(input) \in Nat
  BY <1>1, InputType
<1>4. RecognizerTypeOK'
  BY <1>1, <1>2, <1>3
     DEF Begin, RecognizerTypeOK, tokenVars, runVars, Control, Scanning
<1>5. TypeOK'
  BY <1>1, <1>4, ClientAssumption DEF Begin, TypeOK, RecognizerTypeOK
<1>6. StackMatchesWord'
  BY DEF Begin, StackMatchesWord
<1>7. OffsetCountsReads'
  BY DEF Begin, OffsetCountsReads, Reads
<1>8. ReadConservation'
  <2>1. Seen' = <<>> /\ pos' = 0
    BY DEF Begin, Seen, InFlight, Scanning
  <2> QED
    BY <2>1 DEF ReadConservation, SeenIsText
<1> QED
  BY <1>5, <1>6, <1>7, <1>8 DEF IInv

\* The steps between two words touch neither the stream nor what was read.
LEMMA BetweenWordsIInv ==
  IInv /\ (Increment \/ SetMachine \/ Leave) => IInv'
<1> SUFFICES ASSUME IInv, Increment \/ SetMachine \/ Leave PROVE IInv'
  OBVIOUS
<1>1. RecognizerTypeOK /\ TypeOK
  BY DEF IInv, TypeOK
<1>2. /\ pc = "returned" /\ pc' \in {"start", "returned", "ended"}
      /\ UNCHANGED <<input, pos, good, def, offset, bol, buffered, token,
                     tokenOffset, literal, state, stack, accepted, consumed,
                     tokens, passes, previous>>
  BY DEF Increment, SetMachine, Leave, streamVars, tokenVars, runVars, histVars,
         clientVars
<1>3. machine' \in StateId
  BY <1>1, DefTypes DEF Increment, SetMachine, Leave, RecognizerTypeOK
<1>4. RecognizerTypeOK'
  BY <1>1, <1>2, <1>3 DEF RecognizerTypeOK, Control
<1>5. eof' \in Nat
  BY <1>1 DEF Increment, SetMachine, Leave, clientVars, TypeOK
<1>6. TypeOK'
  BY <1>1, <1>2, <1>4, <1>5 DEF TypeOK
<1>7. StackMatchesWord'
  BY <1>2 DEF StackMatchesWord
<1>8. OffsetCountsReads'
  BY <1>2 DEF IInv, OffsetCountsReads, Reads
<1>9. ReadConservation'
  <2>1. Seen' = Seen
    BY <1>2 DEF Seen, InFlight, Scanning
  <2> QED
    BY <1>2, <2>1 DEF IInv, ReadConservation, Ascii, SeenIsText
<1> QED
  BY <1>6, <1>7, <1>8, <1>9 DEF IInv

\* Every step preserves it.
LEMMA NextIInv == IInv /\ [Next]_vars => IInv'
<1> SUFFICES ASSUME IInv, [Next]_vars PROVE IInv'
  OBVIOUS
<1>1. CASE Begin
  BY <1>1, BeginIInv
<1>2. CASE Increment \/ SetMachine \/ Leave
  BY <1>2, BetweenWordsIInv
<1>3. CASE Word
  <2>1. Recognize /\ UNCHANGED <<eof, passes, previous>>
    BY <1>3 DEF Word, clientVars
  <2>2. /\ RecognizerTypeOK /\ StackMatchesWord
        /\ OffsetCountsReads /\ ReadConservation
    BY DEF IInv, TypeOK
  <2>3. RecognizerTypeOK'
    BY <2>1, <2>2, TypeStep
  <2>4. TypeOK'
    BY <2>1, <2>3 DEF IInv, TypeOK
  <2>5. StackMatchesWord'
    BY <2>1, <2>2, StackStep
  <2>6. OffsetCountsReads'
    BY <2>1, <2>2, OffsetStep
  <2>7. ReadConservation'
    BY <2>1, <2>2, ConservationStep
  <2> QED
    BY <2>4, <2>5, <2>6, <2>7 DEF IInv
<1>4. CASE UNCHANGED vars
  <2>1. UNCHANGED <<recognizerVars, clientVars>>
    BY <1>4 DEF vars
  <2>2. /\ TypeOK' = TypeOK /\ StackMatchesWord' = StackMatchesWord
        /\ OffsetCountsReads' = OffsetCountsReads
    BY <2>1 DEF recognizerVars, clientVars, streamVars, tokenVars, runVars, histVars, TypeOK,
                RecognizerTypeOK, StackMatchesWord, Lockstep, RolledBack, OffsetCountsReads, Reads
  <2>3. ReadConservation' = ReadConservation
    BY <2>1 DEF recognizerVars, streamVars, tokenVars, runVars, histVars, ReadConservation,
                RolledBack, Reads, Ascii, SeenIsText, Seen, InFlight
  <2> QED
    BY <2>2, <2>3 DEF IInv
<1> QED
  BY <1>1, <1>2, <1>3, <1>4 DEF Next

\* IInv is an invariant: types, stack, offset and characters read keep in step
\* through every word and every call of the client (Lexable.h:199-460).
THEOREM Invariance == Spec => []IInv
  BY InitIInv, NextIInv, PTL DEF Spec

\* All members, locals and history variables of the lexer keep their types.
THEOREM TypeCorrect == Spec => []TypeOK
<1>1. IInv => TypeOK
  BY DEF IInv
<1> QED
  BY <1>1, Invariance, PTL

\* The state stack of recognizeOne() is never popped when it is empty, and one
\* state on it stands for one character of the word (Lexable.h:325-361).
THEOREM StackSafety == Spec => []StackMatchesWord
<1>1. IInv => StackMatchesWord
  BY DEF IInv
<1> QED
  BY <1>1, Invariance, PTL

\* offset_ is the number of reads less the characters to be read again, in
\* every state between and within words (Lexable.h:413-460).
THEOREM OffsetCorrect == Spec => []OffsetCountsReads
<1>1. IInv => OffsetCountsReads
  BY DEF IInv
<1> QED
  BY <1>1, Invariance, PTL

\* Rolling back loses, doubles and reorders no character of a 7-bit text,
\* whatever the lexer definition is (Lexable.h:312-361, 413-460).
THEOREM Conservation == Spec => []ReadConservation
<1>1. IInv => ReadConservation
  BY DEF IInv
<1> QED
  BY <1>1, Invariance, PTL

-----------------------------------------------------------------------------
(* The states an automaton goes through on a text.                         *)

\* A text goes on forever as end-of-file symbols.
SymbolAt(text, i) == IF i <= Len(text) THEN text[i] ELSE EndOfFile

\* The states after 0 to h symbols of the text behind its k-th, from state q.
RunOf(d, q, text, k, h) ==
  LET run[n \in 0..h] ==
        IF n = 0 THEN q ELSE Apply(d, run[n - 1], SymbolAt(text, k + n))
  IN  run

IsRunOf(run, d, q, text, k, h) ==
  /\ run \in [0..h -> StateId \cup {ErrorState}]
  /\ run[0] = q
  /\ \A n \in 1..h : run[n] = Apply(d, run[n - 1], SymbolAt(text, k + n))

LEMMA RunExists ==
  ASSUME NEW d \in Defs, NEW q \in StateId, NEW text, NEW k, NEW h \in Nat
  PROVE  IsRunOf(RunOf(d, q, text, k, h), d, q, text, k, h)
<1> DEFINE V == StateId \cup {ErrorState}
           Body(f, n) == IF n = 0 THEN q ELSE Apply(d, f[n - 1], SymbolAt(text, k + n))
           F == CHOOSE f : f = [n \in 0..h |-> Body(f, n)]
           G == [p \in V \X (1..h) |-> Apply(d, p[1], SymbolAt(text, k + p[2]))]
<1>1. RunOf(d, q, text, k, h) = F
  BY DEF RunOf
<1>2. \A x, c : Apply(d, x, c) \in V
  BY DefTypes
<1>3. \E f \in [0..h -> V] : Iterates(f, q, h, G)
  <2>1. G \in [V \X (1..h) -> V]
    BY <1>2
  <2>2. q \in V
    OBVIOUS
  <2> HIDE DEF G, V
  <2> QED
    BY <2>1, <2>2, RecursiveFunction, Zenon
<1>4. PICK f \in [0..h -> V] : Iterates(f, q, h, G)
  BY <1>3
<1>5. f = [n \in 0..h |-> Body(f, n)]
  <2>1. \A n \in 0..h : f[n] = Body(f, n)
    <3> TAKE n \in 0..h
    <3>1. CASE n = 0
      BY <1>4, <3>1 DEF Iterates
    <3>2. CASE n \in 1..h
      <4>1. f[n - 1] \in V /\ n # 0
        BY <3>2
      <4>2. f[n] = G[<<f[n - 1], n>>]
        BY <1>4, <3>2 DEF Iterates
      <4> QED
        BY <3>2, <4>1, <4>2
    <3> QED
      BY <3>1, <3>2
  <2> HIDE DEF Body
  <2> QED
    BY <2>1
<1>6. F = [n \in 0..h |-> Body(F, n)]
  <2> HIDE DEF Body
  <2> QED
    BY <1>5, Zenon
<1> HIDE DEF F
<1>7. \A n \in 0..h : F[n] = Body(F, n)
  <2> HIDE DEF Body
  <2> QED
    BY <1>6, Zenon
<1>8. \A n \in 0..h : F[n] \in V
  BY <1>2, <1>7
<1>9. F \in [0..h -> V]
  <2> HIDE DEF Body, V
  <2> QED
    BY <1>6, <1>8
<1>10. /\ F[0] = q
       /\ \A n \in 1..h : F[n] = Apply(d, F[n - 1], SymbolAt(text, k + n))
  <2>1. 0 \in 0..h /\ \A n \in 1..h : n \in 0..h /\ n # 0
    OBVIOUS
  <2> QED
    BY <1>7, <2>1
<1> QED
  BY <1>1, <1>9, <1>10 DEF IsRunOf

\* The run of the word at hand: that of MaximalMunch.
Horizon == Len(input) + EofReads
WordRun == RunOf(def, InitialState, input, Len(consumed), Horizon)

LEMMA SameRun ==
  /\ Munched!Run = WordRun
  /\ Munched!Horizon = Horizon
  /\ \A i : Munched!Symbol(i) = SymbolAt(input, i)
BY DEF Munched!Run, Munched!Horizon, Munched!Symbol, Munched!StartState, Munched!Apply,
       Munched!EndOfFile, Munched!ErrorState, WordRun, RunOf, Horizon, InitialState,
       SymbolAt, Apply, EndOfFile, ErrorState

\* Every character that the lexer has is the symbol of its place in the text.
ReadToEnd == ~good => pos = Len(input)

LEMMA SeenSymbols ==
  ASSUME IInv, PlainReading, ReadToEnd
  PROVE  \A i \in 1..Len(Seen) : Seen[i] = SymbolAt(input, i)
<1>1. Ascii /\ pos \in 0..Len(input) /\ Len(input) \in Nat
  BY InputType DEF IInv, TypeOK, RecognizerTypeOK, PlainReading, Ascii
<1>2. SeenIsText
  BY <1>1 DEF IInv, ReadConservation
<1> SUFFICES ASSUME NEW i \in 1..Len(Seen) PROVE Seen[i] = SymbolAt(input, i)
  OBVIOUS
<1>3. CASE i <= pos
  BY <1>1, <1>2, <1>3 DEF SeenIsText, SymbolAt
<1>4. CASE i > pos
  <2>1. ~good
    BY <1>1, <1>2, <1>4 DEF SeenIsText
  <2> QED
    BY <1>1, <1>2, <1>4, <2>1 DEF SeenIsText, SymbolAt, ReadToEnd
<1> QED
  BY <1>1, <1>3, <1>4

\* The next symbol, from wherever nextChar() takes it, is that of the text.
LEMMA FetchesSymbol ==
  ASSUME IInv, PlainReading, ReadToEnd,
         FetchBuffered \/ FetchPastEnd \/ FetchEnd \/ FetchByte
  PROVE  /\ Step(SymbolAt(input, Len(consumed) + Len(literal) + 1))
         /\ SymbolAt(input, Len(consumed) + Len(literal) + 1) \in Int
         /\ ReadToEnd'
<1> DEFINE k == Len(consumed) + Len(literal) + 1
<1>t. /\ consumed \in Seq(Int) /\ literal \in Seq(Int) /\ buffered \in Seq(Int)
      /\ pos \in 0..Len(input) /\ Len(input) \in Nat
      /\ Len(consumed) \in Nat /\ Len(literal) \in Nat
  BY InputType DEF IInv, TypeOK, RecognizerTypeOK
<1>a. Ascii /\ SeenIsText /\ RecognizerTypeOK
  BY DEF IInv, TypeOK, RecognizerTypeOK, ReadConservation, PlainReading, Ascii
<1>1. /\ Seen = (consumed \o literal) \o buffered
      /\ Len(Seen) = Len(consumed) + Len(literal) + Len(buffered)
      /\ buffered # <<>> => Seen[k] = Head(buffered)
  <2>1. pc \in Scanning
    BY DEF FetchBuffered, FetchPastEnd, FetchEnd, FetchByte, Advancing, Scanning
  <2>2. Seen = (consumed \o literal) \o buffered
    BY <1>a, <2>1, SeenType
  <2> QED
    BY <1>t, <2>2, PlacesInSeen
<1>2. CASE FetchBuffered
  <2>1. buffered # <<>> /\ Len(buffered) \in Nat /\ Len(buffered) > 0 /\ Head(buffered) \in Int
    BY <1>t, <1>2, EmptySeq, HeadTailProperties DEF FetchBuffered
  <2>2. k \in 1..Len(Seen)
    BY <1>t, <1>1, <2>1
  <2>3. Head(buffered) = SymbolAt(input, k)
    BY <1>1, <2>1, <2>2, SeenSymbols
  <2>4. Step(Head(buffered)) /\ UNCHANGED <<input, pos, good>>
    BY <1>2 DEF FetchBuffered, streamVars
  <2> QED
    BY <2>1, <2>3, <2>4 DEF ReadToEnd
<1>3. CASE FetchPastEnd
  <2>1. buffered = <<>> /\ ~good /\ Step(EndOfFile) /\ UNCHANGED <<input, pos, good>>
    BY <1>3 DEF FetchPastEnd, streamVars
  <2>2. k > Len(input)
    BY <1>a, <1>t, <1>1, <2>1 DEF SeenIsText, ReadToEnd
  <2> QED
    BY <1>t, <2>1, <2>2 DEF SymbolAt, EndOfFile, ReadToEnd
<1>4. CASE FetchEnd
  <2>1. /\ buffered = <<>> /\ good /\ pos = Len(input) /\ Step(EndOfFile)
        /\ UNCHANGED <<input, pos>>
    BY <1>4 DEF FetchEnd, PlainReading
  <2>2. k > Len(input)
    BY <1>a, <1>t, <1>1, <2>1 DEF SeenIsText
  <2> QED
    BY <1>t, <2>1, <2>2 DEF SymbolAt, EndOfFile, ReadToEnd
<1>5. CASE FetchByte
  <2>1. /\ buffered = <<>> /\ good /\ pos < Len(input) /\ Step(input[pos + 1])
        /\ UNCHANGED <<input, good>>
    BY <1>5 DEF FetchByte
  <2>2. k = pos + 1
    <3>1. Len(Seen) = pos /\ Len(buffered) = 0
      BY <1>a, <2>1 DEF SeenIsText
    <3> QED
      BY <1>t, <1>1, <3>1
  <2>3. input[k] \in Int
    BY <1>a, <1>t, <2>1, <2>2, InputType
  <2> QED
    BY <1>t, <2>1, <2>2, <2>3 DEF SymbolAt, ReadToEnd
<1> QED
  BY <1>2, <1>3, <1>4, <1>5

LEMMA RunType ==
  ASSUME IInv
  PROVE  /\ IsRunOf(WordRun, def, InitialState, input, Len(consumed), Horizon)
         /\ Horizon \in Nat /\ Len(consumed) \in Nat /\ Len(input) \in Nat
         /\ def \in Defs
<1>1. /\ RecognizerTypeOK /\ Len(input) \in Nat /\ InitialState \in StateId
      /\ Len(consumed) \in Nat /\ def \in Defs
  BY InputType, InitialStateType DEF IInv, TypeOK, RecognizerTypeOK
<1>2. Horizon \in Nat
  BY <1>1, ClientAssumption DEF Horizon
<1> QED
  BY <1>1, <1>2, RunExists DEF WordRun

\* Within a word the run is one and the same.
LEMMA RunStays ==
  ASSUME UNCHANGED <<input, def, machine, bol, consumed>>
  PROVE  WordRun' = WordRun /\ Horizon' = Horizon
BY DEF WordRun, Horizon, InitialState

LEMMA MarksAreNotFinal ==
  ASSUME NEW d \in Defs
  PROVE  /\ ~IsAcceptState(d, ErrorState) /\ ~IsAcceptState(d, BadState)
         /\ ~HasLookahead(d, BadState)
         /\ \A q : HasLookahead(d, q) => IsAcceptState(d, q)
         /\ \A c : Apply(d, ErrorState, c) = ErrorState
<1>1. IsLexerDef(d)
  BY DefsAssumption
<1> QED
  BY <1>1 DEF IsLexerDef, IsAcceptState, HasLookahead, Apply, StateId, ErrorState, BadState

\* An automaton that is stuck stays so.
LEMMA StuckStays ==
  ASSUME IInv, NEW n \in 0..Horizon, WordRun[n] = ErrorState
  PROVE  \A m \in n..Horizon : WordRun[m] = ErrorState
<1>1. /\ Horizon \in Nat /\ def \in Defs
      /\ \A m \in 1..Horizon :
           \E c : WordRun[m] = Apply(def, WordRun[m - 1], c)
  BY RunType DEF IsRunOf
<1> DEFINE I == {i \in Nat : n + i <= Horizon => WordRun[n + i] = ErrorState}
<1>2. 0 \in I
  BY <1>1
<1>3. \A i \in Nat : i \in I => i + 1 \in I
  <2> SUFFICES ASSUME NEW i \in Nat, i \in I, n + (i + 1) <= Horizon
               PROVE  WordRun[n + (i + 1)] = ErrorState
    OBVIOUS
  <2> DEFINE m == n + (i + 1)
  <2>1. m \in 1..Horizon /\ m - 1 = n + i /\ n + i <= Horizon
    BY <1>1
  <2>2. WordRun[m - 1] = ErrorState
    BY <2>1
  <2> HIDE DEF m, I
  <2>3. WordRun[m] = ErrorState
    BY <1>1, <2>1, <2>2, MarksAreNotFinal
  <2> QED
    BY <2>3 DEF m
<1>4. \A i \in Nat : i \in I
  <2> HIDE DEF I
  <2> QED
    BY <1>2, <1>3, SetInduction
<1> SUFFICES ASSUME NEW m \in n..Horizon PROVE WordRun[m] = ErrorState
  OBVIOUS
<1>5. m - n \in Nat /\ n + (m - n) = m /\ m <= Horizon
  BY <1>1
<1>6. m - n \in I
  BY <1>4, <1>5
<1> QED
  BY <1>5, <1>6

\* No run goes on beyond the horizon.
LEMMA RunEnds ==
  ASSUME IInv, PlainReading
  PROVE  WordRun[Horizon] = ErrorState
<1> DEFINE E == EofReads
           L == Len(input)
           path == [i \in 0..E |-> WordRun[L + i]]
<1>1. /\ Horizon = L + E /\ E \in Nat \ {0} /\ L \in Nat /\ def \in Defs
      /\ Len(consumed) \in Nat
      /\ \A n \in 1..Horizon :
           WordRun[n] = Apply(def, WordRun[n - 1], SymbolAt(input, Len(consumed) + n))
  BY RunType, ClientAssumption DEF IsRunOf, Horizon
<1> SUFFICES ASSUME WordRun[Horizon] # ErrorState PROVE FALSE
  OBVIOUS
<1>2. \A n \in 0..Horizon : WordRun[n] # ErrorState
  BY <1>1, StuckStays
<1>3. \A i \in 1..E : path[i] = Apply(def, path[i - 1], EndOfFile)
  <2> TAKE i \in 1..E
  <2>1. /\ L + i \in 1..Horizon /\ (L + i) - 1 = L + (i - 1) /\ i - 1 \in 0..E /\ i \in 0..E
        /\ Len(consumed) + (L + i) > L
    BY <1>1
  <2>2. SymbolAt(input, Len(consumed) + (L + i)) = EndOfFile
    BY <1>1, <2>1 DEF SymbolAt
  <2>3. WordRun[L + i] = Apply(def, WordRun[L + (i - 1)], EndOfFile)
    BY <1>1, <2>1, <2>2
  <2> QED
    BY <2>1, <2>3
<1>4. \A i \in 0..E : path[i] # ErrorState
  BY <1>1, <1>2
<1>5. \A i \in 0..E : path[i] \in StatesOf(def)
  <2>1. ASSUME NEW i \in 1..E
        PROVE  path[i] \in StatesOf(def) /\ path[i - 1] \in StatesOf(def)
    <3> DEFINE t == <<path[i - 1], EndOfFile>>
    <3>1. i \in 0..E /\ path[i] # ErrorState
      BY <1>1, <1>4
    <3>2. path[i] = Apply(def, path[i - 1], EndOfFile)
      BY <1>3
    <3> HIDE DEF path
    <3>3. t \in DOMAIN def.transitions /\ path[i] = def.transitions[t]
      BY <3>1, <3>2 DEF Apply
    <3>4. t[1] = path[i - 1]
      OBVIOUS
    <3> HIDE DEF t
    <3> QED
      BY <3>3, <3>4 DEF StatesOf, Range
  <2>2. \A i \in 0..E : i \in 1..E \/ (i = 0 /\ 1 \in 1..E /\ 1 - 1 = 0)
    BY <1>1
  <2> HIDE DEF path
  <2> QED
    BY <2>1, <2>2
<1>6. path \in [0..E -> StatesOf(def)]
  BY <1>5
<1> HIDE DEF path
<1> QED
  BY <1>1, <1>3, <1>6 DEF PlainReading

-----------------------------------------------------------------------------
(* What of the run a word in the making stands for.                        *)

\* state is where the characters of the word lead, and the states they came
\* through lie on the stack.
OnRun ==
  /\ Len(literal) <= Horizon
  /\ state = WordRun[Len(literal)]
  /\ \A i \in 1..Len(literal) : stack[i + 1] = WordRun[i - 1]

NoneFinal(from) == \A m \in from..Horizon : ~IsAcceptState(def, WordRun[m])

IsLongest(l) ==
  l \in 0..Horizon /\ IsAcceptState(def, WordRun[l]) /\ NoneFinal(l + 1)

\* After none of so many symbols was the automaton at the end of r, in a rule r/s.
NoEnd(l, from) == \A m \in from..l : WordRun[m] # def.backtrackingStates[WordRun[l]]

\* The word of the longest match l has n characters.
EndsWord(l, n) ==
  IF HasLookahead(def, WordRun[l])
  THEN \/ /\ n \in 0..l /\ NoEnd(l, n + 1)
          /\ WordRun[n] = def.backtrackingStates[WordRun[l]]
       \/ n = 0 /\ NoEnd(l, 0)
  ELSE n = l

RewindsFrom(l) ==
  /\ IsLongest(l) /\ accepted = WordRun[l] /\ HasLookahead(def, accepted)
  /\ IF state = BadState THEN NoEnd(l, 0)
     ELSE OnRun /\ Len(literal) <= l /\ NoEnd(l, Len(literal) + 1)

Matching ==
  /\ ReadToEnd
  /\ pc = "advance" => OnRun
  /\ pc = "backtrack" =>
       IF state = BadState THEN NoneFinal(0) ELSE OnRun /\ NoneFinal(Len(literal) + 1)
  /\ pc = "rewind" => \E l : RewindsFrom(l)
  /\ pc = "decide" =>
       IF IsAcceptState(def, state)
       THEN \E l : IsLongest(l) /\ state = WordRun[l] /\ EndsWord(l, Len(literal))
       ELSE NoneFinal(0)

\* Reading a symbol is a step of the run.
LEMMA FetchMatching ==
  ASSUME IInv, PlainReading, Matching,
         FetchBuffered \/ FetchPastEnd \/ FetchEnd \/ FetchByte
  PROVE  Matching'
<1> DEFINE n == Len(literal)
           c == SymbolAt(input, Len(consumed) + n + 1)
<1>t. /\ literal \in Seq(Int) /\ n \in Nat /\ stack \in Seq(Marks)
      /\ RecognizerTypeOK /\ Len(input) \in Nat
  BY InputType DEF IInv, TypeOK, RecognizerTypeOK
<1>1. /\ pc = "advance" /\ state # ErrorState /\ OnRun /\ Lockstep
      /\ UNCHANGED <<input, def, machine, bol, consumed, pc>>
  BY DEF FetchBuffered, FetchPastEnd, FetchEnd, FetchByte, Advancing, Step, streamVars,
         histVars, Matching, IInv, StackMatchesWord
<1>2. Step(c) /\ c \in Int /\ ReadToEnd'
  BY FetchesSymbol DEF Matching
<1> HIDE DEF c
<1>3. WordRun' = WordRun /\ Horizon' = Horizon
  BY <1>1, RunStays
<1>4. /\ n < Horizon /\ Horizon \in Nat
      /\ WordRun[n + 1] = Apply(def, WordRun[n], SymbolAt(input, Len(consumed) + (n + 1)))
  <2>1. n # Horizon
    BY <1>1, RunEnds DEF OnRun
  <2>2. n + 1 \in 1..Horizon /\ (n + 1) - 1 = n /\ Horizon \in Nat
    BY <1>t, <1>1, <2>1, RunType DEF OnRun
  <2> QED
    BY <2>2, RunType DEF IsRunOf
<1>5. Len(consumed) + n + 1 = Len(consumed) + (n + 1)
  BY <1>t, RunType
<1>6. Len(literal') = n + 1
  BY <1>t, <1>2, StepType
<1>7. state' = WordRun[n + 1]
  <2>1. state' = Apply(def, state, c) /\ state = WordRun[n]
    BY <1>1, <1>2 DEF Step, OnRun
  <2> QED
    BY <1>4, <1>5, <2>1 DEF c
<1>8. \A i \in 1..n + 1 : stack'[i + 1] = WordRun[i - 1]
  <2>1. stack' = Append(stack, state) /\ Len(stack) = n + 1 /\ state = WordRun[n]
    BY <1>1, <1>2 DEF Step, Lockstep, OnRun
  <2>2. state \in Marks
    BY <1>t DEF RecognizerTypeOK
  <2>3. stack'[(n + 1) + 1] = state /\ \A i \in 1..n : stack'[i + 1] = stack[i + 1]
    BY <1>t, <2>1, <2>2
  <2>4. \A i \in 1..n : stack[i + 1] = WordRun[i - 1]
    BY <1>1 DEF OnRun
  <2>5. \A i \in 1..n + 1 : i \in 1..n \/ (i = n + 1 /\ i - 1 = n)
    BY <1>t
  <2> QED
    BY <2>1, <2>3, <2>4, <2>5
<1>9. OnRun'
  BY <1>3, <1>4, <1>6, <1>7, <1>8, <1>t DEF OnRun
<1> QED
  BY <1>1, <1>2, <1>9 DEF Matching

\* Going back by a character is a step back on the run.
LEMMA PopOnRun ==
  ASSUME IInv, OnRun, Lockstep, PopState
  PROVE  /\ WordRun' = WordRun /\ Horizon' = Horizon
         /\ literal = <<>> => state' = BadState
         /\ literal # <<>> =>
              OnRun' /\ Len(literal') = Len(literal) - 1 /\ state' # BadState
<1> DEFINE n == Len(literal)
<1>t. /\ literal \in Seq(Int) /\ n \in Nat /\ stack \in Seq(Marks) /\ RecognizerTypeOK
      /\ Horizon \in Nat
  BY RunType DEF IInv, TypeOK, RecognizerTypeOK
<1>1. UNCHANGED <<input, def, machine, bol, consumed, pc, good, pos>>
  BY DEF PopState, streamVars, histVars
<1>2. WordRun' = WordRun /\ Horizon' = Horizon
  BY <1>1, RunStays
<1>3. Len(stack) = n + 1 /\ stack # <<>> /\ stack[1] = BadState
  BY <1>t DEF Lockstep
<1>4. state' = stack[n + 1] /\ stack' = Front(stack)
  BY <1>3 DEF PopState, Last
<1>5. literal = <<>> => state' = BadState
  BY <1>3, <1>4
<1>6. ASSUME literal # <<>>
      PROVE  OnRun' /\ Len(literal') = n - 1 /\ state' # BadState
  <2>1. n > 0 /\ n - 1 \in Nat
    BY <1>t, <1>6, EmptySeq
  <2>2. Len(literal') = n - 1
    BY <1>t, <1>6, FrontLast DEF PopState
  <2>3. state' = WordRun[n - 1]
    BY <1>4, <2>1 DEF OnRun
  <2>4. \A i \in 1..n - 1 : stack'[i + 1] = WordRun[i - 1]
    <3>1. \A i \in 1..n - 1 : i + 1 \in 1..Len(stack) - 1 /\ i \in 1..n
      BY <1>t, <1>3
    <3>2. \A i \in 1..n - 1 : stack'[i + 1] = stack[i + 1]
      BY <1>t, <1>3, <1>4, <3>1, FrontLast
    <3> QED
      BY <3>1, <3>2 DEF OnRun
  <2>5. n - 1 <= Horizon
    BY <1>t, <2>1 DEF OnRun
  <2>6. state' # BadState
    <3>1. n + 1 \in 2..Len(stack)
      BY <1>3, <2>1
    <3> QED
      BY <1>4, <3>1 DEF Lockstep
  <2> QED
    BY <1>2, <2>2, <2>3, <2>4, <2>5, <2>6 DEF OnRun
<1> QED
  BY <1>2, <1>5, <1>6

\* The first loop back stops at the longest match, or nowhere.
LEMMA BacktrackMatching ==
  ASSUME IInv, Matching, Backtrack
  PROVE  Matching'
<1> DEFINE n == Len(literal)
<1>1. /\ pc = "backtrack" /\ pc' = pc /\ state # BadState /\ ~IsAcceptState(def, state)
      /\ PopState /\ UNCHANGED <<input, good, pos, def>>
  BY DEF Backtrack, Backtracking, PopState, streamVars
<1>2. OnRun /\ NoneFinal(n + 1) /\ ReadToEnd
  BY <1>1 DEF Matching
<1>3. Lockstep
  BY <1>1 DEF IInv, StackMatchesWord, RolledBack
<1>4. NoneFinal(n)
  <2>1. n \in Nat
    BY DEF IInv, TypeOK, RecognizerTypeOK
  <2>2. \A m \in n..Horizon : m = n \/ m \in n + 1..Horizon
    BY <2>1, RunType
  <2>3. ~IsAcceptState(def, WordRun[n])
    BY <1>1, <1>2 DEF OnRun
  <2> QED
    BY <1>2, <2>2, <2>3 DEF NoneFinal
<1>5. /\ WordRun' = WordRun /\ Horizon' = Horizon
      /\ literal = <<>> => state' = BadState
      /\ literal # <<>> => OnRun' /\ Len(literal') = n - 1 /\ state' # BadState
  BY <1>1, <1>2, <1>3, PopOnRun
<1>6. ReadToEnd'
  BY <1>1, <1>2 DEF ReadToEnd
<1>7. CASE literal = <<>>
  <2>1. n = 0
    BY <1>7
  <2>2. NoneFinal(0)' /\ state' = BadState
    BY <1>1, <1>4, <1>5, <1>7, <2>1 DEF NoneFinal
  <2> QED
    BY <1>1, <1>6, <2>2 DEF Matching
<1>8. CASE literal # <<>>
  <2>1. n \in Nat /\ Len(literal') = n - 1 /\ Len(literal') + 1 = n
    BY <1>5, <1>8 DEF IInv, TypeOK, RecognizerTypeOK
  <2>2. NoneFinal(Len(literal) + 1)'
    BY <1>1, <1>4, <1>5, <2>1 DEF NoneFinal
  <2> QED
    BY <1>1, <1>5, <1>6, <1>8, <2>2 DEF Matching
<1> QED
  BY <1>7, <1>8

\* The second loop stops at the last place where the automaton was at the end of r.
LEMMA RewindMatching ==
  ASSUME IInv, Matching, Rewind
  PROVE  Matching'
<1> DEFINE n == Len(literal)
<1>1. /\ pc = "rewind" /\ pc' = pc /\ stack # <<>>
      /\ state # def.backtrackingStates[accepted]
      /\ PopState /\ UNCHANGED <<input, good, pos, def, accepted>>
  BY DEF Rewind, Rewinding, PopState, streamVars
<1>2. PICK l : RewindsFrom(l)
  BY <1>1 DEF Matching
<1>3. Lockstep /\ state # BadState
  BY <1>1 DEF IInv, StackMatchesWord, RolledBack, Lockstep
<1>4. /\ IsLongest(l) /\ accepted = WordRun[l] /\ HasLookahead(def, accepted)
      /\ OnRun /\ n <= l /\ NoEnd(l, n + 1)
  BY <1>2, <1>3 DEF RewindsFrom
<1>5. n \in Nat /\ l \in Nat
  BY <1>4, RunType DEF IInv, TypeOK, RecognizerTypeOK, IsLongest
<1>6. NoEnd(l, n)
  <2>1. \A m \in n..l : m = n \/ m \in n + 1..l
    BY <1>5
  <2>2. WordRun[n] # def.backtrackingStates[WordRun[l]]
    BY <1>1, <1>4 DEF OnRun
  <2> QED
    BY <1>4, <2>1, <2>2 DEF NoEnd
<1>7. /\ WordRun' = WordRun /\ Horizon' = Horizon
      /\ literal = <<>> => state' = BadState
      /\ literal # <<>> => OnRun' /\ Len(literal') = n - 1 /\ state' # BadState
  BY <1>1, <1>3, <1>4, PopOnRun
<1>8. IsLongest(l)' /\ (accepted = WordRun[l] /\ HasLookahead(def, accepted))'
  BY <1>1, <1>4, <1>7 DEF IsLongest, NoneFinal, HasLookahead, IsAcceptState
<1>9. RewindsFrom(l)'
  <2>1. CASE literal = <<>>
    <3>1. n = 0
      BY <2>1
    <3>2. NoEnd(l, 0)' /\ state' = BadState
      BY <1>1, <1>6, <1>7, <2>1, <3>1 DEF NoEnd
    <3> QED
      BY <1>8, <3>2 DEF RewindsFrom
  <2>2. CASE literal # <<>>
    <3>1. Len(literal') = n - 1 /\ Len(literal') + 1 = n /\ Len(literal') <= l
      BY <1>4, <1>5, <1>7, <2>2
    <3>2. NoEnd(l, Len(literal) + 1)'
      BY <1>1, <1>6, <1>7, <3>1 DEF NoEnd
    <3> QED
      BY <1>7, <1>8, <2>2, <3>1, <3>2 DEF RewindsFrom
  <2> QED
    BY <2>1, <2>2
<1>10. ReadToEnd'
  BY <1>1 DEF Matching, ReadToEnd
<1> QED
  BY <1>1, <1>9, <1>10 DEF Matching

LEMMA StartMatching ==
  ASSUME IInv, Matching, StartWord
  PROVE  Matching'
<1>1. /\ pc' = "advance" /\ literal' = <<>> /\ state' = InitialState
      /\ UNCHANGED <<input, good, pos, def, machine, bol, consumed>>
  BY DEF StartWord, streamVars, histVars
<1>2. WordRun' = WordRun /\ Horizon' = Horizon
  BY <1>1, RunStays
<1>3. Horizon \in Nat /\ WordRun[0] = InitialState
  BY RunType DEF IsRunOf
<1>4. OnRun'
  <2>1. Len(literal') = 0
    BY <1>1
  <2>2. \A i \in 1..0 : FALSE
    OBVIOUS
  <2> QED
    BY <1>1, <1>2, <1>3, <2>1, <2>2 DEF OnRun
<1>5. ReadToEnd'
  BY <1>1 DEF Matching, ReadToEnd
<1> QED
  BY <1>1, <1>4, <1>5 DEF Matching

LEMMA StopMatching ==
  ASSUME IInv, Matching, StopAdvance \/ StopBacktrack \/ StopRewind
  PROVE  Matching'
<1> DEFINE n == Len(literal)
<1>1. UNCHANGED <<input, good, pos, def, machine, bol, consumed, literal, stack>>
  BY DEF StopAdvance, StopBacktrack, StopRewind, streamVars, histVars, runVars
<1>2. WordRun' = WordRun /\ Horizon' = Horizon
  BY <1>1, RunStays
<1>3. ReadToEnd'
  BY <1>1 DEF Matching, ReadToEnd
<1>4. n \in Nat /\ def \in Defs /\ Horizon \in Nat
  BY RunType DEF IInv, TypeOK, RecognizerTypeOK
<1>u. OnRun /\ UNCHANGED state => OnRun'
  BY <1>1, <1>2 DEF OnRun
<1>5. CASE StopAdvance
  <2>1. pc = "advance" /\ pc' = "backtrack" /\ state = ErrorState /\ UNCHANGED state
    BY <1>5 DEF StopAdvance, runVars
  <2>2. OnRun
    BY <2>1 DEF Matching
  <2>3. NoneFinal(n + 1)
    <3>1. n \in 0..Horizon /\ WordRun[n] = ErrorState
      BY <1>4, <2>1, <2>2 DEF OnRun
    <3>2. \A m \in n..Horizon : WordRun[m] = ErrorState
      BY <3>1, StuckStays
    <3>3. \A m \in n + 1..Horizon : m \in n..Horizon
      BY <1>4
    <3> QED
      BY <1>4, <3>2, <3>3, MarksAreNotFinal DEF NoneFinal
  <2>4. NoneFinal(Len(literal) + 1)'
    BY <1>1, <1>2, <2>3 DEF NoneFinal
  <2>5. state' # BadState
    BY <2>1 DEF ErrorState, BadState
  <2> QED
    BY <1>3, <1>u, <2>1, <2>2, <2>4, <2>5 DEF Matching
<1>6. CASE StopBacktrack
  <2>1. /\ pc = "backtrack" /\ accepted' = state /\ UNCHANGED state
        /\ state = BadState \/ IsAcceptState(def, state)
        /\ pc' = IF HasLookahead(def, state) THEN "rewind" ELSE "decide"
    BY <1>6 DEF StopBacktrack, Backtracking
  <2>2. CASE state = BadState
    <3>1. pc' = "decide" /\ ~IsAcceptState(def, state)
      BY <1>4, <2>1, <2>2, MarksAreNotFinal
    <3>2. NoneFinal(0)
      BY <2>1, <2>2 DEF Matching
    <3>3. NoneFinal(0)' /\ ~IsAcceptState(def, state)'
      BY <1>1, <1>2, <2>1, <3>1, <3>2 DEF NoneFinal, IsAcceptState
    <3> QED
      BY <1>3, <3>1, <3>3 DEF Matching
  <2>3. CASE state # BadState
    <3>1. OnRun /\ NoneFinal(n + 1) /\ IsAcceptState(def, state)
      BY <2>1, <2>3 DEF Matching
    <3>2. IsLongest(n) /\ state = WordRun[n]
      BY <1>4, <3>1 DEF OnRun, IsLongest
    <3>3. IsLongest(n)' /\ state' = WordRun'[n] /\ UNCHANGED n
      BY <1>1, <1>2, <2>1, <3>2 DEF IsLongest, NoneFinal, IsAcceptState
    <3>4. CASE HasLookahead(def, state)
      <4>1. pc' = "rewind" /\ (accepted = WordRun[n] /\ HasLookahead(def, accepted))'
        BY <1>1, <2>1, <3>3, <3>4 DEF HasLookahead
      <4>2. NoEnd(n, Len(literal) + 1)'
        BY <1>1, <1>4 DEF NoEnd
      <4>3. RewindsFrom(n)'
        BY <1>1, <1>4, <1>u, <2>1, <2>3, <3>1, <3>3, <4>1, <4>2 DEF RewindsFrom
      <4> QED
        BY <1>3, <4>1, <4>3 DEF Matching
    <3>5. CASE ~HasLookahead(def, state)
      <4>1. pc' = "decide" /\ ~HasLookahead(def, WordRun[n])' /\ IsAcceptState(def, state)'
        BY <1>1, <1>2, <2>1, <3>1, <3>2, <3>5 DEF HasLookahead, IsAcceptState
      <4>2. EndsWord(n, Len(literal))'
        BY <1>1, <4>1 DEF EndsWord
      <4> QED
        BY <1>3, <3>3, <4>1, <4>2 DEF Matching
    <3> QED
      BY <3>4, <3>5
  <2> QED
    BY <2>2, <2>3
<1>7. CASE StopRewind
  <2>1. /\ pc = "rewind" /\ pc' = "decide" /\ state' = accepted /\ UNCHANGED accepted
        /\ stack = <<>> \/ state = def.backtrackingStates[accepted]
    BY <1>7 DEF StopRewind, Rewinding
  <2>2. PICK l : RewindsFrom(l)
    BY <2>1 DEF Matching
  <2>3. IsLongest(l) /\ accepted = WordRun[l] /\ HasLookahead(def, WordRun[l]) /\ l \in Nat
    BY <1>4, <2>2 DEF RewindsFrom, IsLongest
  <2>4. (IsLongest(l) /\ state = WordRun[l] /\ IsAcceptState(def, state))'
    BY <1>1, <1>2, <2>1, <2>3 DEF IsLongest, NoneFinal, IsAcceptState
  <2>5. Lockstep \/ RolledBack
    BY <2>1 DEF IInv, StackMatchesWord
  <2>6. EndsWord(l, n)
    <3>1. CASE state = BadState
      <4>1. n = 0
        BY <2>5, <3>1 DEF Lockstep, RolledBack
      <4> QED
        BY <2>2, <2>3, <3>1, <4>1 DEF RewindsFrom, EndsWord
    <3>2. CASE state # BadState
      <4>1. Lockstep /\ stack # <<>>
        <5>1. Len(stack) = n + 1
          BY <2>5, <3>2 DEF Lockstep, RolledBack
        <5>2. stack # <<>>
          BY <1>4, <5>1
        <5> QED
          BY <2>5, <3>2, <5>2 DEF RolledBack
      <4>2. OnRun /\ n <= l /\ NoEnd(l, n + 1) /\ state = def.backtrackingStates[WordRun[l]]
        BY <2>1, <2>2, <2>3, <3>2, <4>1 DEF RewindsFrom
      <4> QED
        BY <1>4, <2>3, <4>2 DEF EndsWord, OnRun
    <3> QED
      BY <3>1, <3>2
  <2>7. EndsWord(l, Len(literal))'
    BY <1>1, <1>2, <2>6 DEF EndsWord, NoEnd, HasLookahead
  <2> QED
    BY <1>3, <2>1, <2>4, <2>7 DEF Matching
<1> QED
  BY <1>5, <1>6, <1>7

LEMMA NextMatching ==
  ASSUME IInv, PlainReading, Matching, [Next]_vars
  PROVE  Matching'
<1>1. CASE Begin
  <2>1. pc' = "start" /\ good'
    BY <1>1 DEF Begin
  <2> QED
    BY <2>1 DEF Matching, ReadToEnd
<1>2. CASE Increment \/ SetMachine \/ Leave
  <2>1. pc' \in {"start", "returned", "ended"} /\ UNCHANGED <<input, pos, good>>
    BY <1>2 DEF Increment, SetMachine, Leave, streamVars
  <2> QED
    BY <2>1 DEF Matching, ReadToEnd
<1>3. CASE Word
  <2>1. CASE FetchBuffered \/ FetchPastEnd \/ FetchEnd \/ FetchByte
    BY <2>1, FetchMatching
  <2>2. CASE Fail \/ Accept
    <3>1. pc' \in {"thrown", "start", "returned"} /\ UNCHANGED <<input, pos, good>>
      BY <2>2 DEF Fail, Accept, streamVars
    <3> QED
      BY <3>1 DEF Matching, ReadToEnd
  <2> QED
    BY <1>3, <2>1, <2>2, StartMatching, StopMatching, BacktrackMatching, RewindMatching
    DEF Word, Recognize
<1>4. CASE UNCHANGED vars
  <2>1. /\ UNCHANGED <<input, pos, good, def, machine, bol, literal, pc, state, stack,
                       accepted, consumed>>
    BY <1>4 DEF vars, recognizerVars, streamVars, runVars, histVars
  <2>2. WordRun' = WordRun /\ Horizon' = Horizon
    BY <2>1, RunStays
  <2> QED
    BY <2>1, <2>2 DEF Matching, ReadToEnd, OnRun, NoneFinal, RewindsFrom, IsLongest, NoEnd,
       EndsWord, IsAcceptState, HasLookahead
<1> QED
  BY <1>1, <1>2, <1>3, <1>4 DEF Next

-----------------------------------------------------------------------------
(* MaximalMunch takes a word where Accept does, and nowhere else.          *)

LEMMA MaxIs ==
  ASSUME NEW S, NEW x \in S, x \in Int, \A y \in S : y \in Int /\ y <= x
  PROVE  Munched!Max(S) = x
<1> DEFINE m == CHOOSE z \in S : \A y \in S : z >= y
<1>1. \E z \in S : \A y \in S : z >= y
  OBVIOUS
<1>2. m \in S /\ \A y \in S : m >= y
  BY <1>1
<1> HIDE DEF m
<1>3. m = x
  BY <1>2
<1> QED
  BY <1>3 DEF m, Munched!Max

\* The longest match and the word are those of MaximalMunch.
LEMMA LongestIs ==
  ASSUME IInv, NEW l, IsLongest(l)
  PROVE  Munched!Matches # {} /\ Munched!Longest = l
<1>1. /\ Munched!Matches = {n \in 0..Horizon : IsAcceptState(def, WordRun[n])}
      /\ Horizon \in Nat
  BY SameRun, RunType DEF Munched!Matches, Munched!IsAcceptState, IsAcceptState
<1>2. l \in Munched!Matches /\ l \in Int
  BY <1>1 DEF IsLongest
<1>3. \A y \in Munched!Matches : y \in Int /\ y <= l
  <2> TAKE y \in Munched!Matches
  <2>1. y \in 0..Horizon /\ IsAcceptState(def, WordRun[y])
    BY <1>1
  <2>2. y \notin l + 1..Horizon
    BY <2>1 DEF IsLongest, NoneFinal
  <2> QED
    BY <1>1, <1>2, <2>1, <2>2
<1>4. Munched!Max(Munched!Matches) = l
  BY <1>2, <1>3, MaxIs
<1> QED
  BY <1>2, <1>4 DEF Munched!Longest

LEMMA WordLengthIs ==
  ASSUME IInv, NEW l, IsLongest(l), NEW n, EndsWord(l, n)
  PROVE  Munched!WordLength = n
<1> DEFINE b == def.backtrackingStates[WordRun[l]]
           ends == {m \in 0..l : WordRun[m] = b}
<1>1. /\ Munched!Longest = l /\ l \in Nat
      /\ Munched!HasLookahead(def, WordRun[l]) <=> HasLookahead(def, WordRun[l])
  BY LongestIs, RunType DEF IsLongest, Munched!HasLookahead, HasLookahead
<1>2. Munched!WordLength = IF HasLookahead(def, WordRun[l])
                           THEN IF ends = {} THEN 0 ELSE Munched!Max(ends)
                           ELSE l
  BY <1>1, SameRun DEF Munched!WordLength
<1>3. CASE ~HasLookahead(def, WordRun[l])
  BY <1>2, <1>3 DEF EndsWord
<1>4. CASE HasLookahead(def, WordRun[l]) /\ n \in 0..l /\ NoEnd(l, n + 1) /\ WordRun[n] = b
  <2>1. n \in ends /\ n \in Int
    BY <1>4
  <2>2. \A y \in ends : y \in Int /\ y <= n
    <3> TAKE y \in ends
    <3>1. y \in 0..l /\ y \notin n + 1..l
      BY <1>4 DEF NoEnd
    <3> QED
      BY <1>1, <1>4, <3>1
  <2> HIDE DEF ends
  <2>3. Munched!Max(ends) = n
    BY <2>1, <2>2, MaxIs
  <2> QED
    BY <1>2, <1>4, <2>1, <2>3
<1>5. CASE HasLookahead(def, WordRun[l]) /\ n = 0 /\ NoEnd(l, 0)
  <2>1. ends = {}
    BY <1>5 DEF NoEnd
  <2> QED
    BY <1>2, <1>5, <2>1
<1> QED
  BY <1>3, <1>4, <1>5 DEF EndsWord

\* The word at hand is the text from where it starts.
LEMMA WordIsText ==
  ASSUME IInv, PlainReading, ReadToEnd, pc \in Scanning
  PROVE  literal = [i \in 1..Len(literal) |-> SymbolAt(input, Len(consumed) + i)]
<1>t. /\ consumed \in Seq(Int) /\ literal \in Seq(Int) /\ buffered \in Seq(Int)
      /\ RecognizerTypeOK
  BY DEF IInv, TypeOK, RecognizerTypeOK
<1>1. Seen = (consumed \o literal) \o buffered
  BY <1>t, SeenType
<1>2. /\ Len(Seen) = Len(consumed) + Len(literal) + Len(buffered)
      /\ \A i \in 1..Len(literal) : Seen[Len(consumed) + i] = literal[i]
      /\ Len(consumed) \in Nat /\ Len(literal) \in Nat /\ Len(buffered) \in Nat
  BY <1>t, <1>1, PlacesInSeen
<1>3. \A i \in 1..Len(literal) : literal[i] = SymbolAt(input, Len(consumed) + i)
  <2> TAKE i \in 1..Len(literal)
  <2>1. Len(consumed) + i \in 1..Len(Seen)
    BY <1>2
  <2> QED
    BY <1>2, <2>1, SeenSymbols
<1>4. literal = [i \in 1..Len(literal) |-> literal[i]]
  BY <1>t
<1> QED
  BY <1>3, <1>4

\* What MaximalMunch knows of the tokens.
TagAndWord(ts) == [i \in DOMAIN ts |-> [tag |-> ts[i].tag, word |-> ts[i].word]]

LEMMA TagAndWordAppend ==
  ASSUME NEW S, NEW ts \in Seq(S), NEW t
  PROVE  TagAndWord(Append(ts, t)) = Append(TagAndWord(ts), [tag |-> t.tag, word |-> t.word])
<1> DEFINE n == Len(ts)
           us == Append(ts, t)
           x == [tag |-> t.tag, word |-> t.word]
           f == TagAndWord(ts)
<1>1. /\ n \in Nat /\ DOMAIN ts = 1..n /\ DOMAIN us = 1..n + 1 /\ us[n + 1] = t
      /\ \A i \in 1..n : us[i] = ts[i]
  OBVIOUS
<1>2. f = [i \in 1..n |-> [tag |-> ts[i].tag, word |-> ts[i].word]]
  BY <1>1 DEF TagAndWord
<1>3. /\ Append(f, x) = [i \in 1..n + 1 |-> IF i = n + 1 THEN x ELSE f[i]]
      /\ \A i \in 1..n : f[i] = [tag |-> ts[i].tag, word |-> ts[i].word]
  BY <1>1, <1>2
<1> HIDE DEF us, f
<1>4. TagAndWord(us) = [i \in 1..n + 1 |-> [tag |-> us[i].tag, word |-> us[i].word]]
  BY <1>1 DEF TagAndWord
<1>5. \A i \in 1..n + 1 : [tag |-> us[i].tag, word |-> us[i].word]
                             = IF i = n + 1 THEN x ELSE f[i]
  BY <1>1, <1>3
<1> QED
  BY <1>3, <1>4, <1>5 DEF us, f

LEMMA AcceptMunches ==
  ASSUME IInv, PlainReading, Matching, Accept
  PROVE  Munched!Munch
<1> DEFINE n == Len(literal)
           tag == def.acceptStates[Munched!Run[Munched!Longest]]
           text == [i \in 1..Munched!WordLength |-> Munched!Symbol(Len(consumed) + i)]
<1>1. /\ pc = "decide" /\ IsAcceptState(def, state) /\ token' = def.acceptStates[state]
      /\ bol' \in IF literal = <<>> THEN BOOLEAN ELSE {Last(literal) = LineFeed}
      /\ consumed' = consumed \o literal /\ UNCHANGED <<input, def, machine>>
      /\ token' = IgnoreTag => pc' = "start" /\ UNCHANGED tokens
      /\ token' # IgnoreTag =>
           /\ pc' = "returned"
           /\ tokens' = Append(tokens, [tag |-> token', offset |-> tokenOffset, word |-> literal])
  BY DEF Accept, streamVars
<1>2. PICK l : IsLongest(l) /\ state = WordRun[l] /\ EndsWord(l, n)
  BY <1>1 DEF Matching
<1>3. /\ Munched!Matches # {} /\ Munched!Longest = l /\ Munched!WordLength = n
      /\ Munched!Run = WordRun /\ \A i : Munched!Symbol(i) = SymbolAt(input, i)
  BY <1>2, LongestIs, WordLengthIs, SameRun
<1>4. tag = token'
  BY <1>1, <1>2, <1>3
<1>5. text = literal
  <2>1. literal = [i \in 1..n |-> SymbolAt(input, Len(consumed) + i)]
    BY <1>1, WordIsText DEF Matching, Scanning
  <2> QED
    BY <1>3, <2>1
<1> HIDE DEF tag, text
<1>6. Len(consumed') = Len(consumed) + Munched!WordLength
  <2>1. consumed \in Seq(Int) /\ literal \in Seq(Int)
    BY DEF IInv, TypeOK, RecognizerTypeOK
  <2> QED
    BY <1>1, <1>3, <2>1, ConcatProperties
<1>7. bol' \in IF text = <<>> THEN BOOLEAN ELSE {Munched!Last(text) = Munched!LineFeed}
  BY <1>1, <1>5 DEF Munched!Last, Munched!LineFeed, Last, LineFeed
<1>8. IF tag = Munched!IgnoreTag
      THEN /\ TagAndWord(tokens') = TagAndWord(tokens)
           /\ pc' = "start"
      ELSE /\ TagAndWord(tokens') = Append(TagAndWord(tokens), [tag |-> tag, word |-> text])
           /\ pc' = "returned"
  <2>1. CASE token' = IgnoreTag
    BY <1>1, <1>4, <2>1 DEF IgnoreTag, Munched!IgnoreTag
  <2>2. CASE token' # IgnoreTag
    <3> DEFINE t == [tag |-> token', offset |-> tokenOffset, word |-> literal]
    <3>1. t.tag = token' /\ t.word = literal /\ tokens' = Append(tokens, t)
      BY <1>1, <2>2
    <3> HIDE DEF t
    <3>2. TagAndWord(tokens') = Append(TagAndWord(tokens), [tag |-> t.tag, word |-> t.word])
      BY <3>1, TagAndWordAppend DEF IInv, TypeOK, RecognizerTypeOK
    <3>3. tag # Munched!IgnoreTag
      BY <1>4, <2>2 DEF IgnoreTag, Munched!IgnoreTag
    <3> QED
      BY <1>1, <1>4, <1>5, <2>2, <3>1, <3>2, <3>3
  <2> QED
    BY <2>1, <2>2
<1> QED
  BY <1>1, <1>3, <1>6, <1>7, <1>8 DEF Munched!Munch, tag, text, TagAndWord, Scanning

LEMMA FailMunches ==
  ASSUME IInv, Matching, Fail
  PROVE  Munched!NoMatch
<1>1. /\ pc = "decide" /\ ~IsAcceptState(def, state) /\ pc' = "thrown"
      /\ UNCHANGED <<input, def, consumed, machine, bol, tokens>>
  BY DEF Fail, streamVars, histVars
<1>2. NoneFinal(0)
  BY <1>1 DEF Matching
<1>3. Munched!Matches = {}
  BY <1>2, SameRun DEF Munched!Matches, Munched!IsAcceptState, IsAcceptState, NoneFinal
<1> QED
  BY <1>1, <1>3 DEF Munched!NoMatch, Scanning

LEMMA NextMunches ==
  ASSUME IInv, PlainReading, Matching, [Next]_vars
  PROVE  [Munched!Next]_(Munched!munchVars)
<1> USE DEF Munched!Next, Munched!munchVars, Scanning
<1>1. CASE Begin
  <2>1. Munched!Restart
    BY <1>1 DEF Begin, Munched!Restart, Munched!DefaultMachine, DefaultMachine
  <2> QED
    BY <2>1
<1>2. CASE Increment
  <2>1. Munched!Proceed
    BY <1>2 DEF Increment, Munched!Proceed, streamVars, histVars
  <2> QED
    BY <2>1
<1>3. CASE SetMachine
  <2>1. Munched!Switch
    BY <1>3 DEF SetMachine, Munched!Switch, Munched!Machines, Machines, streamVars, histVars
  <2> QED
    BY <2>1
<1>4. CASE Leave
  <2>1. Munched!Finish
    BY <1>4 DEF Leave, Munched!Finish, streamVars, histVars
  <2> QED
    BY <2>1
<1>5. CASE Word
  <2>1. CASE Accept
    BY <2>1, AcceptMunches
  <2>2. CASE Fail
    BY <2>2, FailMunches
  <2>3. CASE \/ StartWord \/ FetchBuffered \/ FetchPastEnd \/ FetchEnd \/ FetchByte
             \/ StopAdvance \/ Backtrack \/ StopBacktrack \/ Rewind \/ StopRewind
    <3>1. /\ pc \in Scanning \cup {"start"} /\ pc' \in Scanning \cup {"start"}
          /\ UNCHANGED <<input, def, consumed, machine, bol, tokens>>
      BY <2>3 DEF StartWord, FetchBuffered, FetchPastEnd, FetchEnd, FetchByte, StopAdvance,
         Backtrack, StopBacktrack, Rewind, StopRewind, PopState, Step, Advancing, streamVars,
         histVars
    <3> QED
      BY <3>1
  <2> QED
    BY <1>5, <2>1, <2>2, <2>3 DEF Word, Recognize
<1>6. CASE UNCHANGED vars
  BY <1>6 DEF vars, recognizerVars, streamVars, histVars
<1> QED
  BY <1>1, <1>2, <1>3, <1>4, <1>5, <1>6 DEF Next

\* If no read fails within the text, the text is a 7-bit one, and no word reads more
\* than EofReads end-of-file symbols, recognizeOne(), with all its overshooting and
\* rolling back (Lexable.h:296-377), cuts the text into longest words.
THEOREM MunchesLongest == PlainReading => (Spec => ImplementsMaximalMunch)
<1> SUFFICES ASSUME PlainReading PROVE Spec => ImplementsMaximalMunch
  OBVIOUS
<1>1. Init => Munched!Init /\ Matching
  BY DEF Init, FreshStream, FreshLexer, NoHistory, Munched!Init, Munched!DefaultMachine,
     DefaultMachine, Matching, ReadToEnd, Scanning
<1>2. IInv /\ Matching /\ [Next]_vars => Matching' /\ [Munched!Next]_(Munched!munchVars)
  BY NextMatching, NextMunches
<1> QED
  BY <1>1, <1>2, InitIInv, NextIInv, PTL DEF Spec, ImplementsMaximalMunch, Munched!Spec

\* What BolCorrect needs of a step: no word is empty.
LEMMA NextAtLineStart ==
  ASSUME IInv, AtLineStart, NoEmptyWord, [Next]_vars
  PROVE  AtLineStart'
<1>1. CASE Begin
  BY <1>1 DEF Begin, AtLineStart
<1>2. CASE Increment \/ SetMachine \/ Leave
  BY <1>2 DEF Increment, SetMachine, Leave, histVars, AtLineStart
<1>3. CASE Word
  BY <1>3, BolStep DEF Word, IInv, TypeOK
<1>4. CASE UNCHANGED vars
  BY <1>4 DEF vars, recognizerVars, histVars, AtLineStart
<1> QED
  BY <1>1, <1>2, <1>3, <1>4 DEF Next

\* As long as no word is empty, the flag that selects the automaton tells whether a
\* line starts, through rollbacks, ignored words, switches and new passes
\* (Lexable.h:374, 379).
THEOREM BolCorrect == Spec /\ []NoEmptyWord => []BolFollowsText
<1>1. Init => AtLineStart
  BY DEF Init, FreshLexer, NoHistory, AtLineStart
<1>2. IInv /\ AtLineStart /\ NoEmptyWord /\ [Next]_vars => AtLineStart'
  BY NextAtLineStart
<1>3. AtLineStart => BolFollowsText
  BY DEF AtLineStart, BolFollowsText
<1> QED
  BY <1>1, <1>2, <1>3, Invariance, PTL DEF Spec

\* The end of the file is left behind by two symbols at most, whatever the client does.
LEMMA NextOffsets ==
  ASSUME IInv, EofEndsWords, Offsets, [Next]_vars
  PROVE  Offsets'
<1>1. CASE Begin
  BY <1>1 DEF Begin, Offsets, EndInSight, TokenStands, Scanning
<1>2. CASE Increment \/ SetMachine \/ Leave
  <2>1. /\ pc \notin Scanning /\ pc' \notin Scanning
        /\ UNCHANGED <<consumed, buffered, pos, good, state, literal, stack, def>>
    BY <1>2 DEF Increment, SetMachine, Leave, histVars, streamVars, runVars, Scanning
  <2>2. Seen' = Seen /\ Limit' = Limit /\ ReadTo' = ReadTo
    BY <2>1 DEF Seen, InFlight, Limit, ReadTo
  <2>3. EndInSight'
    <3> SUFFICES ASSUME ~good' PROVE OneBeyond'
      BY DEF EndInSight
    <3>1. OneBeyond
      BY <2>1 DEF Offsets, EndInSight, TwoBeyond
    <3> QED
      BY <2>1, <2>2, <3>1 DEF OneBeyond, Scanning
  <2> QED
    BY <2>1, <2>3 DEF Offsets, TokenStands
<1>3. CASE Word
  BY <1>3, OffsetsStep DEF Word, IInv, TypeOK
<1>4. CASE UNCHANGED vars
  BY <1>4 DEF vars, recognizerVars, streamVars, tokenVars, runVars, histVars, Offsets,
     EndInSight, OneBeyond, TwoBeyond, TokenStands, Seen, InFlight, Limit, ReadTo, WordStart
<1> QED
  BY <1>1, <1>2, <1>3, <1>4 DEF Next

\* Where the end of the file ends words, an automaton reads at most two end-of-file
\* symbols too many, and reads them again before it asks the stream once more, which
\* would not count.  So offset() of every token, and of LexerError, is where the word
\* starts in the text, whatever was read ahead and given back before
\* (Lexable.h:300, 369, 413-460).
THEOREM OffsetsArePositions == EofEndsWords => (Spec => []OffsetIsPosition)
<1> SUFFICES ASSUME EofEndsWords PROVE Spec => []OffsetIsPosition
  OBVIOUS
<1>1. Init => Offsets
  BY DEF Init, FreshStream, Offsets, EndInSight, TokenStands, Scanning
<1>2. IInv /\ Offsets /\ [Next]_vars => Offsets'
  BY NextOffsets
<1>3. IInv /\ Offsets => OffsetIsPosition
  <2> SUFFICES ASSUME IInv, Offsets PROVE OffsetIsPosition
    OBVIOUS
  <2>1. ASSUME pc = "thrown" PROVE offset = WordStart
    BY <2>1, OffsetBetweenWords DEF IInv, TypeOK, Offsets, Scanning
  <2> QED
    BY <2>1 DEF OffsetIsPosition, Offsets, TokenStands
<1> QED
  BY <1>1, <1>2, <1>3, Invariance, PTL DEF Spec

-----------------------------------------------------------------------------
(* Two passes over a text.                                                 *)

\* The states from the k-th character of a text on, in the default machine.
RunAt(d, text, k) ==
  LET lineStart == k = 0 \/ SymbolAt(text, k) = LineFeed
      q == IF RequiresBeginOfLine /\ lineStart /\ d.containsBeginOfLineStates
           THEN DefaultMachine(d) + 1
           ELSE DefaultMachine(d)
  IN  RunOf(d, q, text, k, Len(text) + EofReads)

\* Of a run with h states, l is the longest match, and the word of it has n characters.
IsWord(d, run, h, l, n) ==
  /\ l \in 0..h /\ IsAcceptState(d, run[l])
  /\ \A m \in (l + 1)..h : ~IsAcceptState(d, run[m])
  /\ LET r == d.backtrackingStates[run[l]]
     IN  IF HasLookahead(d, run[l])
         THEN \/ n \in 0..l /\ run[n] = r /\ \A m \in (n + 1)..l : run[m] # r
              \/ n = 0 /\ \A m \in 0..l : run[m] # r
         ELSE n = l

LEMMA WordUnique ==
  ASSUME NEW d, NEW run, NEW h \in Nat, NEW l, NEW n, NEW l2, NEW n2,
         IsWord(d, run, h, l, n), IsWord(d, run, h, l2, n2)
  PROVE  l = l2 /\ n = n2
<1>1. l = l2
  <2>1. l \in 0..h /\ l2 \in 0..h /\ ~(l2 \in (l + 1)..h) /\ ~(l \in (l2 + 1)..h)
    BY DEF IsWord
  <2> QED
    BY <2>1
<1>2. n = n2
  <2> DEFINE r == d.backtrackingStates[run[l]]
             Found(x) == x \in 0..l /\ run[x] = r /\ \A m \in (x + 1)..l : run[m] # r
             None(x) == x = 0 /\ \A m \in 0..l : run[m] # r
  <2>1. CASE ~HasLookahead(d, run[l])
    BY <1>1, <2>1 DEF IsWord
  <2>2. CASE HasLookahead(d, run[l])
    <3>1. (Found(n) \/ None(n)) /\ (Found(n2) \/ None(n2)) /\ l \in Nat
      BY <1>1, <2>2 DEF IsWord
    <3> HIDE DEF r
    <3>2. ASSUME Found(n), Found(n2) PROVE n = n2
      <4>1. ~(n2 \in (n + 1)..l) /\ ~(n \in (n2 + 1)..l)
        BY <3>2
      <4> QED
        BY <3>1, <3>2, <4>1
    <3>3. ~(Found(n) /\ None(n2)) /\ ~(None(n) /\ Found(n2))
      OBVIOUS
    <3> QED
      BY <3>1, <3>2, <3>3
  <2> QED
    BY <2>1, <2>2
<1> QED
  BY <1>1, <1>2

Entries == [tag : Int, offset : Int, word : Seq(Int)]

\* What the caller is given of the word behind the k-th character.
Entry(d, text, k, l, n) ==
  [tag |-> d.acceptStates[RunAt(d, text, k)[l]],
   offset |-> IF k <= Len(text) THEN k ELSE Len(text),
   word |-> [i \in 1..n |-> SymbolAt(text, k + i)]]

\* What a word makes of a pass: how many characters were recognized, and the tokens.
Advances(d, text, p, q) ==
  \E l, n :
    /\ IsWord(d, RunAt(d, text, p[1]), Len(text) + EofReads, l, n)
    /\ q[1] = p[1] + n
    /\ LET e == Entry(d, text, p[1], l, n)
       IN  q[2] = IF e.tag = IgnoreTag THEN p[2] ELSE Append(p[2], e)

LEMMA AdvancesUniquely ==
  ASSUME NEW d, NEW text, Len(text) \in Nat, NEW p, NEW q \in Nat \X Seq(Entries),
         NEW q2 \in Nat \X Seq(Entries), Advances(d, text, p, q), Advances(d, text, p, q2)
  PROVE  q = q2
<1> DEFINE run == RunAt(d, text, p[1])
           h == Len(text) + EofReads
           Made(l, n, s) ==
             /\ s[1] = p[1] + n
             /\ LET e == Entry(d, text, p[1], l, n)
                IN  s[2] = IF e.tag = IgnoreTag THEN p[2] ELSE Append(p[2], e)
<1>1. PICK l, n : IsWord(d, run, h, l, n) /\ Made(l, n, q)
  BY DEF Advances
<1>2. PICK l2, n2 : IsWord(d, run, h, l2, n2) /\ Made(l2, n2, q2)
  BY DEF Advances
<1>3. h \in Nat
  BY ClientAssumption
<1> HIDE DEF run, h
<1>4. l = l2 /\ n = n2
  BY <1>1, <1>2, <1>3, WordUnique
<1> HIDE DEF Made
<1>5. Made(l, n, q) /\ Made(l, n, q2)
  BY <1>1, <1>2, <1>4
<1>6. q[1] = q2[1] /\ q[2] = q2[2]
  BY <1>5 DEF Made
<1> QED
  BY <1>6

\* s[n] is the pass after n words.
IsPass(d, text, s, N) ==
  /\ N \in Nat
  /\ s \in [0..N -> Nat \X Seq(Entries)]
  /\ s[0] = <<0, <<>>>>
  /\ \A i \in 1..N : Advances(d, text, s[i - 1], s[i])

LEMMA NoWordYet ==
  ASSUME NEW d, NEW text
  PROVE  \E N, s : IsPass(d, text, s, N) /\ s[N] = <<0, <<>>>>
<1> DEFINE e == <<>>
           p == <<0, e>>
           s == [i \in 0..0 |-> p]
<1>0. e \in Seq(Entries)
  OBVIOUS
<1> HIDE DEF e
<1>1. p \in Nat \X Seq(Entries)
  BY <1>0
<1> HIDE DEF p
<1>2. s \in [0..0 -> Nat \X Seq(Entries)] /\ s[0] = p
  BY <1>1
<1>3. IsPass(d, text, s, 0)
  BY <1>2 DEF IsPass, p, e
<1> QED
  BY <1>2, <1>3 DEF p, e

LEMMA OneWordMore ==
  ASSUME NEW d, NEW text, NEW s, NEW N, IsPass(d, text, s, N),
         NEW q \in Nat \X Seq(Entries), Advances(d, text, s[N], q)
  PROVE  \E M, t : IsPass(d, text, t, M) /\ t[M] = q
<1> DEFINE V == Nat \X Seq(Entries)
           t == [i \in 0..(N + 1) |-> IF i = N + 1 THEN q ELSE s[i]]
<1>1. N \in Nat /\ s \in [0..N -> V] /\ s[0] = <<0, <<>>>>
  BY DEF IsPass
<1> HIDE DEF V
<1>2. t \in [0..(N + 1) -> V] /\ t[N + 1] = q /\ \A i \in 0..N : t[i] = s[i]
  BY <1>1, SMTT(30) DEF V
<1> HIDE DEF t
<1>3. \A i \in 1..(N + 1) : Advances(d, text, t[i - 1], t[i])
  <2> TAKE i \in 1..(N + 1)
  <2>1. CASE i = N + 1
    BY <1>1, <1>2, <2>1
  <2>2. CASE i \in 1..N
    <3>1. i - 1 \in 0..N /\ i \in 0..N
      BY <1>1, <2>2
    <3>2. Advances(d, text, s[i - 1], s[i])
      BY <2>2 DEF IsPass
    <3> QED
      BY <1>2, <3>1, <3>2
  <2> QED
    BY <1>1, <2>1, <2>2
<1>5. N + 1 \in Nat /\ t[0] = <<0, <<>>>>
  BY <1>1, <1>2
<1>4. IsPass(d, text, t, N + 1)
  BY <1>2, <1>3, <1>5 DEF IsPass, V
<1> QED
  BY <1>2, <1>4

\* Two passes are the same for as long as both go on.
LEMMA PassesAgree ==
  ASSUME NEW d, NEW text, Len(text) \in Nat, NEW s, NEW N, NEW t, NEW M,
         IsPass(d, text, s, N), IsPass(d, text, t, M)
  PROVE  \A i \in Nat : i <= N /\ i <= M => s[i] = t[i]
<1> DEFINE I == {i \in Nat : i <= N /\ i <= M => s[i] = t[i]}
<1>1. N \in Nat /\ M \in Nat /\ s[0] = t[0] /\ 0 \in I
  BY DEF IsPass
<1>2. ASSUME NEW i \in Nat, i \in I PROVE i + 1 \in I
  <2> SUFFICES ASSUME i + 1 <= N, i + 1 <= M PROVE s[i + 1] = t[i + 1]
    OBVIOUS
  <2>1. i + 1 \in 1..N /\ i + 1 \in 1..M /\ (i + 1) - 1 = i /\ i + 1 \in 0..N /\ i + 1 \in 0..M
    BY <1>1, <1>2
  <2>2. s[i] = t[i]
    BY <1>1, <1>2
  <2>3. Advances(d, text, s[i], s[i + 1]) /\ Advances(d, text, t[i], t[i + 1])
    BY <2>1 DEF IsPass
  <2>4. s[i + 1] \in Nat \X Seq(Entries) /\ t[i + 1] \in Nat \X Seq(Entries)
    BY <2>1 DEF IsPass
  <2> QED
    BY <2>2, <2>3, <2>4, AdvancesUniquely
<1> HIDE DEF I
<1>3. \A i \in Nat : i \in I
  BY <1>1, <1>2, SetInduction
<1> QED
  BY <1>3 DEF I

\* A token stays where it is.
Starts(ts, us) == Len(ts) <= Len(us) /\ \A i \in 1..Len(ts) : ts[i] = us[i]

LEMMA StartsOn ==
  ASSUME NEW ts, NEW us, NEW vs, Len(ts) \in Nat, Len(us) \in Nat, Len(vs) \in Nat,
         Starts(ts, us), Starts(us, vs)
  PROVE  Starts(ts, vs)
<1>1. Len(ts) <= Len(us) /\ Len(us) <= Len(vs) /\ \A i \in 1..Len(ts) : ts[i] = us[i]
  BY DEF Starts
<1>2. \A i \in 1..Len(ts) : i \in 1..Len(us)
  BY <1>1
<1>3. \A i \in 1..Len(ts) : ts[i] = vs[i]
  BY <1>1, <1>2 DEF Starts
<1>4. Len(ts) <= Len(vs)
  BY <1>1
<1> QED
  BY <1>3, <1>4 DEF Starts

LEMMA AdvanceKeeps ==
  ASSUME NEW d, NEW text, NEW p \in Nat \X Seq(Entries), NEW q \in Nat \X Seq(Entries),
         Advances(d, text, p, q)
  PROVE  Starts(p[2], q[2])
<1>1. PICK e : q[2] = p[2] \/ q[2] = Append(p[2], e)
  BY DEF Advances
<1> DEFINE ts == p[2]
<1>2. ts \in Seq(Entries) /\ Len(ts) \in Nat
  OBVIOUS
<1>3. q[2] = ts \/ q[2] = Append(ts, e)
  BY <1>1
<1> HIDE DEF ts
<1>4. Starts(ts, ts) /\ Starts(ts, Append(ts, e))
  BY <1>2 DEF Starts
<1> QED
  BY <1>3, <1>4 DEF ts

LEMMA PassGrows ==
  ASSUME NEW d, NEW text, NEW s, NEW N, IsPass(d, text, s, N), NEW i \in 0..N
  PROVE  Starts(s[i][2], s[N][2])
<1> DEFINE I == {m \in Nat : i + m <= N => Starts(s[i][2], s[i + m][2])}
<1>1. N \in Nat /\ \A j \in 0..N : s[j] \in Nat \X Seq(Entries)
  BY DEF IsPass
<1>2. \A j \in 0..N : s[j][2] \in Seq(Entries) /\ Len(s[j][2]) \in Nat
  BY <1>1
<1>3. 0 \in I
  BY <1>2 DEF Starts
<1>4. ASSUME NEW m \in Nat, m \in I PROVE m + 1 \in I
  <2> SUFFICES ASSUME i + (m + 1) <= N PROVE Starts(s[i][2], s[i + (m + 1)][2])
    OBVIOUS
  <2> DEFINE j == i + m
  <2>1. j \in 0..N /\ j + 1 \in 1..N /\ j + 1 \in 0..N /\ (j + 1) - 1 = j /\ i + (m + 1) = j + 1
    BY <1>1
  <2>2. Starts(s[i][2], s[j][2])
    BY <1>1, <1>4
  <2>3. Advances(d, text, s[j], s[j + 1])
    BY <2>1 DEF IsPass
  <2> HIDE DEF j
  <2>4. Starts(s[j][2], s[j + 1][2])
    BY <1>1, <2>1, <2>3, AdvanceKeeps
  <2>5. Len(s[i][2]) \in Nat /\ Len(s[j][2]) \in Nat /\ Len(s[j + 1][2]) \in Nat
    BY <1>2, <2>1
  <2>6. Starts(s[i][2], s[j + 1][2])
    BY <2>2, <2>4, <2>5, StartsOn
  <2> QED
    BY <2>1, <2>6
<1> HIDE DEF I
<1>5. \A m \in Nat : m \in I
  BY <1>3, <1>4, SetInduction
<1>7. N - i \in Nat /\ N - i \in I
  BY <1>1, <1>5
<1>6. i + (N - i) = N
  BY <1>1
<1> QED
  BY <1>1, <1>6, <1>7 DEF I

LEMMA SameTokens ==
  ASSUME NEW d, NEW text, Len(text) \in Nat, NEW s, NEW N, NEW t, NEW M,
         IsPass(d, text, s, N), IsPass(d, text, t, M), N <= M
  PROVE  Starts(s[N][2], t[M][2])
<1>1. N \in Nat /\ M \in Nat
  BY DEF IsPass
<1>2. s[N] = t[N]
  BY <1>1, PassesAgree
<1>3. N \in 0..M
  BY <1>1
<1>4. Starts(t[N][2], t[M][2])
  BY <1>3, PassGrows
<1> QED
  BY <1>2, <1>4

\* So far this pass came, and so far one came before it.
Unswitched == Machines(def, SwitchTo) \subseteq {DefaultMachine(def)}
Reached(k, ts) == \E N, s : IsPass(def, input, s, N) /\ s[N] = <<k, ts>>
Replayed ==
  Unswitched =>
    /\ machine = DefaultMachine(def)
    /\ Reached(Len(consumed), tokens)
    /\ \E k : Reached(k, previous)

LEMMA LastIsSymbol ==
  ASSUME IInv, PlainReading, ReadToEnd, consumed # <<>>
  PROVE  Last(consumed) = SymbolAt(input, Len(consumed))
<1> DEFINE w == InFlight
           m == consumed \o w
<1>1. /\ consumed \in Seq(Int) /\ buffered \in Seq(Int) /\ w \in Seq(Int)
      /\ Len(consumed) \in Nat /\ Len(consumed) > 0
  BY EmptySeq DEF IInv, TypeOK, RecognizerTypeOK, InFlight
<1>2. Seen = m \o buffered
  BY DEF Seen
<1> HIDE DEF w
<1>3. m \in Seq(Int) /\ IsJoined(m, consumed, w) /\ Len(w) \in Nat /\ Len(buffered) \in Nat
  BY <1>1, ConcatAt
<1> HIDE DEF m
<1>4. IsJoined(Seen, m, buffered)
  BY <1>1, <1>2, <1>3, ConcatAt
<1> DEFINE k == Len(consumed)
<1>a. k \in Nat /\ k > 0
  BY <1>1
<1>b. Len(m) = k + Len(w) /\ \A i \in 1..k : m[i] = consumed[i]
  BY <1>3 DEF IsJoined
<1>5. k \in 1..k /\ k \in 1..Len(m) /\ m[k] = consumed[k]
  <2> HIDE DEF k
  <2> QED
    BY <1>3, <1>a, <1>b
<1>6. Len(Seen) = Len(m) + Len(buffered) /\ Seen[k] = m[k]
  BY <1>4, <1>5 DEF IsJoined
<1>7. k \in 1..Len(Seen) /\ Seen[k] = consumed[k]
  BY <1>1, <1>3, <1>5, <1>6
<1> QED
  BY <1>7, SeenSymbols DEF Last

LEMMA AcceptAdvances ==
  ASSUME IInv, PlainReading, EofEndsWords, Matching, AtLineStart, Offsets,
         machine = DefaultMachine(def), Accept
  PROVE  Advances(def, input, <<Len(consumed), tokens>>, <<Len(consumed'), tokens'>>)
<1> DEFINE k == Len(consumed)
           n == Len(literal)
           made == [tag |-> token', offset |-> tokenOffset, word |-> literal]
<1>1. /\ pc = "decide" /\ IsAcceptState(def, state) /\ token' = def.acceptStates[state]
      /\ consumed' = consumed \o literal
      /\ tokens' = IF token' = IgnoreTag THEN tokens ELSE Append(tokens, made)
  BY DEF Accept
<1>2. /\ consumed \in Seq(Int) /\ literal \in Seq(Int) /\ k \in Nat /\ n \in Nat
      /\ pos \in 0..Len(input) /\ Len(input) \in Nat /\ ReadToEnd /\ pc \in Scanning
  BY <1>1, InputType DEF IInv, TypeOK, RecognizerTypeOK, Matching, Scanning
<1>3. PICK l : IsLongest(l) /\ state = WordRun[l] /\ EndsWord(l, n)
  BY <1>1 DEF Matching
<1>4. IsWord(def, WordRun, Horizon, l, n)
  BY <1>3 DEF IsWord, IsLongest, NoneFinal, EndsWord, NoEnd
<1>5. RunAt(def, input, k) = WordRun
  <2>1. k = 0 <=> consumed = <<>>
    BY <1>2, EmptySeq
  <2>2. bol <=> (k = 0 \/ SymbolAt(input, k) = LineFeed)
    BY <1>2, <2>1, LastIsSymbol DEF AtLineStart
  <2>3. bol \in BOOLEAN
    BY DEF IInv, TypeOK, RecognizerTypeOK
  <2> QED
    BY <2>2, <2>3 DEF RunAt, WordRun, InitialState, Horizon
<1>6. tokenOffset = IF k <= Len(input) THEN k ELSE Len(input)
  <2>1. /\ SeenIsText /\ Len(buffered) \in Nat
        /\ Len(Seen) = ReadTo + Len(buffered)
    BY <1>2, Lengths DEF IInv, TypeOK
  <2>2. good => k <= pos
    BY <1>2, <2>1 DEF SeenIsText, ReadTo
  <2>3. tokenOffset = WordStart
    BY <1>2 DEF Offsets, TokenStands
  <2> QED
    BY <1>2, <2>2, <2>3 DEF WordStart, ReadToEnd
<1>7. Entry(def, input, k, l, n) = made
  <2>1. literal = [i \in 1..n |-> SymbolAt(input, k + i)]
    BY <1>2, WordIsText
  <2> HIDE DEF k, n
  <2> QED
    BY <1>1, <1>3, <1>5, <1>6, <2>1 DEF Entry
<1>8. Len(consumed') = k + n
  BY <1>1, <1>2, ConcatProperties
<1> DEFINE p == <<k, tokens>>
           q == <<Len(consumed'), tokens'>>
<1>9. p[1] = k /\ p[2] = tokens /\ q[1] = k + n /\ q[2] = tokens'
  BY <1>8
<1> HIDE DEF p, q, made
<1>10. made.tag = token'
  BY DEF made
<1>11. Advances(def, input, p, q)
  <2>1. IsWord(def, RunAt(def, input, p[1]), Len(input) + EofReads, l, n)
    BY <1>4, <1>5, <1>9 DEF Horizon
  <2>2. Entry(def, input, p[1], l, n) = made
    BY <1>7, <1>9
  <2>3. q[2] = IF made.tag = IgnoreTag THEN p[2] ELSE Append(p[2], made)
    BY <1>1, <1>9, <1>10
  <2> QED
    BY <1>9, <2>1, <2>2, <2>3 DEF Advances
<1> QED
  BY <1>11 DEF p, q

LEMMA NextReplayed ==
  ASSUME IInv, IInv', PlainReading, EofEndsWords, Matching, AtLineStart, Offsets, Replayed,
         [Next]_vars
  PROVE  Replayed'
<1>1. UNCHANGED <<def, input>> /\ Unswitched' = Unswitched
  <2>1. UNCHANGED <<def, input>>
    BY DEF Next, Begin, Increment, SetMachine, Leave, Word, Recognize, StartWord, FetchBuffered,
       FetchPastEnd, FetchEnd, FetchByte, StopAdvance, Backtrack, StopBacktrack, Rewind,
       StopRewind, Fail, Accept, Step, PopState, streamVars, vars, recognizerVars
  <2> QED
    BY <2>1 DEF Unswitched
<1>2. \A k, ts : Reached(k, ts)' <=> Reached(k, ts)
  BY <1>1 DEF Reached
<1> SUFFICES ASSUME Unswitched PROVE
      /\ machine' = DefaultMachine(def)
      /\ Reached(Len(consumed'), tokens')
      /\ \E k : Reached(k, previous')
  BY <1>1 DEF Replayed, Reached
<1>3. /\ machine = DefaultMachine(def)
      /\ Reached(Len(consumed), tokens)
      /\ \E k : Reached(k, previous)
  BY DEF Replayed
<1>4. CASE Begin
  <2>1. /\ machine' = DefaultMachine(def) /\ previous' = tokens
        /\ consumed' = <<>> /\ tokens' = <<>>
    BY <1>4 DEF Begin
  <2>2. Reached(0, <<>>)
    BY NoWordYet DEF Reached
  <2> QED
    BY <1>3, <2>1, <2>2
<1>5. CASE SetMachine
  <2>1. machine' = DefaultMachine(def)
    BY <1>5 DEF SetMachine, Unswitched
  <2>2. UNCHANGED <<consumed, tokens, previous>>
    BY <1>5 DEF SetMachine, histVars, clientVars
  <2> QED
    BY <1>3, <2>1, <2>2
<1>6. CASE Word /\ Accept
  <2> DEFINE p == <<Len(consumed), tokens>>
             q == <<Len(consumed'), tokens'>>
  <2>1. Advances(def, input, p, q)
    BY <1>3, <1>6, AcceptAdvances
  <2>2. q \in Nat \X Seq(Entries)
    BY DEF IInv, TypeOK, RecognizerTypeOK, Entries
  <2>3. PICK N, s : IsPass(def, input, s, N) /\ s[N] = p
    BY <1>3 DEF Reached
  <2> HIDE DEF p, q
  <2>4. \E M, t : IsPass(def, input, t, M) /\ t[M] = q
    BY <2>1, <2>2, <2>3, OneWordMore
  <2>5. UNCHANGED <<machine, previous>>
    BY <1>6 DEF Word, Accept, clientVars
  <2> QED
    BY <1>3, <2>4, <2>5 DEF Reached, q
<1>7. CASE Increment \/ Leave \/ (Word /\ ~Accept) \/ UNCHANGED vars
  <2>1. UNCHANGED <<machine, consumed, tokens, previous>>
    BY <1>7 DEF Increment, Leave, Word, Recognize, StartWord, FetchBuffered, FetchPastEnd,
       FetchEnd, FetchByte, StopAdvance, Backtrack, StopBacktrack, Rewind, StopRewind, Fail,
       Step, PopState, streamVars, histVars, clientVars, vars, recognizerVars
  <2> QED
    BY <1>3, <2>1
<1> QED
  BY <1>4, <1>5, <1>6, <1>7 DEF Next

\* Two passes over a text see the same tokens, at the same offsets, for as long as both
\* go on: nothing of the pass before shows, wherever it was left and whatever it had
\* read ahead (Lexable.h:197-202).
THEOREM ReplayCorrect == PlainReading /\ EofEndsWords => (Spec /\ []NoEmptyWord => []Replay)
<1> SUFFICES ASSUME PlainReading, EofEndsWords PROVE Spec /\ []NoEmptyWord => []Replay
  OBVIOUS
<1> DEFINE R == Matching /\ AtLineStart /\ Offsets /\ Replayed
<1>1. Init => R
  <2> SUFFICES ASSUME Init PROVE R
    OBVIOUS
  <2>1. Matching /\ Offsets
    BY DEF Init, FreshStream, Matching, ReadToEnd, Offsets, EndInSight, TokenStands, Scanning
  <2>2. AtLineStart
    BY DEF Init, FreshLexer, NoHistory, AtLineStart
  <2>3. Reached(0, <<>>)
    BY NoWordYet DEF Reached
  <2>4. Replayed
    BY <2>3 DEF Init, FreshLexer, NoHistory, Replayed
  <2> QED
    BY <2>1, <2>2, <2>4
<1>2. IInv /\ IInv' /\ R /\ NoEmptyWord /\ [Next]_vars => R'
  BY NextMatching, NextAtLineStart, NextOffsets, NextReplayed
<1>3. IInv /\ R => Replay
  <2> SUFFICES ASSUME IInv, R, Unswitched,
                      NEW i \in DOMAIN tokens \cap DOMAIN previous
               PROVE  tokens[i] = previous[i]
    BY DEF Replay, Unswitched
  <2>1. PICK N, s : IsPass(def, input, s, N) /\ s[N] = <<Len(consumed), tokens>>
    BY DEF Replayed, Reached
  <2>2. PICK k, M, t : IsPass(def, input, t, M) /\ t[M] = <<k, previous>>
    BY DEF Replayed, Reached
  <2>6. /\ N \in Nat /\ M \in Nat
        /\ s[N][2] = tokens /\ t[M][2] = previous
    BY <2>1, <2>2 DEF IsPass
  <2>8. RecognizerTypeOK /\ tokens \in Seq(Entries) /\ previous \in Seq(Entries)
    BY DEF IInv, TypeOK, RecognizerTypeOK, Entries
  <2>7. /\ i \in 1..Len(tokens) /\ i \in 1..Len(previous)
        /\ Len(input) \in Nat
    <3>1. Len(input) \in Nat
      BY <2>8, InputType
    <3>2. DOMAIN tokens = 1..Len(tokens) /\ DOMAIN previous = 1..Len(previous)
      BY <2>8
    <3> QED
      BY <3>1, <3>2
  <2>4. CASE N <= M
    <3>1. Starts(tokens, previous)
      BY <2>1, <2>2, <2>4, <2>6, <2>7, SameTokens
    <3> QED
      BY <2>7, <3>1 DEF Starts
  <2>5. CASE M <= N
    <3>1. Starts(previous, tokens)
      BY <2>1, <2>2, <2>5, <2>6, <2>7, SameTokens
    <3> QED
      BY <2>7, <3>1 DEF Starts
  <2> QED
    BY <2>4, <2>5, <2>6
<1> QED
  BY <1>1, <1>2, <1>3, Invariance, PTL DEF Spec

=============================================================================
