----------------------------- MODULE FlagsProofs -----------------------------
(***************************************************************************)
(* For all programs and command lines: the parser keeps its types, what it *)
(* leaves can be read, and says what the command line was written for.     *)
(***************************************************************************)
EXTENDS Flags, SequenceLemmas

\* A flag that is set was defined, and has the type it was defined with.
SetAsDefined ==
  \A flag \in DOMAIN set :
    \E k \in DOMAIN flagDefs : flagDefs[k].longOption = flag /\ set[flag].type = TypeOf(k)

DefaultsFilled ==
  reading = "done" => \A k \in DOMAIN flagDefs : HasDefault(flagDefs[k]) => IsSet(flagDefs[k].longOption)

IInv == FlagsTypeOK /\ SetAsDefined /\ DefaultsFilled

-----------------------------------------------------------------------------
\* What is known of a command line: its program's definitions are a list, no two
\* with the same name.
LEMMA Known ==
  ASSUME commandLine \in CommandLines
  PROVE  /\ DOMAIN flagDefs = 1..Len(flagDefs) /\ Len(flagDefs) \in Nat
         /\ \A k \in DOMAIN flagDefs : TypeOf(k) \in FlagType /\ flagDefs[k].default \subseteq Seq(STRING)
         /\ \A k, l \in DOMAIN flagDefs : flagDefs[k].longOption = flagDefs[l].longOption => k = l
         /\ args \in Seq(Seq(STRING))
<1>1. commandLine.program \in Programs /\ args \in Seq(Seq(STRING))
  BY CommandLinesAssumption DEF args
<1>2. flagDefs \in Seq(Range(flagDefs))
  BY <1>1, ProgramsAssumption DEF flagDefs
<1>3. DOMAIN flagDefs = 1..Len(flagDefs) /\ Len(flagDefs) \in Nat
  BY <1>2
<1> QED
  BY <1>1, <1>3, ProgramsAssumption DEF flagDefs, TypeOf, IsFlagDef

\* findDef() finds a definition or none.
LEMMA FindsDefinition ==
  ASSUME commandLine \in CommandLines, NEW name
  PROVE  /\ FindLong(name) # 0 => FindLong(name) \in DOMAIN flagDefs
         /\ FindShort(name) # 0 => FindShort(name) \in DOMAIN flagDefs
<1> DEFINE L == {k \in 1..Len(flagDefs) : <<flagDefs[k].longOption>> = name}
           S == {k \in 1..Len(flagDefs) : flagDefs[k].shortOption = name}
<1>1. DOMAIN flagDefs = 1..Len(flagDefs)
  BY Known
<1>2. (L # {} => Min(L) \in L) /\ (S # {} => Min(S) \in S)
  <2>1. L \subseteq Nat /\ S \subseteq Nat
    OBVIOUS
  <2> HIDE DEF L, S
  <2> QED
    BY <2>1, MinIsMember
<1>4. FindLong(name) = IF L # {} THEN Min(L) ELSE 0
  BY DEF FindLong, SelectInSeq
<1>5. FindShort(name) = IF S # {} THEN Min(S) ELSE 0
  BY DEF FindShort, SelectInSeq
<1> HIDE DEF FindLong, FindShort
<1> QED
  BY <1>1, <1>2, <1>4, <1>5

\* By its name it finds the definition that has it.
LEMMA FindsOwnDefinition ==
  ASSUME commandLine \in CommandLines, NEW k \in DOMAIN flagDefs
  PROVE  FindLong(<<flagDefs[k].longOption>>) = k
<1> DEFINE L == {l \in 1..Len(flagDefs) : <<flagDefs[l].longOption>> = <<flagDefs[k].longOption>>}
<1>1. L = {k}
  <2>1. \A l \in DOMAIN flagDefs : flagDefs[l].longOption = flagDefs[k].longOption => l = k
    BY Known
  <2>2. DOMAIN flagDefs = 1..Len(flagDefs)
    BY Known
  <2> QED
    BY <2>1, <2>2
<1>2. Min(L) \in L
  <2>1. L \subseteq Nat /\ L # {}
    BY <1>1
  <2> HIDE DEF L
  <2> QED
    BY <2>1, MinIsMember
<1>3. FindLong(<<flagDefs[k].longOption>>) = IF L # {} THEN Min(L) ELSE 0
  BY DEF FindLong, SelectInSeq
<1> QED
  BY <1>1, <1>2, <1>3

-----------------------------------------------------------------------------
\* The position of the equal sign, if there is one, is in the argument.
LEMMA EqualsInArg ==
  ASSUME Arg \in Seq(STRING)
  PROVE  Equals \in 0..Len(Arg)
<1> DEFINE E == {k \in 1..Len(Arg) : Arg[k] = "="}
<1>1. Equals = IF E # {} THEN Min(E) ELSE 0
  BY DEF Equals, SelectInSeq
<1>2. E # {} => Min(E) \in E
  <2>1. E \subseteq Nat
    OBVIOUS
  <2> HIDE DEF E
  <2> QED
    BY <2>1, MinIsMember
<1>3. Len(Arg) \in Nat
  OBVIOUS
<1> HIDE DEF Equals
<1> QED
  BY <1>1, <1>2, <1>3

\* Setting the flag of a definition keeps what is known of the flags that are set.
LEMMA SetKeeps ==
  ASSUME IInv, NEW k \in DOMAIN flagDefs, NEW value \in Seq(STRING),
         Set(k, value), UNCHANGED commandLine
  PROVE  /\ \A flag \in DOMAIN set' : set'[flag].type \in FlagType /\ set'[flag].value \in Seq(STRING)
         /\ SetAsDefined'
         /\ \A flag \in DOMAIN set : flag \in DOMAIN set'
<1>1. TypeOf(k) \in FlagType
  BY Known DEF IInv, FlagsTypeOK
<1>2. /\ DOMAIN set' = DOMAIN set \cup {flagDefs[k].longOption}
      /\ set'[flagDefs[k].longOption] = [type |-> TypeOf(k), value |-> value]
      /\ \A flag \in DOMAIN set \ {flagDefs[k].longOption} : set'[flag] = set[flag]
  BY DEF Set
<1>3. flagDefs' = flagDefs /\ \A l : TypeOf(l)' = TypeOf(l)
  BY DEF flagDefs, TypeOf
<1>4. \A flag \in DOMAIN set' : set'[flag].type \in FlagType /\ set'[flag].value \in Seq(STRING)
  BY <1>1, <1>2 DEF IInv, FlagsTypeOK
<1>5. SetAsDefined'
  <2> SUFFICES ASSUME NEW flag \in DOMAIN set'
               PROVE  \E l \in DOMAIN flagDefs :
                        flagDefs[l].longOption = flag /\ set'[flag].type = TypeOf(l)
    BY <1>3 DEF SetAsDefined
  <2>1. CASE flag = flagDefs[k].longOption
    BY <2>1, <1>2
  <2>2. CASE flag \in DOMAIN set \ {flagDefs[k].longOption}
    BY <2>2, <1>2 DEF IInv, SetAsDefined
  <2> QED
    BY <1>2, <2>1, <2>2
<1> QED
  BY <1>2, <1>4, <1>5

\* A step that sets no flag, and does not end the reading, keeps what is known of
\* them.
LEMMA UnsetKeeps ==
  ASSUME IInv, UNCHANGED <<commandLine, set>>, reading' = "done" => reading = "done"
  PROVE  SetAsDefined' /\ DefaultsFilled'
BY DEF IInv, SetAsDefined, DefaultsFilled, flagDefs, TypeOf, IsSet

\* As does one that sets one, while options are read.
LEMMA SetIsNotTheEnd ==
  ASSUME reading' # "done"
  PROVE  DefaultsFilled'
BY DEF DefaultsFilled

LEMMA InitEstablishes == FlagsInit => IInv
<1> SUFFICES ASSUME FlagsInit PROVE IInv
  OBVIOUS
<1>1. args \in Seq(Seq(STRING))
  BY Known DEF FlagsInit
<1>2. FlagsTypeOK
  BY <1>1 DEF FlagsInit, InitFlags, FlagsTypeOK, None
<1> QED
  BY <1>2 DEF FlagsInit, InitFlags, IInv, SetAsDefined, DefaultsFilled

\* Filling in the default values sets a flag to its own.
LEMMA FillKeeps ==
  ASSUME IInv, FillDefaults
  PROVE  IInv'
<1> DEFINE names == {flagDefs[k].longOption : k \in Defaulted}
<1>1. /\ DOMAIN set' = DOMAIN set \cup names
      /\ \A flag \in DOMAIN set : set'[flag] = set[flag]
      /\ \A flag \in names \ DOMAIN set : set'[flag] = Default(flagDefs[FindLong(<<flag>>)])
  BY DEF FillDefaults, IsSet
<1>2. commandLine' = commandLine /\ flagDefs' = flagDefs /\ \A l : TypeOf(l)' = TypeOf(l)
  BY DEF FillDefaults, flagDefs, TypeOf
<1>3. ASSUME NEW flag \in names \ DOMAIN set
      PROVE  \E k \in DOMAIN flagDefs :
               /\ flagDefs[k].longOption = flag
               /\ set'[flag].type = TypeOf(k)
               /\ set'[flag].type \in FlagType
               /\ set'[flag].value \in Seq(STRING)
  <2>1. PICK k \in Defaulted : flagDefs[k].longOption = flag
    OBVIOUS
  <2>2. k \in DOMAIN flagDefs
    BY DEF Defaulted
  <2>3. set'[flag] = Default(flagDefs[k])
    BY <1>1, <2>1, <2>2, FindsOwnDefinition DEF IInv, FlagsTypeOK
  <2>4. TypeOf(k) \in FlagType /\ flagDefs[k].default \subseteq Seq(STRING)
    BY <2>2, Known DEF IInv, FlagsTypeOK
  <2>5. set'[flag].type = TypeOf(k)
    BY <2>3 DEF Default, TypeOf
  <2>6. set'[flag].value \in Seq(STRING)
    <3>1. CASE flagDefs[k].default = {}
      BY <2>3, <3>1, SwitchAssumption DEF Default
    <3>2. CASE flagDefs[k].default # {}
      <4>1. (CHOOSE value \in flagDefs[k].default : TRUE) \in flagDefs[k].default
        BY <3>2
      <4> QED
        BY <2>3, <2>4, <3>2, <4>1 DEF Default
    <3> QED
      BY <3>1, <3>2
  <2> QED
    BY <2>1, <2>2, <2>4, <2>5, <2>6
<1>4. FlagsTypeOK'
  <2>1. \A flag \in DOMAIN set' : set'[flag].type \in FlagType /\ set'[flag].value \in Seq(STRING)
    <3>1. \A flag \in DOMAIN set : set'[flag].type \in FlagType /\ set'[flag].value \in Seq(STRING)
      BY <1>1 DEF IInv, FlagsTypeOK
    <3>2. \A flag \in names \ DOMAIN set :
            set'[flag].type \in FlagType /\ set'[flag].value \in Seq(STRING)
      BY <1>3
    <3> HIDE DEF names
    <3> QED
      BY <1>1, <3>1, <3>2
  <2> QED
    BY <1>2, <2>1 DEF FillDefaults, IInv, FlagsTypeOK, args
<1>5. SetAsDefined'
  <2>1. \A flag \in DOMAIN set : \E k \in DOMAIN flagDefs :
          flagDefs[k].longOption = flag /\ set'[flag].type = TypeOf(k)
    BY <1>1 DEF IInv, SetAsDefined
  <2>2. \A flag \in names \ DOMAIN set : \E k \in DOMAIN flagDefs :
          flagDefs[k].longOption = flag /\ set'[flag].type = TypeOf(k)
    BY <1>3
  <2>3. \A flag \in DOMAIN set' : \E k \in DOMAIN flagDefs :
          flagDefs[k].longOption = flag /\ set'[flag].type = TypeOf(k)
    <3> HIDE DEF names
    <3> QED
      BY <1>1, <2>1, <2>2
  <2> QED
    BY <1>2, <2>3 DEF SetAsDefined
<1>6. DefaultsFilled'
  <2>1. \A k \in DOMAIN flagDefs : HasDefault(flagDefs[k]) => flagDefs[k].longOption \in DOMAIN set'
    BY <1>1 DEF Defaulted
  <2> QED
    BY <1>2, <2>1 DEF DefaultsFilled, IsSet
<1> QED
  BY <1>4, <1>5, <1>6 DEF IInv

\* Every step of parse() keeps the invariant.
LEMMA StepKeeps == IInv /\ [ParseFlags]_flagsVars => IInv'
<1> SUFFICES ASSUME IInv, [ParseFlags]_flagsVars PROVE IInv'
  OBVIOUS
<1> USE DEF None
<1>0. /\ args \in Seq(Seq(STRING)) /\ Len(args) \in Nat
      /\ ~AtEnd => Arg \in Seq(STRING)
      /\ argument < Len(args) => args[argument + 1] \in Seq(STRING)
  <2>1. args \in Seq(Seq(STRING)) /\ argument \in 1..Len(args) + 1
    BY Known DEF IInv, FlagsTypeOK
  <2> QED
    BY <2>1 DEF AtEnd, Arg
<1>1. commandLine' = commandLine /\ args' = args
  BY DEF ParseFlags, Terminator, Parameter, LongOption, ShortOptions, ShortOption, Refuse,
         ThrowError, FillDefaults, flagsVars, args
<1>2. CASE Terminator
  <2>1. FlagsTypeOK'
    BY <1>0, <1>1, <1>2 DEF Terminator, NextArgument, AtEnd, IInv, FlagsTypeOK
  <2> QED
    BY <1>2, <2>1, UnsetKeeps DEF Terminator, IInv
<1>3. CASE Parameter
  <2>1. ~AtEnd /\ params' = Append(params, Arg) /\ argument' = argument + 1
    BY <1>3 DEF Parameter, NextArgument
  <2>2. params' \in Seq(Seq(STRING))
    BY <1>0, <2>1, AppendProperties DEF IInv, FlagsTypeOK
  <2>3. FlagsTypeOK'
    BY <1>0, <1>1, <1>3, <2>1, <2>2 DEF Parameter, AtEnd, IInv, FlagsTypeOK
  <2> QED
    BY <1>3, <2>3, UnsetKeeps DEF Parameter, IInv
<1>4. CASE LongOption
  <2> DEFINE k == FindLong(LongName)
  <2>1. ~AtEnd /\ reading = "options" /\ reading' = reading /\ k # 0
    BY <1>4 DEF LongOption, NextArgument
  <2>2. k \in DOMAIN flagDefs
    BY <2>1, FindsDefinition DEF IInv, FlagsTypeOK
  <2>3. PICK value \in Seq(STRING) : Set(k, value)
    <3>1. CASE Equals # 0 /\ Set(k, SubSeq(Arg, Equals + 1, Len(Arg)))
      <4>1. Equals \in 0..Len(Arg) /\ Len(Arg) \in Nat /\ \A i \in 1..Len(Arg) : Arg[i] \in STRING
        BY <1>0, <2>1, EqualsInArg
      <4>2. \A i \in Equals + 1..Len(Arg) : Arg[i] \in STRING
        BY <4>1
      <4>3. SubSeq(Arg, Equals + 1, Len(Arg)) \in Seq(STRING)
        BY <4>1, <4>2, SubSeqProperties
      <4> QED
        BY <3>1, <4>3
    <3>2. CASE Set(k, <<"true">>)
      BY <3>2, SwitchAssumption
    <3>3. CASE argument < Len(args) /\ Set(k, args[argument + 1])
      BY <1>0, <3>3
    <3> QED
      BY <1>4, <3>1, <3>2, <3>3 DEF LongOption
  <2>4. argument' \in 1..Len(args) + 1
    BY <1>0, <1>4, <2>1, SMTT(30) DEF LongOption, AtEnd, IInv, FlagsTypeOK
  <2>5. FlagsTypeOK'
    BY <1>1, <1>4, <2>2, <2>3, <2>4, SetKeeps DEF LongOption, IInv, FlagsTypeOK
  <2> QED
    BY <1>1, <2>1, <2>2, <2>3, <2>5, SetKeeps, SetIsNotTheEnd DEF IInv
<1>5. CASE ShortOptions
  <2>1. Arg \in Seq(STRING) /\ Arg # <<>>
    BY <1>0, <1>5 DEF ShortOptions, NextArgument, IsShort
  <2>2. letters' \in Seq(STRING)
    BY <1>5, <2>1, HeadTailProperties DEF ShortOptions
  <2>3. FlagsTypeOK'
    BY <1>0, <1>1, <1>5, <2>2 DEF ShortOptions, NextArgument, AtEnd, IInv, FlagsTypeOK
  <2> QED
    BY <1>5, <2>3, UnsetKeeps DEF ShortOptions, IInv
<1>6. CASE ShortOption
  <2> DEFINE k == FindShort(letters[1])
  <2>1. reading = "options" /\ reading' = reading /\ letters # <<>> /\ k # 0
    BY <1>6 DEF ShortOption
  <2>2. k \in DOMAIN flagDefs
    BY <2>1, FindsDefinition DEF IInv, FlagsTypeOK
  <2>3. Tail(letters) \in Seq(STRING)
    BY <2>1, HeadTailProperties DEF IInv, FlagsTypeOK
  <2>4. PICK value \in Seq(STRING) : Set(k, value)
    <3>1. \/ Set(k, <<"true">>)
          \/ Set(k, Tail(letters))
          \/ ~AtEnd /\ Set(k, Arg)
      BY <1>6 DEF ShortOption
    <3> HIDE DEF k
    <3> QED
      BY <1>0, <2>3, <3>1, SwitchAssumption
  <2>5. letters' \in Seq(STRING)
    <3>1. letters' = Tail(letters) \/ letters' = <<>>
      BY <1>6 DEF ShortOption
    <3>2. <<>> \in Seq(STRING)
      OBVIOUS
    <3> QED
      BY <2>3, <3>1, <3>2, Zenon
  <2>6. argument' \in 1..Len(args) + 1
    BY <1>0, <1>6 DEF ShortOption, AtEnd, IInv, FlagsTypeOK
  <2>7. FlagsTypeOK'
    BY <1>1, <1>6, <2>2, <2>4, <2>5, <2>6, SetKeeps DEF ShortOption, IInv, FlagsTypeOK
  <2> QED
    BY <1>1, <2>1, <2>2, <2>4, <2>7, SetKeeps, SetIsNotTheEnd DEF IInv
<1>7. CASE Refuse
  <2>1. FlagsTypeOK'
    BY <1>1, <1>7 DEF Refuse, ThrowError, IInv, FlagsTypeOK
  <2> QED
    BY <1>1, <1>7, <2>1, UnsetKeeps DEF Refuse, ThrowError, IInv
<1>8. CASE FillDefaults
  BY <1>8, <1>1, FillKeeps
<1>9. CASE UNCHANGED flagsVars
  <2>1. FlagsTypeOK'
    BY <1>1, <1>9 DEF flagsVars, IInv, FlagsTypeOK
  <2> QED
    BY <1>9, <2>1, UnsetKeeps DEF flagsVars, IInv
<1> QED
  BY <1>2, <1>3, <1>4, <1>5, <1>6, <1>7, <1>8, <1>9 DEF ParseFlags

-----------------------------------------------------------------------------
(* What is read is what was written: a command line is a row of settings, and   *)
(* each step of parse() reads the next of them, or starts to.                   *)

\* A sequence of elements of a set is one of any wider set.
LEMMA SeqWider ==
  ASSUME NEW S, NEW T, S \subseteq T, NEW s \in Seq(S)
  PROVE  s \in Seq(T)
<1>1. Len(s) \in Nat /\ s = [i \in 1..Len(s) |-> s[i]] /\ \A i \in 1..Len(s) : s[i] \in T
  OBVIOUS
<1> QED
  BY <1>1

\* One element in front of others.
LEMMA InFront ==
  ASSUME NEW S, NEW x \in S, NEW t \in Seq(S)
  PROVE  /\ <<x>> \o t \in Seq(S) /\ <<x>> \o t # <<>>
         /\ (<<x>> \o t)[1] = x /\ Tail(<<x>> \o t) = t /\ Len(<<x>> \o t) = Len(t) + 1
<1> DEFINE h == <<x>>
           l == h \o t
<1>1. h \in Seq(S) /\ Len(h) = 1 /\ h[1] = x
  OBVIOUS
<1> HIDE DEF h
<1>2. l \in Seq(S) /\ IsJoined(l, h, t)
  BY <1>1, ConcatAt
<1>3. Len(t) \in Nat
  OBVIOUS
<1>4. Len(l) = Len(t) + 1 /\ l[1] = x
  BY <1>1, <1>2 DEF IsJoined
<1>5. \A k \in 1..Len(t) : l[k + 1] = t[k]
  BY <1>1, <1>2, <1>3 DEF IsJoined
<1> HIDE DEF l
<1>6. l # <<>>
  BY <1>3, <1>4
<1>7. Tail(l) \in Seq(S) /\ Len(Tail(l)) = Len(t) /\ \A k \in 1..Len(t) : Tail(l)[k] = l[k + 1]
  BY <1>2, <1>3, <1>4, <1>6
<1>8. Tail(l) = t
  BY <1>5, <1>7, SeqEqual
<1> QED
  BY <1>2, <1>4, <1>6, <1>8 DEF l, h

Lettered == {"letter", "short", "glued"}

\* What is in arguments.
Pieces(program) ==
  STRING \cup {"-", "=", "?"} \cup {fd.shortOption : fd \in Range(program.flagDefs)}

\* The arguments of a setting are some, and those with a letter start with a dash.
LEMMA ArgumentsAre ==
  ASSUME NEW program, NEW s, s.style \in Styles, s.value \in Seq(STRING),
         s.flag \in STRING
  PROVE  LET P == Pieces(program)
             own == Arguments(program, s)
         IN  /\ own \in Seq(Seq(P)) /\ own # <<>>
             /\ s.style \in Lettered => own[1][1] = "-" /\ Len(own[1]) > 1
<1> DEFINE P == Pieces(program)
           own == Arguments(program, s)
           L == Letter(program, s.flag)
<1>1. {"-", "=", s.flag} \subseteq P /\ "?" \in P
  BY DEF Pieces
<1>2. L \in P
  <2>1. CASE ~Defined(program, s.flag)
    BY <1>1, <2>1 DEF Letter
  <2>2. CASE Defined(program, s.flag)
    <3>1. \E fd \in Range(program.flagDefs) : fd.longOption = s.flag
      BY <2>2 DEF Defined, Range
    <3>2. DefOf(program, s.flag) \in Range(program.flagDefs)
      BY <3>1 DEF DefOf
    <3> QED
      BY <2>2, <3>2 DEF Letter, Pieces
  <2> QED
    BY <2>1, <2>2
<1>3. s.value \in Seq(P) /\ Len(s.value) \in Nat
  <2>1. STRING \subseteq P
    BY DEF Pieces
  <2> HIDE DEF P
  <2>2. s.value \in Seq(P)
    BY <2>1, SeqWider, Zenon
  <2> QED
    BY <2>2
<1> DEFINE flag == s.flag
           value == s.value
<1> HIDE DEF P, L, flag, value
<1>4. CASE s.style = "switch"
  <2>1. own = << <<"-", "-", flag>> >>
    BY <1>4 DEF Arguments, flag
  <2> QED
    BY <1>1, <1>4, <2>1 DEF Lettered, flag, P
<1>5. CASE s.style = "letter"
  <2>1. own = << <<"-", L>> >>
    BY <1>5 DEF Arguments, L
  <2> QED
    BY <1>1, <1>2, <1>5, <2>1 DEF Lettered, P
<1>6. CASE s.style = "long"
  <2>1. own = << <<"-", "-", flag>>, value >>
    BY <1>6 DEF Arguments, flag, value
  <2> QED
    BY <1>1, <1>3, <1>6, <2>1 DEF Lettered, flag, value, P
<1>7. CASE s.style = "equals"
  <2>1. own = << <<"-", "-", flag, "=">> \o value >>
    BY <1>7 DEF Arguments, flag, value
  <2>2. <<"-", "-", flag, "=">> \in Seq(P)
    BY <1>1 DEF flag
  <2>3. <<"-", "-", flag, "=">> \o value \in Seq(P)
    BY <1>3, <2>2 DEF value
  <2> QED
    BY <1>7, <2>1, <2>3 DEF Lettered, P
<1>8. CASE s.style = "short"
  <2>1. own = << <<"-", L>>, value >>
    BY <1>8 DEF Arguments, L, value
  <2> QED
    BY <1>1, <1>2, <1>3, <1>8, <2>1 DEF Lettered, value, P
<1>9. CASE s.style = "glued"
  <2> DEFINE a == <<"-", L>>
             b == a \o value
  <2>1. own = << b >>
    BY <1>9 DEF Arguments, L, value
  <2>2. a \in Seq(P) /\ Len(a) = 2 /\ a[1] = "-"
    BY <1>1, <1>2
  <2>3. b \in Seq(P) /\ Len(b) > 1 /\ b[1] = "-"
    <3>1. value \in Seq(P) /\ Len(value) \in Nat
      BY <1>3 DEF value
    <3> HIDE DEF a
    <3>2. b \in Seq(P) /\ IsJoined(b, a, value)
      BY <2>2, <3>1, ConcatAt
    <3> QED
      BY <2>2, <3>1, <3>2 DEF IsJoined
  <2> HIDE DEF b
  <2> QED
    BY <1>9, <2>1, <2>3 DEF Lettered, P
<1>10. CASE s.style = "word"
  <2>1. own = << value >>
    BY <1>10 DEF Arguments, value
  <2> QED
    BY <1>3, <1>10, <2>1 DEF Lettered, value, P
<1>11. CASE s.style = "rest"
  <2>1. own = << <<"-", "-">> >>
    BY <1>11 DEF Arguments
  <2> QED
    BY <1>1, <1>11, <2>1 DEF Lettered, P
<1> QED
  BY <1>4, <1>5, <1>6, <1>7, <1>8, <1>9, <1>10, <1>11 DEF Styles

Joins(settings, i) == i < Len(settings) /\ settings[i + 1].joined

\* The arguments of a setting and of those behind it.
Beginning(program, settings, i, more) ==
  LET own == Arguments(program, settings[i])
  IN  IF Joins(settings, i) THEN <<own[1] \o Tail(more[1])>> \o Tail(more) ELSE own \o more

BeginsWithDash(line) == line[1][1] = "-" /\ Len(line[1]) > 1

IsLine(line, program, settings, i) ==
  /\ line \in Seq(Seq(Pieces(program)))
  /\ i <= Len(settings) =>
       line # <<>> /\ (settings[i].style \in Lettered => BeginsWithDash(line))

\* One more setting in front.
LEMMA LineBegins ==
  ASSUME NEW program, NEW settings, IsSettings(settings), NEW i \in 1..Len(settings), NEW more,
         IsLine(more, program, settings, i + 1)
  PROVE  IsLine(Beginning(program, settings, i, more), program, settings, i)
<1> DEFINE X == Seq(Pieces(program))
           s == settings[i]
           own == Arguments(program, s)
<1>1. Len(settings) \in Nat /\ DOMAIN settings = 1..Len(settings)
  BY DEF IsSettings
<1>2. /\ own \in Seq(X) /\ own # <<>>
      /\ s.style \in Lettered => own[1][1] = "-" /\ Len(own[1]) > 1
  BY <1>1, ArgumentsAre DEF IsSettings
<1>3. more \in Seq(X)
  BY DEF IsLine
<1>4. CASE Joins(settings, i)
  <2>1. i + 1 \in DOMAIN settings /\ settings[i + 1].joined
    BY <1>1, <1>4 DEF Joins
  <2>2. s.style = "letter" /\ settings[i + 1].style \in Lettered
    BY <2>1 DEF IsSettings, Lettered
  <2>3. more # <<>> /\ Len(more[1]) > 1
    BY <1>1, <2>1, <2>2 DEF IsLine, BeginsWithDash
  <2>4. more[1] \in X /\ Tail(more) \in Seq(X)
    <3> HIDE DEF X
    <3> QED
      BY <1>3, <2>3
  <2>5. Tail(more[1]) \in X
    BY <2>3, <2>4
  <2>6. own[1] \in X /\ own[1][1] = "-" /\ Len(own[1]) > 1
    <3>1. own[1] \in X
      <4> HIDE DEF X, own
      <4> QED
        BY <1>2
    <3> QED
      BY <1>2, <2>2, <3>1 DEF Lettered
  <2> DEFINE a == own[1]
             b == Tail(more[1])
             c == Tail(more)
  <2>7. a \o b \in X /\ IsJoined(a \o b, a, b)
    <3>1. a \in X /\ b \in X
      BY <2>5, <2>6
    <3> HIDE DEF a, b
    <3> QED
      BY <3>1, ConcatAt
  <2>8. (a \o b)[1] = "-" /\ Len(a \o b) > 1
    <3>1. Len(a) \in Nat /\ Len(b) \in Nat /\ 1 \in 1..Len(a)
      BY <2>5, <2>6
    <3> HIDE DEF b
    <3> QED
      BY <2>6, <2>7, <3>1 DEF IsJoined
  <2> DEFINE line == <<a \o b>> \o c
  <2>9. line \in Seq(X) /\ line # <<>> /\ line[1] = a \o b
    <3>1. c \in Seq(X) /\ a \o b \in X
      BY <2>4, <2>7
    <3> HIDE DEF X, a, b, c
    <3> QED
      BY <3>1, InFront
  <2>10. Beginning(program, settings, i, more) = line
    BY <1>4 DEF Beginning
  <2> HIDE DEF line, a, b, own, X
  <2> QED
    BY <2>8, <2>9, <2>10 DEF IsLine, BeginsWithDash, X
<1>5. CASE ~Joins(settings, i)
  <2> DEFINE line == own \o more
  <2>1. Beginning(program, settings, i, more) = line
    BY <1>5 DEF Beginning
  <2>2. line \in Seq(X) /\ line # <<>> /\ line[1] = own[1]
    <3>1. line \in Seq(X) /\ IsJoined(line, own, more)
      <4> HIDE DEF own, X
      <4> QED
        BY <1>2, <1>3, ConcatAt
    <3>2. Len(own) \in Nat /\ Len(more) \in Nat /\ Len(own) > 0
      <4> HIDE DEF own, X
      <4> QED
        BY <1>2, <1>3, EmptySeq
    <3> HIDE DEF line, own, X
    <3> QED
      BY <3>1, <3>2 DEF IsJoined
  <2> HIDE DEF line, own, X
  <2> QED
    BY <1>2, <2>1, <2>2 DEF IsLine, BeginsWithDash, X
<1> QED
  BY <1>4, <1>5

\* What is written from a setting on is what it begins, before what is behind it.
LEMMA WritesOn ==
  ASSUME NEW program, NEW settings, IsSettings(settings)
  PROVE  /\ WriteFrom(program, settings, Len(settings) + 1) = <<>>
         /\ \A i \in 1..Len(settings) :
              WriteFrom(program, settings, i)
                = Beginning(program, settings, i, WriteFrom(program, settings, i + 1))
         /\ \A i \in 1..Len(settings) + 1 :
              IsLine(WriteFrom(program, settings, i), program, settings, i)
<1> DEFINE n == Len(settings) + 1
           X == Seq(Pieces(program))
           V == Seq(X)
           Body(f, i) == IF i = Len(settings) + 1 THEN <<>>
                         ELSE IF i < Len(settings) /\ settings[i + 1].joined
                              THEN <<Arguments(program, settings[i])[1] \o Tail(f[i + 1][1])>>
                                     \o Tail(f[i + 1])
                              ELSE Arguments(program, settings[i]) \o f[i + 1]
           F == CHOOSE f : f = [i \in 1..n |-> Body(f, i)]
           G == [p \in [1..n -> V] \X (1..n) |-> Body(p[1], p[2])]
           T == [i \in 1..n |-> {l \in V : IsLine(l, program, settings, i)}]
<1>1. n \in Nat /\ n > 0 /\ Len(settings) \in Nat
  BY DEF IsSettings
<1>2. \A k : WriteFrom(program, settings, k) = F[k]
  BY DEF WriteFrom
<1>3. \A f, i : Body(f, i) = IF i = n THEN <<>> ELSE Beginning(program, settings, i, f[i + 1])
  BY DEF Beginning, Joins
<1>4. \A l, i : IsLine(l, program, settings, i) => l \in V
  BY DEF IsLine
<1>5. IsLine(<<>>, program, settings, n)
  <2>1. <<>> \in Seq(Seq(Pieces(program)))
    OBVIOUS
  <2>2. ~(n <= Len(settings))
    BY <1>1
  <2> QED
    BY <2>1, <2>2 DEF IsLine
<1>6. \A f, i : i \in 1..n /\ (i < n => IsLine(f[i + 1], program, settings, i + 1))
                  => IsLine(Body(f, i), program, settings, i)
  <2> SUFFICES ASSUME NEW f, NEW i \in 1..n, i < n => IsLine(f[i + 1], program, settings, i + 1)
               PROVE  IsLine(Body(f, i), program, settings, i)
    OBVIOUS
  <2>1. CASE i = n
    BY <1>3, <1>5, <2>1
  <2>2. CASE i # n
    <3>1. i \in 1..Len(settings) /\ i < n
      BY <1>1, <2>2
    <3>2. IsLine(Beginning(program, settings, i, f[i + 1]), program, settings, i)
      BY <3>1, LineBegins
    <3> QED
      BY <1>3, <2>2, <3>2
  <2> QED
    BY <2>1, <2>2
<1> HIDE DEF V, Body, n
<1>7. T \in [1..n -> SUBSET V] /\ \A i \in 1..n : \A l : l \in T[i] <=> IsLine(l, program, settings, i)
  BY <1>4
<1>8. \A f \in [1..n -> V], i \in 1..n : G[<<f, i>>] = Body(f, i)
  OBVIOUS
<1> HIDE DEF G, T
<1>9. MakesTyped(G, n, V, T)
  <2> SUFFICES ASSUME NEW f \in [1..n -> V], NEW i \in 1..n, Typed(f, n, T, i)
               PROVE  /\ G[<<f, i>>] \in T[i]
                      /\ \A g \in [1..n -> V] :
                           (\A j \in i+1..n : f[j] = g[j]) => G[<<f, i>>] = G[<<g, i>>]
    BY DEF MakesTyped
  <2>1. i < n => i + 1 \in i+1..n /\ i + 1 \in 1..n
    BY <1>1
  <2>2. i < n => IsLine(f[i + 1], program, settings, i + 1)
    BY <1>7, <2>1 DEF Typed
  <2>3. G[<<f, i>>] \in T[i]
    BY <1>6, <1>7, <1>8, <2>2
  <2>4. ASSUME NEW g \in [1..n -> V], \A j \in i+1..n : f[j] = g[j]
        PROVE  G[<<f, i>>] = G[<<g, i>>]
    <3>1. i # n => f[i + 1] = g[i + 1]
      BY <1>1, <2>1, <2>4
    <3>2. Body(f, i) = Body(g, i)
      BY <1>3, <3>1
    <3> QED
      BY <1>8, <3>2
  <2> QED
    BY <2>3, <2>4
<1>10. \E f \in [1..n -> V] : Descends(f, n, G)
  <2>1. n \in 1..n
    BY <1>1
  <2>2. T[n] # {}
    BY <1>5, <1>7, <2>1
  <2> QED
    BY <1>1, <1>7, <1>9, <2>2, TypedDescent
<1>11. \E f : f = [i \in 1..n |-> Body(f, i)]
  <2>1. PICK f \in [1..n -> V] : Descends(f, n, G)
    BY <1>10
  <2>2. \A i \in 1..n : f[i] = Body(f, i)
    BY <1>8, <2>1 DEF Descends
  <2> QED
    BY <2>2
<1>12. F = [i \in 1..n |-> Body(F, i)]
  BY <1>11
<1> HIDE DEF F
<1>13. \A i \in 1..n : F[i] = Body(F, i)
  BY <1>12
<1> DEFINE I == {i \in 1..n : IsLine(F[i], program, settings, i)}
<1>14. \A i \in 1..n : (\A j \in i+1..n : j \in I) => i \in I
  <2> SUFFICES ASSUME NEW i \in 1..n, \A j \in i+1..n : j \in I
               PROVE  IsLine(F[i], program, settings, i)
    OBVIOUS
  <2>1. i < n => i + 1 \in i+1..n
    BY <1>1
  <2> QED
    BY <1>6, <1>13, <2>1
<1>15. \A i \in 1..n : IsLine(F[i], program, settings, i)
  <2>1. \A i \in 1..n : i \in I
    <3> HIDE DEF I
    <3> QED
      BY <1>1, <1>14, DescendingInduction
  <2> QED
    BY <2>1
<1>16. F[n] = <<>>
  BY <1>1, <1>3, <1>13
<1>17. \A i \in 1..Len(settings) : F[i] = Beginning(program, settings, i, F[i + 1])
  BY <1>1, <1>3, <1>13 DEF n
<1> QED
  BY <1>2, <1>15, <1>16, <1>17 DEF n

\* findDef() finds the definition that a flag's name, or its letter, is of.
LEMMA FindsFlag ==
  ASSUME commandLine \in CommandLines, IsLettered(known), NEW flag
  PROVE  /\ Defined(known, flag) =>
              /\ FindLong(<<flag>>) \in DOMAIN flagDefs
              /\ flagDefs[FindLong(<<flag>>)] = DefOf(known, flag)
              /\ DefOf(known, flag).longOption = flag
              /\ Letter(known, flag) # None =>
                   FindShort(Letter(known, flag)) = FindLong(<<flag>>)
         /\ ~Defined(known, flag) => FindLong(<<flag>>) = 0 /\ FindShort(Letter(known, flag)) = 0
<1>1. flagDefs = known.flagDefs /\ DOMAIN flagDefs = 1..Len(flagDefs)
  BY Known DEF flagDefs, known
<1>2. CASE Defined(known, flag)
  <2>1. PICK k \in DOMAIN flagDefs : flagDefs[k].longOption = flag
    BY <1>1, <1>2 DEF Defined
  <2>2. FindLong(<<flag>>) = k
    BY <2>1, FindsOwnDefinition
  <2>3. \A fd \in Range(flagDefs) : fd.longOption = flag => fd = flagDefs[k]
    BY <2>1, Known DEF Range
  <2>4. flagDefs[k] \in Range(flagDefs)
    BY <2>1 DEF Range
  <2>5. DefOf(known, flag) = flagDefs[k]
    BY <1>1, <2>1, <2>3, <2>4 DEF DefOf
  <2>6. ASSUME Letter(known, flag) # None PROVE FindShort(Letter(known, flag)) = k
    <3> DEFINE letter == flagDefs[k].shortOption
               L == {l \in 1..Len(flagDefs) : flagDefs[l].shortOption = letter}
    <3>1. letter = Letter(known, flag)
      BY <1>2, <2>5 DEF Letter
    <3>2. L = {k}
      <4>1. \A l \in DOMAIN flagDefs : flagDefs[l].shortOption = letter => l = k
        BY <1>1, <2>1, <2>6, <3>1 DEF IsLettered
      <4> QED
        BY <1>1, <2>1, <4>1
    <3>3. Min(L) \in L
      <4>1. L \subseteq Nat /\ L # {}
        BY <3>2
      <4> HIDE DEF L
      <4> QED
        BY <4>1, MinIsMember
    <3>4. FindShort(letter) = IF L # {} THEN Min(L) ELSE 0
      BY DEF FindShort, SelectInSeq
    <3> QED
      BY <3>1, <3>2, <3>3, <3>4
  <2> QED
    BY <1>2, <2>1, <2>2, <2>5, <2>6
<1>3. CASE ~Defined(known, flag)
  <2>1. \A k \in 1..Len(flagDefs) : flagDefs[k].longOption # flag
    BY <1>1, <1>3 DEF Defined
  <2>2. \A k \in 1..Len(flagDefs) : flagDefs[k].shortOption # "?"
    BY <1>1 DEF IsLettered
  <2>3. Letter(known, flag) = "?"
    BY <1>3 DEF Letter
  <2> DEFINE L == {k \in 1..Len(flagDefs) : <<flagDefs[k].longOption>> = <<flag>>}
             S == {k \in 1..Len(flagDefs) : flagDefs[k].shortOption = "?"}
  <2>4. L = {} /\ S = {}
    BY <2>1, <2>2
  <2>5. FindLong(<<flag>>) = IF L # {} THEN Min(L) ELSE 0
    BY DEF FindLong, SelectInSeq
  <2>6. FindShort("?") = IF S # {} THEN Min(S) ELSE 0
    BY DEF FindShort, SelectInSeq
  <2> QED
    BY <1>3, <2>3, <2>4, <2>5, <2>6
<1> QED
  BY <1>2, <1>3

\* What is left of a sequence from a place on.
LEMMA FromPlace ==
  ASSUME NEW S, NEW s \in Seq(S), NEW k \in 1..Len(s) + 1
  PROVE  /\ SubSeq(s, k, Len(s)) \in Seq(S)
         /\ SubSeq(s, k, Len(s)) = <<>> <=> k = Len(s) + 1
         /\ k <= Len(s) =>
              /\ SubSeq(s, k, Len(s))[1] = s[k]
              /\ Tail(SubSeq(s, k, Len(s))) = SubSeq(s, k + 1, Len(s))
<1>1. Len(s) \in Nat /\ \A i \in 1..Len(s) : s[i] \in S
  OBVIOUS
<1> DEFINE l == SubSeq(s, k, Len(s))
           m == SubSeq(s, k + 1, Len(s))
<1>2. l \in Seq(S) /\ Len(l) = (Len(s) - k) + 1 /\ \A i \in 1..Len(l) : l[i] = s[k + i - 1]
  BY <1>1, SubSeqProperties
<1>3. l = <<>> <=> k = Len(s) + 1
  <2> HIDE DEF l
  <2> QED
    BY <1>1, <1>2, EmptySeq
<1>4. ASSUME k <= Len(s)
      PROVE  l[1] = s[k] /\ Tail(l) = m
  <2>1. m \in Seq(S) /\ Len(m) = (Len(s) - (k + 1)) + 1 /\ \A i \in 1..Len(m) : m[i] = s[k + 1 + i - 1]
    BY <1>1, <1>4, SubSeqProperties
  <2> HIDE DEF l, m
  <2>2. l # <<>> /\ Len(l) \in Nat
    BY <1>1, <1>2, <1>3, <1>4
  <2>3. Tail(l) \in Seq(S) /\ Len(Tail(l)) = Len(l) - 1 /\ \A i \in 1..Len(Tail(l)) : Tail(l)[i] = l[i + 1]
    BY <1>2, <2>2
  <2>4. Len(Tail(l)) = Len(m)
    <3>1. Len(l) = Len(s) - k + 1 /\ Len(m) = Len(s) - k /\ k \in Nat
      BY <1>1, <1>2, <2>1
    <3> QED
      BY ONLY <1>1, <2>3, <3>1
  <2>5. \A i \in 1..Len(m) : Tail(l)[i] = m[i]
    BY <1>1, <1>2, <2>1, <2>3, <2>4
  <2>6. l[1] = s[k]
    BY <1>1, <1>2, <1>4
  <2> QED
    BY <2>1, <2>3, <2>4, <2>5, <2>6, SeqEqual
<1> QED
  BY <1>2, <1>3, <1>4

\* Two elements in front of others.
LEMMA TwoInFront ==
  ASSUME NEW S, NEW x \in S, NEW y \in S, NEW t \in Seq(S)
  PROVE  <<x, y>> \o t = <<x>> \o (<<y>> \o t)
<1> DEFINE h == <<x, y>>
           l == h \o t
           m == <<y>> \o t
           r == <<x>> \o m
<1>1. h \in Seq(S) /\ Len(h) = 2 /\ h[1] = x /\ h[2] = y
  OBVIOUS
<1>2. <<x>> \in Seq(S) /\ Len(<<x>>) = 1 /\ <<x>>[1] = x
      /\ <<y>> \in Seq(S) /\ Len(<<y>>) = 1 /\ <<y>>[1] = y
  OBVIOUS
<1> HIDE DEF h
<1>3. l \in Seq(S) /\ IsJoined(l, h, t)
  BY <1>1, ConcatAt
<1>4. m \in Seq(S) /\ IsJoined(m, <<y>>, t)
  BY <1>2, ConcatAt
<1> HIDE DEF m
<1>5. r \in Seq(S) /\ IsJoined(r, <<x>>, m)
  BY <1>2, <1>4, ConcatAt
<1> HIDE DEF l, r
<1>6. Len(t) \in Nat
  OBVIOUS
<1>7. Len(m) = Len(t) + 1 /\ m[1] = y /\ \A i \in 1..Len(t) : m[1 + i] = t[i]
  BY <1>2, <1>4, <1>6 DEF IsJoined
<1>8. Len(r) = Len(t) + 2 /\ r[1] = x /\ \A i \in 1..Len(m) : r[1 + i] = m[i]
  BY <1>2, <1>5, <1>6, <1>7 DEF IsJoined
<1>9. Len(l) = Len(t) + 2 /\ l[1] = x /\ l[2] = y /\ \A i \in 1..Len(t) : l[2 + i] = t[i]
  BY <1>1, <1>3, <1>6 DEF IsJoined
<1>10. ASSUME NEW i \in 1..Len(l) PROVE l[i] = r[i]
  <2>1. CASE i = 1
    BY <1>8, <1>9, <2>1
  <2>2. CASE i = 2
    <3>1. r[1 + 1] = m[1]
      BY <1>6, <1>7, <1>8
    <3> QED
      BY <1>7, <1>9, <2>2, <3>1
  <2>3. CASE i \in 3..Len(l)
    <3>1. PICK j \in 1..Len(t) : i = 2 + j
      <4>1. i - 2 \in 1..Len(t) /\ i = 2 + (i - 2)
        BY <1>6, <1>9, <2>3
      <4> QED
        BY <4>1
    <3>2. l[i] = t[j]
      BY <1>9, <3>1
    <3>3. 1 + j \in 1..Len(m) /\ i = 1 + (1 + j)
      BY <1>6, <1>7, <3>1
    <3>4. r[1 + (1 + j)] = m[1 + j] /\ m[1 + j] = t[j]
      BY <1>7, <1>8, <3>3
    <3> QED
      BY <3>2, <3>3, <3>4
  <2> QED
    BY <1>6, <1>9, <2>1, <2>2, <2>3
<1>11. l = r
  BY <1>3, <1>5, <1>8, <1>9, <1>10, SeqEqual
<1> QED
  BY <1>11 DEF l, r, h, m

-----------------------------------------------------------------------------
Line(k) == WriteFrom(known, written, k)
LetterAt(k) == Letter(known, written[k].flag)
Texts == Seq(Pieces(known))

\* The arguments from that of a setting on start with what its style says, and go
\* on with those of the next.
Starts(k, arg, more) == Line(k) = <<arg>> \o more /\ arg \in Texts /\ more \in Seq(Texts)

\* Each style starts its own way.
LEMMA LineStarts ==
  ASSUME IsWritten(commandLine), NEW k \in 1..Len(written)
  PROVE  LET s == written[k]
             next == Line(k + 1)
             name == <<"-", "-", s.flag>>
             letter == <<"-", LetterAt(k)>>
         IN  /\ s.style = "switch" => Starts(k, name, next)
             /\ s.style = "letter" /\ ~Joins(written, k) => Starts(k, letter, next)
             /\ s.style = "letter" /\ Joins(written, k) =>
                  /\ Starts(k, letter \o Tail(next[1]), Tail(next))
                  /\ k < Len(written) /\ written[k + 1].style \in Lettered
             /\ s.style = "long" => Starts(k, name, <<s.value>> \o next)
             /\ s.style = "equals" => Starts(k, <<"-", "-", s.flag, "=">> \o s.value, next)
             /\ s.style = "short" => Starts(k, letter, <<s.value>> \o next)
             /\ s.style = "glued" => Starts(k, letter \o s.value, next)
             /\ s.style = "word" => Starts(k, s.value, next)
             /\ s.style = "rest" => Starts(k, <<"-", "-">>, next)
<1> DEFINE P == Pieces(known)
           X == Seq(P)
           s == written[k]
           own == Arguments(known, s)
           next == Line(k + 1)
           L == LetterAt(k)
           flag == s.flag
           value == s.value
<1>1. IsSettings(written) /\ Len(written) \in Nat /\ DOMAIN written = 1..Len(written)
  <2>1. IsSettings(written)
    BY DEF IsWritten, written
  <2> QED
    BY <2>1 DEF IsSettings
<1>2. s.style \in Styles /\ value \in Seq(STRING) /\ flag \in STRING
  BY <1>1 DEF IsSettings
<1>3. {"-", "=", flag} \subseteq P
  BY <1>2 DEF Pieces
<1>4. L \in P
  <2>1. CASE ~Defined(known, flag)
    BY <2>1 DEF Letter, LetterAt, Pieces
  <2>2. CASE Defined(known, flag)
    <3>1. \E fd \in Range(known.flagDefs) : fd.longOption = flag
      BY <2>2 DEF Defined, Range
    <3>2. DefOf(known, flag) \in Range(known.flagDefs)
      BY <3>1 DEF DefOf
    <3> QED
      BY <2>2, <3>2 DEF Letter, LetterAt, Pieces
  <2> QED
    BY <2>1, <2>2
<1>5. value \in X
  <2>1. STRING \subseteq P
    BY DEF Pieces
  <2> HIDE DEF P, value
  <2> QED
    BY <1>2, <2>1, SeqWider, Zenon
<1>6. Line(k) = Beginning(known, written, k, next) /\ IsLine(next, known, written, k + 1)
  <2>1. k + 1 \in 1..Len(written) + 1
    BY <1>1
  <2> QED
    BY <1>1, <2>1, WritesOn DEF Line
<1>7. next \in Seq(X)
  BY <1>6 DEF IsLine
<1>8. ASSUME NEW a \in X, own = <<a>>, ~Joins(written, k)
      PROVE  Starts(k, a, next)
  BY <1>6, <1>7, <1>8 DEF Beginning, Starts, Texts
<1>9. ASSUME NEW a \in X, own = <<a, value>>, ~Joins(written, k)
      PROVE  Starts(k, a, <<value>> \o next)
  <2>1. Line(k) = <<a, value>> \o next
    BY <1>6, <1>9 DEF Beginning
  <2> HIDE DEF X, next, value
  <2>2. <<a, value>> \o next = <<a>> \o (<<value>> \o next) /\ <<value>> \o next \in Seq(X)
    BY <1>5, <1>7, TwoInFront, InFront
  <2> QED
    BY <2>1, <2>2 DEF Starts, Texts, X
<1>10. s.style # "letter" => ~Joins(written, k)
  <2> SUFFICES ASSUME Joins(written, k) PROVE s.style = "letter"
    OBVIOUS
  <2>1. k + 1 \in DOMAIN written /\ written[k + 1].joined /\ (k + 1) - 1 = k
    BY <1>1 DEF Joins
  <2> QED
    BY <1>1, <2>1 DEF IsSettings
<1> HIDE DEF next
<1>11. <<"-", "-", flag>> \in X /\ <<"-", L>> \in X /\ <<"-", "-">> \in X /\ <<"-", "-", flag, "=">> \in X
  <2> HIDE DEF P, flag, L
  <2> QED
    BY <1>3, <1>4
<1>12. /\ <<"-", "-", flag, "=">> \o value \in X /\ <<"-", L>> \o value \in X
  <2> DEFINE e == <<"-", "-", flag, "=">>
             l == <<"-", L>>
  <2>1. e \in X /\ l \in X
    BY <1>11
  <2> HIDE DEF e, l, value
  <2>2. e \o value \in X /\ l \o value \in X
    BY <1>5, <2>1, ConcatAt
  <2> QED
    BY <2>2 DEF e, l
<1>13. CASE s.style = "switch"
  <2>1. own = << <<"-", "-", flag>> >>
    BY <1>13 DEF Arguments
  <2> QED
    BY <1>8, <1>10, <1>11, <1>13, <2>1 DEF next
<1>14. CASE s.style = "letter" /\ ~Joins(written, k)
  <2>1. own = << <<"-", L>> >>
    BY <1>14 DEF Arguments, LetterAt
  <2> QED
    BY <1>8, <1>11, <1>14, <2>1 DEF next
<1>15. CASE s.style = "letter" /\ Joins(written, k)
  <2> DEFINE l == <<"-", L>>
  <2>1. own = << l >> /\ own[1] = l
    BY <1>15 DEF Arguments, LetterAt
  <2>2. k + 1 \in DOMAIN written /\ written[k + 1].joined
    BY <1>1, <1>15 DEF Joins
  <2>3. written[k + 1].style \in Lettered /\ k < Len(written)
    BY <1>1, <2>2 DEF IsSettings, Lettered
  <2>4. next # <<>> /\ Len(next[1]) > 1
    BY <1>1, <1>6, <2>2, <2>3 DEF IsLine, BeginsWithDash
  <2>5. next[1] \in X /\ Tail(next) \in Seq(X)
    <3> HIDE DEF X
    <3> QED
      BY <1>7, <2>4
  <2>6. Tail(next[1]) \in X
    BY <2>4, <2>5
  <2>7. l \in X
    BY <1>11
  <2>8. l \o Tail(next[1]) \in X
    <3> HIDE DEF l
    <3> QED
      BY <2>6, <2>7, ConcatAt
  <2>9. Line(k) = <<l \o Tail(next[1])>> \o Tail(next)
    BY <1>6, <1>15, <2>1 DEF Beginning
  <2>10. Starts(k, l \o Tail(next[1]), Tail(next))
    BY <2>5, <2>8, <2>9 DEF Starts, Texts
  <2> QED
    BY <1>15, <2>3, <2>10 DEF next
<1>16. CASE s.style = "long"
  <2>1. own = << <<"-", "-", flag>>, value >>
    BY <1>16 DEF Arguments
  <2> QED
    BY <1>9, <1>10, <1>11, <1>16, <2>1 DEF next
<1>17. CASE s.style = "equals"
  <2>1. own = << <<"-", "-", flag, "=">> \o value >>
    BY <1>17 DEF Arguments
  <2> QED
    BY <1>8, <1>10, <1>12, <1>17, <2>1 DEF next
<1>18. CASE s.style = "short"
  <2>1. own = << <<"-", L>>, value >>
    BY <1>18 DEF Arguments, LetterAt
  <2> QED
    BY <1>9, <1>10, <1>11, <1>18, <2>1 DEF next
<1>19. CASE s.style = "glued"
  <2>1. own = << <<"-", L>> \o value >>
    BY <1>19 DEF Arguments, LetterAt
  <2> QED
    BY <1>8, <1>10, <1>12, <1>19, <2>1 DEF next
<1>20. CASE s.style = "word"
  <2>1. own = << value >>
    BY <1>20 DEF Arguments
  <2> QED
    BY <1>5, <1>8, <1>10, <1>20, <2>1 DEF next
<1>21. CASE s.style = "rest"
  <2>1. own = << <<"-", "-">> >>
    BY <1>21 DEF Arguments
  <2> QED
    BY <1>8, <1>10, <1>11, <1>21, <2>1 DEF next
<1> QED
  BY <1>2, <1>13, <1>14, <1>15, <1>16, <1>17, <1>18, <1>19, <1>20, <1>21 DEF Styles

\* The arguments that have not been read, with the dash of the letters that are left.
Behind == SubSeq(args, argument, Len(args))
Unread == IF letters = <<>> THEN Behind ELSE << <<"-">> \o letters >> \o Behind

\* The settings that were read: what they set, and the words among them.
Accepted(n) == \A k \in 1..n : written[k].style # "rest" /\ ~Wrong(k)

NamedTo(n) == {k \in 1..n : written[k].style \notin {"word", "rest"}}
ValueOf(k) ==
  [type |-> DefOf(known, written[k].flag).type,
   value |-> IF written[k].style \in {"switch", "letter"} THEN <<"true">> ELSE written[k].value]
NamedLast(k, n) == \A j \in NamedTo(n) : written[j].flag = written[k].flag => j <= k

FlagsGiven(n) ==
  /\ DOMAIN set = {written[k].flag : k \in NamedTo(n)}
  /\ \A k \in NamedTo(n) : NamedLast(k, n) => set[written[k].flag] = ValueOf(k)

Words(n) == Kept(SubSeq(written, 1, n), {s \in Range(written) : s.style = "word"})
WordsOf(n) == [k \in DOMAIN Words(n) |-> Words(n)[k].value]

ReadTo(n) ==
  /\ n \in 0..Len(written)
  /\ Accepted(n)
  /\ FlagsGiven(n)
  /\ params = WordsOf(n)
  /\ Unread = Line(n + 1)
  /\ letters # <<>> => n < Len(written) /\ written[n + 1].style \in Lettered

ReadToRest(n) ==
  /\ n \in 1..Len(written)
  /\ written[n].style = "rest"
  /\ known.parametersEnabled
  /\ Accepted(n - 1)
  /\ FlagsGiven(n - 1)
  /\ letters = <<>>
  /\ params \o Behind = WordsOf(n - 1) \o Line(n + 1)

WrittenInv ==
  /\ IInv
  /\ IsWritten(commandLine)
  /\ reading = "options" => \E n \in Int : ReadTo(n)
  /\ reading = "parameters" => \E n \in Int : ReadToRest(n)
  /\ FlagsAsWritten

-----------------------------------------------------------------------------
\* What is known of every state.
LEMMA Places ==
  ASSUME WrittenInv
  PROVE  /\ Len(written) \in Nat /\ DOMAIN written = 1..Len(written)
         /\ written \in Seq(Range(written))
         /\ IsSettings(written) /\ IsLettered(known)
         /\ args = Line(1) /\ args \in Seq(Texts)
         /\ argument \in 1..Len(args) + 1 /\ Len(args) \in Nat
         /\ letters \in Texts
         /\ commandLine \in CommandLines
         /\ \A k \in 1..Len(written) + 1 :
              Line(k) \in Seq(Texts) /\ (Line(k) = <<>> <=> k = Len(written) + 1)
<1>1. IsSettings(written) /\ IsLettered(known) /\ args = Line(1)
  BY DEF WrittenInv, IsWritten, written, known, args, Line, WriteLine
<1>2. Len(written) \in Nat /\ DOMAIN written = 1..Len(written) /\ written \in Seq(Range(written))
  BY <1>1 DEF IsSettings
<1>3. \A k \in 1..Len(written) + 1 : IsLine(Line(k), known, written, k)
  BY <1>1, WritesOn DEF Line
<1>4. Line(Len(written) + 1) = <<>>
  BY <1>1, WritesOn DEF Line
<1>5. \A k \in 1..Len(written) + 1 :
         Line(k) \in Seq(Texts) /\ (Line(k) = <<>> <=> k = Len(written) + 1)
  <2> SUFFICES ASSUME NEW k \in 1..Len(written) + 1
               PROVE  Line(k) \in Seq(Texts) /\ (Line(k) = <<>> <=> k = Len(written) + 1)
    OBVIOUS
  <2>1. IsLine(Line(k), known, written, k)
    BY <1>3
  <2>2. k <= Len(written) => Line(k) # <<>>
    BY <2>1 DEF IsLine
  <2>3. Line(k) \in Seq(Texts)
    BY <2>1 DEF IsLine, Texts
  <2> QED
    BY <1>2, <1>4, <2>2, <2>3
<1>6. args \in Seq(Texts)
  BY <1>1, <1>2, <1>5
<1>7. Len(args) \in Nat
  <2> HIDE DEF Texts
  <2> QED
    BY <1>6
<1>8. argument \in 1..Len(args) + 1 /\ letters \in Seq(STRING) /\ commandLine \in CommandLines
  BY DEF WrittenInv, IInv, FlagsTypeOK
<1>9. letters \in Texts
  <2>1. STRING \subseteq Pieces(known)
    BY DEF Pieces
  <2> QED
    BY <1>8, <2>1, SeqWider, Zenon DEF Texts
<1> QED
  BY <1>1, <1>2, <1>5, <1>6, <1>7, <1>8, <1>9

\* The next argument is that of the next setting.
LEMMA NextIs ==
  ASSUME WrittenInv, NEW n \in Int, ReadTo(n), letters = <<>>
  PROVE  /\ AtEnd => n = Len(written)
         /\ ~AtEnd => n < Len(written) /\ n + 1 \in 1..Len(written)
         /\ ~AtEnd => \A arg, more : Starts(n + 1, arg, more) =>
              Arg = arg /\ SubSeq(args, argument + 1, Len(args)) = more
<1>1. Behind = Line(n + 1) /\ n \in 0..Len(written)
  BY DEF ReadTo, Unread
<1>2. /\ Len(written) \in Nat /\ args \in Seq(Texts) /\ argument \in 1..Len(args) + 1
      /\ Len(args) \in Nat
      /\ \A k \in 1..Len(written) + 1 : Line(k) = <<>> <=> k = Len(written) + 1
  BY Places
<1> HIDE DEF Texts
<1>3. Behind = <<>> <=> argument = Len(args) + 1
  BY <1>2, FromPlace DEF Behind
<1>4. AtEnd <=> argument = Len(args) + 1
  BY <1>2 DEF AtEnd
<1>5. n + 1 \in 1..Len(written) + 1
  BY <1>1, <1>2
<1>6. AtEnd <=> n = Len(written)
  BY <1>1, <1>2, <1>3, <1>4, <1>5
<1>7. ASSUME ~AtEnd, NEW arg, NEW more, Starts(n + 1, arg, more)
      PROVE  Arg = arg /\ SubSeq(args, argument + 1, Len(args)) = more
  <2>1. Behind[1] = Arg /\ Tail(Behind) = SubSeq(args, argument + 1, Len(args))
    <3>1. argument <= Len(args) /\ argument \in 1..Len(args) + 1
      BY <1>2, <1>4, <1>7
    <3> QED
      BY <1>2, <3>1, FromPlace DEF Behind, Arg
  <2>2. Behind = <<arg>> \o more /\ arg \in Texts /\ more \in Seq(Texts)
    BY <1>1, <1>7 DEF Starts
  <2>3. (<<arg>> \o more)[1] = arg /\ Tail(<<arg>> \o more) = more
    BY <2>2, InFront
  <2> QED
    BY <2>1, <2>2, <2>3
<1> QED
  BY <1>1, <1>2, <1>6, <1>7

\* The letters that are left are those of the next setting's argument.
LEMMA LettersAre ==
  ASSUME WrittenInv, NEW n \in Int, ReadTo(n), letters # <<>>
  PROVE  /\ n + 1 \in 1..Len(written) /\ written[n + 1].style \in Lettered
         /\ \A arg, more : Starts(n + 1, arg, more) => letters = Tail(arg) /\ Behind = more
<1>1. << <<"-">> \o letters >> \o Behind = Line(n + 1) /\ n \in 0..Len(written)
      /\ n < Len(written) /\ written[n + 1].style \in Lettered
  BY DEF ReadTo, Unread
<1>2. /\ args \in Seq(Texts) /\ argument \in 1..Len(args) + 1 /\ letters \in Texts /\ Len(written) \in Nat
  BY Places
<1>3. "-" \in Pieces(known)
  BY DEF Pieces
<1> DEFINE a == <<"-">> \o letters
<1>4. a \in Texts /\ Tail(a) = letters
  BY <1>2, <1>3, InFront DEF Texts
<1>5. Behind \in Seq(Texts)
  <2> HIDE DEF Texts
  <2> QED
    BY <1>2, FromPlace DEF Behind
<1> HIDE DEF Texts, a
<1>6. ASSUME NEW arg, NEW more, Starts(n + 1, arg, more)
      PROVE  letters = Tail(arg) /\ Behind = more
  <2>1. <<a>> \o Behind = <<arg>> \o more /\ arg \in Texts /\ more \in Seq(Texts)
    BY <1>1, <1>6 DEF Starts, a
  <2>2. (<<a>> \o Behind)[1] = a /\ Tail(<<a>> \o Behind) = Behind
    BY <1>4, <1>5, InFront
  <2>3. (<<arg>> \o more)[1] = arg /\ Tail(<<arg>> \o more) = more
    BY <2>1, InFront
  <2> QED
    BY <1>4, <2>1, <2>2, <2>3
<1> QED
  BY <1>1, <1>2, <1>6

-----------------------------------------------------------------------------
\* As long as the command line is the same, so is what was written.
LEMMA CommandLineStays ==
  ASSUME UNCHANGED commandLine
  PROVE  /\ written' = written /\ known' = known /\ args' = args /\ flagDefs' = flagDefs
         /\ IsWritten(commandLine) => IsWritten(commandLine)'
         /\ \A k : Line(k)' = Line(k) /\ ValueOf(k)' = ValueOf(k) /\ Wrong(k)' = Wrong(k)
         /\ \A n : /\ Accepted(n)' = Accepted(n) /\ NamedTo(n)' = NamedTo(n)
                   /\ WordsOf(n)' = WordsOf(n)
                   /\ \A k : NamedLast(k, n)' = NamedLast(k, n)
         /\ Options' = Options /\ MeantParameters' = MeantParameters /\ MeantFlags' = MeantFlags
         /\ \A flag : MeantValue(flag)' = MeantValue(flag)
<1>1. written' = written /\ known' = known /\ args' = args /\ flagDefs' = flagDefs
  BY DEF written, known, args, flagDefs
<1>2. IsWritten(commandLine) => IsWritten(commandLine)'
  OBVIOUS
<1>3. Options' = Options
  BY <1>1 DEF Options
<1>4. Naming' = Naming
  BY <1>1, <1>3 DEF Naming
<1>5. ASSUME NEW k PROVE Line(k)' = Line(k) /\ ValueOf(k)' = ValueOf(k) /\ Wrong(k)' = Wrong(k)
  BY <1>1, <1>4 DEF Line, ValueOf, Wrong
<1>6. ASSUME NEW n PROVE /\ Accepted(n)' = Accepted(n) /\ NamedTo(n)' = NamedTo(n)
                         /\ WordsOf(n)' = WordsOf(n)
                         /\ \A k : NamedLast(k, n)' = NamedLast(k, n)
  <2>1. Accepted(n)' = Accepted(n)
    BY <1>1, <1>5 DEF Accepted
  <2>2. NamedTo(n)' = NamedTo(n)
    BY <1>1 DEF NamedTo
  <2>3. WordsOf(n)' = WordsOf(n)
    BY <1>1 DEF WordsOf, Words
  <2>4. ASSUME NEW k PROVE NamedLast(k, n)' = NamedLast(k, n)
    BY <1>1, <2>2 DEF NamedLast
  <2> QED
    BY <2>1, <2>2, <2>3, <2>4
<1>7. MeantParameters' = MeantParameters
  BY <1>1 DEF MeantParameters, SelectInSeq
<1>9. MeantFlags' = MeantFlags
  BY <1>1, <1>4 DEF MeantFlags
<1>8. ASSUME NEW flag PROVE MeantValue(flag)' = MeantValue(flag)
  BY <1>1, <1>4 DEF MeantValue
<1> QED
  BY <1>1, <1>2, <1>3, <1>5, <1>6, <1>7, <1>8, <1>9

\* What is known of the setting that is next.
LEMMA NextSays ==
  ASSUME WrittenInv, NEW n \in Int, ReadTo(n), n + 1 \in 1..Len(written)
  PROVE  LET s == written[n + 1] IN
         /\ n + 1 \in Options /\ n \in Nat
         /\ n + 1 \in Naming <=> s.style \notin {"word", "rest"}
         /\ SaysItself(known, written, n + 1)
         /\ s.style \in Styles /\ s.value \in Seq(STRING) /\ s.flag \in STRING \ {"="}
<1>1. Len(written) \in Nat /\ DOMAIN written = 1..Len(written) /\ IsSettings(written)
  BY Places
<1>2. n \in 0..Len(written) /\ \A j \in 1..n : written[j].style # "rest"
  BY DEF ReadTo, Accepted
<1>3. n + 1 \in DOMAIN written /\ (n + 1) - 1 = n /\ n \in Nat
  BY <1>1, <1>2
<1>4. n + 1 \in Options
  BY <1>2, <1>3 DEF Options
<1>5. SaysItself(known, written, n + 1)
  <2>1. \A k \in DOMAIN written :
          (\A j \in 1..k - 1 : written[j].style # "rest") => SaysItself(known, written, k)
    BY DEF WrittenInv, IsWritten, written, known
  <2> QED
    BY <1>2, <1>3, <2>1
<1> QED
  BY <1>1, <1>3, <1>4, <1>5 DEF IsSettings, Naming

\* The words among the settings, one setting further.
LEMMA WordsGrow ==
  ASSUME written \in Seq(Range(written))
  PROVE  /\ WordsOf(0) = <<>>
         /\ \A n \in 0..Len(written) - 1 :
              /\ written[n + 1].style # "word" => WordsOf(n + 1) = WordsOf(n)
              /\ written[n + 1].style = "word" =>
                   /\ written[n + 1].value \in Seq(STRING) /\ WordsOf(n) \in Seq(Seq(STRING)) =>
                        WordsOf(n + 1) = Append(WordsOf(n), written[n + 1].value)
<1> DEFINE R == Range(written)
           K == {s \in R : s.style = "word"}
           Before(n) == SubSeq(written, 1, n)
<1>0. ASSUME NEW n PROVE Words(n) = Kept(Before(n), K)
  BY DEF Words
<1>1. Len(written) \in Nat /\ \A i \in 1..Len(written) : written[i] \in R
  OBVIOUS
<1>2. Before(0) = <<>>
  BY <1>1
<1>3. WordsOf(0) = <<>>
  <2>1. Words(0) = <<>>
    BY <1>2, KeptEmpty DEF Words
  <2> QED
    BY <2>1 DEF WordsOf
<1>4. ASSUME NEW n \in 0..Len(written) - 1
      PROVE  Before(n) \in Seq(R) /\ Before(n + 1) = Append(Before(n), written[n + 1])
             /\ written[n + 1] \in R
  <2> DEFINE b == Before(n)
             c == Before(n + 1)
  <2>1. n \in Nat /\ n + 1 \in 1..Len(written) /\ \A i \in 1..n + 1 : i \in 1..Len(written)
    BY <1>1
  <2>2. b \in Seq(R) /\ Len(b) = n /\ \A i \in 1..n : b[i] = written[i]
    BY <1>1, <2>1, SubSeqProperties
  <2>3. c \in Seq(R) /\ Len(c) = n + 1 /\ \A i \in 1..n + 1 : c[i] = written[i]
    BY <1>1, <2>1, SubSeqProperties
  <2> HIDE DEF b, c
  <2> DEFINE x == written[n + 1]
             a == Append(b, x)
  <2>4. a \in Seq(R) /\ Len(a) = n + 1 /\ a[n + 1] = x /\ \A i \in 1..n : a[i] = b[i]
    BY <1>1, <2>1, <2>2
  <2> HIDE DEF a
  <2>5. \A i \in 1..n + 1 : c[i] = a[i]
    BY <2>1, <2>2, <2>3, <2>4
  <2>6. c = a
    BY <2>3, <2>4, <2>5, SeqEqual
  <2> QED
    BY <1>1, <2>1, <2>2, <2>6 DEF a, b, c
<1>5. ASSUME NEW n \in 0..Len(written) - 1, written[n + 1].style # "word"
      PROVE  WordsOf(n + 1) = WordsOf(n)
  <2>1. written[n + 1] \notin K
    BY <1>5
  <2>2. Words(n + 1) = Words(n)
    <3> DEFINE x == written[n + 1]
               b == Before(n)
    <3>1. b \in Seq(R) /\ Before(n + 1) = Append(b, x) /\ x \in R /\ x \notin K
      BY <1>4, <2>1
    <3> HIDE DEF Before, K, R, b, x
    <3>2. Kept(Append(b, x), K) = Kept(b, K)
      BY <3>1, KeptAppend, Zenon
    <3>3. Kept(Before(n + 1), K) = Kept(Before(n), K)
      BY <3>1, <3>2 DEF b
    <3> QED
      BY <1>0, <3>3
  <2> QED
    BY <2>2 DEF WordsOf
<1>6. ASSUME NEW n \in 0..Len(written) - 1, written[n + 1].style = "word",
             written[n + 1].value \in Seq(STRING), WordsOf(n) \in Seq(Seq(STRING))
      PROVE  WordsOf(n + 1) = Append(WordsOf(n), written[n + 1].value)
  <2> DEFINE x == written[n + 1]
             v == Words(n)
             w == Words(n + 1)
  <2>1. x \in K
    BY <1>4, <1>6
  <2>2. w = Append(v, x) /\ v \in Seq(R)
    <3> DEFINE b == Before(n)
    <3>1. b \in Seq(R) /\ Before(n + 1) = Append(b, x) /\ x \in R /\ x \in K
      BY <1>4, <2>1
    <3> HIDE DEF Before, K, R, b, x
    <3>2. Kept(Append(b, x), K) = Append(Kept(b, K), x) /\ Kept(b, K) \in Seq(R)
      BY <3>1, KeptAppend, KeptType, Zenon
    <3>3. Kept(Before(n + 1), K) = Append(Kept(Before(n), K), x) /\ Kept(Before(n), K) \in Seq(R)
      BY <3>1, <3>2 DEF b
    <3> QED
      BY <1>0, <3>3
  <2> HIDE DEF v
  <2>3. /\ Len(v) \in Nat /\ DOMAIN v = 1..Len(v) /\ DOMAIN w = 1..Len(v) + 1
        /\ w[Len(v) + 1] = x /\ \A i \in 1..Len(v) : w[i] = v[i]
    <3>1. x \in R
      BY <1>4
    <3> HIDE DEF R
    <3> QED
      BY <2>2, <3>1
  <2> HIDE DEF w
  <2> DEFINE p == WordsOf(n)
             q == Append(p, x.value)
  <2>4. p = [k \in 1..Len(v) |-> v[k].value]
    BY <2>3 DEF WordsOf, v
  <2>5. WordsOf(n + 1) = [k \in 1..Len(v) + 1 |-> w[k].value]
    BY <2>3 DEF WordsOf, w
  <2>6. Len(p) = Len(v)
    <3>1. DOMAIN p = 1..Len(v)
      BY <2>4
    <3> QED
      BY <1>6, <2>3, <3>1
  <2>7. q \in Seq(Seq(STRING)) /\ Len(q) = Len(p) + 1 /\ q[Len(p) + 1] = x.value
        /\ (\A i \in 1..Len(p) : q[i] = p[i]) /\ DOMAIN q = 1..Len(q)
    <3> DEFINE X == Seq(STRING)
    <3>1. p \in Seq(X) /\ x.value \in X
      BY <1>6
    <3> HIDE DEF X, p, x
    <3> QED
      BY <3>1 DEF X
  <2> HIDE DEF p, q
  <2>8. ASSUME NEW i \in 1..Len(v) + 1 PROVE q[i] = w[i].value
    <3>1. \A l \in 1..Len(v) : p[l] = v[l].value
      BY <2>4
    <3>2. CASE i = Len(v) + 1
      BY <2>3, <2>6, <2>7, <3>2
    <3>3. CASE i # Len(v) + 1
      <4>1. i \in 1..Len(v)
        BY <2>3, <3>3
      <4> QED
        BY <2>3, <2>6, <2>7, <3>1, <4>1
    <3> QED
      BY <3>2, <3>3
  <2>9. q = [i \in 1..Len(v) + 1 |-> q[i]]
    BY <2>6, <2>7
  <2>10. q = [k \in 1..Len(v) + 1 |-> w[k].value]
    BY <2>8, <2>9
  <2> QED
    BY <2>5, <2>10 DEF q, p
<1> QED
  BY <1>3, <1>5, <1>6

-----------------------------------------------------------------------------
\* A step that reads a setting which is neither a word nor -- : it sets what that says.
LEMMA ReadsSetting ==
  ASSUME WrittenInv, NEW n \in Int, ReadTo(n), n + 1 \in 1..Len(written),
         written[n + 1].style \notin {"word", "rest"}, ~Wrong(n + 1),
         Defined(known, written[n + 1].flag),
         Set(FindLong(<<written[n + 1].flag>>), ValueOf(n + 1).value),
         UNCHANGED <<commandLine, params>>,
         Unread' = Line(n + 2),
         letters' # <<>> => n + 1 < Len(written) /\ written[n + 2].style \in Lettered
  PROVE  ReadTo(n + 1)'
<1> DEFINE s == written[n + 1]
           flag == s.flag
           k == FindLong(<<flag>>)
<1>1. n \in Nat /\ Len(written) \in Nat /\ n + 1 \in 0..Len(written) /\ n \in 0..Len(written) - 1
      /\ 1..n + 1 = 1..n \cup {n + 1} /\ n + 2 = (n + 1) + 1
  BY Places, NextSays
<1>2. /\ \A i : Line(i)' = Line(i) /\ ValueOf(i)' = ValueOf(i)
      /\ \A i : Accepted(i)' = Accepted(i) /\ NamedTo(i)' = NamedTo(i) /\ WordsOf(i)' = WordsOf(i)
      /\ \A i, j : NamedLast(i, j)' = NamedLast(i, j)
      /\ written' = written
  BY CommandLineStays
<1>3. Accepted(n + 1)
  BY <1>1 DEF ReadTo, Accepted
<1>4. NamedTo(n + 1) = NamedTo(n) \cup {n + 1} /\ n + 1 \notin NamedTo(n)
  BY <1>1 DEF NamedTo
<1>5. /\ DOMAIN set' = DOMAIN set \cup {flag}
      /\ set'[flag] = ValueOf(n + 1)
      /\ \A f \in DOMAIN set \ {flag} : set'[f] = set[f]
  <2>1. flagDefs[k] = DefOf(known, flag) /\ DefOf(known, flag).longOption = flag
    BY Places, FindsFlag
  <2>2. TypeOf(k) = DefOf(known, flag).type
    BY <2>1 DEF TypeOf
  <2> DEFINE v == ValueOf(n + 1).value
  <2>3. ValueOf(n + 1) = [type |-> DefOf(known, flag).type, value |-> v]
    BY DEF ValueOf
  <2> HIDE DEF v, k, flag
  <2>4. set' = [f \in DOMAIN set \cup {flag} |->
                 IF f = flag THEN [type |-> TypeOf(k), value |-> v] ELSE set[f]]
    BY <2>1 DEF Set, flag, k, v
  <2> QED
    BY <2>2, <2>3, <2>4
<1>6. FlagsGiven(n)
  BY DEF ReadTo
<1>7. DOMAIN set' = {written[i].flag : i \in NamedTo(n + 1)}
  BY <1>4, <1>5, <1>6 DEF FlagsGiven
<1>8. ASSUME NEW i \in NamedTo(n + 1), NamedLast(i, n + 1)
      PROVE  set'[written[i].flag] = ValueOf(i)
  <2>1. CASE i = n + 1
    BY <1>5, <2>1
  <2>2. CASE i # n + 1
    <3>1. i \in NamedTo(n) /\ i \in 1..n
      BY <1>4, <2>2 DEF NamedTo
    <3>2. written[i].flag # flag
      <4>1. written[n + 1].flag = written[i].flag => n + 1 <= i
        BY <1>4, <1>8 DEF NamedLast
      <4> QED
        BY <1>1, <3>1, <4>1
    <3>3. NamedLast(i, n)
      BY <1>4, <1>8 DEF NamedLast
    <3>4. written[i].flag \in DOMAIN set /\ set[written[i].flag] = ValueOf(i)
      BY <1>6, <3>1, <3>3 DEF FlagsGiven
    <3> QED
      BY <1>5, <3>2, <3>4
  <2> QED
    BY <2>1, <2>2
<1>9. FlagsGiven(n + 1)'
  BY <1>2, <1>7, <1>8 DEF FlagsGiven
<1>10. params' = WordsOf(n + 1)
  <2>1. WordsOf(n + 1) = WordsOf(n)
    BY <1>1, Places, WordsGrow
  <2> QED
    BY <2>1 DEF ReadTo
<1> QED
  BY <1>1, <1>2, <1>3, <1>9, <1>10 DEF ReadTo

\* One that reads a word.
LEMMA ReadsWord ==
  ASSUME WrittenInv, NEW n \in Int, ReadTo(n), n + 1 \in 1..Len(written),
         written[n + 1].style = "word", ~Wrong(n + 1),
         params' = Append(params, written[n + 1].value),
         UNCHANGED <<commandLine, set>>,
         letters' = <<>>, Unread' = Line(n + 2)
  PROVE  ReadTo(n + 1)'
<1>1. n \in Nat /\ Len(written) \in Nat /\ n + 1 \in 0..Len(written) /\ n \in 0..Len(written) - 1
      /\ 1..n + 1 = 1..n \cup {n + 1} /\ n + 2 = (n + 1) + 1
  BY Places, NextSays
<1>2. /\ \A i : Line(i)' = Line(i) /\ ValueOf(i)' = ValueOf(i)
      /\ \A i : Accepted(i)' = Accepted(i) /\ NamedTo(i)' = NamedTo(i) /\ WordsOf(i)' = WordsOf(i)
      /\ \A i, j : NamedLast(i, j)' = NamedLast(i, j)
      /\ written' = written
  BY CommandLineStays
<1>3. Accepted(n + 1)
  BY <1>1 DEF ReadTo, Accepted
<1>4. NamedTo(n + 1) = NamedTo(n)
  BY <1>1 DEF NamedTo
<1>5. FlagsGiven(n + 1)'
  <2>1. FlagsGiven(n)
    BY DEF ReadTo
  <2>2. \A i : NamedLast(i, n + 1) <=> NamedLast(i, n)
    BY <1>4 DEF NamedLast
  <2> QED
    BY <1>2, <1>4, <2>1, <2>2 DEF FlagsGiven
<1>6. params' = WordsOf(n + 1)
  <2>1. params = WordsOf(n) /\ params \in Seq(Seq(STRING)) /\ written[n + 1].value \in Seq(STRING)
    BY NextSays DEF ReadTo, WrittenInv, IInv, FlagsTypeOK
  <2>2. WordsOf(n + 1) = Append(WordsOf(n), written[n + 1].value)
    BY <1>1, <2>1, Places, WordsGrow
  <2> QED
    BY <2>1, <2>2
<1> QED
  BY <1>1, <1>2, <1>3, <1>5, <1>6 DEF ReadTo

\* The pieces of a setting.
LEMMA SettingPieces ==
  ASSUME IsWritten(commandLine), NEW k \in 1..Len(written)
  PROVE  /\ written[k].value \in Texts /\ LetterAt(k) \in Pieces(known)
         /\ "-" \in Pieces(known) /\ <<>> \in Texts
         /\ LetterAt(k) # "-" /\ Line(k + 1) \in Seq(Texts)
<1> DEFINE s == written[k]
<1>1. IsSettings(written) /\ IsLettered(known)
  BY DEF IsWritten, written, known
<1>2. Len(written) \in Nat /\ DOMAIN written = 1..Len(written)
  BY <1>1 DEF IsSettings
<1>3. s.value \in Seq(STRING)
  BY <1>1, <1>2 DEF IsSettings
<1>4. s.value \in Texts
  <2>1. STRING \subseteq Pieces(known)
    BY DEF Pieces
  <2> QED
    BY <1>3, <2>1, SeqWider, Zenon DEF Texts
<1>5. LetterAt(k) \in Pieces(known) /\ LetterAt(k) # "-"
  <2>1. CASE ~Defined(known, s.flag)
    BY <2>1 DEF Letter, LetterAt, Pieces
  <2>2. CASE Defined(known, s.flag)
    <3>1. \E fd \in Range(known.flagDefs) : fd.longOption = s.flag
      BY <2>2 DEF Defined, Range
    <3>2. DefOf(known, s.flag) \in Range(known.flagDefs)
      BY <3>1 DEF DefOf
    <3>3. DefOf(known, s.flag).shortOption # "-"
      BY <1>1, <3>2 DEF IsLettered, Range
    <3> QED
      BY <2>2, <3>2, <3>3 DEF Letter, LetterAt, Pieces
  <2> QED
    BY <2>1, <2>2
<1>6. Line(k + 1) \in Seq(Texts)
  <2>1. k + 1 \in 1..Len(written) + 1
    BY <1>2
  <2>2. IsLine(Line(k + 1), known, written, k + 1)
    BY <1>1, <2>1, WritesOn DEF Line
  <2> QED
    BY <2>2 DEF IsLine, Texts
<1> QED
  BY <1>4, <1>5, <1>6 DEF Pieces, Texts

\* The argument of a setting with a letter has more letters b behind that.
LetterStarts(k, b, more) ==
  /\ Starts(k, <<"-">> \o (<<LetterAt(k)>> \o b), more)
  /\ b \in Texts

\* Each style with a letter has its own letters behind that.
LEMMA LetteredStarts ==
  ASSUME IsWritten(commandLine), NEW k \in 1..Len(written)
  PROVE  LET s == written[k]
             next == Line(k + 1)
         IN  /\ s.style = "letter" /\ ~Joins(written, k) => LetterStarts(k, <<>>, next)
             /\ s.style = "letter" /\ Joins(written, k) =>
                  /\ LetterStarts(k, Tail(next[1]), Tail(next))
                  /\ next = << <<"-">> \o Tail(next[1]) >> \o Tail(next)
                  /\ Tail(next[1]) # <<>>
                  /\ k < Len(written) /\ written[k + 1].style \in Lettered
             /\ s.style = "short" => LetterStarts(k, <<>>, <<s.value>> \o next)
             /\ s.style = "glued" => LetterStarts(k, s.value, next)
<1> DEFINE s == written[k]
           next == Line(k + 1)
           L == LetterAt(k)
           X == Texts
           letter == <<"-", L>>
<1>1. s.value \in X /\ L \in Pieces(known) /\ "-" \in Pieces(known) /\ <<>> \in X /\ next \in Seq(X)
  BY SettingPieces
<1>2. \A b \in X : letter \o b = <<"-">> \o (<<L>> \o b)
  <2> SUFFICES ASSUME NEW b \in X PROVE letter \o b = <<"-">> \o (<<L>> \o b)
    OBVIOUS
  <2> DEFINE P == Pieces(known)
  <2>1. "-" \in P /\ L \in P /\ b \in Seq(P)
    BY <1>1 DEF Texts
  <2> HIDE DEF L, P
  <2> QED
    BY <2>1, TwoInFront
<1>3. letter \o <<>> = letter
  OBVIOUS
<1>4. CASE s.style = "letter" /\ ~Joins(written, k)
  <2>1. Starts(k, letter, next)
    BY <1>4, LineStarts
  <2>2. letter = <<"-">> \o (<<L>> \o <<>>)
    <3> HIDE DEF letter, X, L
    <3> QED
      BY <1>1, <1>2, <1>3
  <2> QED
    BY <1>1, <1>4, <2>1, <2>2 DEF LetterStarts
<1>5. CASE s.style = "short"
  <2>1. Starts(k, letter, <<s.value>> \o next)
    BY <1>5, LineStarts
  <2>2. letter = <<"-">> \o (<<L>> \o <<>>)
    <3> HIDE DEF letter, X, L
    <3> QED
      BY <1>1, <1>2, <1>3
  <2> QED
    BY <1>1, <1>5, <2>1, <2>2 DEF LetterStarts
<1>6. CASE s.style = "glued"
  <2>1. Starts(k, letter \o s.value, next)
    BY <1>6, LineStarts
  <2>2. letter \o s.value = <<"-">> \o (<<L>> \o s.value)
    <3> HIDE DEF letter, X, L
    <3> QED
      BY <1>1, <1>2
  <2> QED
    BY <1>1, <1>6, <2>1, <2>2 DEF LetterStarts
<1>7. CASE s.style = "letter" /\ Joins(written, k)
  <2>1. /\ Starts(k, letter \o Tail(next[1]), Tail(next))
        /\ k < Len(written) /\ written[k + 1].style \in Lettered
    BY <1>7, LineStarts
  <2>2. IsLine(next, known, written, k + 1) /\ k + 1 <= Len(written)
    <3>1. IsSettings(written)
      BY DEF IsWritten, written
    <3>2. Len(written) \in Nat
      BY <3>1 DEF IsSettings
    <3>3. k + 1 \in 1..Len(written) + 1 /\ k + 1 <= Len(written)
      BY <2>1, <3>2
    <3> QED
      BY <3>1, <3>3, WritesOn DEF Line
  <2>3. next # <<>> /\ next[1][1] = "-" /\ Len(next[1]) > 1
    BY <2>1, <2>2 DEF IsLine, BeginsWithDash
  <2> DEFINE first == next[1]
             b == Tail(first)
  <2>4. first \in X /\ next = <<first>> \o Tail(next)
    <3>1. first \in X /\ Head(next) = first
      <4> HIDE DEF X, next
      <4> QED
        BY <1>1, <2>3
    <3> HIDE DEF X, next
    <3> QED
      BY <1>1, <2>3, <3>1, HeadConcat
  <2>5. /\ first # <<>> /\ Head(first) = "-" /\ first \in Seq(Pieces(known))
        /\ Len(first) > 1
    <3>1. first[1] = "-" /\ Len(first) > 1 /\ first \in Seq(Pieces(known))
      BY <2>3, <2>4 DEF Texts
    <3> HIDE DEF first
    <3> QED
      BY <3>1
  <2>6. b \in X /\ b # <<>>
    <3> HIDE DEF first
    <3>1. b \in Seq(Pieces(known)) /\ Len(b) = Len(first) - 1 /\ Len(first) \in Nat
      BY <2>5
    <3> HIDE DEF b
    <3>2. b # <<>>
      BY <2>5, <3>1
    <3> QED
      BY <3>1, <3>2 DEF Texts
  <2>7. first = <<"-">> \o b
    <3> HIDE DEF first
    <3> QED
      BY <2>5, HeadConcat
  <2>8. letter \o b = <<"-">> \o (<<L>> \o b)
    <3> HIDE DEF letter, X, L, b
    <3> QED
      BY <1>2, <2>6
  <2>9. LetterStarts(k, b, Tail(next))
    <3>1. Starts(k, letter \o b, Tail(next))
      BY <2>1
    <3> HIDE DEF b, letter, next
    <3> QED
      BY <2>6, <2>8, <3>1 DEF LetterStarts
  <2>10. next = << <<"-">> \o b >> \o Tail(next)
    <3> HIDE DEF b, next, first
    <3> QED
      BY <2>4, <2>7
  <2> QED
    BY <1>7, <2>1, <2>6, <2>9, <2>10
<1> QED
  BY <1>4, <1>5, <1>6, <1>7

\* Such an argument, piece by piece.
LEMMA LetterFirst ==
  ASSUME IsWritten(commandLine), NEW k \in 1..Len(written), NEW b, NEW more,
         LetterStarts(k, b, more)
  PROVE  LET letter == <<LetterAt(k)>> \o b
             arg == <<"-">> \o letter
         IN  /\ Starts(k, arg, more)
             /\ Len(arg) > 1 /\ arg[1] = "-" /\ arg[2] = LetterAt(k)
             /\ Tail(arg) = letter /\ letter \in Texts /\ letter # <<>>
             /\ letter[1] = LetterAt(k) /\ Tail(letter) = b
             /\ Len(letter) = Len(b) + 1 /\ Len(b) \in Nat
<1> DEFINE P == Pieces(known)
           L == LetterAt(k)
           letter == <<L>> \o b
           arg == <<"-">> \o letter
<1>1. L \in P /\ "-" \in P /\ b \in Seq(P)
  BY SettingPieces DEF LetterStarts, Texts
<1>2. /\ letter \in Seq(P) /\ letter # <<>> /\ letter[1] = L /\ Tail(letter) = b
      /\ Len(letter) = Len(b) + 1
  <2> HIDE DEF L, P
  <2> QED
    BY <1>1, InFront
<1>3. Len(b) \in Nat
  <2> HIDE DEF P
  <2> QED
    BY <1>1
<1>4. /\ arg \in Seq(P) /\ arg[1] = "-" /\ Tail(arg) = letter /\ Len(arg) = Len(letter) + 1
  <2> HIDE DEF letter, P
  <2> QED
    BY <1>1, <1>2, InFront
<1>5. arg[2] = L
  <2> HIDE DEF arg, letter, P, L
  <2>1. arg # <<>> /\ 1 \in 1..Len(Tail(arg))
    BY <1>2, <1>3, <1>4, EmptySeq
  <2>2. Tail(arg)[1] = arg[2]
    BY <1>4, <2>1
  <2>3. Tail(arg) = letter /\ letter[1] = L
    BY <1>2, <1>4, Zenon
  <2> QED
    BY <2>2, <2>3, Zenon
<1> QED
  BY <1>2, <1>3, <1>4, <1>5 DEF LetterStarts, Texts

\* What an argument is taken for is what the setting was written as.
LEMMA Looks ==
  ASSUME WrittenInv, NEW n \in Int, ReadTo(n), letters = <<>>, ~AtEnd
  PROVE  LET style == written[n + 1].style IN
         /\ style \in {"switch", "long", "equals"} => IsLong /\ ~IsTerminator /\ ~IsShort /\ ~IsWord
         /\ style \in Lettered => IsShort /\ ~IsTerminator /\ ~IsLong /\ ~IsWord
         /\ style = "word" => IsWord /\ ~IsTerminator /\ ~IsLong /\ ~IsShort
         /\ style = "rest" => IsTerminator /\ ~IsLong /\ ~IsShort /\ ~IsWord
<1> DEFINE k == n + 1
           s == written[k]
           style == s.style
<1>1. k \in 1..Len(written) /\ IsWritten(commandLine)
  BY NextIs DEF WrittenInv
<1>2. \A arg, more : Starts(k, arg, more) => Arg = arg
  BY NextIs
<1> HIDE DEF k
<1>3. CASE style \in {"switch", "long"}
  <2>1. Arg = <<"-", "-", s.flag>>
    BY <1>1, <1>2, <1>3, LineStarts
  <2> QED
    BY <1>3, <2>1 DEF IsLong, IsTerminator, IsShort, IsWord, Lettered, k
<1>4. CASE style = "equals"
  <2> DEFINE e == <<"-", "-", s.flag, "=">>
  <2>1. Arg = e \o s.value
    BY <1>1, <1>2, <1>4, LineStarts
  <2>2. e \in Seq(Pieces(known)) /\ Len(e) = 4 /\ e[1] = "-" /\ e[2] = "-"
    <3>1. {"-", "=", s.flag} \subseteq Pieces(known)
      BY NextSays, <1>1 DEF Pieces, k
    <3> QED
      BY <3>1
  <2>3. s.value \in Seq(Pieces(known)) /\ Len(s.value) \in Nat
    <3>1. s.value \in Seq(Pieces(known))
      BY <1>1, SettingPieces DEF Texts
    <3> QED
      BY <3>1
  <2> HIDE DEF e
  <2>4. IsJoined(e \o s.value, e, s.value)
    BY <2>2, <2>3, ConcatAt
  <2>5. Len(Arg) > 2 /\ Len(Arg) # 2 /\ Arg[1] = "-" /\ Arg[2] = "-"
    BY <2>1, <2>2, <2>3, <2>4 DEF IsJoined
  <2>6. Arg # <<"-", "-">>
    <3>1. Len(<<"-", "-">>) = 2
      OBVIOUS
    <3> QED
      BY <2>5, <3>1, Zenon
  <2> QED
    BY <1>4, <2>5, <2>6 DEF IsLong, IsTerminator, IsShort, IsWord, Lettered, k
<1>5. CASE style \in Lettered
  <2>1. \E b, more : LetterStarts(k, b, more)
    BY <1>1, <1>5, LetteredStarts DEF Lettered
  <2>2. PICK b, more : LetterStarts(k, b, more)
    BY <2>1
  <2>3. Len(Arg) > 1 /\ Arg[1] = "-" /\ Arg[2] = LetterAt(k)
    BY <1>1, <1>2, <2>2, LetterFirst
  <2>4. LetterAt(k) # "-"
    BY <1>1, SettingPieces
  <2>5. Arg # <<"-", "-">>
    BY <2>3, <2>4
  <2> QED
    BY <1>5, <2>3, <2>4, <2>5 DEF IsLong, IsTerminator, IsShort, IsWord, Lettered, k
<1>6. CASE style = "word"
  <2>1. Arg = s.value
    BY <1>1, <1>2, <1>6, LineStarts
  <2>2. SaysItself(known, written, k)
    BY <1>1, NextSays DEF k
  <2>3. ~StartsWithDash(Arg) \/ Len(Arg) = 1
    BY <1>6, <2>1, <2>2 DEF SaysItself
  <2>4. Arg \in Seq(STRING)
    BY <1>1, <2>1, NextSays DEF k
  <2>5. ~(Len(Arg) > 1 /\ Arg[1] = "-")
    <3>1. Len(Arg) > 1 => Arg # <<>>
      BY <2>4
    <3> QED
      BY <2>3, <3>1 DEF StartsWithDash
  <2>6. ~(Len(Arg) > 2 /\ Arg[1] = "-") /\ Arg # <<"-", "-">>
    <3>1. Len(Arg) \in Nat
      BY <2>4
    <3> QED
      BY <2>5, <3>1
  <2> QED
    BY <1>6, <2>5, <2>6 DEF IsLong, IsTerminator, IsShort, IsWord, Lettered, k
<1>7. CASE style = "rest"
  <2>1. Arg = <<"-", "-">>
    BY <1>1, <1>2, <1>7, LineStarts
  <2> QED
    BY <1>7, <2>1 DEF IsLong, IsTerminator, IsShort, IsWord, Lettered, k
<1> QED
  BY <1>3, <1>4, <1>5, <1>6, <1>7 DEF k

\* One element of a sequence.
LEMMA OnlyPiece ==
  ASSUME NEW S, NEW s \in Seq(S), NEW k \in 1..Len(s)
  PROVE  SubSeq(s, k, k) = <<s[k]>>
<1> DEFINE l == SubSeq(s, k, k)
<1>1. k \in Int /\ \A i \in k..k : s[i] \in S
  OBVIOUS
<1>2. l \in Seq(S) /\ Len(l) = 1 /\ l[1] = s[k]
  BY <1>1, SubSeqProperties
<1> HIDE DEF l
<1>3. l = <<s[k]>>
  BY <1>2
<1> QED
  BY <1>3 DEF l

\* The name of a long option, and the value behind its equal sign.
LEMMA NameIs ==
  ASSUME WrittenInv, NEW n \in Int, ReadTo(n), letters = <<>>, ~AtEnd,
         written[n + 1].style \in {"switch", "long", "equals"}
  PROVE  LET s == written[n + 1] IN
         /\ LongName = <<s.flag>>
         /\ s.style \in {"switch", "long"} <=> Equals = 0
         /\ s.style = "equals" => SubSeq(Arg, Equals + 1, Len(Arg)) = s.value
<1> DEFINE k == n + 1
           s == written[k]
           P == Pieces(known)
           E == {i \in 1..Len(Arg) : Arg[i] = "="}
<1>1. k \in 1..Len(written) /\ IsWritten(commandLine)
  BY NextIs DEF WrittenInv
<1>2. \A arg, more : Starts(k, arg, more) => Arg = arg
  BY NextIs
<1>3. s.flag \in STRING /\ s.flag # "="
  BY <1>1, NextSays
<1>4. Equals = IF E # {} THEN Min(E) ELSE 0
  BY DEF Equals, SelectInSeq
<1> HIDE DEF k
<1>5. CASE s.style \in {"switch", "long"}
  <2>1. Arg = <<"-", "-", s.flag>>
    BY <1>1, <1>2, <1>5, LineStarts
  <2>2. E = {}
    BY <1>3, <2>1
  <2>3. Equals = 0
    BY <1>4, <2>2
  <2>4. LongName = SubSeq(Arg, 3, 3)
    BY <2>1, <2>3 DEF LongName
  <2>5. SubSeq(Arg, 3, 3) = <<s.flag>>
    <3>1. Arg \in Seq({"-", s.flag}) /\ 3 \in 1..Len(Arg) /\ Arg[3] = s.flag
      BY <2>1
    <3> QED
      BY <3>1, OnlyPiece
  <2> QED
    BY <1>5, <2>3, <2>4, <2>5 DEF k
<1>6. CASE s.style = "equals"
  <2> DEFINE e == <<"-", "-", s.flag, "=">>
             v == s.value
  <2>1. Arg = e \o v
    BY <1>1, <1>2, <1>6, LineStarts
  <2>2. e \in Seq(P) /\ Len(e) = 4 /\ e[1] = "-" /\ e[2] = "-" /\ e[3] = s.flag /\ e[4] = "="
    <3>1. {"-", "=", s.flag} \subseteq P
      BY <1>3 DEF Pieces
    <3> HIDE DEF P
    <3> QED
      BY <3>1
  <2>3. v \in Seq(P)
    BY <1>1, SettingPieces DEF Texts
  <2>4. Len(v) \in Nat
    <3> HIDE DEF P, v
    <3> QED
      BY <2>3
  <2> HIDE DEF e, P, v
  <2>5. IsJoined(Arg, e, v) /\ Arg \in Seq(P)
    BY <2>1, <2>2, <2>3, ConcatAt
  <2>6. Len(Arg) = 4 + Len(v) /\ (\A i \in 1..4 : Arg[i] = e[i]) /\ \A i \in 1..Len(v) : Arg[4 + i] = v[i]
    BY <2>2, <2>5 DEF IsJoined
  <2>7. /\ Arg[1] = "-" /\ Arg[2] = "-" /\ Arg[3] = s.flag /\ Arg[4] = "="
    BY <2>2, <2>6
  <2>8. E \subseteq Nat /\ 4 \in E /\ \A i \in E : i >= 4
    BY <1>3, <2>4, <2>6, <2>7
  <2>9. Min(E) \in E /\ Min(E) <= 4
    <3> HIDE DEF E
    <3> QED
      BY <2>8, MinIsLeast
  <2>10. Equals = 4
    <3>1. E # {} /\ Min(E) \in Nat /\ Min(E) >= 4
      BY <2>8, <2>9
    <3> HIDE DEF E
    <3> QED
      BY <1>4, <2>9, <3>1
  <2>11. LongName = SubSeq(Arg, 3, 3)
    BY <2>10 DEF LongName
  <2>12. SubSeq(Arg, 3, 3) = <<s.flag>>
    <3>1. 3 \in 1..Len(Arg)
      BY <2>4, <2>6
    <3> QED
      BY <2>5, <2>7, <3>1, OnlyPiece
  <2>13. SubSeq(Arg, 5, Len(Arg)) = v
    <3> DEFINE l == SubSeq(Arg, 5, Len(Arg))
    <3>1. Len(Arg) \in Int /\ \A i \in 5..Len(Arg) : Arg[i] \in P
      BY <2>4, <2>5, <2>6
    <3>2. l \in Seq(P) /\ Len(l) = (IF 5 <= Len(Arg) THEN (Len(Arg) - 5) + 1 ELSE 0)
          /\ \A i \in 1..(Len(Arg) - 5) + 1 : l[i] = Arg[5 + i - 1]
      BY <3>1, SubSeqProperties
    <3> HIDE DEF l
    <3>3. Len(l) = Len(v)
      BY <2>4, <2>6, <3>2
    <3>4. ASSUME NEW i \in 1..Len(v) PROVE l[i] = v[i]
      <4>1. i \in 1..(Len(Arg) - 5) + 1 /\ 5 + i - 1 = 4 + i
        BY <2>4, <2>6
      <4> QED
        BY <2>6, <3>2, <4>1
    <3>5. l = v
      BY <2>3, <3>2, <3>3, <3>4, SeqEqual
    <3> QED
      BY <3>5 DEF l
  <2> QED
    BY <1>6, <2>10, <2>11, <2>12, <2>13 DEF k, v
<1> QED
  BY <1>5, <1>6 DEF k

\* An argument of letters is taken apart; no setting has been read yet.
LEMMA ShortOptionsReads ==
  ASSUME WrittenInv, NEW n \in Int, ReadTo(n), ShortOptions
  PROVE  ReadTo(n)'
<1> DEFINE k == n + 1
<1>1. /\ letters = <<>> /\ ~AtEnd /\ IsShort /\ letters' = Tail(Arg) /\ argument' = argument + 1
      /\ UNCHANGED <<commandLine, set, params>>
  BY DEF ShortOptions, NextArgument
<1>2. k \in 1..Len(written) /\ IsWritten(commandLine) /\ n < Len(written)
      /\ written[k].style \in Styles
  BY <1>1, NextIs, NextSays DEF WrittenInv
<1>3. \A arg, more : Starts(k, arg, more) => Arg = arg /\ SubSeq(args, argument + 1, Len(args)) = more
  BY <1>1, NextIs
<1>4. written[k].style \in Lettered
  BY <1>1, <1>2, Looks DEF Styles, Lettered
<1> HIDE DEF k
<1>5. PICK b, more : LetterStarts(k, b, more)
  <2>1. \E b, more : LetterStarts(k, b, more)
    BY <1>2, <1>4, LetteredStarts DEF Lettered
  <2> QED
    BY <2>1
<1> DEFINE letter == <<LetterAt(k)>> \o b
           arg == <<"-">> \o letter
<1>6. Starts(k, arg, more) /\ Tail(arg) = letter /\ letter # <<>>
  BY <1>2, <1>5, LetterFirst
<1> HIDE DEF letter
<1>7. letters' = letter
  BY <1>1, <1>3, <1>6
<1>8. Behind' = more
  <2>1. args' = args
    BY <1>1, CommandLineStays
  <2>2. SubSeq(args, argument + 1, Len(args)) = more
    BY <1>3, <1>6
  <2> QED
    BY <1>1, <2>1, <2>2 DEF Behind
<1>9. Unread' = Line(k)
  <2>1. Line(k) = <<arg>> \o more
    BY <1>6 DEF Starts
  <2> QED
    BY <1>6, <1>7, <1>8, <2>1 DEF Unread
<1>10. /\ written' = written /\ Line(n + 1)' = Line(n + 1) /\ Accepted(n)' = Accepted(n)
       /\ NamedTo(n)' = NamedTo(n) /\ WordsOf(n)' = WordsOf(n)
       /\ \A i : ValueOf(i)' = ValueOf(i) /\ NamedLast(i, n)' = NamedLast(i, n)
  BY <1>1, CommandLineStays
<1>11. FlagsGiven(n)'
  <2>1. FlagsGiven(n)
    BY DEF ReadTo
  <2> QED
    BY <1>1, <1>10, <2>1 DEF FlagsGiven
<1> QED
  BY <1>1, <1>2, <1>4, <1>9, <1>10, <1>11 DEF ReadTo, k

\* A long option that has its value, if it needs one, is what was written, and set.
LEMMA LongOptionReads ==
  ASSUME WrittenInv, NEW n \in Int, ReadTo(n), LongOption
  PROVE  ReadTo(n + 1)'
<1> DEFINE s == written[n + 1]
           k == FindLong(LongName)
           next == Line(n + 2)
<1>1. /\ letters = <<>> /\ ~AtEnd /\ IsLong /\ letters' = <<>> /\ k # 0
      /\ UNCHANGED <<commandLine, params>>
  BY DEF LongOption, NextArgument
<1>2. /\ n + 1 \in 1..Len(written) /\ IsWritten(commandLine) /\ n \in Nat /\ Len(written) \in Nat
      /\ (n + 1) + 1 = n + 2
  BY <1>1, NextIs, NextSays, Places DEF WrittenInv
<1>3. \A arg, more : Starts(n + 1, arg, more) => SubSeq(args, argument + 1, Len(args)) = more
  BY <1>1, NextIs
<1>4. s.style \in {"switch", "long", "equals"}
  BY <1>1, <1>2, Looks, NextSays DEF Styles, Lettered
<1>5. LongName = <<s.flag>> /\ (s.style \in {"switch", "long"} <=> Equals = 0)
      /\ (s.style = "equals" => SubSeq(Arg, Equals + 1, Len(Arg)) = s.value)
  BY <1>1, <1>4, NameIs
<1>6. Defined(known, s.flag) /\ TypeOf(k) = DefOf(known, s.flag).type
  BY <1>1, <1>5, Places, FindsFlag DEF TypeOf
<1>7. n + 1 \in Naming /\ SaysItself(known, written, n + 1)
  BY <1>2, <1>4, NextSays
<1>8. args' = args /\ Len(args) \in Nat /\ argument \in Nat /\ argument >= 1 /\ argument <= Len(args)
  BY <1>1, CommandLineStays, Places DEF AtEnd
<1>9. /\ s.style = "switch" => Starts(n + 1, <<"-", "-", s.flag>>, next)
      /\ s.style = "long" => Starts(n + 1, <<"-", "-", s.flag>>, <<s.value>> \o next)
      /\ s.style = "equals" => Starts(n + 1, <<"-", "-", s.flag, "=">> \o s.value, next)
  BY <1>2, LineStarts
<1>10. s.value \in Texts /\ next \in Seq(Texts)
  BY <1>2, SettingPieces
<1>11. ASSUME NEW v, Set(k, v), v = ValueOf(n + 1).value, ~Wrong(n + 1), Behind' = next
       PROVE  ReadTo(n + 1)'
  <2>1. Unread' = next
    BY <1>1, <1>11 DEF Unread
  <2>2. Set(FindLong(<<s.flag>>), ValueOf(n + 1).value)
    BY <1>5, <1>11
  <2> QED
    BY <1>1, <1>2, <1>4, <1>6, <1>11, <2>1, <2>2, ReadsSetting
<1> HIDE DEF k, next
<1>12. CASE Equals # 0
  <2>1. s.style = "equals"
    BY <1>4, <1>5, <1>12
  <2>2. Set(k, s.value) /\ argument' = argument + 1
    BY <1>5, <1>12, <2>1 DEF LongOption, k
  <2>3. Behind' = next
    <3>1. SubSeq(args, argument + 1, Len(args)) = next
      BY <1>3, <1>9, <2>1
    <3> QED
      BY <1>8, <2>2, <3>1 DEF Behind
  <2>4. ValueOf(n + 1).value = s.value
    BY <2>1 DEF ValueOf
  <2>5. ~Wrong(n + 1)
    BY <1>6, <2>1 DEF Wrong
  <2> QED
    BY <1>11, <2>2, <2>3, <2>4, <2>5
<1>13. CASE Equals = 0 /\ TypeOf(k) = "Bool"
  <2>1. s.style = "switch"
    <3>1. ~(s.style = "long")
      BY <1>6, <1>7, <1>13 DEF SaysItself
    <3> QED
      BY <1>5, <1>13, <3>1
  <2>2. Set(k, <<"true">>) /\ argument' = argument + 1
    BY <1>13 DEF LongOption, k
  <2>3. Behind' = next
    <3>1. SubSeq(args, argument + 1, Len(args)) = next
      BY <1>3, <1>9, <2>1
    <3> QED
      BY <1>8, <2>2, <3>1 DEF Behind
  <2>4. ValueOf(n + 1).value = <<"true">>
    BY <2>1 DEF ValueOf
  <2>5. ~Wrong(n + 1)
    BY <1>6, <1>13, <2>1 DEF Wrong
  <2> QED
    BY <1>11, <2>2, <2>3, <2>4, <2>5
<1>14. CASE Equals = 0 /\ TypeOf(k) # "Bool"
  <2>1. argument < Len(args) /\ Set(k, args[argument + 1]) /\ argument' = argument + 2
    BY <1>14 DEF LongOption, k
  <2> DEFINE more == SubSeq(args, argument + 1, Len(args))
  <2>2. /\ more # <<>> /\ more[1] = args[argument + 1]
        /\ Tail(more) = SubSeq(args, argument + 2, Len(args))
    <3>1. argument + 1 \in 1..Len(args) + 1 /\ argument + 1 <= Len(args)
          /\ argument + 1 # Len(args) + 1 /\ (argument + 1) + 1 = argument + 2
      BY <1>8, <2>1
    <3>2. args \in Seq(Texts)
      BY Places
    <3> HIDE DEF Texts
    <3> QED
      BY <3>1, <3>2, FromPlace
  <2>3. s.style = "long"
    <3>1. ASSUME s.style = "switch" PROVE FALSE
      <4>1. n + 1 = Len(written)
        BY <1>6, <1>7, <1>14, <3>1 DEF SaysItself
      <4>2. n + 2 \in 1..Len(written) + 1 /\ n + 2 = Len(written) + 1
        BY <1>2, <4>1
      <4>3. next = <<>>
        BY <4>2, Places DEF next
      <4> QED
        BY <1>3, <1>9, <2>2, <3>1, <4>3
    <3> QED
      BY <1>5, <1>14, <3>1
  <2>4. more = <<s.value>> \o next
    BY <1>3, <1>9, <2>3
  <2>5. more[1] = s.value /\ Tail(more) = next
    <3> HIDE DEF more, Texts
    <3> QED
      BY <1>10, <2>4, InFront
  <2>6. Behind' = next
    BY <1>8, <2>1, <2>2, <2>5 DEF Behind
  <2>7. ValueOf(n + 1).value = s.value
    BY <2>3 DEF ValueOf
  <2>8. ~Wrong(n + 1)
    BY <1>6, <2>3 DEF Wrong
  <2>9. Set(k, s.value)
    BY <2>1, <2>2, <2>5
  <2> QED
    BY <1>11, <2>6, <2>7, <2>8, <2>9
<1> QED
  BY <1>12, <1>13, <1>14

\* What the letters that are left begin with.
LEMMA LettersBegin ==
  ASSUME WrittenInv, NEW n \in Int, ReadTo(n), letters # <<>>
  PROVE  LET s == written[n + 1]
             next == Line(n + 2)
             b == Tail(letters)
         IN  /\ n + 1 \in 1..Len(written) /\ n \in Nat /\ s.style \in Lettered
             /\ letters[1] = LetterAt(n + 1) /\ Len(letters) = Len(b) + 1 /\ Len(b) \in Nat
             /\ (b = <<>> <=> Len(b) = 0)
             /\ s.style = "letter" /\ ~Joins(written, n + 1) => b = <<>> /\ Behind = next
             /\ s.style = "letter" /\ Joins(written, n + 1) =>
                  /\ next = << <<"-">> \o b >> \o Behind /\ b # <<>>
                  /\ n + 1 < Len(written) /\ written[n + 2].style \in Lettered
             /\ s.style = "short" => b = <<>> /\ Behind = <<s.value>> \o next
             /\ s.style = "glued" => b = s.value /\ Behind = next
<1> DEFINE k == n + 1
           s == written[k]
           next == Line(n + 2)
<1>1. k \in 1..Len(written) /\ s.style \in Lettered /\ n \in Nat /\ k + 1 = n + 2
      /\ IsWritten(commandLine)
  BY LettersAre, NextSays DEF WrittenInv
<1>2. \A arg, more : Starts(k, arg, more) => letters = Tail(arg) /\ Behind = more
  BY LettersAre
<1> HIDE DEF k
<1>3. ASSUME NEW b, NEW more, LetterStarts(k, b, more)
      PROVE  /\ letters[1] = LetterAt(k) /\ Len(letters) = Len(b) + 1 /\ Len(b) \in Nat
             /\ Tail(letters) = b /\ Behind = more
  <2> DEFINE letter == <<LetterAt(k)>> \o b
             arg == <<"-">> \o letter
  <2>1. /\ Starts(k, arg, more) /\ Tail(arg) = letter /\ letter[1] = LetterAt(k)
        /\ Tail(letter) = b /\ Len(letter) = Len(b) + 1 /\ Len(b) \in Nat
    BY <1>1, <1>3, LetterFirst
  <2> HIDE DEF arg, letter
  <2>2. letters = letter /\ Behind = more
    BY <1>2, <2>1
  <2> QED
    BY <2>1, <2>2
<1>4. \E b, more : LetterStarts(k, b, more)
  BY <1>1, LetteredStarts DEF Lettered
<1>5. /\ letters[1] = LetterAt(k) /\ Len(letters) = Len(Tail(letters)) + 1
      /\ Len(Tail(letters)) \in Nat
  BY <1>3, <1>4
<1>6. Tail(letters) = <<>> <=> Len(Tail(letters)) = 0
  <2> DEFINE P == Pieces(known)
  <2>1. letters \in Seq(P)
    BY Places DEF Texts
  <2> HIDE DEF P
  <2>2. Tail(letters) \in Seq(P)
    BY <2>1
  <2> QED
    BY <2>2, EmptySeq
<1>7. /\ s.style = "letter" /\ ~Joins(written, k) => Tail(letters) = <<>> /\ Behind = next
      /\ s.style = "short" => Tail(letters) = <<>> /\ Behind = <<s.value>> \o next
      /\ s.style = "glued" => Tail(letters) = s.value /\ Behind = next
  <2> HIDE DEF next
  <2>1. /\ s.style = "letter" /\ ~Joins(written, k) => LetterStarts(k, <<>>, next)
        /\ s.style = "short" => LetterStarts(k, <<>>, <<s.value>> \o next)
        /\ s.style = "glued" => LetterStarts(k, s.value, next)
    BY <1>1, LetteredStarts DEF next
  <2> QED
    BY <1>3, <2>1
<1>8. ASSUME s.style = "letter", Joins(written, k)
      PROVE  /\ next = << <<"-">> \o Tail(letters) >> \o Behind /\ Tail(letters) # <<>>
             /\ k < Len(written) /\ written[k + 1].style \in Lettered
  <2>1. /\ LetterStarts(k, Tail(next[1]), Tail(next))
        /\ next = << <<"-">> \o Tail(next[1]) >> \o Tail(next)
        /\ Tail(next[1]) # <<>>
        /\ k < Len(written) /\ written[k + 1].style \in Lettered
    BY <1>1, <1>8, LetteredStarts
  <2>2. Tail(letters) = Tail(next[1]) /\ Behind = Tail(next)
    BY <1>3, <2>1
  <2> QED
    BY <2>1, <2>2
<1> QED
  BY <1>1, <1>5, <1>6, <1>7, <1>8 DEF k

\* A letter is that of the setting that is next, and sets its flag.
LEMMA ShortOptionReads ==
  ASSUME WrittenInv, NEW n \in Int, ReadTo(n), ShortOption
  PROVE  ReadTo(n + 1)'
<1> DEFINE s == written[n + 1]
           k == FindShort(letters[1])
           next == Line(n + 2)
           b == Tail(letters)
<1>1. /\ letters # <<>> /\ k # 0 /\ UNCHANGED <<commandLine, params>>
  BY DEF ShortOption
<1>2. /\ n + 1 \in 1..Len(written) /\ n \in Nat /\ s.style \in Lettered
      /\ letters[1] = LetterAt(n + 1) /\ Len(letters) = Len(b) + 1 /\ Len(b) \in Nat
      /\ (b = <<>> <=> Len(b) = 0)
  BY <1>1, LettersBegin
<1>3. /\ s.style = "letter" /\ ~Joins(written, n + 1) => b = <<>> /\ Behind = next
      /\ s.style = "letter" /\ Joins(written, n + 1) =>
           /\ next = << <<"-">> \o b >> \o Behind /\ b # <<>>
           /\ n + 1 < Len(written) /\ written[n + 2].style \in Lettered
      /\ s.style = "short" => b = <<>> /\ Behind = <<s.value>> \o next
      /\ s.style = "glued" => b = s.value /\ Behind = next
  BY <1>1, LettersBegin
<1>4. SaysItself(known, written, n + 1) /\ n + 1 \in Naming
  BY <1>2, NextSays DEF Lettered
<1>5. /\ Defined(known, s.flag) /\ k = FindLong(<<s.flag>>)
      /\ TypeOf(k) = DefOf(known, s.flag).type
  <2>1. Letter(known, s.flag) # None
    BY <1>2, <1>4 DEF SaysItself, Lettered
  <2>2. k = FindShort(Letter(known, s.flag))
    BY <1>2 DEF LetterAt
  <2> HIDE DEF k
  <2>3. Defined(known, s.flag)
    BY <1>1, <2>2, Places, FindsFlag
  <2>4. k = FindLong(<<s.flag>>) /\ flagDefs[k] = DefOf(known, s.flag)
    BY <2>1, <2>2, <2>3, Places, FindsFlag
  <2> QED
    BY <2>3, <2>4 DEF TypeOf
<1>6. ASSUME s.style = "letter", TypeOf(k) # "Bool"
      PROVE  n + 1 = Len(written) /\ ~Joins(written, n + 1) /\ next = <<>> /\ b = <<>>
  <2>1. n + 1 = Len(written)
    BY <1>4, <1>5, <1>6 DEF SaysItself
  <2>2. ~Joins(written, n + 1)
    BY <1>2, <2>1 DEF Joins
  <2>3. n + 2 \in 1..Len(written) + 1 /\ n + 2 = Len(written) + 1
    BY <1>2, <2>1
  <2>4. next = <<>>
    BY <2>3, Places
  <2> QED
    BY <1>3, <1>6, <2>1, <2>2, <2>4
<1>7. s.style \in {"short", "glued"} => TypeOf(k) # "Bool"
  BY <1>4, <1>5 DEF SaysItself
<1>8. args' = args /\ Len(args) \in Nat /\ argument \in 1..Len(args) + 1
  BY <1>1, CommandLineStays, Places
<1>9. ASSUME NEW v, Set(k, v), v = ValueOf(n + 1).value, ~Wrong(n + 1), Unread' = next,
             letters' # <<>> => n + 1 < Len(written) /\ written[n + 2].style \in Lettered
      PROVE  ReadTo(n + 1)'
  <2>1. Set(FindLong(<<s.flag>>), ValueOf(n + 1).value)
    BY <1>5, <1>9
  <2>2. s.style \notin {"word", "rest"}
    BY <1>2 DEF Lettered
  <2> QED
    BY <1>1, <1>2, <1>5, <1>9, <2>1, <2>2, ReadsSetting
<1> HIDE DEF k, next, b
<1>10. CASE TypeOf(k) = "Bool"
  <2>1. Set(k, <<"true">>) /\ letters' = b /\ argument' = argument
    BY <1>10 DEF ShortOption, k, b
  <2>2. s.style = "letter"
    BY <1>2, <1>7, <1>10 DEF Lettered
  <2>3. Behind' = Behind
    BY <1>8, <2>1 DEF Behind
  <2>4. Unread' = next
    BY <1>3, <2>1, <2>2, <2>3 DEF Unread
  <2>5. ValueOf(n + 1).value = <<"true">>
    BY <2>2 DEF ValueOf
  <2>6. ~Wrong(n + 1)
    BY <1>5, <1>10, <2>2 DEF Wrong
  <2>7. letters' # <<>> => n + 1 < Len(written) /\ written[n + 2].style \in Lettered
    BY <1>3, <2>1, <2>2
  <2> QED
    BY <1>9, <2>1, <2>4, <2>5, <2>6, <2>7
<1>11. CASE TypeOf(k) # "Bool" /\ Len(letters) > 1
  <2>1. Set(k, b) /\ letters' = <<>> /\ argument' = argument
    BY <1>2, <1>11 DEF ShortOption, k, b
  <2>2. b # <<>>
    BY <1>2, <1>11
  <2>3. s.style = "glued"
    BY <1>2, <1>3, <1>6, <1>11, <2>2 DEF Lettered
  <2>4. Unread' = next
    BY <1>3, <1>8, <2>1, <2>3 DEF Unread, Behind
  <2>5. ValueOf(n + 1).value = b
    BY <1>3, <2>3 DEF ValueOf
  <2>6. ~Wrong(n + 1)
    BY <1>5, <2>3 DEF Wrong
  <2> QED
    BY <1>9, <2>1, <2>4, <2>5, <2>6
<1>12. CASE TypeOf(k) # "Bool" /\ Len(letters) = 1
  <2>1. /\ ~AtEnd /\ ~StartsWithDash(Arg) /\ Set(k, Arg)
        /\ letters' = <<>> /\ argument' = argument + 1
    <3>1. ~(Len(letters) > 1)
      BY <1>12
    <3> QED
      BY <1>12, <3>1 DEF ShortOption, k, b
  <2>2. b = <<>>
    <3> DEFINE l == Len(b)
               m == Len(letters)
    <3>1. m = l + 1 /\ m = 1 /\ l \in Nat
      BY <1>2, <1>12
    <3> HIDE DEF l, m
    <3>2. l = 0
      BY <3>1
    <3> QED
      BY <1>2, <3>2 DEF l
  <2>3. argument <= Len(args) /\ argument \in 1..Len(args) + 1 /\ argument # Len(args) + 1
    BY <1>8, <2>1 DEF AtEnd
  <2>4. Behind # <<>> /\ Behind[1] = Arg /\ Tail(Behind) = SubSeq(args, argument + 1, Len(args))
    <3>1. args \in Seq(Texts)
      BY Places
    <3> HIDE DEF Texts
    <3> QED
      BY <2>3, <3>1, FromPlace DEF Behind, Arg
  <2>5. s.style = "short"
    <3>1. s.style # "glued"
      <4>1. s.style = "glued" => s.value # <<>>
        BY <1>4 DEF SaysItself
      <4> QED
        BY <1>3, <2>2, <4>1
    <3>2. s.style # "letter"
      BY <1>3, <1>6, <1>12, <2>4
    <3> QED
      BY <1>2, <3>1, <3>2 DEF Lettered
  <2>6. s.value \in Texts /\ next \in Seq(Texts)
    <3>1. (n + 1) + 1 = n + 2 /\ IsWritten(commandLine)
      BY <1>2 DEF WrittenInv
    <3> QED
      BY <1>2, <3>1, SettingPieces DEF next
  <2>7. Behind[1] = s.value /\ Tail(Behind) = next
    <3>1. Behind = <<s.value>> \o next
      BY <1>3, <2>5
    <3> HIDE DEF Texts
    <3> QED
      BY <2>6, <3>1, InFront
  <2>8. Unread' = next
    BY <1>8, <2>1, <2>4, <2>7 DEF Unread, Behind
  <2>9. ValueOf(n + 1).value = Arg
    BY <2>4, <2>5, <2>7 DEF ValueOf
  <2>10. ~Wrong(n + 1)
    <3>1. ~StartsWithDash(s.value)
      BY <2>1, <2>4, <2>7
    <3> QED
      BY <1>5, <2>5, <3>1 DEF Wrong
  <2> QED
    BY <1>9, <2>1, <2>8, <2>9, <2>10
<1>13. TypeOf(k) = "Bool" \/ (TypeOf(k) # "Bool" /\ (Len(letters) > 1 \/ Len(letters) = 1))
  BY <1>2
<1> QED
  BY <1>10, <1>11, <1>12, <1>13

\* The greatest of some numbers up to m is one of them, and no other is greater.
LEMMA MaxIsGreatest ==
  ASSUME NEW m \in Nat, NEW S, S \subseteq 1..m, S # {}
  PROVE  Max(S) \in S /\ \A y \in S : y <= Max(S)
<1> DEFINE T == {m - x : x \in S}
<1>1. T \subseteq Nat /\ T # {}
  <2>1. \A x \in S : m - x \in Nat
    OBVIOUS
  <2> QED
    BY <2>1
<1> HIDE DEF T
<1>2. Min(T) \in T /\ \A t \in T : Min(T) <= t
  BY <1>1, MinIsLeast
<1>3. PICK x \in S : Min(T) = m - x
  BY <1>2 DEF T
<1>4. \A y \in S : m - y \in T
  BY DEF T
<1>5. \A y \in S : x >= y
  <2> SUFFICES ASSUME NEW y \in S PROVE x >= y
    OBVIOUS
  <2>1. m - x <= m - y
    BY <1>2, <1>3, <1>4
  <2> QED
    BY <2>1
<1>6. \E z \in S : \A y \in S : z >= y
  BY <1>5
<1>7. Max(S) \in S /\ \A y \in S : Max(S) >= y
  BY <1>6 DEF Max
<1> QED
  BY <1>7

-----------------------------------------------------------------------------
\* Behind the first -- nothing is an option any more.
LEMMA TerminatorReads ==
  ASSUME WrittenInv, NEW n \in Int, ReadTo(n), Terminator
  PROVE  ReadToRest(n + 1)'
<1> DEFINE k == n + 1
<1>1. /\ letters = <<>> /\ ~AtEnd /\ IsTerminator /\ known.parametersEnabled
      /\ argument' = argument + 1 /\ UNCHANGED <<commandLine, letters, set, params>>
  BY DEF Terminator, NextArgument, known
<1>2. k \in 1..Len(written) /\ IsWritten(commandLine) /\ n \in Nat /\ k - 1 = n
      /\ written[k].style \in Styles
  BY <1>1, NextIs, NextSays DEF WrittenInv
<1>3. \A arg, more : Starts(k, arg, more) => SubSeq(args, argument + 1, Len(args)) = more
  BY <1>1, NextIs
<1>4. written[k].style = "rest"
  BY <1>1, <1>2, Looks DEF Styles, Lettered
<1> HIDE DEF k
<1>5. SubSeq(args, argument + 1, Len(args)) = Line(k + 1)
  BY <1>2, <1>3, <1>4, LineStarts
<1>6. Behind' = Line(k + 1)
  <2>1. args' = args
    BY <1>1, CommandLineStays
  <2> QED
    BY <1>1, <1>5, <2>1 DEF Behind
<1>7. params = WordsOf(n) /\ Accepted(n) /\ FlagsGiven(n)
  BY DEF ReadTo
<1>8. /\ written' = written /\ known' = known /\ Line(k + 1)' = Line(k + 1)
      /\ Accepted(n)' = Accepted(n) /\ NamedTo(n)' = NamedTo(n) /\ WordsOf(n)' = WordsOf(n)
      /\ \A i : ValueOf(i)' = ValueOf(i) /\ NamedLast(i, n)' = NamedLast(i, n)
  BY <1>1, CommandLineStays
<1>9. FlagsGiven(n)'
  BY <1>1, <1>7, <1>8 DEF FlagsGiven
<1>10. ReadToRest(k)'
  BY <1>1, <1>2, <1>4, <1>6, <1>7, <1>8, <1>9 DEF ReadToRest
<1> QED
  BY <1>10 DEF k

\* A word is read where it was written.
LEMMA WordReads ==
  ASSUME WrittenInv, NEW n \in Int, ReadTo(n), Parameter, reading = "options"
  PROVE  ReadTo(n + 1)'
<1>1. /\ letters = <<>> /\ ~AtEnd /\ IsWord /\ known.parametersEnabled
      /\ params' = Append(params, Arg)
      /\ argument' = argument + 1 /\ UNCHANGED <<commandLine, letters, set>>
  BY DEF Parameter, NextArgument, known
<1>2. n + 1 \in 1..Len(written) /\ IsWritten(commandLine) /\ (n + 1) + 1 = n + 2
      /\ written[n + 1].style \in Styles
  BY <1>1, NextIs, NextSays DEF WrittenInv
<1>3. \A arg, more : Starts(n + 1, arg, more) => Arg = arg /\ SubSeq(args, argument + 1, Len(args)) = more
  BY <1>1, NextIs
<1>4. written[n + 1].style = "word"
  BY <1>1, <1>2, Looks DEF Styles, Lettered
<1>5. Arg = written[n + 1].value /\ SubSeq(args, argument + 1, Len(args)) = Line(n + 2)
  <2>1. Starts(n + 1, written[n + 1].value, Line(n + 2))
    BY <1>2, <1>4, LineStarts
  <2> QED
    BY <1>3, <2>1
<1>6. Unread' = Line(n + 2)
  <2>1. args' = args
    BY <1>1, CommandLineStays
  <2> QED
    BY <1>1, <1>5, <2>1 DEF Unread, Behind
<1>7. ~Wrong(n + 1)
  BY <1>1, <1>2, <1>4, NextSays DEF Wrong
<1> QED
  BY <1>1, <1>2, <1>4, <1>5, <1>6, <1>7, ReadsWord

\* Behind -- each argument is a parameter.
LEMMA RestReads ==
  ASSUME WrittenInv, NEW n \in Int, ReadToRest(n), Parameter, reading = "parameters"
  PROVE  ReadToRest(n)'
<1>1. /\ ~AtEnd /\ params' = Append(params, Arg) /\ argument' = argument + 1
      /\ UNCHANGED <<commandLine, letters, set>>
  BY DEF Parameter, NextArgument
<1>2. args' = args /\ args \in Seq(Texts) /\ argument \in 1..Len(args) + 1 /\ Len(args) \in Nat
  BY <1>1, CommandLineStays, Places
<1>3. argument <= Len(args) /\ argument + 1 \in 1..Len(args) + 1 /\ argument # Len(args) + 1
  BY <1>1, <1>2 DEF AtEnd
<1> DEFINE S == Seq(STRING)
           more == SubSeq(args, argument + 1, Len(args))
<1>4. args \in Seq(S) /\ params \in Seq(S)
  BY Places, Known DEF WrittenInv, IInv, FlagsTypeOK
<1> HIDE DEF S, more
<1>5. /\ Behind \in Seq(S) /\ Behind # <<>> /\ Behind[1] = Arg /\ Tail(Behind) = more
      /\ more \in Seq(S)
  <2>1. more \in Seq(S)
    BY <1>3, <1>4, FromPlace DEF more
  <2> QED
    BY <1>2, <1>3, <1>4, <2>1, FromPlace DEF Behind, Arg, more
<1>6. Arg \in S
  BY <1>2, <1>3, <1>4 DEF Arg
<1>7. Behind = <<Arg>> \o more
  <2>1. Head(Behind) = Behind[1]
    BY <1>5
  <2> QED
    BY <1>5, <2>1, HeadConcat
<1>8. Append(params, Arg) \o more = params \o (<<Arg>> \o more)
  BY <1>4, <1>5, <1>6, AppendConcat
<1>9. params' \o Behind' = params \o Behind
  <2>1. Behind' = more
    BY <1>1, <1>2 DEF Behind, more
  <2> QED
    BY <1>1, <1>7, <1>8, <2>1
<1>10. /\ written' = written /\ known' = known /\ Line(n + 1)' = Line(n + 1)
       /\ Accepted(n - 1)' = Accepted(n - 1) /\ NamedTo(n - 1)' = NamedTo(n - 1)
       /\ WordsOf(n - 1)' = WordsOf(n - 1)
       /\ \A i : ValueOf(i)' = ValueOf(i) /\ NamedLast(i, n - 1)' = NamedLast(i, n - 1)
  BY <1>1, CommandLineStays
<1>11. FlagsGiven(n - 1)'
  <2>1. FlagsGiven(n - 1)
    BY DEF ReadToRest
  <2> QED
    BY <1>1, <1>10, <2>1 DEF FlagsGiven
<1> QED
  BY <1>1, <1>9, <1>10, <1>11 DEF ReadToRest

\* An Error means that the setting which is next cannot be meant.
LEMMA RefusesWrong ==
  ASSUME WrittenInv, NEW n \in Int, ReadTo(n), Refuse
  PROVE  n + 1 \in Options /\ Wrong(n + 1)
<1> DEFINE s == written[n + 1]
           next == Line(n + 2)
<1>1. \/ letters = <<>> /\ ~AtEnd
      \/ letters # <<>>
  <2>1. Len(<<>>) # 1
    OBVIOUS
  <2>2. Len(letters) = 1 => letters # <<>>
    BY <2>1, Zenon
  <2> QED
    BY <2>2 DEF Refuse, Unknown, WithoutValue, WithoutShortValue, NextArgument
<1>2. n + 1 \in 1..Len(written)
  BY <1>1, NextIs, LettersBegin
<1>3. /\ n + 1 \in Options /\ (n + 1 \in Naming <=> s.style \notin {"word", "rest"})
      /\ SaysItself(known, written, n + 1) /\ s.style \in Styles
  BY <1>2, NextSays
<1>4. Len(args) \in Nat /\ argument \in 1..Len(args) + 1 /\ args \in Seq(Texts)
  BY Places
<1>5. IsWritten(commandLine) /\ n \in Nat /\ (n + 1) + 1 = n + 2
  BY <1>2, NextSays DEF WrittenInv
<1>6. s.value \in Texts /\ next \in Seq(Texts)
  BY <1>2, <1>5, SettingPieces
<1>7. Defined(known, s.flag) =>
        /\ FindLong(<<s.flag>>) \in DOMAIN flagDefs
        /\ flagDefs[FindLong(<<s.flag>>)] = DefOf(known, s.flag)
        /\ Letter(known, s.flag) # None =>
             FindShort(Letter(known, s.flag)) = FindLong(<<s.flag>>)
  BY Places, FindsFlag
<1>8. ~Defined(known, s.flag) =>
        FindLong(<<s.flag>>) = 0 /\ FindShort(Letter(known, s.flag)) = 0
  BY Places, FindsFlag
<1>9. 0 \notin DOMAIN flagDefs
  BY Places, Known
<1> HIDE DEF next
<1>10. CASE letters = <<>> /\ ~AtEnd
  <2>1. /\ s.style \in {"switch", "long", "equals"} => IsLong /\ ~IsTerminator /\ ~IsShort /\ ~IsWord
        /\ s.style \in Lettered => IsShort /\ ~IsTerminator /\ ~IsLong /\ ~IsWord
        /\ s.style = "word" => IsWord /\ ~IsTerminator /\ ~IsLong /\ ~IsShort
        /\ s.style = "rest" => IsTerminator /\ ~IsLong /\ ~IsShort /\ ~IsWord
    BY <1>10, Looks
  <2>2. CASE (IsTerminator \/ IsWord) /\ ~known.parametersEnabled
    <3>1. s.style \in {"word", "rest"}
      BY <1>3, <2>1, <2>2 DEF Styles, Lettered
    <3> QED
      BY <1>3, <2>2, <3>1 DEF Wrong
  <2>3. CASE IsLong /\ FindLong(LongName) = 0
    <3>1. s.style \in {"switch", "long", "equals"}
      BY <1>3, <2>1, <2>3 DEF Styles, Lettered
    <3>2. LongName = <<s.flag>>
      BY <1>10, <3>1, NameIs
    <3>3. ~Defined(known, s.flag)
      BY <1>7, <1>9, <2>3, <3>2
    <3> QED
      BY <1>3, <3>1, <3>3 DEF Wrong
  <2>4. CASE WithoutValue
    <3>1. IsLong /\ FindLong(LongName) # 0 /\ Equals = 0 /\ TypeOf(FindLong(LongName)) # "Bool"
          /\ argument = Len(args)
      BY <2>4 DEF WithoutValue
    <3>2. s.style \in {"switch", "long", "equals"}
      BY <1>3, <2>1, <3>1 DEF Styles, Lettered
    <3>3. LongName = <<s.flag>> /\ (s.style \in {"switch", "long"} <=> Equals = 0)
      BY <1>10, <3>2, NameIs
    <3>4. Defined(known, s.flag) /\ DefOf(known, s.flag).type # "Bool"
      BY <1>7, <1>8, <3>1, <3>3 DEF TypeOf
    <3>5. s.style # "long"
      <4> SUFFICES ASSUME s.style = "long" PROVE FALSE
        OBVIOUS
      <4>1. SubSeq(args, argument + 1, Len(args)) = <<s.value>> \o next
        <5>1. Starts(n + 1, <<"-", "-", s.flag>>, <<s.value>> \o next)
          BY <1>2, <1>5, LineStarts DEF next
        <5> QED
          BY <1>10, <5>1, NextIs
      <4>2. argument + 1 \in 1..Len(args) + 1 /\ argument + 1 = Len(args) + 1
        BY <1>4, <3>1
      <4> HIDE DEF Texts
      <4>3. SubSeq(args, argument + 1, Len(args)) = <<>>
        BY <1>4, <4>2, FromPlace
      <4>4. <<s.value>> \o next # <<>>
        BY <1>6, InFront
      <4> QED
        BY <4>1, <4>3, <4>4
    <3>6. s.style = "switch"
      BY <3>1, <3>2, <3>3, <3>5
    <3> QED
      BY <1>3, <3>4, <3>6 DEF Wrong
  <2>5. ~WithoutShortValue /\ ~(letters # <<>>)
    <3>1. Len(<<>>) # 1
      OBVIOUS
    <3> QED
      BY <1>10, <3>1 DEF WithoutShortValue
  <2> QED
    BY <2>2, <2>3, <2>4, <2>5 DEF Refuse, Unknown, known
<1>11. CASE letters # <<>>
  <2> DEFINE b == Tail(letters)
             k == FindShort(letters[1])
  <2>1. /\ s.style \in Lettered /\ letters[1] = LetterAt(n + 1)
        /\ Len(letters) = Len(b) + 1 /\ Len(b) \in Nat /\ (b = <<>> <=> Len(b) = 0)
        /\ s.style = "short" => b = <<>> /\ Behind = <<s.value>> \o next
        /\ s.style = "glued" => b = s.value
    BY <1>11, LettersBegin DEF next
  <2>2. Letter(known, s.flag) # None /\ k = FindShort(Letter(known, s.flag))
    BY <1>3, <2>1 DEF SaysItself, Lettered, LetterAt
  <2>3. n + 1 \in Naming
    BY <1>3, <2>1 DEF Lettered
  <2>4. CASE k = 0
    <3>1. ~Defined(known, s.flag)
      BY <1>7, <1>9, <2>2, <2>4
    <3> QED
      BY <1>3, <2>3, <3>1 DEF Wrong
  <2>5. CASE WithoutShortValue
    <3>1. Len(letters) = 1 /\ k # 0 /\ TypeOf(k) # "Bool" /\ (~AtEnd => StartsWithDash(Arg))
      BY <2>5 DEF WithoutShortValue
    <3> HIDE DEF k, b
    <3>2. Defined(known, s.flag) /\ DefOf(known, s.flag).type # "Bool"
      BY <1>7, <1>8, <2>2, <3>1 DEF TypeOf
    <3>3. b = <<>>
      <4> DEFINE l == Len(b)
                 m == Len(letters)
      <4>1. m = l + 1 /\ m = 1 /\ l \in Nat
        BY <2>1, <3>1
      <4> HIDE DEF l, m
      <4>2. l = 0
        BY <4>1
      <4> QED
        BY <2>1, <4>2 DEF l
    <3>4. s.style # "glued"
      <4>1. s.style = "glued" => s.value # <<>>
        BY <1>3 DEF SaysItself
      <4> QED
        BY <2>1, <3>3, <4>1
    <3>5. CASE s.style = "letter"
      BY <1>3, <2>3, <3>2, <3>5 DEF Wrong
    <3>6. CASE s.style = "short"
      <4> HIDE DEF Texts
      <4>1. Behind # <<>> /\ Behind[1] = s.value
        BY <1>6, <2>1, <3>6, InFront
      <4>2. ~AtEnd /\ argument <= Len(args)
        <5>1. argument # Len(args) + 1
          BY <1>4, <4>1, FromPlace DEF Behind
        <5> QED
          BY <1>4, <5>1 DEF AtEnd
      <4>3. Behind[1] = Arg
        BY <1>4, <4>2, FromPlace DEF Behind, Arg
      <4>4. StartsWithDash(s.value)
        BY <3>1, <4>1, <4>2, <4>3
      <4> QED
        BY <1>3, <3>6, <4>4 DEF Wrong
    <3> QED
      BY <2>1, <3>4, <3>5, <3>6 DEF Lettered
  <2> QED
    BY <1>11, <2>4, <2>5 DEF Refuse, Unknown, WithoutValue, NextArgument
<1> QED
  BY <1>1, <1>10, <1>11

\* The flags with a default value, as parse() and as the definitions have them.
LEMMA DefaultsAre ==
  {flagDefs[k].longOption : k \in Defaulted}
    = {fd.longOption : fd \in {fd \in Range(known.flagDefs) : HasDefault(fd)}}
BY DEF Defaulted, flagDefs, known, Range

\* Once everything was read, each flag has the value it was given last, or else
\* its default.
LEMMA FillsAsMeant ==
  ASSUME WrittenInv, FillDefaults, NEW m \in 0..Len(written), FlagsGiven(m), Naming = NamedTo(m)
  PROVE  DOMAIN set' = MeantFlags /\ \A flag \in MeantFlags : set'[flag] = MeantValue(flag)
<1> DEFINE names == {flagDefs[k].longOption : k \in Defaulted}
           given == {written[k].flag : k \in Naming}
<1>1. /\ DOMAIN set' = DOMAIN set \cup names
      /\ \A flag \in DOMAIN set : set'[flag] = set[flag]
      /\ \A flag \in names \ DOMAIN set : set'[flag] = Default(flagDefs[FindLong(<<flag>>)])
  BY DEF FillDefaults, IsSet
<1>2. /\ DOMAIN set = given
      /\ \A k \in Naming : NamedLast(k, m) => set[written[k].flag] = ValueOf(k)
  BY DEF FlagsGiven
<1>3. MeantFlags = given \cup names
  BY DefaultsAre DEF MeantFlags
<1>4. commandLine \in CommandLines /\ IsLettered(known) /\ Len(written) \in Nat /\ m \in Nat
  BY Places
<1>5. ASSUME NEW flag \in MeantFlags
      PROVE  set'[flag] = MeantValue(flag)
  <2> DEFINE naming == {k \in Naming : written[k].flag = flag}
  <2>1. MeantValue(flag)
          = IF naming = {} THEN Default(DefOf(known, flag))
            ELSE [type |-> DefOf(known, flag).type,
                  value |-> IF written[Max(naming)].style \in {"switch", "letter"}
                            THEN <<"true">> ELSE written[Max(naming)].value]
    BY DEF MeantValue
  <2>2. CASE naming # {}
    <3> DEFINE j == Max(naming)
    <3>1. naming \subseteq 1..m
      BY DEF NamedTo
    <3>2. j \in naming /\ \A i \in naming : i <= j
      <4> HIDE DEF naming
      <4> QED
        BY <1>4, <2>2, <3>1, MaxIsGreatest
    <3> HIDE DEF j
    <3>3. j \in Naming /\ written[j].flag = flag /\ NamedLast(j, m)
      BY <3>2 DEF NamedLast
    <3>4. flag \in DOMAIN set /\ set[flag] = ValueOf(j)
      BY <1>2, <3>3
    <3>5. set'[flag] = ValueOf(j)
      BY <1>1, <3>4
    <3> QED
      BY <2>1, <2>2, <3>3, <3>5 DEF ValueOf, j
  <2>3. CASE naming = {}
    <3>1. flag \notin DOMAIN set
      BY <1>2, <2>3
    <3>2. flag \in names
      BY <1>2, <1>3, <3>1
    <3>3. Defined(known, flag)
      BY <3>2 DEF Defined, Defaulted, flagDefs, known
    <3>4. flagDefs[FindLong(<<flag>>)] = DefOf(known, flag)
      BY <1>4, <3>3, FindsFlag
    <3> HIDE DEF names
    <3> QED
      BY <1>1, <2>1, <2>3, <3>1, <3>2, <3>4
  <2> QED
    BY <2>2, <2>3
<1> QED
  BY <1>1, <1>2, <1>3, <1>5

\* Without -- all settings are options.
LEMMA NoRest ==
  ASSUME WrittenInv, \A k \in 1..Len(written) : written[k].style # "rest"
  PROVE  /\ Options = 1..Len(written) /\ Naming = NamedTo(Len(written))
         /\ WordsOf(Len(written)) \in Seq(Seq(STRING)) => MeantParameters = WordsOf(Len(written))
<1>1. Len(written) \in Nat /\ DOMAIN written = 1..Len(written)
  BY Places
<1>2. Options = 1..Len(written)
  BY <1>1 DEF Options
<1>3. Naming = NamedTo(Len(written))
  BY <1>2 DEF Naming, NamedTo
<1>4. SelectInSeq(written, LAMBDA s : s.style = "rest") = 0
  BY DEF SelectInSeq
<1>5. MeantParameters = WordsOf(Len(written)) \o <<>>
  BY <1>4 DEF MeantParameters, WordsOf, Words
<1>6. WordsOf(Len(written)) \in Seq(Seq(STRING)) =>
        WordsOf(Len(written)) \o <<>> = WordsOf(Len(written))
  <2> HIDE DEF WordsOf
  <2> QED
    OBVIOUS
<1> QED
  BY <1>2, <1>3, <1>5, <1>6

\* With one, what is behind it are parameters.
LEMMA FirstRest ==
  ASSUME WrittenInv, NEW n \in 1..Len(written), written[n].style = "rest",
         \A k \in 1..n - 1 : written[k].style # "rest"
  PROVE  /\ Options = 1..n /\ Naming = NamedTo(n - 1)
         /\ MeantParameters = WordsOf(n - 1) \o Line(n + 1)
<1>1. Len(written) \in Nat /\ DOMAIN written = 1..Len(written) /\ n \in Nat
  BY Places
<1>2. Options = 1..n
  <2>1. ASSUME NEW k \in 1..Len(written) PROVE k \in Options <=> k <= n
    <3>1. CASE k <= n
      <4>1. \A j \in 1..k - 1 : j \in 1..n - 1
        BY <1>1, <3>1
      <4> QED
        BY <1>1, <3>1, <4>1 DEF Options
    <3>2. CASE ~(k <= n)
      <4>1. n \in 1..k - 1
        BY <1>1, <3>2
      <4> QED
        BY <3>2, <4>1 DEF Options
    <3> QED
      BY <3>1, <3>2
  <2>2. Options \subseteq 1..Len(written)
    BY <1>1 DEF Options
  <2>3. \A k \in 1..n : k \in 1..Len(written) /\ k <= n
    BY <1>1
  <2>4. \A k \in 1..Len(written) : k <= n => k \in 1..n
    BY <1>1
  <2> HIDE DEF Options
  <2> QED
    BY <2>1, <2>2, <2>3, <2>4, Zenon
<1>3. Naming = NamedTo(n - 1)
  <2>1. \A k \in 1..n : k = n \/ k \in 1..n - 1
    BY <1>1
  <2>2. \A k \in 1..n - 1 : k \in 1..n
    BY <1>1
  <2> QED
    BY <1>2, <2>1, <2>2 DEF Naming, NamedTo
<1> DEFINE R == {k \in 1..Len(written) : written[k].style = "rest"}
<1>4. SelectInSeq(written, LAMBDA s : s.style = "rest") = IF R # {} THEN Min(R) ELSE 0
  BY DEF SelectInSeq
<1>5. n \in R /\ R \subseteq Nat
  OBVIOUS
<1>6. \A k \in R : n <= k
  <2> SUFFICES ASSUME NEW k \in R, ~(n <= k) PROVE FALSE
    OBVIOUS
  <2>1. k \in 1..n - 1
    BY <1>1
  <2> QED
    BY <2>1
<1> HIDE DEF R
<1>7. Min(R) = n
  <2>1. Min(R) \in R /\ \A k \in R : Min(R) <= k
    BY <1>5, MinIsLeast
  <2>2. Min(R) \in Nat /\ Min(R) <= n /\ n <= Min(R)
    BY <1>5, <1>6, <2>1
  <2> QED
    BY <1>1, <2>2
<1>8. SelectInSeq(written, LAMBDA s : s.style = "rest") = n /\ n # 0
  BY <1>1, <1>4, <1>5, <1>7
<1>9. MeantParameters = WordsOf(n - 1) \o Line(n + 1)
  BY <1>8 DEF MeantParameters, WordsOf, Words, Line
<1> QED
  BY <1>2, <1>3, <1>9

-----------------------------------------------------------------------------
\* At the end everything is as it was meant.
LEMMA EndsAsMeant ==
  ASSUME WrittenInv, FillDefaults
  PROVE  FlagsAsWritten'
<1>1. /\ AtEnd /\ letters = <<>> /\ reading \in {"options", "parameters"} /\ reading' = "done"
      /\ UNCHANGED <<commandLine, params>>
  BY DEF FillDefaults
<1>2. /\ Options' = Options /\ MeantParameters' = MeantParameters /\ MeantFlags' = MeantFlags
      /\ \A k : Wrong(k)' = Wrong(k)
      /\ \A flag : MeantValue(flag)' = MeantValue(flag)
  BY <1>1, CommandLineStays
<1>3. params \in Seq(Seq(STRING))
  BY DEF WrittenInv, IInv, FlagsTypeOK
<1>4. Len(written) \in Nat /\ DOMAIN written = 1..Len(written) /\ args \in Seq(Texts)
      /\ argument \in 1..Len(args) + 1 /\ Len(args) \in Nat
  BY Places
<1>5. /\ ~\E k \in Options : Wrong(k)
      /\ DOMAIN set' = MeantFlags
      /\ \A flag \in MeantFlags : set'[flag] = MeantValue(flag)
      /\ params = MeantParameters
  <2>1. CASE reading = "options"
    <3> DEFINE m == Len(written)
    <3>1. PICK n \in Int : ReadTo(n)
      BY <2>1 DEF WrittenInv
    <3>2. n = m
      BY <1>1, <3>1, NextIs
    <3>3. Accepted(m) /\ FlagsGiven(m) /\ params = WordsOf(m)
      BY <3>1, <3>2 DEF ReadTo
    <3>4. \A k \in 1..m : written[k].style # "rest" /\ ~Wrong(k)
      BY <3>3 DEF Accepted
    <3>5. Options = 1..m /\ Naming = NamedTo(m) /\ MeantParameters = params
      BY <1>3, <3>3, <3>4, NoRest
    <3>6. m \in 0..Len(written)
      BY <1>4
    <3>7. DOMAIN set' = MeantFlags /\ \A flag \in MeantFlags : set'[flag] = MeantValue(flag)
      BY <3>3, <3>5, <3>6, FillsAsMeant
    <3> QED
      BY <3>4, <3>5, <3>7
  <2>2. CASE reading = "parameters"
    <3>1. PICK n \in Int : ReadToRest(n)
      BY <2>2 DEF WrittenInv
    <3>2. /\ n \in 1..Len(written) /\ written[n].style = "rest" /\ known.parametersEnabled
          /\ Accepted(n - 1) /\ FlagsGiven(n - 1)
          /\ params \o Behind = WordsOf(n - 1) \o Line(n + 1)
      BY <3>1 DEF ReadToRest
    <3>3. \A k \in 1..n - 1 : written[k].style # "rest" /\ ~Wrong(k)
      BY <3>2 DEF Accepted
    <3>4. /\ Options = 1..n /\ Naming = NamedTo(n - 1)
          /\ MeantParameters = WordsOf(n - 1) \o Line(n + 1)
      BY <3>2, <3>3, FirstRest
    <3>5. ~\E k \in Options : Wrong(k)
      <4>1. n \notin Naming
        BY <3>2 DEF Naming
      <4>2. ~Wrong(n)
        BY <3>2, <4>1 DEF Wrong
      <4>3. \A k \in 1..n : k = n \/ k \in 1..n - 1
        BY <3>2
      <4> QED
        BY <3>3, <3>4, <4>2, <4>3
    <3>6. n - 1 \in 0..Len(written)
      BY <1>4, <3>2
    <3>7. DOMAIN set' = MeantFlags /\ \A flag \in MeantFlags : set'[flag] = MeantValue(flag)
      BY <3>2, <3>4, <3>6, FillsAsMeant
    <3>8. Behind = <<>>
      <4>1. argument = Len(args) + 1
        BY <1>1, <1>4 DEF AtEnd
      <4> HIDE DEF Texts
      <4> QED
        BY <1>4, <4>1, FromPlace DEF Behind
    <3>9. params \o <<>> = params
      BY <1>3
    <3> QED
      BY <3>2, <3>4, <3>5, <3>7, <3>8, <3>9
  <2> QED
    BY <1>1, <2>1, <2>2
<1> QED
  BY <1>1, <1>2, <1>5 DEF FlagsAsWritten

\* Before the first argument no setting has been read.
LEMMA WrittenInit ==
  ASSUME FlagsInit, IsWritten(commandLine)
  PROVE  WrittenInv
<1>1. IInv
  BY InitEstablishes
<1>2. /\ argument = 1 /\ reading = "options" /\ letters = <<>> /\ set = <<>> /\ params = <<>>
  BY DEF FlagsInit, InitFlags
<1>3. args = Line(1) /\ IsSettings(written)
  BY DEF IsWritten, written, known, args, Line, WriteLine
<1>4. written \in Seq(Range(written)) /\ Len(written) \in Nat
  BY <1>3 DEF IsSettings
<1>5. args \in Seq(Seq(STRING))
  BY Known DEF FlagsInit
<1>6. Unread = Line(0 + 1)
  <2>1. SubSeq(args, 1, Len(args)) = args
    <3> DEFINE S == Seq(STRING)
    <3>1. args \in Seq(S)
      BY <1>5
    <3> HIDE DEF S
    <3> QED
      BY <3>1
  <2> QED
    BY <1>2, <1>3, <2>1 DEF Unread, Behind
<1>7. WordsOf(0) = <<>>
  BY <1>4, WordsGrow
<1>8. FlagsGiven(0)
  <2>1. NamedTo(0) = {}
    BY DEF NamedTo
  <2>2. DOMAIN set = {}
    BY <1>2
  <2> QED
    BY <2>1, <2>2 DEF FlagsGiven
<1>9. Accepted(0)
  BY DEF Accepted
<1>10. ReadTo(0)
  BY <1>2, <1>4, <1>6, <1>7, <1>8, <1>9 DEF ReadTo
<1>11. FlagsAsWritten
  BY <1>2 DEF FlagsAsWritten
<1> QED
  BY <1>1, <1>2, <1>10, <1>11 DEF WrittenInv

\* Each step reads what was written next.
LEMMA WrittenStep == WrittenInv /\ [ParseFlags]_flagsVars => WrittenInv'
<1> SUFFICES ASSUME WrittenInv, [ParseFlags]_flagsVars PROVE WrittenInv'
  OBVIOUS
<1>1. IInv'
  BY StepKeeps DEF WrittenInv
<1>2. commandLine' = commandLine
  BY DEF ParseFlags, Terminator, Parameter, LongOption, ShortOptions, ShortOption, Refuse,
         ThrowError, FillDefaults, flagsVars
<1>3. IsWritten(commandLine)'
  BY <1>2 DEF WrittenInv
<1>4. /\ Options' = Options /\ MeantParameters' = MeantParameters /\ MeantFlags' = MeantFlags
      /\ \A k : Wrong(k)' = Wrong(k)
      /\ \A flag : MeantValue(flag)' = MeantValue(flag)
  BY <1>2, CommandLineStays
<1>5. ASSUME reading = "options", reading' = "options", NEW n \in Int, ReadTo(n)'
      PROVE  WrittenInv'
  BY <1>1, <1>3, <1>5 DEF WrittenInv, FlagsAsWritten
<1>6. ASSUME reading' = "parameters", NEW n \in Int, ReadToRest(n)'
      PROVE  WrittenInv'
  BY <1>1, <1>3, <1>6 DEF WrittenInv, FlagsAsWritten
<1>7. reading = "options" => \E n \in Int : ReadTo(n)
  BY DEF WrittenInv
<1>8. \A n \in Int : n + 1 \in Int
  OBVIOUS
<1>9. CASE Terminator
  <2>1. reading = "options" /\ reading' = "parameters"
    BY <1>9 DEF Terminator, NextArgument
  <2>2. PICK n \in Int : ReadTo(n)
    BY <1>7, <2>1
  <2>3. ReadToRest(n + 1)'
    BY <1>9, <2>2, TerminatorReads
  <2> QED
    BY <1>6, <1>8, <2>1, <2>3
<1>10. CASE Parameter
  <2>1. reading \in {"options", "parameters"} /\ reading' = reading
    BY <1>10 DEF Parameter, NextArgument
  <2>2. CASE reading = "options"
    <3>1. PICK n \in Int : ReadTo(n)
      BY <1>7, <2>2
    <3>2. ReadTo(n + 1)'
      BY <1>10, <2>2, <3>1, WordReads
    <3> QED
      BY <1>5, <1>8, <2>1, <2>2, <3>2
  <2>3. CASE reading = "parameters"
    <3>1. PICK n \in Int : ReadToRest(n)
      BY <2>3 DEF WrittenInv
    <3>2. ReadToRest(n)'
      BY <1>10, <2>3, <3>1, RestReads
    <3> QED
      BY <1>6, <2>1, <2>3, <3>2
  <2> QED
    BY <2>1, <2>2, <2>3
<1>11. CASE LongOption
  <2>1. reading = "options" /\ reading' = "options"
    BY <1>11 DEF LongOption, NextArgument
  <2>2. PICK n \in Int : ReadTo(n)
    BY <1>7, <2>1
  <2>3. ReadTo(n + 1)'
    BY <1>11, <2>2, LongOptionReads
  <2> QED
    BY <1>5, <1>8, <2>1, <2>3
<1>12. CASE ShortOptions
  <2>1. reading = "options" /\ reading' = "options"
    BY <1>12 DEF ShortOptions, NextArgument
  <2>2. PICK n \in Int : ReadTo(n)
    BY <1>7, <2>1
  <2>3. ReadTo(n)'
    BY <1>12, <2>2, ShortOptionsReads
  <2> QED
    BY <1>5, <2>1, <2>3
<1>13. CASE ShortOption
  <2>1. reading = "options" /\ reading' = "options"
    BY <1>13 DEF ShortOption
  <2>2. PICK n \in Int : ReadTo(n)
    BY <1>7, <2>1
  <2>3. ReadTo(n + 1)'
    BY <1>13, <2>2, ShortOptionReads
  <2> QED
    BY <1>5, <1>8, <2>1, <2>3
<1>14. CASE Refuse
  <2>1. reading = "options" /\ reading' = "error"
    BY <1>14 DEF Refuse, ThrowError, Unknown, WithoutValue, WithoutShortValue, NextArgument
  <2>2. PICK n \in Int : ReadTo(n)
    BY <1>7, <2>1
  <2>3. n + 1 \in Options /\ Wrong(n + 1)
    BY <1>14, <2>2, RefusesWrong
  <2>4. \E k \in Options' : Wrong(k)'
    BY <1>4, <2>3
  <2> QED
    BY <1>1, <1>3, <2>1, <2>4 DEF WrittenInv, FlagsAsWritten
<1>15. CASE FillDefaults
  <2>1. reading' = "done"
    BY <1>15 DEF FillDefaults
  <2>2. FlagsAsWritten'
    BY <1>15, EndsAsMeant
  <2> QED
    BY <1>1, <1>3, <2>1, <2>2 DEF WrittenInv
<1>16. CASE UNCHANGED flagsVars
  <2>1. /\ reading' = reading /\ set' = set /\ params' = params /\ letters' = letters
        /\ argument' = argument
    BY <1>16 DEF flagsVars
  <2>2. FlagsAsWritten'
    BY <1>4, <2>1 DEF WrittenInv, FlagsAsWritten
  <2>3. /\ written' = written /\ known' = known /\ args' = args
        /\ \A k : Line(k)' = Line(k) /\ ValueOf(k)' = ValueOf(k)
        /\ \A n : /\ Accepted(n)' = Accepted(n) /\ NamedTo(n)' = NamedTo(n)
                  /\ WordsOf(n)' = WordsOf(n)
                  /\ \A k : NamedLast(k, n)' = NamedLast(k, n)
    BY <1>2, CommandLineStays
  <2>4. Behind' = Behind /\ Unread' = Unread
    BY <2>1, <2>3 DEF Behind, Unread
  <2>5. ASSUME NEW n PROVE FlagsGiven(n)' = FlagsGiven(n)
    BY <2>1, <2>3 DEF FlagsGiven
  <2>6. ASSUME NEW n \in Int, ReadTo(n) PROVE ReadTo(n)'
    BY <2>1, <2>3, <2>4, <2>5, <2>6 DEF ReadTo
  <2>7. ASSUME NEW n \in Int, ReadToRest(n) PROVE ReadToRest(n)'
    BY <2>1, <2>3, <2>4, <2>5, <2>7 DEF ReadToRest
  <2> QED
    BY <1>1, <1>3, <2>1, <2>2, <2>6, <2>7 DEF WrittenInv
<1> QED
  BY <1>9, <1>10, <1>11, <1>12, <1>13, <1>14, <1>15, <1>16 DEF ParseFlags

-----------------------------------------------------------------------------
\* However a command line is read, for any program: the flags' values stay
\* sequences of pieces, of one of the types, and no argument is skipped past the
\* last (Flags::parse(), util/Flags.cpp:302-440).
THEOREM TypeCorrect == FlagsSpec => []FlagsTypeOK
<1>1. IInv => FlagsTypeOK
  BY DEF IInv
<1> QED
  BY <1>1, InitEstablishes, StepKeeps, PTL DEF FlagsSpec

\* When parse() is done without an Error, the accessors neither miss a flag that
\* has a default value, or is a switch, nor find one of another type
\* (util/Flags.cpp:62-119, 427-440).
THEOREM CanBeRead == FlagsSpec => []FlagsCanBeRead
<1>1. IInv => FlagsCanBeRead
  <2> SUFFICES ASSUME IInv, reading = "done"
               PROVE  /\ \A k \in DOMAIN flagDefs :
                           HasDefault(flagDefs[k]) => IsSet(flagDefs[k].longOption)
                      /\ \A k \in DOMAIN flagDefs :
                           IsSet(flagDefs[k].longOption) =>
                             set[flagDefs[k].longOption].type = TypeOf(k)
                      /\ \A flag \in DOMAIN set :
                           \E k \in DOMAIN flagDefs : flagDefs[k].longOption = flag
    BY DEF FlagsCanBeRead
  <2>1. \A k, l \in DOMAIN flagDefs : flagDefs[k].longOption = flagDefs[l].longOption => k = l
    BY Known DEF IInv, FlagsTypeOK
  <2>2. \A k \in DOMAIN flagDefs :
          IsSet(flagDefs[k].longOption) => set[flagDefs[k].longOption].type = TypeOf(k)
    BY <2>1 DEF IInv, SetAsDefined, IsSet
  <2> QED
    BY <2>2 DEF IInv, SetAsDefined, DefaultsFilled
<1> QED
  BY <1>1, InitEstablishes, StepKeeps, PTL DEF FlagsSpec

\* Whatever settings a command line was written for, if they can be told from each
\* other (IsWritten), parse() throws if and only if one of them cannot be meant, and
\* otherwise leaves each flag with the value it was given last, or its default, and
\* all other arguments, in their order, as the parameters
\* (Flags::parse(), util/Flags.cpp:302-440).
THEOREM ReadsAsWritten == (\A c \in CommandLines : IsWritten(c)) => (FlagsSpec => []FlagsAsWritten)
<1> SUFFICES ASSUME \A c \in CommandLines : IsWritten(c)
             PROVE  FlagsSpec => []FlagsAsWritten
  OBVIOUS
<1>1. FlagsInit => WrittenInv
  <2> SUFFICES ASSUME FlagsInit PROVE WrittenInv
    OBVIOUS
  <2>1. IsWritten(commandLine)
    BY DEF FlagsInit
  <2> QED
    BY <2>1, WrittenInit
<1>2. WrittenInv => FlagsAsWritten
  BY DEF WrittenInv
<1> QED
  BY <1>1, <1>2, WrittenStep, PTL DEF FlagsSpec

=============================================================================
