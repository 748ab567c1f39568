-------------------------------- MODULE Flags --------------------------------
(***************************************************************************)
(* The parser of command lines (klex/util/Flags.cpp).                      *)
(*                                                                         *)
(* An argument, like the value of a flag, is a sequence of pieces: dashes, *)
(* equal signs, the letters of short options, and whole names and words,   *)
(* whose characters are of no interest here.  A program is what it calls   *)
(* the define...() functions and enableParameters() with.                  *)
(***************************************************************************)
EXTENDS Containers

CONSTANTS
  Programs,       \* the programs considered
  CommandLines    \* and what they may be called with

FlagType == {"String", "Number", "Bool"}

\* Instead of a short option.
None == "none"

\* define(); default is the set of the default value, if there is one.
FlagDef(type, longOption, shortOption, default) ==
  [type |-> type, longOption |-> longOption, shortOption |-> shortOption,
   default |-> default]

IsFlagDef(fd) ==
  /\ fd.type \in FlagType
  /\ fd.default \subseteq Seq(STRING)

ASSUME ProgramsAssumption ==
  \A p \in Programs :
    /\ \A k \in DOMAIN p.flagDefs : IsFlagDef(p.flagDefs[k])
    /\ \A k, l \in DOMAIN p.flagDefs :
         p.flagDefs[k].longOption = p.flagDefs[l].longOption => k = l
    /\ p.flagDefs \in Seq(Range(p.flagDefs))
    /\ p.parametersEnabled \in BOOLEAN
ASSUME CommandLinesAssumption ==
  \A c \in CommandLines : c.program \in Programs /\ c.args \in Seq(Seq(STRING))
\* The values of a switch are values, which a prover that knows no strings is told.
ASSUME SwitchAssumption == {<<"true">>, <<"false">>} \subseteq Seq(STRING)

VARIABLES
  commandLine,   \* the program and its arguments
  argument,      \* the argument that is next
  reading,       \* "options" or "parameters", and the two ways to end
  letters,       \* what is left of an argument of short options
  set,           \* set_: type and value of each flag that has one
  params,        \* the arguments that are no options
  flagError      \* the code of the Error thrown

flagsVars == <<commandLine, argument, reading, letters, set, params, flagError>>

InitFlags ==
  /\ argument = 1
  /\ reading = "options"
  /\ letters = <<>>
  /\ set = <<>>
  /\ params = <<>>
  /\ flagError = None

-----------------------------------------------------------------------------
flagDefs == commandLine.program.flagDefs
args     == commandLine.args
Arg      == args[argument]
AtEnd    == argument > Len(args)

\* findDef(), 0 if there is none.
FindLong(name)    == SelectInSeq(flagDefs, LAMBDA fd : <<fd.longOption>> = name)
FindShort(letter) == SelectInSeq(flagDefs, LAMBDA fd : fd.shortOption = letter)

TypeOf(k) == flagDefs[k].type

IsSet(flag) == flag \in DOMAIN set

\* invokeCallback(); no program has a callback.
Set(k, value) ==
  set' = [flag \in DOMAIN set \cup {flagDefs[k].longOption} |->
            IF flag = flagDefs[k].longOption THEN [type |-> TypeOf(k), value |-> value]
            ELSE set[flag]]

ThrowError(code) ==
  /\ reading' = "error"
  /\ flagError' = code
  /\ UNCHANGED <<commandLine, argument, letters, set, params>>

\* What an argument is taken for.
IsTerminator == Arg = <<"-", "-">>
IsLong       == Len(Arg) > 2 /\ Arg[1] = "-" /\ Arg[2] = "-"
IsShort      == Len(Arg) > 1 /\ Arg[1] = "-" /\ ~IsTerminator /\ ~IsLong
IsWord       == ~IsTerminator /\ ~IsLong /\ ~IsShort

NextArgument == reading = "options" /\ letters = <<>> /\ ~AtEnd

Terminator ==
  /\ NextArgument
  /\ IsTerminator
  /\ commandLine.program.parametersEnabled
  /\ reading' = "parameters"
  /\ argument' = argument + 1
  /\ UNCHANGED <<commandLine, letters, set, params, flagError>>

Parameter ==
  /\ \/ reading = "parameters" /\ ~AtEnd
     \/ NextArgument /\ IsWord /\ commandLine.program.parametersEnabled
  /\ params' = Append(params, Arg)
  /\ argument' = argument + 1
  /\ UNCHANGED <<commandLine, reading, letters, set, flagError>>

\* --name=value, --name, --name value.
Equals == SelectInSeq(Arg, LAMBDA piece : piece = "=")
LongName == SubSeq(Arg, 3, IF Equals = 0 THEN Len(Arg) ELSE Equals - 1)

LongOption ==
  /\ NextArgument
  /\ IsLong
  /\ LET k == FindLong(LongName) IN
       /\ k # 0
       /\ \/ /\ Equals # 0
             /\ Set(k, SubSeq(Arg, Equals + 1, Len(Arg)))
             /\ argument' = argument + 1
          \/ /\ Equals = 0 /\ TypeOf(k) = "Bool"
             /\ Set(k, <<"true">>)
             /\ argument' = argument + 1
          \/ /\ Equals = 0 /\ TypeOf(k) # "Bool" /\ argument < Len(args)
             /\ Set(k, args[argument + 1])
             /\ argument' = argument + 2
  /\ UNCHANGED <<commandLine, reading, letters, params, flagError>>

ShortOptions ==
  /\ NextArgument
  /\ IsShort
  /\ letters' = Tail(Arg)
  /\ argument' = argument + 1
  /\ UNCHANGED <<commandLine, reading, set, params, flagError>>

StartsWithDash(value) == value # <<>> /\ value[1] = "-"

\* A letter of such an argument: that of a switch, or of an option that takes the
\* rest of it, or the next argument, as its value.
ShortOption ==
  /\ reading = "options"
  /\ letters # <<>>
  /\ LET k == FindShort(letters[1]) IN
       /\ k # 0
       /\ \/ /\ TypeOf(k) = "Bool"
             /\ Set(k, <<"true">>)
             /\ letters' = Tail(letters)
             /\ UNCHANGED argument
          \/ /\ TypeOf(k) # "Bool" /\ Len(letters) > 1
             /\ Set(k, Tail(letters))
             /\ letters' = <<>>
             /\ UNCHANGED argument
          \/ /\ TypeOf(k) # "Bool" /\ Len(letters) = 1
             /\ ~AtEnd
             /\ ~StartsWithDash(Arg)
             /\ Set(k, Arg)
             /\ letters' = <<>>
             /\ argument' = argument + 1
  /\ UNCHANGED <<commandLine, reading, params, flagError>>

\* UnknownOption, MissingOption and MissingOptionValue.
Unknown ==
  \/ NextArgument /\ (IsTerminator \/ IsWord) /\ ~commandLine.program.parametersEnabled
  \/ NextArgument /\ IsLong /\ FindLong(LongName) = 0
  \/ reading = "options" /\ letters # <<>> /\ FindShort(letters[1]) = 0

WithoutValue ==
  /\ NextArgument /\ IsLong
  /\ LET k == FindLong(LongName) IN
       k # 0 /\ Equals = 0 /\ TypeOf(k) # "Bool" /\ argument = Len(args)

WithoutShortValue ==
  /\ reading = "options" /\ Len(letters) = 1
  /\ LET k == FindShort(letters[1]) IN
       k # 0 /\ TypeOf(k) # "Bool" /\ (~AtEnd => StartsWithDash(Arg))

Refuse ==
  \/ Unknown /\ ThrowError("UnknownOption")
  \/ WithoutValue /\ ThrowError("MissingOption")
  \/ WithoutShortValue /\ ThrowError("MissingOptionValue")

\* What is set in the end for a flag the command line does not name.
HasDefault(fd) == fd.default # {} \/ fd.type = "Bool"
Default(fd) ==
  [type |-> fd.type,
   value |-> IF fd.default = {} THEN <<"false">> ELSE CHOOSE value \in fd.default : TRUE]

\* Mutant: switches are left unset.
DefaultedIfGiven == {k \in DOMAIN flagDefs : flagDefs[k].default # {}}
Defaulted        == {k \in DOMAIN flagDefs : HasDefault(flagDefs[k])}

FillDefaults ==
  /\ reading \in {"options", "parameters"}
  /\ letters = <<>>
  /\ AtEnd
  /\ reading' = "done"
  /\ set' = [flag \in DOMAIN set \cup {flagDefs[k].longOption : k \in Defaulted} |->
               IF IsSet(flag) THEN set[flag] ELSE Default(flagDefs[FindLong(<<flag>>)])]
  /\ UNCHANGED <<commandLine, argument, letters, params, flagError>>

\* parse()
ParseFlags == Terminator \/ Parameter \/ LongOption \/ ShortOptions \/ ShortOption
              \/ Refuse \/ FillDefaults

-----------------------------------------------------------------------------
\* getString() and asString() throw at a flag that is not set; getBool() does not.
GetString(flag) == set[flag].value
GetBool(flag)   == IsSet(flag) /\ set[flag].value = <<"true">>

FlagsInit == commandLine \in CommandLines /\ InitFlags
FlagsSpec == FlagsInit /\ [][ParseFlags]_flagsVars

FlagsTypeOK ==
  /\ commandLine \in CommandLines
  /\ argument \in 1..Len(args) + 1
  /\ reading \in {"options", "parameters", "done", "error"}
  /\ letters \in Seq(STRING)
  /\ \A flag \in DOMAIN set : set[flag].type \in FlagType /\ set[flag].value \in Seq(STRING)
  /\ params \in Seq(Seq(STRING))
  /\ flagError \in {None, "UnknownOption", "MissingOption", "MissingOptionValue"}

\* Once a command line has been read, each switch and each flag with a default
\* value has one, and each flag that is set has the type it was defined with, so
\* that getBool(), getString() and getNumber() neither miss it nor find another
\* type (util/Flags.cpp:62-119, 427-440).
FlagsCanBeRead ==
  reading = "done" =>
    /\ \A k \in DOMAIN flagDefs : HasDefault(flagDefs[k]) => IsSet(flagDefs[k].longOption)
    /\ \A k \in DOMAIN flagDefs :
         IsSet(flagDefs[k].longOption) => set[flagDefs[k].longOption].type = TypeOf(k)
    /\ \A flag \in DOMAIN set : \E k \in DOMAIN flagDefs : flagDefs[k].longOption = flag

-----------------------------------------------------------------------------
(* What a command line says, told from the settings it was written for and      *)
(* without reading an argument.  A setting names a flag, its value and the      *)
(* style it is written in; one that is joined goes on in the argument of the    *)
(* letter before it.                                                            *)

Defined(program, flag) == \E k \in DOMAIN program.flagDefs : program.flagDefs[k].longOption = flag
DefOf(program, flag) ==
  CHOOSE fd \in Range(program.flagDefs) : fd.longOption = flag
Letter(program, flag) == IF Defined(program, flag) THEN DefOf(program, flag).shortOption ELSE "?"

\* The arguments of a setting.
Arguments(program, s) ==
  CASE s.style = "switch" -> << <<"-", "-", s.flag>> >>
    [] s.style = "letter" -> << <<"-", Letter(program, s.flag)>> >>
    [] s.style = "long"   -> << <<"-", "-", s.flag>>, s.value >>
    [] s.style = "equals" -> << <<"-", "-", s.flag, "=">> \o s.value >>
    [] s.style = "short"  -> << <<"-", Letter(program, s.flag)>>, s.value >>
    [] s.style = "glued"  -> << <<"-", Letter(program, s.flag)>> \o s.value >>
    [] s.style = "word"   -> << s.value >>
    [] s.style = "rest"   -> << <<"-", "-">> >>

\* The arguments of the settings from the k-th on, in an argument of its own.
WriteFrom(program, settings, k) ==
  LET line[i \in 1..Len(settings) + 1] ==
        IF i = Len(settings) + 1 THEN <<>>
        ELSE LET own == Arguments(program, settings[i])
                 more == line[i + 1]
             IN  IF i < Len(settings) /\ settings[i + 1].joined
                 THEN <<own[1] \o Tail(more[1])>> \o Tail(more)
                 ELSE own \o more
  IN  line[k]

WriteLine(program, settings) == WriteFrom(program, settings, 1)

CallOf(program, settings) ==
  [program |-> program, settings |-> settings, args |-> WriteLine(program, settings)]

written == commandLine.settings
known   == commandLine.program

\* Behind -- everything is a parameter.
Options == {k \in DOMAIN written : ~\E j \in 1..k - 1 : written[j].style = "rest"}
Naming  == {k \in Options : written[k].style \notin {"word", "rest"}}

\* A switch or a letter without the value its flag needs is the last setting.
Wrong(k) ==
  \/ written[k].style \in {"word", "rest"} /\ ~known.parametersEnabled
  \/ k \in Naming /\ ~Defined(known, written[k].flag)
  \/ written[k].style = "short" /\ StartsWithDash(written[k].value)
  \/ /\ k \in Naming
     /\ written[k].style \in {"switch", "letter"}
     /\ DefOf(known, written[k].flag).type # "Bool"

MeantValue(flag) ==
  LET naming == {k \in Naming : written[k].flag = flag}
      last == written[Max(naming)]
  IN  IF naming = {} THEN Default(DefOf(known, flag))
      ELSE [type |-> DefOf(known, flag).type,
            value |-> IF last.style \in {"switch", "letter"} THEN <<"true">> ELSE last.value]

MeantFlags ==
  {written[k].flag : k \in Naming}
  \cup {fd.longOption : fd \in {fd \in Range(known.flagDefs) : HasDefault(fd)}}

\* Each word, and each argument behind the first --.
MeantParameters ==
  LET rest == SelectInSeq(written, LAMBDA s : s.style = "rest")
      end == IF rest = 0 THEN Len(written) ELSE rest - 1
      words == Kept(SubSeq(written, 1, end), {s \in Range(written) : s.style = "word"})
  IN  [k \in DOMAIN words |-> words[k].value]
      \o IF rest = 0 THEN <<>> ELSE WriteFrom(known, written, rest + 1)

\* A command line is refused if and only if it has an unknown flag, lacks a value,
\* has one behind a letter that starts with a dash, or a parameter where there
\* are none.  Otherwise each flag has the value it was given last, or else its
\* default, and the parameters are the other arguments in their order, however
\* the settings were written and their letters put together
\* (util/Flags.cpp:302-440).
FlagsAsWritten ==
  /\ reading = "error" => \E k \in Options : Wrong(k)
  /\ reading = "done" =>
       /\ ~\E k \in Options : Wrong(k)
       /\ DOMAIN set = MeantFlags
       /\ \A flag \in MeantFlags : set[flag] = MeantValue(flag)
       /\ params = MeantParameters

\* Letters and names that cannot be taken for anything else.
IsLettered(program) ==
  /\ \A k, l \in DOMAIN program.flagDefs :
       LET letter == program.flagDefs[k].shortOption IN
         letter = program.flagDefs[l].shortOption /\ letter # None => k = l
  /\ \A k \in DOMAIN program.flagDefs : program.flagDefs[k].shortOption \notin {"-", "?"}

\* A setting that says what it is meant to: a word that looks like an option comes
\* behind -- only, a flag without a letter is written with its name, a switch gets a
\* value in one argument only, and nothing follows a flag that lacks its value.
Styles == {"switch", "letter", "long", "equals", "short", "glued", "word", "rest"}

SaysItself(program, settings, k) ==
  LET s == settings[k]
      needsValue == Defined(program, s.flag) /\ DefOf(program, s.flag).type # "Bool"
  IN  /\ s.style \in {"letter", "short", "glued"} => Letter(program, s.flag) # None
      /\ s.style \in {"long", "short", "glued"} /\ Defined(program, s.flag) => needsValue
      /\ s.style \in {"switch", "letter"} /\ needsValue => k = Len(settings)
      /\ s.style = "glued" => s.value # <<>>
      /\ s.style = "word" => ~StartsWithDash(s.value) \/ Len(s.value) = 1

IsSettings(settings) ==
  /\ settings \in Seq(Range(settings))
  /\ \A k \in DOMAIN settings :
       /\ settings[k].style \in Styles
       /\ settings[k].value \in Seq(STRING)
       /\ settings[k].flag \in STRING \ {"="}
       /\ settings[k].joined =>
            /\ k > 1 /\ settings[k - 1].style = "letter"
            /\ settings[k].style \in {"letter", "short", "glued"}

IsWritten(c) ==
  /\ c.args = WriteLine(c.program, c.settings)
  /\ IsLettered(c.program)
  /\ IsSettings(c.settings)
  /\ \A k \in DOMAIN c.settings :
       (\A j \in 1..k - 1 : c.settings[j].style # "rest") => SaysItself(c.program, c.settings, k)

=============================================================================
