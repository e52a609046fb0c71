---------------------------- MODULE Preprocessor -----------------------------
(***************************************************************************)
(* preprocessor.c: the files of a project become one text, line by line.    *)
(*                                                                          *)
(* A line is [d, t]: its directive ("text" for none) and the tokens behind  *)
(* it; #include names a file as a path, a sequence of directories and a     *)
(* name, and says whether it is quoted.  A token counts as one character.   *)
(* The code has one error flag: the phases "refused" (something in the      *)
(* files is not allowed) and "exhausted" (one of the limits) tell why it    *)
(* was set.  In "wild" it has written outside of the table of macros.       *)
(***************************************************************************)
EXTENDS Macros

CONSTANTS Projects,      \* [files, roots, definitions]
          MaxSource,     \* the 1048576 bytes all the files may have
          OutputSlack,   \* the 4096 bytes of output beyond their size
          MacrosPerFile, \* the 4 macros a file has room for
          MacroSlack     \* and the 16 beyond these

VARIABLES
  project,  \* the input
  macros,   \* the table
  once,     \* files with #pragma once
  stack,    \* the files being processed: [file, line, active, groups]
  unit,     \* number of the next file to look at for a translation unit
  output,
  phase     \* "start", "files", "done", "refused", "exhausted", "wild"

vars == <<project, macros, once, stack, unit, output, phase>>

Init ==
  /\ project \in Projects
  /\ macros = << >> /\ once = {} /\ stack = << >> /\ unit = 1 /\ output = << >>
  /\ phase = "start"

Files == project.files

RECURSIVE SizeFrom(_)
SizeFrom(lines) == IF lines = << >> THEN 0 ELSE Len(Head(lines).t) + 1 + SizeFrom(Tail(lines))

RECURSIVE SizeOf(_)
SizeOf(files) == IF files = << >> THEN 0 ELSE SizeFrom(Head(files).lines) + SizeOf(Tail(files))

OutputCapacity == OutputSlack + SizeOf(Files)

MacroCapacity ==
  Len(Files) * MacrosPerFile + Len(project.definitions) + MacroSlack

(* The definitions of the project: NAME=VALUE, where the = may be missing.  *)
RECURSIVE Predefine(_, _)
Predefine(ms, definitions) ==
  IF definitions = << >> THEN ms
  ELSE Predefine(Define(ms, Macro(Head(definitions).name, FALSE, << >>,
                                  Head(definitions).value)),
                 Tail(definitions))

(* The sizes are checked, the tables allocated, the definitions entered.    *)
(* There is a place in the table for each of them.                          *)
Begin ==
  /\ phase = "start"
  /\ \E granted \in BOOLEAN :
       IF granted /\ OutputCapacity <= MaxSource
       THEN /\ phase' = "files"
            /\ macros' = Predefine(macros, project.definitions)
       ELSE /\ phase' = "exhausted"
            /\ UNCHANGED macros
  /\ UNCHANGED <<project, once, stack, unit, output>>

-----------------------------------------------------------------------------
Fail(why) == phase' = why /\ UNCHANGED <<project, macros, once, stack, unit, output>>

Emit(tokens) ==
  IF Len(output) + Len(tokens) <= OutputCapacity
  THEN output' = output \o tokens /\ UNCHANGED phase
  ELSE phase' = "exhausted" /\ UNCHANGED output

NewLine == <<"\n">>

Opened == {stack[k].file : k \in DOMAIN stack}

Frame(file) == [file |-> file, line |-> 1, active |-> TRUE, groups |-> << >>]

(* The head of dyn_process_file, called below the files of below.           *)
Enter(file, below) ==
  IF Len(below) >= MaxDepth
  THEN phase' = "exhausted" /\ UNCHANGED <<stack, output>>
  ELSE IF file \in once
  THEN stack' = below /\ (IF below = << >> THEN UNCHANGED <<output, phase>> ELSE Emit(NewLine))
  ELSE IF file \in Opened
  THEN phase' = "refused" /\ UNCHANGED <<stack, output>>
  ELSE stack' = Append(below, Frame(file)) /\ UNCHANGED <<output, phase>>

NextUnit ==
  /\ phase = "files" /\ stack = << >> /\ unit <= Len(Files)
  /\ unit' = unit + 1
  /\ IF Files[unit].unit THEN Enter(unit, << >>) ELSE UNCHANGED <<stack, output, phase>>
  /\ UNCHANGED <<project, macros, once>>

Finish ==
  /\ phase = "files" /\ stack = << >> /\ unit > Len(Files)
  /\ phase' = "done"
  /\ UNCHANGED <<project, macros, once, stack, unit, output>>

-----------------------------------------------------------------------------
Current == stack[Len(stack)]

Below == Front(stack, Len(stack) - 1)

Lines == Files[Current.file].lines

Line == Lines[Current.line]

Reading(directives) ==
  /\ phase = "files" /\ stack # << >> /\ Current.line <= Len(Lines)
  /\ Line.d \in directives

Groups == Current.groups

Group == Groups[Len(Groups)]

Moved(frame) == Append(Below, [frame EXCEPT !.line = @ + 1])

(* A directive is done: its line is left empty in the output.               *)
Directive(frame) ==
  /\ stack' = Moved(frame)
  /\ Emit(NewLine)
  /\ UNCHANGED <<project, unit>>

InGroups(active, groups) == [Current EXCEPT !.active = active, !.groups = groups]

Keep == UNCHANGED <<macros, once>>

Valid(b) == [holds |-> b, valid |-> TRUE]

Argument == Line.t

NamesMacro == Len(Argument) = 1 /\ MacroDefined(macros, Argument[1])

Test ==
  IF ~ Current.active THEN Valid(FALSE)
  ELSE CASE Line.d = "if" -> Condition(macros, Argument)
         [] Line.d = "ifdef" -> Valid(NamesMacro)
         [] Line.d = "ifndef" -> Valid(~ NamesMacro)

Entered(holds) == [parent |-> Current.active, taken |-> holds, seenElse |-> FALSE]

If ==
  /\ Reading({"if", "ifdef", "ifndef"})
  /\ IF Len(Groups) >= MaxDepth THEN Fail("exhausted")
     ELSE IF ~ Test.valid THEN Fail("refused")
     ELSE /\ Directive(InGroups(Current.active /\ Test.holds,
                                Append(Groups, Entered(Test.holds))))
          /\ Keep

WithGroup(group) == Append(Front(Groups, Len(Groups) - 1), group)

TakenOrNot(group, holds) == [group EXCEPT !.taken = holds]

Taken(group, holds) == [group EXCEPT !.taken = @ \/ holds]

TestElif(group) ==
  IF group.parent /\ ~ group.taken THEN Condition(macros, Argument) ELSE Valid(FALSE)

Elif ==
  /\ Reading({"elif"})
  /\ IF Groups = << >> \/ Group.seenElse \/ ~ TestElif(Group).valid THEN Fail("refused")
     ELSE LET holds == TestElif(Group).holds IN
          /\ Directive(InGroups(Group.parent /\ ~ Group.taken /\ holds,
                                WithGroup(Taken(Group, holds))))
          /\ Keep

Else ==
  /\ Reading({"else"})
  /\ IF Groups = << >> \/ Group.seenElse THEN Fail("refused")
     ELSE /\ Directive(InGroups(Group.parent /\ ~ Group.taken,
                                WithGroup([Group EXCEPT !.taken = TRUE, !.seenElse = TRUE])))
          /\ Keep

Endif ==
  /\ Reading({"endif"})
  /\ IF Groups = << >> THEN Fail("refused")
     ELSE /\ Directive(InGroups(Group.parent, Front(Groups, Len(Groups) - 1)))
          /\ Keep

(* Directives other than these are only looked at where they are active.    *)
GroupDirectives == {"if", "ifdef", "ifndef", "elif", "else", "endif"}

Skip ==
  /\ phase = "files" /\ stack # << >> /\ Current.line <= Len(Lines)
  /\ ~ Current.active /\ Line.d \notin GroupDirectives
  /\ IF Line.d = "text"
     THEN stack' = Moved(Current) /\ UNCHANGED <<project, unit, output, phase>>
     ELSE Directive(Current)
  /\ Keep

Active(d) == Reading({d}) /\ Current.active

(* #define without a name is passed over, unless parameters follow: those   *)
(* are written to the macro that was not found, outside of the table.       *)
Nameless == Argument = << >> \/ ~ IsWord(Head(Argument))

DefineLine ==
  /\ Active("define")
  /\ IF Nameless /\ (Argument = << >> \/ Head(Argument) # "(")
     THEN Directive(Current) /\ Keep
     ELSE IF Nameless
     THEN Fail(IF \E i \in DOMAIN Argument : Argument[i] = ")" THEN "wild" ELSE "refused")
     ELSE IF DefinesFunction(Argument) /\ Closing(Argument) = {} THEN Fail("refused")
     ELSE IF ~ HasPlace(macros, Argument[1], MacroCapacity) THEN Fail("exhausted")
     ELSE IF DefinesFunction(Argument) /\ ~ ParametersRead(ParameterList(Argument))
     THEN Fail("refused")
     ELSE IF Len(Defining(Argument).params) > MaxParameters THEN Fail("exhausted")
     ELSE /\ macros' = Define(macros, Defining(Argument))
          /\ Directive(Current)
          /\ UNCHANGED once

UndefLine ==
  /\ Active("undef")
  /\ macros' = IF NamesMacro THEN Undef(macros, Argument[1]) ELSE macros
  /\ Directive(Current)
  /\ UNCHANGED once

Pragma ==
  /\ Active("pragma")
  /\ IF Argument # <<"once">> THEN Fail("refused")
     ELSE /\ once' = once \cup {Current.file}
          /\ Directive(Current)
          /\ UNCHANGED macros

(* #error, and every directive there is not.                                *)
ErrorLine ==
  /\ Active("error") \/ Active("unknown")
  /\ Fail("refused")

(* dyn_find_include: beside the including file, then under each root, then  *)
(* as a path of the project.                                                *)
Directory(path) == Front(path, Len(path) - 1)

RootsFirst ==
  [r \in DOMAIN project.roots |-> project.roots[r] \o Argument]
  \o (IF Line.quoted THEN <<Directory(Files[Current.file].path) \o Argument>> ELSE << >>)
  \o <<Argument>>

Candidates ==
  (IF Line.quoted THEN <<Directory(Files[Current.file].path) \o Argument>> ELSE << >>)
  \o [r \in DOMAIN project.roots |-> project.roots[r] \o Argument]
  \o <<Argument>>

FilesAt(path) == {f \in DOMAIN Files : Files[f].path = path}

Found == {c \in DOMAIN Candidates : FilesAt(Candidates[c]) # {}}

Include ==
  /\ Active("include")
  /\ IF Argument = << >> \/ Found = {} THEN Fail("refused")
     ELSE /\ Enter(First(FilesAt(Candidates[First(Found)])), Moved(Current))
          /\ Keep /\ UNCHANGED <<project, unit>>

Text ==
  /\ Active("text")
  /\ LET r == ExpandLine(macros, Argument, "", {}) IN
     IF ~ r.ok THEN Fail("refused")
     ELSE /\ stack' = Moved(Current)
          /\ Emit(r.out \o NewLine)
          /\ Keep /\ UNCHANGED <<project, unit>>

(* The end of a file; below it the #include that named it is done.          *)
EndFile ==
  /\ phase = "files" /\ stack # << >> /\ Current.line > Len(Lines)
  /\ IF Groups # << >> THEN Fail("refused")
     ELSE /\ stack' = Below
          /\ IF Below = << >> THEN UNCHANGED <<output, phase>> ELSE Emit(NewLine)
          /\ Keep /\ UNCHANGED <<project, unit>>

Next ==
  \/ Begin \/ NextUnit \/ Finish \/ EndFile
  \/ If \/ Elif \/ Else \/ Endif \/ Skip
  \/ DefineLine \/ UndefLine \/ Pragma \/ ErrorLine \/ Include \/ Text

Spec == Init /\ [][Next]_vars
=============================================================================
