------------------------------ MODULE IthonRun ------------------------------
(***************************************************************************)
(* The Ithon runner (Lib/ithon_run.py): a program or module is read,       *)
(* checked as a whole, recorded in the receipt, compiled from the checked  *)
(* tree and executed; its imports find .pi modules before .py ones.  One   *)
(* thread runs; the files may be edited while it does.                     *)
(*                                                                         *)
(* A source is a sequence of statements [op, arg] of which only what       *)
(* matters to the runner is kept: "effect" and "raise" run, "import" loads *)
(* arg, "try" loads it and catches the failure (foreign code only),        *)
(* "reject" fails the static check, and "illegal" passes it but is refused *)
(* by compile().                                                           *)
(***************************************************************************)
EXTENDS Naturals, Sequences, SequencesExt

CONSTANTS
  Modules,      \* the names a program may import
  Dirs,         \* the directories of sys.path
  SearchPath,   \* sys.path at the start
  ProgramDir,   \* the directory of the program's file
  Files,        \* the files below Dirs: [dir, module, form]
  Sources,      \* the texts of Ithon ("pi") and of Python ("py")
  Commands,     \* the command lines: "none", "option", "py", "-c" or "pi"
  Receipts,     \* may ITHON_CHECK_RECEIPT be set?
  MaxEdits,     \* bound: edits of files while the program runs
  NULL

(* "pi" is leaf.pi, "init" is leaf/__init__.pi, "py" is Python's.          *)
Forms == {"pi", "init", "py"}

ASSUME IthonRunAssumption ==
  /\ NULL \notin Modules /\ NULL \notin Files
  /\ SearchPath \in Seq(Dirs) /\ SearchPath # << >>
  /\ ProgramDir \in Dirs
  /\ Files \subseteq [dir : Dirs, module : Modules, form : Forms]
  /\ Commands \subseteq {"none", "option", "py", "-c", "pi"}
  /\ Receipts \subseteq BOOLEAN /\ MaxEdits \in Nat

VARIABLES
  command,   \* what the user asked for
  status,    \* "start", "running", and how it ended
  disk,      \* the contents of the files
  program,   \* the text of the program
  finders,   \* sys.meta_path, as far as it finds source files
  path,      \* sys.path
  modules,   \* sys.modules: the state of every name
  stack,     \* the loads under way, the innermost last
  receipt,   \* is ITHON_CHECK_RECEIPT set?
  lines,     \* the lines of the receipt
  ran,       \* history: the statements executed, with their source
  edits      \* the edits so far

vars == <<command, status, disk, program, finders, path, modules, stack, receipt,
          lines, ran, edits>>

(* A load: of a module from a file, or of the program (both NULL), with    *)
(* the text read, the next step and the next statement.                    *)
Steps == {"read", "check", "record", "compile", "exec"}
Ended == {"ok", "exit", "static", "error"}

SourceOf(form) == Sources[IF form = "py" THEN "py" ELSE "pi"]
AllSources == Sources["pi"] \union Sources["py"]

(* What is executed, checked or recorded: a text under its file's name.    *)
Text == [file : Files \union {NULL}, source : AllSources]

Frame == [module : Modules \union {NULL}, file : Files \union {NULL},
          source : AllSources \union {NULL}, step : Steps, pos : Nat \ {0}]

TypeOK ==
  /\ command \in Commands
  /\ status  \in {"start", "running"} \union Ended
  /\ disk    \in [Files -> AllSources]
  /\ program \in Sources["pi"]
  /\ finders \in Seq({"ithon", "path"})
  /\ path    \in Seq(Dirs)
  /\ modules \in [Modules -> {"absent", "initializing", "loaded"}]
  /\ stack   \in Seq(Frame)
  /\ receipt \in BOOLEAN
  /\ lines   \in Seq(Text)
  /\ ran     \subseteq [text : Text, pos : Nat]
  /\ edits   \in 0 .. MaxEdits

Init ==
  /\ command \in Commands
  /\ status = "start"
  /\ disk \in [Files -> AllSources]
  /\ \A f \in Files : disk[f] \in SourceOf(f.form)
  /\ program \in Sources["pi"]
  /\ finders = <<"path">>
  /\ path = SearchPath
  /\ modules = [m \in Modules |-> "absent"]
  /\ stack = << >>
  /\ receipt \in Receipts
  /\ lines = << >>
  /\ ran = {}
  /\ edits = 0

-----------------------------------------------------------------------------
(* Helpers *)

Top == Last(stack)
Enter(frame) == stack' = Append(stack, frame)
Update(frame) == stack' = Append(Front(stack), frame)

Foreign(file) == file # NULL /\ file.form = "py"

(* The whole-module check (Checker.check) and compile().                   *)
Accepted(source) == \A i \in DOMAIN source : source[i].op # "reject"
Compiles(source) == \A i \in DOMAIN source : source[i].op # "illegal"

FormsOf(finder) == IF finder = "ithon" THEN {"pi", "init"} ELSE {"py"}

(* Does the i-th directory of sys.path have the module for this finder?    *)
Has(i, finder, m) ==
  \E f \in Files : f.dir = path[i] /\ f.module = m /\ f.form \in FormsOf(finder)

Locates(finder, m) == \E i \in DOMAIN path : Has(i, finder, m)

(* find_spec: the file in the first directory that has one, leaf.pi before *)
(* leaf/__init__.pi.                                                       *)
Finds(finder, m, file) ==
  /\ file.module = m /\ file.form \in FormsOf(finder)
  /\ file.form = "init" => [file EXCEPT !.form = "pi"] \notin Files
  /\ \E i \in DOMAIN path :
       path[i] = file.dir /\ \A j \in 1 .. i - 1 : ~ Has(j, finder, m)

(* _find_spec: the first finder of sys.meta_path that has the module.      *)
Found(m, file) ==
  \E k \in DOMAIN finders :
    Finds(finders[k], m, file) /\ \A l \in 1 .. k - 1 : ~ Locates(finders[l], m)

Missing(m) == \A k \in DOMAIN finders : ~ Locates(finders[k], m)

(* Mutant: the finder goes behind the others.                              *)
InstalledLast ==
  IF \E i \in DOMAIN finders : finders[i] = "ithon" THEN finders ELSE Append(finders, "ithon")

(* _install_importer *)
Installed ==
  IF \E i \in DOMAIN finders : finders[i] = "ithon" THEN finders ELSE <<"ithon">> \o finders

-----------------------------------------------------------------------------
(* main *)

(* Without a program or with what is not an Ithon program, main exits.     *)
Refuse ==
  /\ status = "start"
  /\ command \in {"none", "option", "py"}
  /\ finders' = Installed
  /\ status' = "exit"
  /\ UNCHANGED <<command, disk, program, path, modules, stack, receipt, lines, ran, edits>>

(* _run_source of the text of -c or of the file main has read.             *)
Start ==
  /\ status = "start"
  /\ command \in {"-c", "pi"}
  /\ finders' = Installed
  /\ status' = "running"
  /\ Enter([module |-> NULL, file |-> NULL, source |-> program, step |-> "check", pos |-> 1])
  /\ UNCHANGED <<command, disk, program, path, modules, receipt, lines, ran, edits>>

-----------------------------------------------------------------------------
(* The stations of a load *)

(* The loads below the top that would catch what fails above them.         *)
Catches == {i \in 1 .. Len(stack) - 1 : stack[i].source[stack[i].pos].op = "try"}

(* Mutant: only the module that failed leaves sys.modules, not those that  *)
(* were importing it.                                                      *)
UnwoundTop(catcher) ==
  [m \in Modules |-> IF m = Top.module THEN "absent" ELSE modules[m]]

(* An exception takes every module out of sys.modules whose load it leaves *)
(* (_load_unlocked), those above the load that catches it.                 *)
Unwound(catcher) ==
  [m \in Modules |-> IF \E i \in catcher + 1 .. Len(stack) : stack[i].module = m
                     THEN "absent"
                     ELSE modules[m]]

Fail(how) ==
  /\ \/ /\ Catches = {}
        /\ modules' = Unwound(0)
        /\ stack' = << >>
        /\ status' = how
     \/ \E i \in Catches :
          /\ \A j \in Catches : j <= i
          /\ modules' = Unwound(i)
          /\ stack' = Append(SubSeq(stack, 1, i - 1), [stack[i] EXCEPT !.pos = @ + 1])
          /\ UNCHANGED status
  /\ UNCHANGED <<command, disk, program, finders, path, receipt, edits>>

Running(step) == status = "running" /\ stack # << >> /\ Top.step = step

(* get_data; nothing is cached, IthonSourceLoader has no path_stats.       *)
Read ==
  /\ Running("read")
  /\ Update([Top EXCEPT !.source = disk[Top.file],
                        !.step = IF Foreign(Top.file) THEN "compile" ELSE "check"])
  /\ UNCHANGED <<command, status, disk, program, finders, path, modules, receipt, lines,
                 ran, edits>>

(* Mutant: the receipt is written before the check is over.                *)
CheckRecordsFirst ==
  /\ Running("check")
  /\ lines' = IF receipt THEN Append(lines, [file |-> Top.file, source |-> Top.source]) ELSE lines
  /\ \/ /\ Accepted(Top.source)
        /\ Update([Top EXCEPT !.step = "compile"])
        /\ UNCHANGED <<command, status, disk, program, finders, path, modules, receipt, edits>>
     \/ /\ ~ Accepted(Top.source)
        /\ Fail("static")
  /\ UNCHANGED ran

(* check_source up to the receipt.                                         *)
Check ==
  /\ Running("check")
  /\ \/ /\ Accepted(Top.source)
        /\ Update([Top EXCEPT !.step = "record"])
        /\ UNCHANGED <<command, status, disk, program, finders, path, modules, receipt, edits>>
     \/ /\ ~ Accepted(Top.source)
        /\ Fail("static")
  /\ UNCHANGED <<lines, ran>>

(* The receipt: one line is appended, or the file cannot be written.       *)
Record ==
  /\ Running("record")
  /\ \/ /\ lines' = IF receipt
                    THEN Append(lines, [file |-> Top.file, source |-> Top.source])
                    ELSE lines
        /\ Update([Top EXCEPT !.step = "compile"])
        /\ UNCHANGED <<command, status, disk, program, finders, path, modules, receipt, edits>>
     \/ /\ receipt
        /\ Fail("error")
        /\ UNCHANGED lines
  /\ UNCHANGED ran

(* Mutant: the file is read again to be compiled.                          *)
CompileReadsAgain ==
  /\ Running("compile")
  /\ LET text == IF Top.file = NULL THEN Top.source ELSE disk[Top.file]
     IN  \/ /\ Compiles(text)
            /\ Update([Top EXCEPT !.step = "exec", !.source = text])
            /\ UNCHANGED <<command, status, disk, program, finders, path, modules, receipt, edits>>
         \/ /\ ~ Compiles(text)
            /\ Fail("error")
  /\ UNCHANGED <<lines, ran>>

(* compile() of the checked tree.  The program's directory becomes the     *)
(* first of sys.path unless it is the text of -c.                          *)
Compile ==
  /\ Running("compile")
  /\ \/ /\ Compiles(Top.source)
        /\ Update([Top EXCEPT !.step = "exec"])
        /\ path' = IF Top.module = NULL /\ command = "pi"
                   THEN [path EXCEPT ![1] = ProgramDir]
                   ELSE path
        /\ UNCHANGED <<command, status, disk, program, finders, modules, receipt, edits>>
     \/ /\ ~ Compiles(Top.source)
        /\ Fail("error")
  /\ UNCHANGED <<lines, ran>>

-----------------------------------------------------------------------------
(* exec *)

Statement == Top.source[Top.pos]

Executes(ops) ==
  /\ Running("exec")
  /\ Top.pos <= Len(Top.source)
  /\ Statement.op \in ops
  /\ ran' = ran \union {[text |-> [file |-> Top.file, source |-> Top.source], pos |-> Top.pos]}

Effect ==
  /\ Executes({"effect"})
  /\ Update([Top EXCEPT !.pos = @ + 1])
  /\ UNCHANGED <<command, status, disk, program, finders, path, modules, receipt, lines, edits>>

Raise ==
  /\ Executes({"raise"})
  /\ Fail("error")
  /\ UNCHANGED lines

Load(m, file) ==
  /\ Found(m, file)
  /\ modules' = [modules EXCEPT ![m] = "initializing"]
  /\ Enter([module |-> m, file |-> file, source |-> NULL, step |-> "read", pos |-> 1])
  /\ UNCHANGED <<command, status, disk, program, finders, path, receipt, edits>>

GoOn ==
  /\ Update([Top EXCEPT !.pos = @ + 1])
  /\ UNCHANGED <<command, status, disk, program, finders, path, modules, receipt, edits>>

(* Mutant: a module that is being initialised is loaded once more.         *)
ImportReloads ==
  /\ Executes({"import", "try"})
  /\ \/ modules[Statement.arg] = "loaded" /\ GoOn
     \/ /\ modules[Statement.arg] # "loaded" /\ Len(stack) < 5
        /\ \E file \in Files : Load(Statement.arg, file)
  /\ UNCHANGED lines

(* _find_and_load: a module that is in sys.modules, initialised or not, is *)
(* used as it is; another is found and loaded, and the import statement is *)
(* over when its module is.  With nothing found the import fails, and "try"*)
(* goes on with the next statement.                                        *)
Import ==
  /\ Executes({"import", "try"})
  /\ LET m == Statement.arg
     IN  \/ modules[m] # "absent" /\ GoOn
         \/ modules[m] = "absent" /\ \E file \in Files : Load(m, file)
         \/ modules[m] = "absent" /\ Missing(m) /\ Statement.op = "try" /\ GoOn
         \/ modules[m] = "absent" /\ Missing(m) /\ Statement.op = "import" /\ Fail("error")
  /\ UNCHANGED lines

(* The end of a module, or of the program.                                 *)
Finish ==
  /\ Running("exec")
  /\ Top.pos > Len(Top.source)
  /\ IF Top.module = NULL
     THEN /\ stack' = << >>
          /\ status' = "ok"
          /\ UNCHANGED modules
     ELSE /\ LET below == stack[Len(stack) - 1]
             IN  stack' = Append(SubSeq(stack, 1, Len(stack) - 2), [below EXCEPT !.pos = @ + 1])
          /\ modules' = [modules EXCEPT ![Top.module] = "loaded"]
          /\ UNCHANGED status
  /\ UNCHANGED <<command, disk, program, finders, path, receipt, lines, ran, edits>>

(* Somebody saves a file while the program runs.                           *)
Edit(f, source) ==
  /\ status = "running"
  /\ edits < MaxEdits
  /\ edits' = edits + 1
  /\ disk' = [disk EXCEPT ![f] = source]
  /\ UNCHANGED <<command, status, program, finders, path, modules, stack, receipt, lines, ran>>

Run == Refuse \/ Start \/ Read \/ Check \/ Record \/ Compile \/ Effect \/ Raise \/ Import \/ Finish

Next == Run \/ \E f \in Files : \E source \in SourceOf(f.form) : Edit(f, source)

Spec == Init /\ [][Next]_vars

(* The runner is one thread that never waits.                              *)
FairSpec == Spec /\ WF_vars(Run)

-----------------------------------------------------------------------------
(* Properties *)

(* No statement of an Ithon source runs before the whole of exactly this   *)
(* text has passed the check and compile() and, with ITHON_CHECK_RECEIPT,  *)
(* has its line in the receipt, whatever is imported, caught or edited     *)
(* meanwhile (README: an executable record of which source was checked).   *)
CheckedBeforeRun ==
  \A r \in ran : ~ Foreign(r.text.file) =>
    /\ Accepted(r.text.source) /\ Compiles(r.text.source)
    /\ receipt => \E i \in DOMAIN lines : lines[i] = r.text

(* A failed check writes no receipt, and foreign code none at all.         *)
ReceiptsHonest ==
  \A i \in DOMAIN lines : Accepted(lines[i].source) /\ ~ Foreign(lines[i].file)

(* Does an Ithon file for the module lie on the search path?               *)
Shadowed(m, search) ==
  \E f \in Files : f.module = m /\ f.form # "py" /\ \E i \in DOMAIN search : search[i] = f.dir

(* .pi means Ithon: foreign code runs under a name only if no directory of *)
(* sys.path, earlier or later, has that name as Ithon.                     *)
IthonFirst == \A r \in ran : Foreign(r.text.file) => ~ Shadowed(r.text.file.module, path)

(* The modules being initialised are those being loaded, each of them once:*)
(* circular imports do not run a module again, and no failure, caught or   *)
(* not, leaves a half-initialised module behind.                           *)
LoadsMatchModules ==
  /\ \A i, j \in DOMAIN stack : stack[i].module = stack[j].module => i = j
  /\ \A m \in Modules :
       modules[m] = "initializing" <=> \E i \in DOMAIN stack : stack[i].module = m

(* Every run ends, with circular imports and retried failures too.         *)
RunEnds == <>(status \in Ended)

-----------------------------------------------------------------------------
(* The inductive invariant behind the safety properties above.             *)

(* How far a load has come says what is known of its text.                 *)
FrameOK(f, search, log, wanted) ==
  /\ IF f.module = NULL THEN f.file = NULL ELSE f.file \in Files /\ f.file.module = f.module
  /\ IF f.step = "read" THEN f.module # NULL ELSE f.source \in AllSources
  /\ f.step \in {"check", "record"} => ~ Foreign(f.file)
  /\ f.step = "exec" => Compiles(f.source)
  /\ Foreign(f.file) => ~ Shadowed(f.module, search)
  /\ ~ Foreign(f.file) /\ f.step \in {"record", "compile", "exec"} => Accepted(f.source)
  /\ ~ Foreign(f.file) /\ f.step \in {"compile", "exec"} /\ wanted =>
       \E i \in DOMAIN log : log[i] = [file |-> f.file, source |-> f.source]

(* The program lies at the bottom, and only the innermost load is not yet  *)
(* executing; nothing runs before the program does, with sys.path final.   *)
StackOK ==
  /\ status = "running" <=> stack # << >>
  /\ \A i \in DOMAIN stack :
       /\ FrameOK(stack[i], path, lines, receipt)
       /\ i = 1 <=> stack[i].module = NULL
       /\ i < Len(stack) => stack[i].step = "exec"
  /\ status = "start" => ran = {}
  /\ stack # << >> /\ stack[1].step # "exec" => ran = {}
  /\ finders = IF status = "start" THEN <<"path">> ELSE <<"ithon", "path">>

Inv ==
  /\ TypeOK /\ StackOK
  /\ CheckedBeforeRun /\ ReceiptsHonest /\ IthonFirst /\ LoadsMatchModules
=============================================================================
