--------------------------- MODULE IthonRunProofs ---------------------------
(***************************************************************************)
(* The safety properties of IthonRun, for every set of modules, files and  *)
(* texts, every search path and any number of edits.                       *)
(***************************************************************************)
EXTENDS IthonRun, SequenceTheorems, TLAPS

(* A stack cut below its k-th frame, with a frame f put on top.            *)
LEMMA CutFacts ==
  ASSUME NEW S, NEW s \in Seq(S), NEW k \in 1 .. Len(s) + 1, NEW f \in S
  PROVE  LET r == Append(SubSeq(s, 1, k - 1), f)
         IN  r \in Seq(S) /\ Len(r) = k /\ r[k] = f /\ \A i \in 1 .. k - 1 : r[i] = s[i]
<1> DEFINE q == SubSeq(s, 1, k - 1)
           r == Append(q, f)
<1>1. q \in Seq(S) /\ Len(q) = k - 1 /\ \A i \in 1 .. k - 1 : q[i] = s[i]
  OBVIOUS
<1> HIDE DEF q
<1>2. r \in Seq(S) /\ Len(r) = k /\ r[k] = f /\ \A i \in 1 .. k - 1 : r[i] = q[i]
  BY <1>1
<1> QED
  BY <1>1, <1>2 DEF q

(* An update cuts the stack at its top.                                    *)
LEMMA UpdateCuts ==
  ASSUME stack \in Seq(Frame), stack # << >>, NEW f \in Frame, Update(f)
  PROVE  /\ Len(stack) \in 1 .. Len(stack) + 1
         /\ stack' = Append(SubSeq(stack, 1, Len(stack) - 1), f)
BY DEF Update, Front

(* A new load lies above all others.                                       *)
LEMMA EnterCuts ==
  ASSUME stack \in Seq(Frame), NEW f \in Frame, Enter(f)
  PROVE  /\ Len(stack) + 1 \in 1 .. Len(stack) + 1
         /\ stack' = Append(SubSeq(stack, 1, Len(stack) + 1 - 1), f)
<1>1. SubSeq(stack, 1, Len(stack)) = stack
  OBVIOUS
<1> QED
  BY <1>1 DEF Enter

(* What is known of a load stays known while the receipt only grows.       *)
LEMMA FrameStays ==
  ASSUME NEW f, NEW search, NEW log \in Seq(Text), NEW wanted, NEW x \in Text,
         FrameOK(f, search, log, wanted)
  PROVE  FrameOK(f, search, Append(log, x), wanted)
<1>1. \A i \in DOMAIN log : i \in DOMAIN Append(log, x) /\ Append(log, x)[i] = log[i]
  OBVIOUS
<1> QED
  BY <1>1 DEF FrameOK

(* Going on to the next statement changes nothing of it.                   *)
LEMMA NextStatement ==
  ASSUME NEW f \in Frame, NEW search, NEW log, NEW wanted, FrameOK(f, search, log, wanted)
  PROVE  LET g == [f EXCEPT !.pos = @ + 1]
         IN  /\ g \in Frame /\ FrameOK(g, search, log, wanted)
             /\ g.module = f.module /\ g.step = f.step
BY DEF Frame, FrameOK

(* The stack is in order again after a cut.                                *)
LEMMA CutStack ==
  ASSUME stack \in Seq(Frame), StackOK, NEW k \in 1 .. Len(stack) + 1, NEW g \in Frame,
         stack' = Append(SubSeq(stack, 1, k - 1), g),
         \A i \in 1 .. k - 1 :
           FrameOK(stack[i], path', lines', receipt') /\ stack[i].step = "exec",
         FrameOK(g, path', lines', receipt'), k = 1 <=> g.module = NULL,
         k = 1 /\ g.step # "exec" => ran' = {},
         status' = "running", finders' = <<"ithon", "path">>
  PROVE  stack' \in Seq(Frame) /\ StackOK'
<1> DEFINE r == stack'
<1>1. /\ r \in Seq(Frame) /\ Len(r) = k /\ r[k] = g
      /\ \A i \in 1 .. k - 1 : r[i] = stack[i]
  BY CutFacts
<1> HIDE DEF r
<1>2. r # << >> /\ DOMAIN r = 1 .. k /\ 1 \in 1 .. k /\ k \in Nat
  BY <1>1
<1>3. ASSUME NEW i \in DOMAIN r
      PROVE  /\ FrameOK(r[i], path', lines', receipt')
             /\ i = 1 <=> r[i].module = NULL
             /\ i < Len(r) => r[i].step = "exec"
  <2>1. CASE i = k
    BY <1>1, <1>2, <2>1
  <2>2. CASE i \in 1 .. k - 1
    <3>1. i \in DOMAIN stack /\ r[i] = stack[i]
      BY <1>1, <2>2
    <3>2. i = 1 <=> stack[i].module = NULL
      BY <3>1 DEF StackOK
    <3> QED
      BY <3>1, <3>2, <2>2, <1>1
  <2> QED
    BY <1>2, <2>1, <2>2
<1>4. r[1].step # "exec" => ran' = {}
  <2>1. CASE k = 1
    BY <1>1, <2>1
  <2>2. CASE k # 1
    BY <1>1, <1>2, <2>2
  <2> QED
    BY <2>1, <2>2
<1> QED
  BY <1>1, <1>2, <1>3, <1>4 DEF StackOK, r

(* The innermost load.                                                     *)
LEMMA TopFacts ==
  ASSUME TypeOK, StackOK, stack # << >>
  PROVE  /\ Len(stack) \in DOMAIN stack /\ Top = stack[Len(stack)] /\ Top \in Frame
         /\ FrameOK(Top, path, lines, receipt)
         /\ Len(stack) = 1 <=> Top.module = NULL
         /\ \A i \in 1 .. Len(stack) - 1 :
              i \in DOMAIN stack /\ stack[i].step = "exec" /\ FrameOK(stack[i], path, lines, receipt)
         /\ status = "running" /\ finders = <<"ithon", "path">>
<1>1. stack \in Seq(Frame) /\ Len(stack) \in DOMAIN stack /\ Top = stack[Len(stack)]
  BY DEF TypeOK, Top, Last
<1>2. status = "running" /\ finders = <<"ithon", "path">>
  BY DEF StackOK
<1>3. \A i \in 1 .. Len(stack) - 1 : i \in DOMAIN stack /\ i < Len(stack)
  BY <1>1
<1>4. \A i \in DOMAIN stack :
        /\ FrameOK(stack[i], path, lines, receipt)
        /\ i = 1 <=> stack[i].module = NULL
        /\ i < Len(stack) => stack[i].step = "exec"
  BY DEF StackOK
<1>5. FrameOK(Top, path, lines, receipt) /\ (Len(stack) = 1 <=> Top.module = NULL)
  BY <1>1, <1>4
<1>6. \A i \in 1 .. Len(stack) - 1 :
        i \in DOMAIN stack /\ stack[i].step = "exec" /\ FrameOK(stack[i], path, lines, receipt)
  BY <1>3, <1>4
<1>7. Top \in Frame
  BY <1>1
<1> QED
  BY <1>1, <1>2, <1>5, <1>6, <1>7

(* A step of the innermost load keeps the stack in order.                  *)
LEMMA UpdateStack ==
  ASSUME TypeOK, StackOK, stack # << >>, NEW g \in Frame, Update(g), g.module = Top.module,
         FrameOK(g, path', lines', receipt'),
         \A i \in 1 .. Len(stack) - 1 : FrameOK(stack[i], path', lines', receipt'),
         g.step # "exec" => Top.step # "exec" /\ ran' = ran,
         UNCHANGED <<status, finders>>
  PROVE  stack' \in Seq(Frame) /\ StackOK'
<1>1. stack \in Seq(Frame)
  BY DEF TypeOK
<1>2. /\ Len(stack) \in 1 .. Len(stack) + 1
      /\ stack' = Append(SubSeq(stack, 1, Len(stack) - 1), g)
  BY <1>1, UpdateCuts
<1>3. Len(stack) = 1 /\ g.step # "exec" => ran' = {}
  BY TopFacts DEF StackOK
<1>4. Len(stack) = 1 <=> g.module = NULL
  BY TopFacts
<1> QED
  BY <1>1, <1>2, <1>3, <1>4, TopFacts, CutStack

(* So does the beginning of a load,                                        *)
LEMMA EnterStack ==
  ASSUME TypeOK, StackOK, NEW g \in Frame, Enter(g),
         stack = << >> <=> g.module = NULL,
         stack # << >> => Top.step = "exec",
         FrameOK(g, path', lines', receipt'), UNCHANGED <<path, lines, receipt>>,
         stack = << >> => ran' = {},
         status' = "running", finders' = <<"ithon", "path">>
  PROVE  stack' \in Seq(Frame) /\ StackOK'
<1>1. stack \in Seq(Frame) /\ Len(stack) \in Nat
  BY DEF TypeOK
<1>2. /\ Len(stack) + 1 \in 1 .. Len(stack) + 1
      /\ stack' = Append(SubSeq(stack, 1, Len(stack) + 1 - 1), g)
  BY <1>1, EnterCuts
<1>3. Len(stack) + 1 = 1 <=> stack = << >>
  BY <1>1
<1>4. \A i \in 1 .. Len(stack) + 1 - 1 :
        FrameOK(stack[i], path', lines', receipt') /\ stack[i].step = "exec"
  <2>1. CASE stack = << >>
    BY <2>1
  <2>2. CASE stack # << >>
    <3>1. \A i \in 1 .. Len(stack) + 1 - 1 : i \in 1 .. Len(stack) - 1 \/ i = Len(stack)
      BY <1>1
    <3> QED
      BY <3>1, <2>2, TopFacts
  <2> QED
    BY <2>1, <2>2
<1> DEFINE k == Len(stack) + 1
<1>5. /\ k \in 1 .. Len(stack) + 1
      /\ stack' = Append(SubSeq(stack, 1, k - 1), g)
      /\ \A i \in 1 .. k - 1 :
           FrameOK(stack[i], path', lines', receipt') /\ stack[i].step = "exec"
      /\ k = 1 <=> g.module = NULL
      /\ k = 1 /\ g.step # "exec" => ran' = {}
  BY <1>2, <1>3, <1>4
<1> HIDE DEF k
<1> QED
  BY <1>1, <1>5, CutStack

(* the return to a load that waits for the ones above it,                  *)
LEMMA ResumeStack ==
  ASSUME TypeOK, StackOK, stack # << >>, NEW i \in 1 .. Len(stack) - 1,
         stack' = Append(SubSeq(stack, 1, i - 1), [stack[i] EXCEPT !.pos = @ + 1]),
         UNCHANGED <<path, lines, receipt, status, finders>>
  PROVE  stack' \in Seq(Frame) /\ StackOK'
<1> DEFINE g == [stack[i] EXCEPT !.pos = @ + 1]
<1>1. stack \in Seq(Frame)
  BY DEF TypeOK
<1>2. /\ i \in DOMAIN stack /\ stack[i] \in Frame /\ stack[i].step = "exec"
      /\ FrameOK(stack[i], path, lines, receipt)
  <2>1. i \in DOMAIN stack /\ stack[i].step = "exec" /\ FrameOK(stack[i], path, lines, receipt)
    BY TopFacts, ZenonT(30)
  <2> QED
    BY <1>1, <2>1
<1>3. /\ g \in Frame /\ FrameOK(g, path, lines, receipt)
      /\ g.module = stack[i].module /\ g.step = "exec"
  <2> DEFINE f == stack[i]
  <2>1. f \in Frame /\ f.step = "exec" /\ FrameOK(f, path, lines, receipt)
    BY <1>2
  <2> HIDE DEF f
  <2>2. LET h == [f EXCEPT !.pos = @ + 1]
        IN  /\ h \in Frame /\ FrameOK(h, path, lines, receipt)
            /\ h.module = f.module /\ h.step = f.step
    BY <2>1, NextStatement
  <2> QED
    BY <2>1, <2>2 DEF f
<1>4. stack' = Append(SubSeq(stack, 1, i - 1), g)
  OBVIOUS
<1> HIDE DEF g
<1>5. i = 1 <=> g.module = NULL
  BY <1>2, <1>3 DEF StackOK
<1>6. \A j \in 1 .. i - 1 : j \in 1 .. Len(stack) - 1
  BY <1>1
<1>7. \A j \in 1 .. i - 1 :
        FrameOK(stack[j], path', lines', receipt') /\ stack[j].step = "exec"
  BY <1>6, TopFacts
<1>8. i \in 1 .. Len(stack) + 1
  BY <1>1
<1>9. status' = "running" /\ finders' = <<"ithon", "path">>
  BY TopFacts
<1> QED
  BY <1>1, <1>3, <1>4, <1>5, <1>7, <1>8, <1>9, CutStack

(* and an exception, whether caught or not.                                *)
LEMMA FailStack ==
  ASSUME TypeOK, StackOK, stack # << >>, NEW how \in Ended, Fail(how), lines' = lines
  PROVE  stack' \in Seq(Frame) /\ StackOK'
<1>1. UNCHANGED <<path, lines, receipt, finders>>
  BY DEF Fail
<1>2. CASE stack' = << >> /\ status' = how
  <2>1. finders' = <<"ithon", "path">> /\ how \notin {"start", "running"}
    BY <1>1, TopFacts DEF Ended
  <2> QED
    BY <1>2, <2>1 DEF StackOK
<1>3. CASE \E i \in Catches :
             /\ stack' = Append(SubSeq(stack, 1, i - 1), [stack[i] EXCEPT !.pos = @ + 1])
             /\ UNCHANGED status
  <2>1. PICK i \in 1 .. Len(stack) - 1 :
          /\ stack' = Append(SubSeq(stack, 1, i - 1), [stack[i] EXCEPT !.pos = @ + 1])
          /\ UNCHANGED status
    BY <1>3 DEF Catches
  <2> QED
    BY <1>1, <2>1, ResumeStack
<1> QED
  BY <1>2, <1>3 DEF Fail

-----------------------------------------------------------------------------
(* The stack in every step *)

(* What the runner's steps at one station have in common.                  *)
LEMMA StationFacts ==
  ASSUME Inv, NEW step \in Steps, Running(step)
  PROVE  /\ TypeOK /\ StackOK /\ stack # << >>
         /\ Top \in Frame /\ Top.step = step /\ FrameOK(Top, path, lines, receipt)
         /\ \A i \in 1 .. Len(stack) - 1 : FrameOK(stack[i], path, lines, receipt)
BY TopFacts DEF Inv, Running

(* The finder is installed in front of the others.                         *)
LEMMA InstalledFirst ==
  ASSUME Inv, status = "start"
  PROVE  Installed = <<"ithon", "path">>
<1>1. finders = <<"path">>
  BY DEF Inv, StackOK
<1>2. Installed = <<"ithon">> \o <<"path">>
  BY <1>1 DEF Installed
<1> DEFINE S == {"ithon", "path"}
<1>3. <<"ithon">> \in Seq(S) /\ <<"path">> \in Seq(S)
  OBVIOUS
<1>4. <<"ithon">> \o <<"path">> \in Seq(S) /\ <<"ithon", "path">> \in Seq(S)
  BY <1>3
<1>5. /\ Len(<<"ithon">> \o <<"path">>) = 2
      /\ \A i \in 1 .. 2 : (<<"ithon">> \o <<"path">>)[i] = <<"ithon", "path">>[i]
  BY <1>3
<1> QED
  BY <1>2, <1>4, <1>5, SeqEqual

(* Refusing starts no load.                                                *)
LEMMA RefuseStack ==
  ASSUME Inv, Refuse
  PROVE  stack' \in Seq(Frame) /\ StackOK'
<1>1. stack = << >> /\ stack \in Seq(Frame)
  BY DEF Inv, TypeOK, StackOK, Refuse
<1>2. finders' = <<"ithon", "path">>
  BY InstalledFirst DEF Refuse
<1> QED
  BY <1>1, <1>2 DEF Refuse, StackOK

(* The program is the first load; nothing has run.                         *)
LEMMA StartStack ==
  ASSUME Inv, Start
  PROVE  stack' \in Seq(Frame) /\ StackOK'
<1> DEFINE g == [module |-> NULL, file |-> NULL, source |-> program, step |-> "check", pos |-> 1]
<1>1. /\ TypeOK /\ StackOK /\ stack = << >> /\ ran' = {} /\ status' = "running"
      /\ UNCHANGED <<path, lines, receipt>>
  BY DEF Inv, StackOK, Start
<1>2. finders' = <<"ithon", "path">>
  BY InstalledFirst DEF Start
<1>3. program \in AllSources
  BY DEF Inv, TypeOK, AllSources
<1>4. g \in Frame /\ g.module = NULL /\ FrameOK(g, path', lines', receipt')
  BY <1>3 DEF Frame, Steps, FrameOK, Foreign
<1>5. Enter(g)
  BY DEF Start
<1> HIDE DEF g
<1> QED
  BY <1>1, <1>2, <1>4, <1>5, EnterStack

(* A text that was read goes to the check, or to compile() if it is foreign. *)
LEMMA ReadStack ==
  ASSUME Inv, Read
  PROVE  stack' \in Seq(Frame) /\ StackOK'
<1> DEFINE next == IF Foreign(Top.file) THEN "compile" ELSE "check"
           g == [Top EXCEPT !.source = disk[Top.file], !.step = next]
<1>1. /\ Running("read") /\ Update(g)
      /\ UNCHANGED <<path, lines, receipt, status, finders, ran>>
  BY DEF Read
<1>2. /\ TypeOK /\ StackOK /\ stack # << >>
      /\ Top \in Frame /\ Top.step = "read" /\ FrameOK(Top, path, lines, receipt)
      /\ \A i \in 1 .. Len(stack) - 1 : FrameOK(stack[i], path, lines, receipt)
  BY <1>1, StationFacts DEF Steps
<1>3. Top.file \in Files /\ Top.file.module = Top.module /\ Top.module # NULL
  BY <1>2 DEF FrameOK
<1>4. disk[Top.file] \in AllSources
  BY <1>2, <1>3 DEF TypeOK
<1>5. next \in Steps /\ (next = "compile" <=> Foreign(Top.file)) /\ next \in {"check", "compile"}
  BY DEF Steps
<1> HIDE DEF next
<1>6. g \in Frame /\ g.module = Top.module /\ g.file = Top.file /\ g.step = next /\ g.source = disk[Top.file]
  BY <1>2, <1>4, <1>5 DEF Frame
<1> HIDE DEF g
<1>7. FrameOK(g, path, lines, receipt)
  BY <1>2, <1>3, <1>4, <1>5, <1>6 DEF FrameOK
<1> QED
  BY <1>1, <1>2, <1>6, <1>7, UpdateStack

(* Only an accepted text goes on; another fails its load.                  *)
LEMMA CheckStack ==
  ASSUME Inv, Check
  PROVE  stack' \in Seq(Frame) /\ StackOK'
<1>1. Running("check") /\ UNCHANGED <<lines, ran>>
  BY DEF Check
<1>2. /\ TypeOK /\ StackOK /\ stack # << >>
      /\ Top \in Frame /\ Top.step = "check" /\ FrameOK(Top, path, lines, receipt)
      /\ \A i \in 1 .. Len(stack) - 1 : FrameOK(stack[i], path, lines, receipt)
  BY <1>1, StationFacts DEF Steps
<1>3. CASE Fail("static")
  BY <1>1, <1>2, <1>3, FailStack DEF Ended
<1>4. CASE /\ Accepted(Top.source)
           /\ Update([Top EXCEPT !.step = "record"])
           /\ UNCHANGED <<path, receipt, status, finders>>
  <2> DEFINE g == [Top EXCEPT !.step = "record"]
  <2>1. /\ g \in Frame /\ g.module = Top.module /\ g.step = "record"
        /\ FrameOK(g, path, lines, receipt)
    BY <1>2, <1>4 DEF Frame, Steps, FrameOK
  <2>2. Update(g)
    BY <1>4
  <2> HIDE DEF g
  <2> QED
    BY <1>1, <1>2, <1>4, <2>1, <2>2, UpdateStack
<1> QED
  BY <1>3, <1>4 DEF Check

(* The text is in the receipt before its load goes on.                     *)
LEMMA RecordStack ==
  ASSUME Inv, Record
  PROVE  stack' \in Seq(Frame) /\ StackOK'
<1> DEFINE x == [file |-> Top.file, source |-> Top.source]
<1>1. Running("record") /\ ran' = ran
  BY DEF Record
<1>2. /\ TypeOK /\ StackOK /\ stack # << >>
      /\ Top \in Frame /\ Top.step = "record" /\ FrameOK(Top, path, lines, receipt)
      /\ \A i \in 1 .. Len(stack) - 1 : FrameOK(stack[i], path, lines, receipt)
  BY <1>1, StationFacts DEF Steps
<1>3. CASE Fail("error") /\ UNCHANGED lines
  BY <1>2, <1>3, FailStack DEF Ended
<1>4. CASE /\ lines' = IF receipt THEN Append(lines, x) ELSE lines
           /\ Update([Top EXCEPT !.step = "compile"])
           /\ UNCHANGED <<path, receipt, status, finders>>
  <2> DEFINE g == [Top EXCEPT !.step = "compile"]
  <2>1. g \in Frame /\ g.module = Top.module /\ g.step = "compile" /\ g.file = Top.file /\ g.source = Top.source
    BY <1>2 DEF Frame, Steps
  <2>2. Update(g)
    BY <1>4
  <2>3. x \in Text /\ lines \in Seq(Text)
    BY <1>2 DEF FrameOK, Frame, Text, TypeOK
  <2>4. \A f : FrameOK(f, path, lines, receipt) => FrameOK(f, path', lines', receipt')
    BY <1>4, <2>3, FrameStays
  <2>5. receipt => \E i \in DOMAIN lines' : lines'[i] = x
    <3>1. DOMAIN Append(lines, x) = 1 .. Len(lines) + 1 /\ Append(lines, x)[Len(lines) + 1] = x /\ Len(lines) \in Nat
      BY <2>3
    <3> QED
      BY <3>1, <1>4
  <2>6. FrameOK(Top, path', lines', receipt')
    BY <1>2, <2>4
  <2> HIDE DEF g
  <2>7. FrameOK(g, path', lines', receipt')
    BY <1>2, <1>4, <2>1, <2>5, <2>6 DEF FrameOK
  <2> QED
    BY <1>1, <1>2, <1>4, <2>1, <2>2, <2>4, <2>7, UpdateStack
<1> QED
  BY <1>3, <1>4 DEF Record

(* sys.path changes only when no module has been loaded yet.               *)
LEMMA CompileStack ==
  ASSUME Inv, Compile
  PROVE  stack' \in Seq(Frame) /\ StackOK'
<1>1. Running("compile") /\ UNCHANGED <<lines, ran>>
  BY DEF Compile
<1>2. /\ TypeOK /\ StackOK /\ stack # << >>
      /\ Top \in Frame /\ Top.step = "compile" /\ FrameOK(Top, path, lines, receipt)
      /\ \A i \in 1 .. Len(stack) - 1 : FrameOK(stack[i], path, lines, receipt)
  BY <1>1, StationFacts DEF Steps
<1>3. CASE Fail("error")
  BY <1>1, <1>2, <1>3, FailStack DEF Ended
<1>4. CASE /\ Compiles(Top.source)
           /\ Update([Top EXCEPT !.step = "exec"])
           /\ path' = IF Top.module = NULL /\ command = "pi"
                      THEN [path EXCEPT ![1] = ProgramDir]
                      ELSE path
           /\ UNCHANGED <<receipt, status, finders>>
  <2> DEFINE g == [Top EXCEPT !.step = "exec"]
  <2>1. /\ g \in Frame /\ g.module = Top.module /\ g.step = "exec"
        /\ FrameOK(g, path, lines, receipt)
    BY <1>2, <1>4 DEF Frame, Steps, FrameOK
  <2>2. Update(g)
    BY <1>4
  <2> HIDE DEF g
  <2>3. CASE path' = path
    BY <1>1, <1>2, <1>4, <2>1, <2>2, <2>3, UpdateStack
  <2>4. CASE Top.module = NULL
    <3>1. Len(stack) = 1
      BY <1>2, <2>4, TopFacts
    <3>2. 1 .. Len(stack) - 1 = {}
      BY <3>1
    <3>3. FrameOK(g, path', lines', receipt')
      BY <1>1, <1>4, <2>1, <2>4 DEF FrameOK, Foreign
    <3> QED
      BY <1>1, <1>2, <1>4, <2>1, <2>2, <3>2, <3>3, UpdateStack
  <2> QED
    BY <1>4, <2>3, <2>4
<1> QED
  BY <1>3, <1>4 DEF Compile

(* The next statement of the innermost load.                               *)
LEMMA AdvanceStack ==
  ASSUME Inv, Running("exec"), Update([Top EXCEPT !.pos = @ + 1]),
         UNCHANGED <<path, lines, receipt, status, finders>>
  PROVE  stack' \in Seq(Frame) /\ StackOK'
<1>1. /\ TypeOK /\ StackOK /\ stack # << >>
      /\ Top \in Frame /\ Top.step = "exec" /\ FrameOK(Top, path, lines, receipt)
      /\ \A i \in 1 .. Len(stack) - 1 : FrameOK(stack[i], path, lines, receipt)
  BY StationFacts DEF Steps
<1> DEFINE g == [Top EXCEPT !.pos = @ + 1]
<1>2. /\ g \in Frame /\ g.module = Top.module /\ g.step = "exec"
      /\ FrameOK(g, path, lines, receipt)
  BY <1>1, NextStatement
<1>3. Update(g)
  OBVIOUS
<1> HIDE DEF g
<1> QED
  BY <1>1, <1>2, <1>3, UpdateStack

(* A Python file is found only where no directory has the name as Ithon.   *)
LEMMA FoundFacts ==
  ASSUME finders = <<"ithon", "path">>, NEW m, NEW file \in Files, Found(m, file)
  PROVE  m \in Modules /\ file.module = m /\ (Foreign(file) => ~ Shadowed(m, path))
<1>1. PICK k \in DOMAIN finders :
        Finds(finders[k], m, file) /\ \A l \in 1 .. k - 1 : ~ Locates(finders[l], m)
  BY DEF Found
<1>2. k \in 1 .. 2 /\ finders[1] = "ithon" /\ finders[2] = "path"
  BY <1>1
<1>3. file.module = m /\ file.form \in FormsOf(finders[k])
  BY <1>1 DEF Finds
<1>4. m \in Modules
  BY <1>3, IthonRunAssumption
<1>5. ASSUME Foreign(file), Shadowed(m, path)
      PROVE  FALSE
  <2>1. k = 2
    BY <1>2, <1>3, <1>5 DEF FormsOf, Foreign
  <2>2. ~ Locates("ithon", m)
    BY <1>1, <1>2, <2>1
  <2>3. PICK f \in Files : f.module = m /\ f.form # "py" /\ \E i \in DOMAIN path : path[i] = f.dir
    BY <1>5 DEF Shadowed
  <2>4. f.form \in FormsOf("ithon")
    BY <2>3, IthonRunAssumption DEF Forms, FormsOf
  <2> QED
    BY <2>2, <2>3, <2>4 DEF Locates, Has
<1> QED
  BY <1>3, <1>4, <1>5

(* A load starts with a file that was found for its module.                *)
LEMMA LoadStack ==
  ASSUME Inv, Running("exec"), NEW m, NEW file \in Files, Load(m, file), UNCHANGED lines
  PROVE  stack' \in Seq(Frame) /\ StackOK'
<1>1. /\ TypeOK /\ StackOK /\ stack # << >> /\ Top.step = "exec"
  BY StationFacts DEF Steps
<1>2. status = "running" /\ finders = <<"ithon", "path">>
  BY <1>1, TopFacts
<1>3. UNCHANGED <<path, lines, receipt, status, finders>> /\ Found(m, file)
  BY DEF Load
<1> DEFINE g == [module |-> m, file |-> file, source |-> NULL, step |-> "read", pos |-> 1]
<1>4. m \in Modules /\ file.module = m /\ (Foreign(file) => ~ Shadowed(m, path)) /\ m # NULL
  BY <1>2, <1>3, FoundFacts, IthonRunAssumption
<1>5. g \in Frame /\ g.module = m /\ FrameOK(g, path, lines, receipt)
  BY <1>4 DEF Frame, Steps, FrameOK
<1>6. Enter(g)
  BY DEF Load
<1> HIDE DEF g
<1> QED
  BY <1>1, <1>2, <1>3, <1>4, <1>5, <1>6, EnterStack

(* An import goes on, loads a module or fails.                             *)
LEMMA ImportStack ==
  ASSUME Inv, Import
  PROVE  stack' \in Seq(Frame) /\ StackOK'
<1>1. Running("exec") /\ UNCHANGED lines
  BY DEF Import, Executes
<1>2. TypeOK /\ StackOK /\ stack # << >>
  BY <1>1, StationFacts DEF Steps
<1>3. CASE GoOn
  BY <1>1, <1>3, AdvanceStack DEF GoOn
<1>4. CASE \E file \in Files : Load(Statement.arg, file)
  BY <1>1, <1>4, LoadStack
<1>5. CASE Fail("error")
  BY <1>1, <1>2, <1>5, FailStack DEF Ended
<1> QED
  BY <1>3, <1>4, <1>5 DEF Import

(* A module returns to the load that imports it.                           *)
LEMMA FinishStack ==
  ASSUME Inv, Finish
  PROVE  stack' \in Seq(Frame) /\ StackOK'
<1>1. Running("exec") /\ UNCHANGED <<path, lines, receipt, finders, ran>>
  BY DEF Finish
<1>2. TypeOK /\ StackOK /\ stack # << >> /\ stack \in Seq(Frame)
  BY <1>1, StationFacts DEF Steps, TypeOK
<1>3. CASE stack' = << >> /\ status' = "ok"
  <2>1. finders' = <<"ithon", "path">>
    BY <1>1, <1>2, TopFacts
  <2> QED
    BY <1>3, <2>1 DEF StackOK
<1>4. CASE /\ Top.module # NULL
           /\ stack' = Append(SubSeq(stack, 1, Len(stack) - 2),
                              [stack[Len(stack) - 1] EXCEPT !.pos = @ + 1])
           /\ UNCHANGED status
  <2> DEFINE i == Len(stack) - 1
  <2>a. Len(stack) # 1 /\ Len(stack) \in Nat /\ Len(stack) # 0
    BY <1>2, <1>4, TopFacts
  <2>1. i \in 1 .. Len(stack) - 1 /\ i - 1 = Len(stack) - 2
    BY <2>a
  <2>2. stack' = Append(SubSeq(stack, 1, i - 1), [stack[i] EXCEPT !.pos = @ + 1])
    BY <1>4, <2>1
  <2> HIDE DEF i
  <2> QED
    BY <1>1, <1>2, <1>4, <2>1, <2>2, ResumeStack
<1> QED
  BY <1>3, <1>4 DEF Finish

(* The stack stays in order.                                               *)
LEMMA StepStack ==
  ASSUME Inv, [Next]_vars
  PROVE  stack' \in Seq(Frame) /\ StackOK'
<1>1. CASE Effect
  BY <1>1, AdvanceStack DEF Effect, Executes
<1>2. CASE Raise
  BY <1>2, FailStack, StationFacts DEF Raise, Executes, Steps, Ended
<1>3. CASE \/ vars' = vars
           \/ \E f \in Files : \E source \in SourceOf(f.form) : Edit(f, source)
  BY <1>3 DEF Inv, TypeOK, StackOK, vars, Edit
<1> QED
  BY <1>1, <1>2, <1>3, RefuseStack, StartStack, ReadStack, CheckStack, RecordStack,
     CompileStack, ImportStack, FinishStack DEF Next, Run

-----------------------------------------------------------------------------
(* The other variables *)

(* What the steps of a running program change besides the stack.           *)
LEMMA UnwoundTypes ==
  ASSUME TypeOK, NEW how \in Ended, Fail(how)
  PROVE  /\ modules' \in [Modules -> {"absent", "initializing", "loaded"}]
         /\ status' \in {"start", "running"} \union Ended
         /\ UNCHANGED <<command, disk, program, finders, path, receipt, edits>>
BY DEF TypeOK, Fail, Unwound

(* A statement that runs is one of a text under its file's name.           *)
LEMMA RanTypes ==
  ASSUME Inv, NEW ops, Executes(ops)
  PROVE  ran' \subseteq [text : Text, pos : Nat]
<1>1. Top \in Frame /\ Top.source \in AllSources
  BY StationFacts DEF Executes, Steps, FrameOK
<1>2. [text |-> [file |-> Top.file, source |-> Top.source], pos |-> Top.pos]
        \in [text : Text, pos : Nat]
  BY <1>1 DEF Frame, Text
<1> QED
  BY <1>2 DEF Inv, TypeOK, Executes

(* The receipt grows by a text that was checked.                           *)
LEMMA LineTypes ==
  ASSUME Inv, Running("record")
  PROVE  /\ [file |-> Top.file, source |-> Top.source] \in Text
         /\ Accepted(Top.source) /\ ~ Foreign(Top.file) /\ lines \in Seq(Text)
<1>1. /\ Top \in Frame /\ Top.step = "record" /\ FrameOK(Top, path, lines, receipt)
      /\ Top.source \in AllSources
  BY StationFacts DEF Steps, FrameOK
<1> QED
  BY <1>1 DEF FrameOK, Frame, Text, Inv, TypeOK

(* Every variable keeps its type.                                          *)
LEMMA StepType ==
  ASSUME Inv, [Next]_vars
  PROVE  TypeOK'
<1> USE DEF TypeOK
<1>0. TypeOK /\ stack' \in Seq(Frame)
  BY StepStack DEF Inv
<1>a. status = "start" => Installed \in Seq({"ithon", "path"})
  <2>1. <<"ithon", "path">> \in Seq({"ithon", "path"})
    OBVIOUS
  <2> QED
    BY <2>1, InstalledFirst, <1>0
<1>1. CASE Refuse
  BY <1>0, <1>1, <1>a DEF Refuse, Ended
<1>2. CASE Start
  BY <1>0, <1>2, <1>a DEF Start
<1>3. CASE Read
  BY <1>0, <1>3 DEF Read
<1>4. CASE Check
  BY <1>0, <1>4, UnwoundTypes DEF Check, Ended
<1>5. CASE Record
  <2>1. lines' \in Seq(Text)
    BY <1>5, LineTypes DEF Record
  <2> QED
    BY <1>0, <1>5, <2>1, UnwoundTypes DEF Record, Ended
<1>6. CASE Compile
  <2>1. path' \in Seq(Dirs)
    <3>1. [path EXCEPT ![1] = ProgramDir] \in Seq(Dirs)
      <4>1. path \in Seq(Dirs) /\ ProgramDir \in Dirs
        BY <1>0, IthonRunAssumption
      <4>2. PICK n \in Nat : path \in [1 .. n -> Dirs]
        BY <4>1, SeqDef
      <4>3. [path EXCEPT ![1] = ProgramDir] \in [1 .. n -> Dirs]
        BY <4>1, <4>2
      <4> QED
        BY <4>3, SeqDef
    <3> QED
      BY <1>0, <1>6, <3>1 DEF Compile, Fail
  <2>2. CASE Fail("error") /\ UNCHANGED <<lines, ran>>
    BY <1>0, <2>2, UnwoundTypes DEF Ended
  <2>3. CASE UNCHANGED <<command, status, disk, program, finders, modules, receipt, edits, lines, ran>>
    BY <1>0, <2>1, <2>3
  <2> QED
    BY <1>6, <2>2, <2>3 DEF Compile
<1>7. CASE Effect
  BY <1>0, <1>7, RanTypes DEF Effect
<1>8. CASE Raise
  BY <1>0, <1>8, RanTypes, UnwoundTypes DEF Raise, Ended
<1>9. CASE Import
  <2>1. ran' \subseteq [text : Text, pos : Nat] /\ UNCHANGED lines
    BY <1>9, RanTypes DEF Import
  <2>2. CASE GoOn
    BY <1>0, <2>1, <2>2 DEF GoOn
  <2>3. CASE \E file \in Files : Load(Statement.arg, file)
    BY <1>0, <2>1, <2>3 DEF Load
  <2>4. CASE Fail("error")
    BY <1>0, <2>1, <2>4, UnwoundTypes DEF Ended
  <2> QED
    BY <1>9, <2>2, <2>3, <2>4 DEF Import
<1>10. CASE Finish
  BY <1>0, <1>10 DEF Finish, Ended
<1>11. ASSUME NEW f \in Files, NEW source \in SourceOf(f.form), Edit(f, source)
       PROVE  TypeOK'
  <2>1. source \in AllSources
    BY <1>11 DEF SourceOf, AllSources
  <2>2. edits' \in 0 .. MaxEdits
    BY <1>0, <1>11, IthonRunAssumption DEF Edit
  <2> QED
    BY <1>0, <1>11, <2>1, <2>2 DEF Edit
<1>12. CASE UNCHANGED vars
  BY <1>0, <1>12 DEF vars
<1> QED
  BY <1>1, <1>2, <1>3, <1>4, <1>5, <1>6, <1>7, <1>8, <1>9, <1>10, <1>11, <1>12 DEF Next, Run

(* The steps that run no statement and leave the receipt as it is.         *)
LEMMA QuietSteps ==
  ASSUME Inv, [Next]_vars
  PROVE  \/ Record /\ Running("record") /\ UNCHANGED <<ran, path>>
         \/ (\E ops : Executes(ops)) /\ UNCHANGED <<lines, path>>
         \/ UNCHANGED <<ran, lines, path>>
         \/ Compile /\ UNCHANGED <<ran, lines>> /\ ran = {}
<1>1. CASE Record
  BY <1>1 DEF Record, Fail
<1>2. CASE Effect \/ Raise \/ Import
  BY <1>2 DEF Effect, Raise, Import, GoOn, Load, Fail
<1>3. CASE Compile
  <2>1. UNCHANGED <<ran, lines>> /\ Running("compile")
    BY <1>3 DEF Compile
  <2>2. CASE path' = path
    BY <2>1, <2>2
  <2>3. CASE path' # path
    <3>1. Top.module = NULL
      BY <1>3, <2>3 DEF Compile, Fail
    <3>2. TypeOK /\ StackOK /\ stack # << >> /\ Top.step = "compile"
      BY <2>1, StationFacts DEF Steps
    <3>3. stack[1].step = "compile"
      BY <3>1, <3>2, TopFacts
    <3> QED
      BY <1>3, <2>1, <3>2, <3>3 DEF StackOK
  <2> QED
    BY <2>2, <2>3
<1>4. CASE Refuse \/ Start \/ Read \/ Check \/ Finish
  BY <1>4 DEF Refuse, Start, Read, Check, Finish, Fail
<1>5. CASE \/ vars' = vars
           \/ \E f \in Files : \E source \in SourceOf(f.form) : Edit(f, source)
  BY <1>5 DEF vars, Edit
<1> QED
  BY <1>1, <1>2, <1>3, <1>4, <1>5 DEF Next, Run

(* ITHON_CHECK_RECEIPT is read but never set.                              *)
LEMMA ReceiptStays ==
  ASSUME [Next]_vars
  PROVE  receipt' = receipt
BY DEF Next, Run, vars, Refuse, Start, Read, Check, Record, Compile, Effect, Raise, Import,
       GoOn, Load, Finish, Edit, Fail

(* A statement runs with its whole text checked, compiled and recorded.    *)
LEMMA StepChecked ==
  ASSUME Inv, [Next]_vars
  PROVE  CheckedBeforeRun'
<1>1. CheckedBeforeRun /\ lines \in Seq(Text) /\ receipt' = receipt
  BY ReceiptStays DEF Inv, TypeOK
<1>2. CASE Record /\ Running("record") /\ ran' = ran
  <2>1. [file |-> Top.file, source |-> Top.source] \in Text
    BY <1>2, LineTypes
  <2>2. \A i \in DOMAIN lines : i \in DOMAIN lines' /\ lines'[i] = lines[i]
    BY <1>1, <1>2, <2>1 DEF Record
  <2> QED
    BY <1>1, <1>2, <2>2 DEF CheckedBeforeRun
<1>3. CASE (\E ops : Executes(ops)) /\ UNCHANGED lines
  <2>1. /\ FrameOK(Top, path, lines, receipt) /\ Top.step = "exec"
        /\ ran' = ran \union
             {[text |-> [file |-> Top.file, source |-> Top.source], pos |-> Top.pos]}
    BY <1>3, StationFacts DEF Executes, Steps
  <2>2. ~ Foreign(Top.file) =>
          /\ Accepted(Top.source) /\ Compiles(Top.source)
          /\ receipt => \E i \in DOMAIN lines :
                          lines[i] = [file |-> Top.file, source |-> Top.source]
    BY <2>1 DEF FrameOK
  <2> QED
    BY <1>1, <1>3, <2>1, <2>2 DEF CheckedBeforeRun
<1>4. CASE UNCHANGED <<ran, lines>>
  BY <1>1, <1>4 DEF CheckedBeforeRun
<1> QED
  BY <1>2, <1>3, <1>4, QuietSteps

(* Only checked texts of Ithon enter the receipt.                          *)
LEMMA StepReceipts ==
  ASSUME Inv, [Next]_vars
  PROVE  ReceiptsHonest'
<1>1. ReceiptsHonest /\ lines \in Seq(Text)
  BY DEF Inv, TypeOK
<1>2. CASE Record /\ Running("record") /\ lines' # lines
  <2> DEFINE x == [file |-> Top.file, source |-> Top.source]
  <2>1. x \in Text /\ Accepted(x.source) /\ ~ Foreign(x.file)
    BY <1>2, LineTypes
  <2>2. lines' = Append(lines, x)
    BY <1>2 DEF Record
  <2> HIDE DEF x
  <2>3. ASSUME NEW i \in DOMAIN lines'
        PROVE  (i \in DOMAIN lines /\ lines'[i] = lines[i]) \/ lines'[i] = x
    BY <1>1, <2>1, <2>2
  <2> QED
    BY <1>1, <2>1, <2>3 DEF ReceiptsHonest
<1>3. CASE UNCHANGED lines
  BY <1>1, <1>3 DEF ReceiptsHonest
<1> QED
  BY <1>2, <1>3, QuietSteps

(* A Python file runs only under a name that no directory has as Ithon:    *)
(* its load was found so, and sys.path is final before anything runs.      *)
LEMMA StepFirst ==
  ASSUME Inv, [Next]_vars
  PROVE  IthonFirst'
<1>1. IthonFirst
  BY DEF Inv
<1>2. CASE (\E ops : Executes(ops)) /\ UNCHANGED path
  <2>1. /\ FrameOK(Top, path, lines, receipt)
        /\ ran' = ran \union
             {[text |-> [file |-> Top.file, source |-> Top.source], pos |-> Top.pos]}
    BY <1>2, StationFacts DEF Executes, Steps
  <2>2. Foreign(Top.file) => ~ Shadowed(Top.file.module, path)
    BY <2>1 DEF FrameOK, Foreign
  <2> QED
    BY <1>1, <1>2, <2>1, <2>2 DEF IthonFirst
<1>3. CASE UNCHANGED <<ran, path>>
  BY <1>1, <1>3 DEF IthonFirst
<1>4. CASE ran' = ran /\ ran = {}
  BY <1>4 DEF IthonFirst
<1> QED
  BY <1>2, <1>3, <1>4, QuietSteps

-----------------------------------------------------------------------------
(* sys.modules and the stack *)

(* They still match after a cut when the new top is not below it and the   *)
(* modules being initialised are those that stay.                          *)
LEMMA CutLoads ==
  ASSUME stack \in Seq(Frame), LoadsMatchModules, NEW k \in 1 .. Len(stack) + 1, NEW g \in Frame,
         stack' = Append(SubSeq(stack, 1, k - 1), g),
         \A i \in 1 .. k - 1 : stack[i].module # g.module,
         \A m \in Modules :
           modules'[m] = "initializing" <=>
             m = g.module \/ \E i \in 1 .. k - 1 : stack[i].module = m
  PROVE  LoadsMatchModules'
<1> DEFINE r == stack'
<1>1. /\ r \in Seq(Frame) /\ Len(r) = k /\ r[k] = g
      /\ \A i \in 1 .. k - 1 : r[i] = stack[i]
  BY CutFacts
<1> HIDE DEF r
<1>2. DOMAIN r = 1 .. k /\ k \in 1 .. k /\ \A i \in 1 .. k : i = k \/ i \in 1 .. k - 1
  BY <1>1
<1>3. \A i \in 1 .. k - 1 : i \in DOMAIN stack /\ i \in 1 .. k
  OBVIOUS
<1>4. \A i, j \in DOMAIN r : r[i].module = r[j].module => i = j
  <2>1. \A i, j \in 1 .. k - 1 : stack[i].module = stack[j].module => i = j
    BY <1>3 DEF LoadsMatchModules
  <2> QED
    BY <1>1, <1>2, <2>1
<1>5. ASSUME NEW m \in Modules
      PROVE  modules'[m] = "initializing" <=> \E i \in DOMAIN r : r[i].module = m
  <2>1. (\E i \in DOMAIN r : r[i].module = m) <=>
          m = g.module \/ \E i \in 1 .. k - 1 : stack[i].module = m
    <3>1. ASSUME NEW i \in DOMAIN r, r[i].module = m
          PROVE  m = g.module \/ \E j \in 1 .. k - 1 : stack[j].module = m
      BY <1>1, <1>2, <3>1
    <3>2. ASSUME NEW i \in 1 .. k - 1, stack[i].module = m
          PROVE  \E j \in DOMAIN r : r[j].module = m
      BY <1>1, <1>2, <1>3, <3>2
    <3>3. ASSUME m = g.module PROVE \E j \in DOMAIN r : r[j].module = m
      BY <1>1, <1>2, <3>3
    <3> QED
      BY <3>1, <3>2, <3>3
  <2>2. modules'[m] = "initializing" <=>
          m = g.module \/ \E i \in 1 .. k - 1 : stack[i].module = m
    OBVIOUS
  <2> QED
    BY <2>1, <2>2, ZenonT(30)
<1> QED
  BY <1>4, <1>5 DEF LoadsMatchModules, r

(* So they do after a return to the i-th load, also the top itself, when   *)
(* the modules of the loads above it are no longer being initialised.      *)
LEMMA ReturnLoads ==
  ASSUME stack \in Seq(Frame), LoadsMatchModules, NEW i \in 1 .. Len(stack), NEW g \in Frame,
         g.module = stack[i].module, stack' = Append(SubSeq(stack, 1, i - 1), g),
         \A m \in Modules :
           modules'[m] = "initializing" <=>
             modules[m] = "initializing" /\ ~ \E j \in i + 1 .. Len(stack) : stack[j].module = m
  PROVE  LoadsMatchModules'
<1>1. /\ \A j \in 1 .. i - 1 : j \in DOMAIN stack /\ j # i
      /\ \A j \in i + 1 .. Len(stack) : j \in DOMAIN stack
      /\ i \in DOMAIN stack /\ i \in 1 .. Len(stack) + 1
  OBVIOUS
<1>2. \A j \in 1 .. i - 1 : stack[j].module # g.module
  BY <1>1 DEF LoadsMatchModules
<1>3. ASSUME NEW m \in Modules
      PROVE  modules'[m] = "initializing" <=>
               m = g.module \/ \E j \in 1 .. i - 1 : stack[j].module = m
  <2>1. modules[m] = "initializing" <=> \E j \in DOMAIN stack : stack[j].module = m
    BY DEF LoadsMatchModules
  <2>2. \A j, l \in DOMAIN stack : stack[j].module = m /\ stack[l].module = m => j = l
    BY DEF LoadsMatchModules
  <2>3. \A j \in DOMAIN stack : j \in 1 .. i - 1 \/ j = i \/ j \in i + 1 .. Len(stack)
    OBVIOUS
  <2>4. \A j \in i + 1 .. Len(stack) : j # i /\ j \notin 1 .. i - 1
    OBVIOUS
  <2> QED
    BY <2>1, <2>2, <2>3, <2>4, <1>1, ZenonT(30)
<1> QED
  BY <1>1, <1>2, <1>3, CutLoads

(* What is put on top is a load.                                           *)
LEMMA UpdateFrame ==
  ASSUME Inv, [Next]_vars, stack # << >>, NEW g, Update(g)
  PROVE  g \in Frame
<1> DEFINE q == Front(stack)
           S == Frame \union {g}
<1>1. stack \in Seq(Frame) /\ stack' \in Seq(Frame)
  BY StepStack DEF Inv, TypeOK
<1>2. q \in Seq(S) /\ g \in S /\ stack' = Append(q, g)
  BY <1>1 DEF Front, Update
<1> HIDE DEF q, S
<1>3. Len(stack') \in DOMAIN stack' /\ stack'[Len(stack')] = g
  BY <1>2
<1> QED
  BY <1>1, <1>3

(* The top goes on.                                                        *)
LEMMA UpdateLoads ==
  ASSUME Inv, [Next]_vars, stack # << >>, UNCHANGED modules,
         NEW g, Update(g), g.module = Top.module
  PROVE  LoadsMatchModules'
<1>1. stack \in Seq(Frame) /\ LoadsMatchModules
  BY DEF Inv, TypeOK
<1>2. g \in Frame /\ stack' = Append(SubSeq(stack, 1, Len(stack) - 1), g)
  BY <1>1, UpdateFrame, UpdateCuts
<1>3. Len(stack) \in 1 .. Len(stack) /\ Top = stack[Len(stack)] /\ Len(stack) + 1 .. Len(stack) = {}
  BY <1>1 DEF Top, Last
<1> QED
  BY <1>1, <1>2, <1>3, ReturnLoads

(* A load begins for a module that was absent.                             *)
LEMMA LoadLoads ==
  ASSUME Inv, Running("exec"), NEW m, NEW file \in Files, Load(m, file), modules[m] = "absent"
  PROVE  LoadsMatchModules'
<1> DEFINE g == [module |-> m, file |-> file, source |-> NULL, step |-> "read", pos |-> 1]
           k == Len(stack) + 1
<1>1. /\ TypeOK /\ StackOK /\ stack \in Seq(Frame) /\ LoadsMatchModules
      /\ finders = <<"ithon", "path">>
  BY StationFacts, TopFacts DEF Inv, TypeOK, Steps
<1>2. m \in Modules
  BY <1>1, FoundFacts DEF Load
<1>3. g \in Frame /\ g.module = m
  BY <1>2 DEF Frame, Steps
<1>4. Enter(g) /\ modules' = [modules EXCEPT ![m] = "initializing"]
  BY DEF Load
<1> HIDE DEF g
<1>5. k \in 1 .. Len(stack) + 1 /\ stack' = Append(SubSeq(stack, 1, k - 1), g) /\ 1 .. k - 1 = DOMAIN stack
  BY <1>1, <1>3, <1>4, EnterCuts
<1> HIDE DEF k
<1>6. \A i \in 1 .. k - 1 : stack[i].module # g.module
  BY <1>1, <1>2, <1>3, <1>5 DEF LoadsMatchModules
<1>7. \A n \in Modules :
        modules'[n] = "initializing" <=> n = g.module \/ \E i \in 1 .. k - 1 : stack[i].module = n
  BY <1>1, <1>2, <1>3, <1>4, <1>5 DEF LoadsMatchModules, TypeOK
<1> QED
  BY <1>1, <1>3, <1>5, <1>6, <1>7, CutLoads

(* An exception: the loads it leaves are those whose modules it takes out. *)
LEMMA FailLoads ==
  ASSUME Inv, stack # << >>, NEW how, Fail(how)
  PROVE  LoadsMatchModules'
<1>1. stack \in Seq(Frame) /\ LoadsMatchModules /\ modules \in [Modules -> {"absent", "initializing", "loaded"}]
  BY DEF Inv, TypeOK
<1>2. CASE modules' = Unwound(0) /\ stack' = << >>
  <2>1. \A m \in Modules : modules'[m] # "initializing"
    <3>1. \A i \in DOMAIN stack : i \in 0 + 1 .. Len(stack)
      BY <1>1
    <3> QED
      BY <1>1, <1>2, <3>1 DEF LoadsMatchModules, Unwound
  <2> QED
    BY <1>2, <2>1 DEF LoadsMatchModules
<1>3. CASE \E i \in Catches :
             /\ modules' = Unwound(i)
             /\ stack' = Append(SubSeq(stack, 1, i - 1), [stack[i] EXCEPT !.pos = @ + 1])
  <2>1. PICK i \in 1 .. Len(stack) - 1 :
          /\ modules' = Unwound(i)
          /\ stack' = Append(SubSeq(stack, 1, i - 1), [stack[i] EXCEPT !.pos = @ + 1])
    BY <1>3 DEF Catches
  <2> DEFINE g == [stack[i] EXCEPT !.pos = @ + 1]
  <2>2. i \in 1 .. Len(stack) /\ stack[i] \in Frame
    BY <1>1, <2>1
  <2>3. g \in Frame /\ g.module = stack[i].module
    BY <2>2 DEF Frame
  <2>4. stack' = Append(SubSeq(stack, 1, i - 1), g)
    BY <2>1
  <2> HIDE DEF g
  <2>5. \A m \in Modules :
          modules'[m] = "initializing" <=>
            modules[m] = "initializing" /\ ~ \E j \in i + 1 .. Len(stack) : stack[j].module = m
    BY <2>1 DEF Unwound
  <2> QED
    BY <1>1, <2>2, <2>3, <2>4, <2>5, ReturnLoads
<1> QED
  BY <1>2, <1>3 DEF Fail

(* The place below the last of a sequence of n.                            *)
LEMMA BelowLast ==
  ASSUME NEW n \in Nat \ {0, 1}
  PROVE  n - 1 \in 1 .. n /\ n - 1 - 1 = n - 2 /\ n - 1 + 1 .. n = {n}
<1>1. n - 1 \in 1 .. n /\ n - 1 - 1 = n - 2 /\ n - 1 + 1 = n
  OBVIOUS
<1>2. n .. n = {n}
  OBVIOUS
<1> QED
  BY <1>1, <1>2

(* A module is loaded: its load leaves the stack.                          *)
LEMMA FinishLoads ==
  ASSUME Inv, Finish
  PROVE  LoadsMatchModules'
<1>1. /\ TypeOK /\ StackOK /\ stack # << >> /\ stack \in Seq(Frame) /\ LoadsMatchModules
      /\ modules \in [Modules -> {"absent", "initializing", "loaded"}]
  BY StationFacts DEF Finish, Inv, TypeOK, Steps
<1>2. /\ Len(stack) \in DOMAIN stack /\ Top = stack[Len(stack)] /\ Top \in Frame
      /\ Len(stack) = 1 <=> Top.module = NULL
  BY <1>1, TopFacts
<1>3. CASE Top.module = NULL
  <2>1. stack' = << >> /\ modules' = modules
    BY <1>3 DEF Finish
  <2>a. Len(stack) = 1
    BY <1>2, <1>3
  <2>2. \A i \in DOMAIN stack : stack[i].module = NULL
    BY <1>1, <1>2, <1>3, <2>a
  <2>3. \A m \in Modules : modules[m] # "initializing"
    BY <1>1, <2>2, IthonRunAssumption DEF LoadsMatchModules
  <2> QED
    BY <2>1, <2>3 DEF LoadsMatchModules
<1>4. CASE Top.module # NULL
  <2> DEFINE i == Len(stack) - 1
             g == [stack[i] EXCEPT !.pos = @ + 1]
  <2>a. Len(stack) \in Nat \ {0, 1}
    BY <1>1, <1>2, <1>4
  <2>b. i \in 1 .. Len(stack) /\ i - 1 = Len(stack) - 2 /\ i + 1 .. Len(stack) = {Len(stack)}
    BY <2>a, BelowLast
  <2>1. i \in 1 .. Len(stack) /\ stack[i] \in Frame
    BY <1>1, <2>b
  <2>2. stack' = Append(SubSeq(stack, 1, i - 1), g) /\ modules' = [modules EXCEPT ![Top.module] = "loaded"]
    BY <1>4, <2>b DEF Finish
  <2>3. g \in Frame /\ g.module = stack[i].module
    BY <2>1 DEF Frame
  <2> HIDE DEF g, i
  <2>4. Top.module \in Modules
    BY <1>2, <1>4 DEF Frame
  <2>5. \A m \in Modules :
          modules'[m] = "initializing" <=>
            modules[m] = "initializing" /\ ~ \E j \in i + 1 .. Len(stack) : stack[j].module = m
    BY <1>1, <1>2, <2>1, <2>b, <2>2, <2>4
  <2> QED
    BY <1>1, <2>1, <2>2, <2>3, <2>5, ReturnLoads
<1> QED
  BY <1>3, <1>4

(* Every step keeps sys.modules and the stack together.                    *)
LEMMA StepLoads ==
  ASSUME Inv, [Next]_vars
  PROVE  LoadsMatchModules'
<1>1. LoadsMatchModules /\ StackOK /\ stack \in Seq(Frame)
  BY DEF Inv, TypeOK
<1>2. CASE UNCHANGED <<stack, modules>>
  BY <1>1, <1>2 DEF LoadsMatchModules
<1>3. CASE Start
  <2> DEFINE g == [module |-> NULL, file |-> NULL, source |-> program, step |-> "check", pos |-> 1]
  <2>1. stack = << >> /\ Enter(g) /\ modules' = modules
    BY <1>1, <1>3 DEF Start, StackOK
  <2>2. g \in Frame /\ g.module = NULL
    BY DEF Inv, TypeOK, Frame, Steps, AllSources
  <2> HIDE DEF g
  <2>3. stack' = << g >>
    BY <2>1 DEF Enter
  <2>4. \A m \in Modules : modules'[m] # "initializing" /\ m # NULL
    BY <1>1, <2>1, IthonRunAssumption DEF LoadsMatchModules
  <2> QED
    BY <2>2, <2>3, <2>4 DEF LoadsMatchModules
<1>4. ASSUME stack # << >>, UNCHANGED modules,
             \/ \E x : \E y : Update([Top EXCEPT !.source = x, !.step = y])
             \/ \E y : Update([Top EXCEPT !.step = y])
             \/ Update([Top EXCEPT !.pos = @ + 1])
      PROVE  LoadsMatchModules'
  <2>1. Top \in Frame
    BY <1>1, <1>4, TopFacts DEF Inv
  <2>2. /\ \A x : \A y : [Top EXCEPT !.source = x, !.step = y].module = Top.module
        /\ \A y : [Top EXCEPT !.step = y].module = Top.module
        /\ [Top EXCEPT !.pos = @ + 1].module = Top.module
    BY <2>1 DEF Frame
  <2>3. ASSUME NEW x, NEW y, Update([Top EXCEPT !.source = x, !.step = y])
        PROVE  LoadsMatchModules'
    BY <1>4, <2>2, <2>3, UpdateLoads
  <2>4. ASSUME NEW y, Update([Top EXCEPT !.step = y])
        PROVE  LoadsMatchModules'
    BY <1>4, <2>2, <2>4, UpdateLoads
  <2>5. CASE Update([Top EXCEPT !.pos = @ + 1])
    BY <1>4, <2>2, <2>5, UpdateLoads
  <2> QED
    BY <1>4, <2>3, <2>4, <2>5
<1>5. CASE stack # << >> /\ \E how : Fail(how)
  BY <1>5, FailLoads
<1>6. CASE Check \/ Record \/ Compile \/ Raise
  <2>1. stack # << >>
    BY <1>6 DEF Check, Record, Compile, Raise, Executes, Running
  <2> QED
    BY <1>4, <1>5, <1>6, <2>1 DEF Check, Record, Compile, Raise
<1>7. CASE Import
  <2>1. Running("exec") /\ stack # << >>
    BY <1>7 DEF Import, Executes, Running
  <2>2. CASE modules[Statement.arg] = "absent" /\ \E file \in Files : Load(Statement.arg, file)
    BY <2>1, <2>2, LoadLoads
  <2> QED
    BY <1>4, <1>5, <1>7, <2>1, <2>2 DEF Import, GoOn
<1>8. CASE Refuse \/ UNCHANGED vars \/ \E f \in Files : \E source \in SourceOf(f.form) : Edit(f, source)
  BY <1>2, <1>8 DEF Refuse, vars, Edit
<1>9. CASE Read \/ Effect
  BY <1>4, <1>9 DEF Read, Effect, Executes, Running
<1>10. CASE Finish
  BY <1>10, FinishLoads
<1> QED
  BY <1>3, <1>6, <1>7, <1>8, <1>9, <1>10 DEF Next, Run

-----------------------------------------------------------------------------
(* The theorems *)

(* Nothing has been loaded, recorded or run at the start.                  *)
LEMMA InitInv ==
  ASSUME Init
  PROVE  Inv
<1>1. TypeOK
  <2>1. disk \in [Files -> AllSources] /\ program \in Sources["pi"] /\ Receipts \subseteq BOOLEAN
    BY IthonRunAssumption DEF Init
  <2>2. finders \in Seq({"ithon", "path"})
    BY DEF Init
  <2> QED
    BY <2>1, <2>2, IthonRunAssumption DEF Init, TypeOK
<1>2. StackOK
  BY DEF Init, StackOK
<1>3. CheckedBeforeRun /\ ReceiptsHonest /\ IthonFirst /\ LoadsMatchModules
  BY DEF Init, CheckedBeforeRun, ReceiptsHonest, IthonFirst, LoadsMatchModules
<1> QED
  BY <1>1, <1>2, <1>3 DEF Inv

(* The inductive invariant: it holds at the start and every step of the    *)
(* runner, every failure and every edit of a file keeps it.                *)
THEOREM Invariance == Spec => []Inv
<1>1. Inv /\ [Next]_vars => Inv'
  BY StepType, StepStack, StepChecked, StepReceipts, StepFirst, StepLoads DEF Inv
<1> QED
  BY InitInv, <1>1, PTL DEF Spec

(* No statement of an Ithon source runs that was not checked, compiled and *)
(* recorded as part of exactly this text (_run_source, source_to_code).    *)
THEOREM CheckedBeforeRunHolds == Spec => []CheckedBeforeRun
<1>1. Inv => CheckedBeforeRun
  BY DEF Inv
<1> QED
  BY <1>1, Invariance, PTL

(* Every line of the receipt is about an accepted text of Ithon            *)
(* (check_source).                                                         *)
THEOREM ReceiptsHonestHolds == Spec => []ReceiptsHonest
<1>1. Inv => ReceiptsHonest
  BY DEF Inv
<1> QED
  BY <1>1, Invariance, PTL

(* A Python file never runs under a name that some directory of sys.path   *)
(* has as Ithon (IthonFinder.find_spec, _install_importer).                *)
THEOREM IthonFirstHolds == Spec => []IthonFirst
<1>1. Inv => IthonFirst
  BY DEF Inv
<1> QED
  BY <1>1, Invariance, PTL

(* The modules being initialised are exactly those whose loads are under   *)
(* way, each once, after every failure too (_load_unlocked).               *)
THEOREM LoadsMatchModulesHolds == Spec => []LoadsMatchModules
<1>1. Inv => LoadsMatchModules
  BY DEF Inv
<1> QED
  BY <1>1, Invariance, PTL
=============================================================================
