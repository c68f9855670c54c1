------------------------- MODULE ImportLocksProofs --------------------------
(***************************************************************************)
(* The safety properties of the module locks of importlib, for all threads *)
(* and modules and all imports between the modules: one load of a module   *)
(* at a time, no waiter forgotten, no circle of waiting threads.           *)
(***************************************************************************)
EXTENDS ImportLocks, SequenceTheorems, FiniteSetTheorems, TLAPS

(* What an import is.                                                      *)
Frame == [m : Modules, mod : Nat, at : Places, purpose : Purposes]

-----------------------------------------------------------------------------
(* The three ways a thread changes its stack, entry by entry.              *)

Others(t) == \A u \in Threads \ {t} : stack'[u] = stack[u]

Replaced(t, f) ==
  /\ stack' \in [Threads -> Seq(Frame)] /\ Others(t)
  /\ Len(stack[t]) \in Nat \ {0} /\ Len(stack'[t]) = Len(stack[t])
  /\ \A i \in 1 .. Len(stack[t]) - 1 : stack'[t][i] = stack[t][i]
  /\ stack[t][Len(stack[t])] = Top(t) /\ stack'[t][Len(stack[t])] = f

Popped(t) ==
  /\ stack' \in [Threads -> Seq(Frame)] /\ Others(t)
  /\ Len(stack[t]) \in Nat \ {0} /\ Len(stack'[t]) = Len(stack[t]) - 1
  /\ \A i \in 1 .. Len(stack[t]) - 1 : stack'[t][i] = stack[t][i]
  /\ stack[t][Len(stack[t])] = Top(t)

Pushed(t, f) ==
  /\ stack' \in [Threads -> Seq(Frame)] /\ Others(t)
  /\ Len(stack[t]) \in Nat /\ Len(stack'[t]) = Len(stack[t]) + 1
  /\ \A i \in 1 .. Len(stack[t]) : stack'[t][i] = stack[t][i]
  /\ stack'[t][Len(stack[t]) + 1] = f

LEMMA TopType ==
  ASSUME TypeOK, NEW t \in Threads, stack[t] # << >>
  PROVE  Top(t) \in Frame /\ Len(stack[t]) \in Nat \ {0} /\ Rest(t) \in Seq(Frame)
<1>1. stack[t] \in Seq(Frame)
  BY DEF TypeOK, Frame
<1> DEFINE s == stack[t]
<1>2. s \in Seq(Frame) /\ s # << >>
  BY <1>1
<1> HIDE DEF s
<1>3. Len(s) \in Nat \ {0} /\ s[Len(s)] \in Frame
  BY <1>2
<1>4. SubSeq(s, 1, Len(s) - 1) \in Seq(Frame)
  BY <1>2, <1>3
<1> QED
  BY <1>3, <1>4 DEF s, Top, Rest, Last, Front

(* All but the last element of a sequence.                                 *)
LEMMA FrontFacts ==
  ASSUME NEW S, NEW s \in Seq(S), s # << >>
  PROVE  /\ Len(s) \in Nat \ {0} /\ Front(s) \in Seq(S) /\ Len(Front(s)) = Len(s) - 1
         /\ \A i \in 1 .. Len(s) - 1 : Front(s)[i] = s[i]
<1> DEFINE n == Len(s)
           g == SubSeq(s, 1, n - 1)
<1>1. n \in Nat \ {0}
  OBVIOUS
<1>2. /\ g \in Seq(S) /\ Len(g) = n - 1
      /\ \A i \in 1 .. n - 1 : g[i] = s[1 + i - 1]
  <2> DEFINE k == n - 1
  <2>1. k \in Int /\ 1 \in Int /\ \A i \in 1 .. k : s[i] \in S
    BY <1>1
  <2>2. k - 1 + 1 = k /\ (~ (1 <= k) => k = 0)
    <3> HIDE DEF n
    <3> QED
      BY <1>1
  <2> HIDE DEF k
  <2>3. /\ SubSeq(s, 1, k) \in Seq(S)
        /\ Len(SubSeq(s, 1, k)) = IF 1 <= k THEN k - 1 + 1 ELSE 0
        /\ \A i \in 1 .. k - 1 + 1 : SubSeq(s, 1, k)[i] = s[1 + i - 1]
    BY <2>1, SubSeqProperties
  <2> QED
    BY <2>2, <2>3 DEF k
<1> HIDE DEF n, g
<1>3. \A i \in 1 .. n - 1 : 1 + i - 1 = i
  BY <1>1
<1> QED
  BY <1>1, <1>2, <1>3 DEF n, g, Front

LEMMA ReplaceFacts ==
  ASSUME TypeOK, NEW t \in Threads, stack[t] # << >>, NEW f \in Frame, Replace(t, f)
  PROVE  Replaced(t, f)
<1> DEFINE s == stack[t]
           r == Append(Front(s), f)
<1>1. s \in Seq(Frame) /\ s # << >> /\ stack \in [Threads -> Seq(Frame)]
  BY DEF TypeOK, Frame
<1>2. stack' = [stack EXCEPT ![t] = r]
  BY DEF Replace, Rest
<1>3. /\ Len(s) \in Nat \ {0} /\ r \in Seq(Frame) /\ Len(r) = Len(s)
      /\ \A i \in 1 .. Len(s) - 1 : r[i] = s[i]
      /\ r[Len(s)] = f
  <2> HIDE DEF s
  <2>1. Len(s) \in Nat \ {0}
    BY <1>1
  <2> DEFINE g == Front(s)
  <2>2. g \in Seq(Frame) /\ Len(g) = Len(s) - 1 /\ \A i \in 1 .. Len(s) - 1 : g[i] = s[i]
    BY <1>1, FrontFacts
  <2>3. r = Append(g, f)
    OBVIOUS
  <2> HIDE DEF g, r
  <2> QED
    BY <2>1, <2>2, <2>3
<1>4. stack'[t] = r /\ \A u \in Threads \ {t} : stack'[u] = stack[u]
  BY <1>1, <1>2
<1>5. stack' \in [Threads -> Seq(Frame)]
  BY <1>1, <1>2, <1>3
<1> QED
  BY <1>3, <1>4, <1>5 DEF Replaced, Others, Top, Last

LEMMA PopFacts ==
  ASSUME TypeOK, NEW t \in Threads, stack[t] # << >>, Pop(t)
  PROVE  Popped(t)
<1> DEFINE s == stack[t]
           r == Front(s)
<1>1. s \in Seq(Frame) /\ s # << >> /\ stack \in [Threads -> Seq(Frame)]
  BY DEF TypeOK, Frame
<1>2. stack' = [stack EXCEPT ![t] = r]
  BY DEF Pop, Rest
<1>3. /\ Len(s) \in Nat \ {0} /\ r \in Seq(Frame) /\ Len(r) = Len(s) - 1
      /\ \A i \in 1 .. Len(s) - 1 : r[i] = s[i]
  <2> HIDE DEF s
  <2> QED
    BY <1>1, FrontFacts
<1>4. stack'[t] = r /\ \A u \in Threads \ {t} : stack'[u] = stack[u]
  BY <1>1, <1>2
<1>5. stack' \in [Threads -> Seq(Frame)]
  BY <1>1, <1>2, <1>3
<1> QED
  BY <1>3, <1>4, <1>5 DEF Popped, Others, Top, Last

LEMMA PushFacts ==
  ASSUME TypeOK, NEW t \in Threads, NEW f \in Frame,
         stack' = [stack EXCEPT ![t] = Append(@, f)]
  PROVE  Pushed(t, f)
<1> DEFINE s == stack[t]
           r == Append(s, f)
<1>1. s \in Seq(Frame) /\ stack \in [Threads -> Seq(Frame)]
  BY DEF TypeOK, Frame
<1>3. /\ Len(s) \in Nat /\ r \in Seq(Frame) /\ Len(r) = Len(s) + 1
      /\ \A i \in 1 .. Len(s) : r[i] = s[i]
      /\ r[Len(s) + 1] = f
  <2> HIDE DEF s
  <2> QED
    BY <1>1
<1>4. stack'[t] = r /\ \A u \in Threads \ {t} : stack'[u] = stack[u]
  BY <1>1
<1>5. stack' \in [Threads -> Seq(Frame)]
  BY <1>1, <1>3
<1> QED
  BY <1>3, <1>4, <1>5 DEF Pushed, Others

(* What this means for the imports and for where a thread is.              *)
Off(t) == ~ Searching(t) /\ ~ At(t, "wait") /\ ~ At(t, "pass")

SameFrames(t, places) == \A m \in Modules : Frames(t, m, places)' = Frames(t, m, places)

SameLoads(t) ==
  \A i \in Nat :
    /\ (i \in DOMAIN stack'[t] /\ stack'[t][i].at \in Loading)
         <=> (i \in DOMAIN stack[t] /\ stack[t][i].at \in Loading)
    /\ i \in DOMAIN stack[t] /\ stack[t][i].at \in Loading => stack'[t][i] = stack[t][i]

LEMMA WhenReplaced ==
  ASSUME BodiesInv, NEW t \in Threads, NEW f \in Frame, Replaced(t, f), stack[t] \in Seq(Frame)
  PROVE  /\ BodiesInv'
         /\ stack'[t] # << >> /\ Top(t)' = f
         /\ \A p : At(t, p)' <=> f.at = p
         /\ \A P : f.m = Top(t).m /\ (f.at \in P <=> Top(t).at \in P) => SameFrames(t, P)
         /\ f.at \notin Loading /\ Top(t).at \notin Loading => SameLoads(t)
<1> DEFINE n == Len(stack[t])
<1>1. /\ n \in Nat \ {0} /\ Len(stack'[t]) = n /\ DOMAIN stack[t] = 1 .. n
      /\ DOMAIN stack'[t] = 1 .. n /\ stack'[t] # << >> /\ n \in 1 .. n
      /\ stack[t][n] = Top(t) /\ stack'[t][n] = f
      /\ \A i \in 1 .. n - 1 : stack'[t][i] = stack[t][i]
  BY SMTT(30) DEF Replaced
<1>2. \A u \in Threads \ {t} : stack'[u] = stack[u]
  BY DEF Replaced, Others
<1> HIDE DEF n
<1>3. BodiesInv'
  <2>1. \A i \in 1 .. n - 1 : stack'[t][i].at = "body"
    BY <1>1 DEF BodiesInv, n
  <2> QED
    BY <1>1, <1>2, <2>1 DEF BodiesInv
<1>4. Top(t)' = f
  BY <1>1 DEF Top, Last
<1>5. \A p : At(t, p)' <=> f.at = p
  BY <1>1, <1>4 DEF At
<1>6. \A i \in 1 .. n : i = n \/ stack'[t][i] = stack[t][i]
  BY <1>1
<1>7. ASSUME NEW P, f.m = Top(t).m, f.at \in P <=> Top(t).at \in P
      PROVE  SameFrames(t, P)
  BY <1>1, <1>6, <1>7 DEF SameFrames, Frames
<1>8. ASSUME f.at \notin Loading, Top(t).at \notin Loading
      PROVE  SameLoads(t)
  BY <1>1, <1>6, <1>8 DEF SameLoads
<1> QED
  BY <1>1, <1>3, <1>4, <1>5, <1>7, <1>8

LEMMA WhenPopped ==
  ASSUME BodiesInv, NEW t \in Threads, Popped(t), stack[t] \in Seq(Frame)
  PROVE  /\ BodiesInv'
         /\ Off(t)'
         /\ \A P : Top(t).at \notin P => SameFrames(t, P)
         /\ Top(t).at \notin Loading => SameLoads(t)
<1> DEFINE n == Len(stack[t])
<1>1. /\ n \in Nat \ {0} /\ Len(stack'[t]) = n - 1 /\ DOMAIN stack[t] = 1 .. n
      /\ DOMAIN stack'[t] = 1 .. n - 1 /\ n \in 1 .. n
      /\ stack[t][n] = Top(t)
      /\ \A i \in 1 .. n - 1 : stack'[t][i] = stack[t][i]
  BY DEF Popped
<1>2. \A u \in Threads \ {t} : stack'[u] = stack[u]
  BY DEF Popped, Others
<1>9. stack'[t] # << >> => Len(stack'[t]) > 0
  BY DEF Popped
<1> HIDE DEF n
<1>b. \A i \in 1 .. n - 1 : stack'[t][i].at = "body"
  BY <1>1 DEF BodiesInv, n
<1>3. BodiesInv'
  <2>1. \A i \in 1 .. n - 1 - 1 : stack'[t][i].at = "body"
    BY <1>1, <1>b
  <2> QED
    BY <1>1, <1>2, <2>1 DEF BodiesInv
<1>4. Off(t)'
  <2>1. stack'[t] # << >> => n - 1 \in 1 .. n - 1
    BY <1>1, <1>9
  <2>2. stack'[t] # << >> => Top(t)'.at = "body"
    BY <1>1, <1>b, <2>1 DEF Top, Last
  <2> QED
    BY <2>2 DEF Off, Searching, At
<1>6. \A i : i \in 1 .. n <=> i \in 1 .. n - 1 \/ i = n
  BY <1>1
<1>7. ASSUME NEW P, Top(t).at \notin P
      PROVE  SameFrames(t, P)
  BY <1>1, <1>6, <1>7 DEF SameFrames, Frames
<1>8. ASSUME Top(t).at \notin Loading
      PROVE  SameLoads(t)
  BY <1>1, <1>6, <1>8 DEF SameLoads
<1> QED
  BY <1>3, <1>4, <1>7, <1>8

LEMMA WhenPushed ==
  ASSUME BodiesInv, NEW t \in Threads, NEW f \in Frame, Pushed(t, f), stack[t] \in Seq(Frame),
         stack[t] = << >> \/ At(t, "body"), f.at \in {"find", "ensure"}
  PROVE  /\ BodiesInv'
         /\ Off(t)'
         /\ \A P : f.at \notin P => SameFrames(t, P)
         /\ SameLoads(t)
<1> DEFINE n == Len(stack[t])
<1>1. /\ n \in Nat /\ Len(stack'[t]) = n + 1 /\ DOMAIN stack[t] = 1 .. n
      /\ DOMAIN stack'[t] = 1 .. n + 1
      /\ stack'[t][n + 1] = f
      /\ \A i \in 1 .. n : stack'[t][i] = stack[t][i]
  BY DEF Pushed
<1>2. \A u \in Threads \ {t} : stack'[u] = stack[u]
  BY DEF Pushed, Others
<1>9. stack[t] # << >> => stack[t][n] = Top(t)
  BY DEF Top, Last
<1>a. stack[t] = << >> => n = 0
  OBVIOUS
<1> HIDE DEF n
<1>3. BodiesInv'
  <2>1. \A i \in 1 .. n : stack[t][i].at = "body"
    BY <1>1, <1>9, <1>a DEF BodiesInv, n, At
  <2>2. \A i \in 1 .. n + 1 - 1 : stack'[t][i].at = "body"
    BY <1>1, <2>1
  <2> QED
    BY <1>1, <1>2, <2>2 DEF BodiesInv
<1>4. Off(t)'
  BY <1>1 DEF Off, Searching, At, Top, Last
<1>6. \A i : i \in 1 .. n + 1 <=> i \in 1 .. n \/ i = n + 1
  BY <1>1
<1>c. n + 1 \notin 1 .. n
  BY <1>1
<1>7. ASSUME NEW P, f.at \notin P
      PROVE  SameFrames(t, P)
  BY <1>1, <1>6, <1>7, <1>c DEF SameFrames, Frames
<1>8. SameLoads(t)
  BY <1>1, <1>6, <1>c DEF SameLoads, Loading
<1> QED
  BY <1>3, <1>4, <1>7, <1>8

-----------------------------------------------------------------------------
(* The steps that neither touch a lock nor load a module.                  *)

Plain(t) == UNCHANGED <<lockVars, searchVars>> /\ Others(t) /\ Off(t) /\ Off(t)' /\ SameFrames(t, Holding)
NoLoad(t) == UNCHANGED moduleVars /\ Others(t) /\ SameLoads(t)

(* Where a thread without a lock goes next.                                *)
LEMMA WalkFacts ==
  ASSUME TypeOK, BodiesInv, NEW t \in Threads, stack[t] # << >>,
         Top(t).at \in {"ensure", "check", "find", "examine", "recheck"},
         Pop(t) \/ \E f \in Frame : /\ f.m = Top(t).m
                                    /\ f.at \in {"check", "find", "examine", "recheck", "enter"}
                                    /\ Replace(t, f),
         UNCHANGED <<moduleVars, lockVars, searchVars>>
  PROVE  TypeOK' /\ BodiesInv' /\ Plain(t) /\ NoLoad(t)
<1>1. stack[t] \in Seq(Frame)
  BY DEF TypeOK, Frame
<1>2. Off(t) /\ Top(t).at \notin Loading \union Holding
  BY DEF Off, Searching, At, Loading, Holding
<1>3. /\ stack' \in [Threads -> Seq(Frame)] /\ Others(t) /\ BodiesInv' /\ Off(t)'
      /\ SameFrames(t, Holding) /\ SameLoads(t)
  <2>1. CASE Pop(t)
    <3>1. Popped(t)
      BY <2>1, PopFacts
    <3>2. BodiesInv' /\ Off(t)' /\ SameFrames(t, Holding) /\ SameLoads(t)
      BY <1>1, <1>2, <3>1, WhenPopped
    <3> QED
      BY <3>1, <3>2 DEF Popped
  <2>2. ASSUME NEW f \in Frame, f.m = Top(t).m,
               f.at \in {"check", "find", "examine", "recheck", "enter"}, Replace(t, f)
        PROVE  /\ stack' \in [Threads -> Seq(Frame)] /\ Others(t) /\ BodiesInv' /\ Off(t)'
               /\ SameFrames(t, Holding) /\ SameLoads(t)
    <3>1. Replaced(t, f)
      BY <2>2, ReplaceFacts
    <3>2. f.at \notin Loading /\ f.at \notin Holding
      BY <2>2 DEF Loading, Holding
    <3>3. /\ BodiesInv' /\ \A p : At(t, p)' <=> f.at = p
          /\ SameFrames(t, Holding) /\ SameLoads(t)
      BY <1>1, <1>2, <2>2, <3>1, <3>2, WhenReplaced
    <3>4. Off(t)'
      BY <2>2, <3>3 DEF Off, Searching
    <3> QED
      BY <3>1, <3>3, <3>4 DEF Replaced
  <2> QED
    BY <2>1, <2>2
<1>4. TypeOK'
  BY <1>3 DEF TypeOK, Frame, moduleVars, lockVars, searchVars
<1> QED
  BY <1>2, <1>3, <1>4 DEF Plain, NoLoad

LEMMA PlainSteps ==
  ASSUME ImportLocksAssumption, TypeOK, BodiesInv, NEW t \in Threads,
         \/ Ensure(t) \/ Check(t) \/ Find(t) \/ Examine(t) \/ Recheck(t)
         \/ \E m \in Modules : Import(t, m)
  PROVE  TypeOK' /\ BodiesInv' /\ Plain(t) /\ NoLoad(t)
<1>a. stack[t] # << >> => Top(t) \in Frame
  BY TopType
<1>1. CASE Ensure(t) \/ Check(t) \/ Examine(t) \/ Recheck(t)
  <2>1. stack[t] # << >> /\ Top(t).at \in {"ensure", "check", "examine", "recheck"}
    BY <1>1 DEF Ensure, Check, Examine, Recheck, At
  <2>2. \A p \in {"find", "check", "recheck"} :
          [Top(t) EXCEPT !.at = p] \in Frame /\ [Top(t) EXCEPT !.at = p].m = Top(t).m
          /\ [Top(t) EXCEPT !.at = p].at = p
    BY <1>a, <2>1 DEF Frame, Places
  <2>3. \A r \in {"ensure", "load"} :
          /\ [Top(t) EXCEPT !.at = "enter", !.purpose = r] \in Frame
          /\ [Top(t) EXCEPT !.at = "enter", !.purpose = r].m = Top(t).m
          /\ [Top(t) EXCEPT !.at = "enter", !.purpose = r].at = "enter"
    BY <1>a, <2>1 DEF Frame, Places, Purposes
  <2>4. Pop(t) \/ \E f \in Frame : /\ f.m = Top(t).m
                                   /\ f.at \in {"check", "find", "examine", "recheck", "enter"}
                                   /\ Replace(t, f)
    BY <1>1, <2>2, <2>3 DEF Ensure, Check, Examine, Recheck, Goto, Acquire
  <2>5. UNCHANGED <<moduleVars, lockVars, searchVars>>
    BY <1>1 DEF Ensure, Check, Examine, Recheck
  <2> QED
    BY <2>1, <2>4, <2>5, WalkFacts
<1>2. CASE Find(t)
  <2>1. stack[t] # << >> /\ Top(t).at = "find"
    BY <1>2 DEF Find, At
  <2>2. modules[Top(t).m] \in Nat
    BY <1>a, <2>1 DEF Frame, TypeOK
  <2>3. PICK f \in Frame : /\ f.m = Top(t).m /\ f.at \in {"enter", "examine"}
                           /\ Replace(t, f)
    <3> DEFINE found == [Top(t) EXCEPT !.mod = modules[Top(t).m]]
    <3>1. [found EXCEPT !.at = "enter", !.purpose = "load"] \in Frame
      BY <1>a, <2>1, <2>2 DEF Frame, Places, Purposes
    <3>2. [found EXCEPT !.at = "examine"] \in Frame
      BY <1>a, <2>1, <2>2 DEF Frame, Places, Purposes
    <3>3. /\ [found EXCEPT !.at = "enter", !.purpose = "load"].m = Top(t).m
          /\ [found EXCEPT !.at = "enter", !.purpose = "load"].at = "enter"
          /\ [found EXCEPT !.at = "examine"].m = Top(t).m
          /\ [found EXCEPT !.at = "examine"].at = "examine"
      BY <1>a, <2>1, <2>2 DEF Frame
    <3> QED
      BY <1>2, <3>1, <3>2, <3>3 DEF Find
  <2>4. UNCHANGED <<moduleVars, lockVars, searchVars>>
    BY <1>2 DEF Find
  <2> QED
    BY <2>1, <2>3, <2>4, WalkFacts
<1>3. ASSUME NEW m \in Modules, Import(t, m)
      PROVE  TypeOK' /\ BodiesInv' /\ Plain(t) /\ NoLoad(t)
  <2>1. PICK f \in Frame : f.at \in {"find", "ensure"} /\ stack' = [stack EXCEPT ![t] = Append(@, f)]
    <3> DEFINE place == IF modules[m] = 0 THEN "find" ELSE "ensure"
               f == [m |-> m, mod |-> modules[m], at |-> place, purpose |-> "none"]
    <3>1. f \in Frame /\ f.at \in {"find", "ensure"}
      BY DEF Frame, Places, Purposes, TypeOK
    <3> QED
      BY <1>3, <3>1 DEF Import
  <2>2. Pushed(t, f)
    BY <2>1, PushFacts
  <2>3. /\ stack[t] \in Seq(Frame)
        /\ stack[t] = << >> \/ At(t, "body")
        /\ f.at \notin Holding /\ Off(t)
    BY <1>3, <2>1 DEF TypeOK, Frame, Import, At, Holding, Off, Searching
  <2>4. BodiesInv' /\ Off(t)' /\ SameFrames(t, Holding) /\ SameLoads(t)
    BY <2>1, <2>2, <2>3, WhenPushed
  <2>5. UNCHANGED <<moduleVars, lockVars, searchVars>>
    BY <1>3 DEF Import
  <2>6. TypeOK'
    BY <2>2, <2>5 DEF TypeOK, Frame, Pushed, moduleVars, lockVars, searchVars
  <2> QED
    BY <2>2, <2>3, <2>4, <2>5, <2>6 DEF Plain, NoLoad, Pushed
<1> QED
  BY <1>1, <1>2, <1>3

-----------------------------------------------------------------------------
(* What those steps leave as it was.                                       *)

LEMMA PlainKeepsHold ==
  ASSUME NEW t \in Threads, UNCHANGED <<owner, count>>, Others(t), SameFrames(t, Holding), HoldInv
  PROVE  HoldInv'
<1>1. \A u \in Threads, m \in Modules : Frames(u, m, Holding)' = Frames(u, m, Holding)
  BY DEF SameFrames, Others, Frames
<1> QED
  BY <1>1 DEF HoldInv

LEMMA NoLoadKeepsLoad ==
  ASSUME NEW t \in Threads, TypeOK, TypeOK', NoLoad(t), LoadInv
  PROVE  LoadInv'
<1>1. ASSUME NEW u \in Threads
      PROVE  DOMAIN stack[u] \subseteq Nat /\ DOMAIN stack'[u] \subseteq Nat
  <2>1. stack[u] \in Seq(Frame) /\ stack'[u] \in Seq(Frame)
    BY DEF TypeOK, Frame
  <2> QED
    BY <2>1
<1>2. \A u \in Threads : \A i \in Nat :
        /\ (i \in DOMAIN stack'[u] /\ stack'[u][i].at \in Loading)
             <=> (i \in DOMAIN stack[u] /\ stack[u][i].at \in Loading)
        /\ i \in DOMAIN stack[u] /\ stack[u][i].at \in Loading => stack'[u][i] = stack[u][i]
  BY DEF NoLoad, Others, SameLoads
<1>3. \A u \in Threads : \A m : Frames(u, m, Loading)' = Frames(u, m, Loading)
  BY <1>1, <1>2 DEF Frames
<1>4. UNCHANGED <<modules, initializing>>
  BY DEF NoLoad, moduleVars
<1>5. ASSUME NEW u \in Threads, NEW i \in DOMAIN stack'[u]
      PROVE  LET f == stack'[u][i]
             IN  /\ f.at \in Loading => <<f.m, f.mod>> \in initializing
                 /\ f.at = "body" => modules[f.m] = f.mod /\ f.mod # 0
  <2>1. i \in Nat /\ (stack'[u][i].at = "body" => stack'[u][i].at \in Loading)
    BY <1>1 DEF Loading
  <2>2. ASSUME stack'[u][i].at \in Loading
        PROVE  i \in DOMAIN stack[u] /\ stack'[u][i] = stack[u][i]
    BY <1>2, <2>1, <2>2
  <2> DEFINE f == stack'[u][i]
  <2>3. ASSUME f.at \in Loading
        PROVE  /\ f.at \in Loading => <<f.m, f.mod>> \in initializing
               /\ f.at = "body" => modules[f.m] = f.mod /\ f.mod # 0
    BY <2>2, <2>3 DEF LoadInv
  <2> QED
    BY <2>1, <2>3
<1>6. \A load \in initializing : \E u \in Threads : \E i \in Frames(u, load[1], Loading)' :
         stack'[u][i].mod = load[2]
  <2> SUFFICES ASSUME NEW load \in initializing
               PROVE  \E u \in Threads : \E i \in Frames(u, load[1], Loading)' : stack'[u][i].mod = load[2]
    OBVIOUS
  <2>1. PICK u \in Threads, i \in Nat : i \in Frames(u, load[1], Loading) /\ stack[u][i].mod = load[2]
    BY <1>1 DEF LoadInv, Frames
  <2> QED
    BY <1>2, <1>3, <2>1 DEF Frames
<1> QED
  BY <1>3, <1>4, <1>5, <1>6 DEF LoadInv

(* Where the threads are that search, wait or pass a wakeup on.            *)
LEMMA OthersStay ==
  ASSUME NEW t \in Threads, Others(t), NEW u \in Threads \ {t}
  PROVE  /\ Top(u)' = Top(u) /\ \A p : At(u, p)' <=> At(u, p)
         /\ Searching(u)' <=> Searching(u)
         /\ Blocked(u)' <=> Blocked(u)
BY DEF Others, Top, At, Searching, Blocked

LEMMA PlainKeepsSearch ==
  ASSUME NEW t \in Threads, Others(t), Off(t), Off(t)', UNCHANGED <<count, candidate, seen>>, SearchInv
  PROVE  SearchInv'
<1>1. \A u \in Threads \ {t} : Top(u)' = Top(u) /\ (Searching(u)' <=> Searching(u))
                               /\ (At(u, "peek")' <=> At(u, "peek"))
  BY OthersStay
<1> QED
  BY <1>1 DEF SearchInv, Off, Searching

LEMMA PlainKeepsWakeup ==
  ASSUME NEW t \in Threads, Others(t), Off(t), Off(t)', UNCHANGED <<count, waiters, wakeup>>, WakeupInv
  PROVE  WakeupInv'
<1>1. \A u \in Threads \ {t} : Top(u)' = Top(u) /\ (At(u, "pass")' <=> At(u, "pass"))
  BY OthersStay
<1>2. \A m : Passing(m)' = Passing(m)
  BY <1>1 DEF Passing, Off
<1> QED
  BY <1>2 DEF WakeupInv

(* A search that is going to find its circle still does.                   *)
LEMMA StillFinds ==
  ASSUME NEW S \in SUBSET Threads, NEW w \in S, Finds(w, S),
         \A u \in S : HeldUpBy(u)' = HeldUpBy(u),
         At(w, "search")' <=> At(w, "search"), At(w, "peek")' <=> At(w, "peek"),
         candidate'[w] = candidate[w], seen'[w] = seen[w]
  PROVE  Finds(w, S)'
<1>1. PICK Z \in SUBSET S : \E d \in [Z -> SUBSET Threads] :
        /\ w \in Z /\ Z \intersect seen[w] = {}
        /\ \A u \in Z \ {w} :
             /\ HeldUpBy(u) \in Z
             /\ d[HeldUpBy(u)] \subseteq d[u] /\ d[HeldUpBy(u)] # d[u]
        /\ \/ At(w, "search") /\ candidate[w] \in Z
           \/ At(w, "peek") /\ candidate[w] \in S /\ HeldUpBy(candidate[w]) \in Z
  BY DEF Finds
<1>2. PICK d \in [Z -> SUBSET Threads] :
        /\ w \in Z /\ Z \intersect seen[w] = {}
        /\ \A u \in Z \ {w} :
             /\ HeldUpBy(u) \in Z
             /\ d[HeldUpBy(u)] \subseteq d[u] /\ d[HeldUpBy(u)] # d[u]
        /\ \/ At(w, "search") /\ candidate[w] \in Z
           \/ At(w, "peek") /\ candidate[w] \in S /\ HeldUpBy(candidate[w]) \in Z
  BY <1>1
<1>3. /\ Z \in SUBSET S /\ w \in Z /\ Z \intersect seen'[w] = {}
      /\ \A u \in Z \ {w} :
           /\ HeldUpBy(u)' \in Z
           /\ d[HeldUpBy(u)'] \subseteq d[u] /\ d[HeldUpBy(u)'] # d[u]
      /\ \/ At(w, "search")' /\ candidate'[w] \in Z
         \/ At(w, "peek")' /\ candidate'[w] \in S /\ HeldUpBy(candidate[w])' \in Z
  BY <1>2
<1> QED
  BY <1>2, <1>3 DEF Finds

LEMMA SetsInWait ==
  ASSUME NEW t \in Threads, Others(t), NEW S \in SUBSET Threads, Circular(S)',
         \A u \in S : owner'[Top(u)'.m] = owner[Top(u)'.m]
  PROVE  t \notin S => Circular(S) /\ \A u \in S : HeldUpBy(u)' = HeldUpBy(u)
BY OthersStay DEF Circular, HeldUpBy

(* A thread that is not blocked after its step leaves all circles as they  *)
(* are: it takes no lock away from another thread.                         *)
LEMMA AwayKeepsCircle ==
  ASSUME TypeOK, NEW t \in Threads, Others(t), ~ Blocked(t)', CircleInv,
         \A m \in Modules : owner'[m] = owner[m] \/ owner'[m] \notin Threads \ {t},
         \A u \in Threads \ {t} : candidate'[u] = candidate[u] /\ seen'[u] = seen[u]
  PROVE  CircleInv'
<1> SUFFICES ASSUME NEW S \in SUBSET Threads, Circular(S)'
             PROVE  \E w \in S : Finds(w, S)'
  BY DEF CircleInv
<1>1. t \notin S
  BY DEF Circular
<1>2. \A u \in S : owner'[Top(u)'.m] = owner[Top(u)'.m]
  <2> SUFFICES ASSUME NEW u \in S PROVE owner'[Top(u)'.m] = owner[Top(u)'.m]
    OBVIOUS
  <2>1. stack[u] # << >>
    BY <1>1 DEF Circular, Blocked, Searching, At, Others
  <2>2. Top(u)' = Top(u) /\ Top(u) \in Frame
    BY <1>1, <2>1, OthersStay, TopType
  <2>3. owner'[Top(u)'.m] \in Threads \ {t}
    BY <1>1 DEF Circular, HeldUpBy
  <2> QED
    BY <2>2, <2>3 DEF Frame
<1>3. Circular(S) /\ \A u \in S : HeldUpBy(u)' = HeldUpBy(u)
  BY <1>1, <1>2, SetsInWait
<1>4. PICK w \in S : Finds(w, S)
  BY <1>3 DEF CircleInv
<1>5. /\ At(w, "search")' <=> At(w, "search")
      /\ At(w, "peek")' <=> At(w, "peek")
      /\ candidate'[w] = candidate[w] /\ seen'[w] = seen[w]
  BY <1>1, OthersStay
<1> QED
  BY <1>3, <1>4, <1>5, StillFinds

LEMMA PlainKeeps ==
  ASSUME TypeOK, NEW t \in Threads, Plain(t), HoldInv, SearchInv, WakeupInv, CircleInv
  PROVE  HoldInv' /\ SearchInv' /\ WakeupInv' /\ CircleInv'
<1>1. /\ UNCHANGED <<owner, count, waiters, wakeup, candidate, seen>>
      /\ Others(t) /\ Off(t) /\ Off(t)' /\ SameFrames(t, Holding)
  BY DEF Plain, lockVars, searchVars
<1>2. HoldInv'
  BY <1>1, PlainKeepsHold
<1>3. SearchInv'
  BY <1>1, PlainKeepsSearch
<1>4. WakeupInv'
  BY <1>1, PlainKeepsWakeup
<1>5. ~ Blocked(t)'
  BY <1>1 DEF Off, Blocked
<1>6. CircleInv'
  BY <1>1, <1>5, AwayKeepsCircle
<1> QED
  BY <1>2, <1>3, <1>4, <1>6

-----------------------------------------------------------------------------
(* The steps of a load.                                                    *)

(* Between an acquisition and the release a thread keeps the lock.         *)
LEMMA KeepFacts ==
  ASSUME TypeOK, BodiesInv, NEW t \in Threads, stack[t] # << >>, Top(t).at \in Holding,
         NEW f \in Frame, f.m = Top(t).m, f.at \in Holding, Replace(t, f),
         UNCHANGED <<lockVars, searchVars>>
  PROVE  /\ BodiesInv' /\ Plain(t) /\ Replaced(t, f)
         /\ Top(t).at \notin Loading /\ f.at \notin Loading => SameLoads(t)
<1>1. Replaced(t, f) /\ stack[t] \in Seq(Frame)
  BY ReplaceFacts DEF TypeOK, Frame
<1>2. /\ BodiesInv' /\ \A p : At(t, p)' <=> f.at = p
      /\ SameFrames(t, Holding)
      /\ Top(t).at \notin Loading /\ f.at \notin Loading => SameLoads(t)
  BY <1>1, WhenReplaced
<1>3. Off(t) /\ Off(t)'
  BY <1>2 DEF Off, Searching, At, Holding
<1> QED
  BY <1>1, <1>2, <1>3 DEF Plain, Replaced

(* An import that loads a module is the only one that does.                *)
LEMMA OnlyLoad ==
  ASSUME LoadInv, NEW t \in Threads, stack[t] \in Seq(Frame), stack[t] # << >>,
         Top(t).at \in Loading,
         NEW u \in Threads, NEW i \in DOMAIN stack[u],
         stack[u][i].at \in Loading, stack[u][i].m = Top(t).m
  PROVE  u = t /\ i = Len(stack[t])
<1>1. Len(stack[t]) \in DOMAIN stack[t] /\ Top(t) = stack[t][Len(stack[t])]
  BY DEF Top, Last
<1>2. Top(t).m \in Modules
  <2>1. stack[t][Len(stack[t])] \in Frame
    BY <1>1
  <2> QED
    BY <1>1, <2>1 DEF Frame
<1> QED
  BY <1>1, <1>2 DEF LoadInv, Frames

(* The imports of a thread, but for the innermost one.                     *)
LEMMA ReplacedFrames ==
  ASSUME TypeOK, NEW t \in Threads, NEW f \in Frame, Replaced(t, f)
  PROVE  /\ \A u \in Threads : DOMAIN stack'[u] = DOMAIN stack[u] /\ DOMAIN stack[u] \subseteq Nat
         /\ \A u \in Threads : \A i \in DOMAIN stack[u] :
              stack'[u][i] = stack[u][i] \/ (u = t /\ i = Len(stack[t]))
         /\ Len(stack[t]) \in DOMAIN stack[t] /\ stack[t] # << >>
         /\ stack[t][Len(stack[t])] = Top(t) /\ stack'[t][Len(stack[t])] = f
<1>0. \A u \in Threads : stack[u] \in Seq(Frame) /\ stack'[u] \in Seq(Frame)
  BY DEF TypeOK, Frame, Replaced
<1>1. DOMAIN stack[t] = 1 .. Len(stack[t]) /\ DOMAIN stack'[t] = 1 .. Len(stack[t])
  BY <1>0 DEF Replaced
<1>2. Len(stack[t]) \in Nat \ {0}
  BY DEF Replaced
<1>3. \A i \in 1 .. Len(stack[t]) : i = Len(stack[t]) \/ stack'[t][i] = stack[t][i]
  <2> DEFINE n == Len(stack[t])
  <2>1. \A i \in 1 .. n - 1 : stack'[t][i] = stack[t][i]
    BY DEF Replaced
  <2> HIDE DEF n
  <2>2. n \in Nat
    BY <1>2 DEF n
  <2>3. \A i \in 1 .. n : i = n \/ stack'[t][i] = stack[t][i]
    BY <2>1, <2>2
  <2> QED
    BY <2>3 DEF n
<1>4. ASSUME NEW u \in Threads PROVE DOMAIN stack[u] \subseteq Nat
  BY <1>0
<1>5. Len(stack[t]) \in DOMAIN stack[t]
  BY <1>1, <1>2
<1>6. \A u \in Threads \ {t} : stack'[u] = stack[u]
  BY DEF Replaced, Others
<1>7. stack[t] # << >>
  BY <1>2
<1>8. stack[t][Len(stack[t])] = Top(t) /\ stack'[t][Len(stack[t])] = f
  BY DEF Replaced
<1> QED
  BY <1>1, <1>3, <1>4, <1>5, <1>6, <1>7, <1>8

(* sys.modules changes at the end of a body and after it.                  *)
LEMMA AfterBody ==
  ASSUME TypeOK, LoadInv, NEW t \in Threads, NEW f \in Frame, Replaced(t, f),
         Top(t).at \in Loading, f.at \in {"put", "clear"},
         f.m = Top(t).m, f.mod = Top(t).mod, NEW x \in Nat,
         modules' = [modules EXCEPT ![Top(t).m] = x], UNCHANGED initializing
  PROVE  LoadInv'
<1> DEFINE n == Len(stack[t])
<1>1. /\ \A u \in Threads : DOMAIN stack'[u] = DOMAIN stack[u]
      /\ \A u \in Threads : \A i \in DOMAIN stack[u] :
           stack'[u][i] = stack[u][i] \/ (u = t /\ i = n)
      /\ n \in DOMAIN stack[t] /\ stack[t] # << >>
      /\ stack[t][n] = Top(t) /\ stack'[t][n] = f
  BY ReplacedFrames
<1>2. stack[t] \in Seq(Frame)
  BY DEF TypeOK, Frame
<1>3. \A u \in Threads : \A i \in DOMAIN stack[u] :
        stack[u][i].at \in Loading /\ stack[u][i].m = Top(t).m => u = t /\ i = n
  BY <1>1, <1>2, OnlyLoad
<1> HIDE DEF n
<1>4. f.at \in Loading /\ f.at # "body"
  BY DEF Loading
<1>5. \A u \in Threads : \A m : Frames(u, m, Loading)' = Frames(u, m, Loading)
  BY <1>1, <1>4 DEF Frames
<1>6. ASSUME NEW u \in Threads, NEW i \in DOMAIN stack'[u]
      PROVE  LET g == stack'[u][i]
             IN  /\ g.at \in Loading => <<g.m, g.mod>> \in initializing
                 /\ g.at = "body" => modules'[g.m] = g.mod /\ g.mod # 0
  <2>1. CASE u = t /\ i = n
    BY <1>1, <1>4, <2>1 DEF LoadInv
  <2>2. CASE ~ (u = t /\ i = n)
    <3>1. stack'[u][i] = stack[u][i] /\ i \in DOMAIN stack[u]
      BY <1>1, <2>2
    <3>2. stack[u][i].at \in Loading => <<stack[u][i].m, stack[u][i].mod>> \in initializing
      BY <3>1 DEF LoadInv
    <3>3. ASSUME stack[u][i].at = "body"
          PROVE  modules'[stack[u][i].m] = stack[u][i].mod /\ stack[u][i].mod # 0
      <4>1. stack[u][i].m # Top(t).m
        BY <1>3, <2>2, <3>1, <3>3 DEF Loading
      <4>2. modules[stack[u][i].m] = stack[u][i].mod /\ stack[u][i].mod # 0
        BY <3>1, <3>3 DEF LoadInv
      <4>3. modules'[stack[u][i].m] = modules[stack[u][i].m]
        <5>1. stack[u] \in Seq(Frame)
          BY DEF TypeOK, Frame
        <5>2. stack[u][i] \in Frame
          BY <3>1, <5>1
        <5> QED
          BY <4>1, <5>2 DEF TypeOK, Frame
      <4> QED
        BY <4>2, <4>3
    <3> QED
      BY <3>1, <3>2, <3>3
  <2> QED
    BY <2>1, <2>2
<1>7. ASSUME NEW load \in initializing
      PROVE  \E u \in Threads : \E i \in Frames(u, load[1], Loading)' : stack'[u][i].mod = load[2]
  <2>1. PICK u \in Threads : \E i \in Frames(u, load[1], Loading) : stack[u][i].mod = load[2]
    BY DEF LoadInv
  <2>2. PICK i \in Frames(u, load[1], Loading) : stack[u][i].mod = load[2]
    BY <2>1
  <2>3. i \in DOMAIN stack[u]
    BY DEF Frames
  <2> QED
    BY <1>1, <1>5, <2>2, <2>3
<1>8. \A m \in Modules : \A u \in Threads, v \in Threads :
        \A i \in Frames(u, m, Loading)', j \in Frames(v, m, Loading)' : u = v /\ i = j
  BY <1>5 DEF LoadInv
<1> QED
  BY <1>6, <1>7, <1>8 DEF LoadInv

(* The mark of a load is cleared.                                          *)
LEMMA AfterClear ==
  ASSUME TypeOK, LoadInv, NEW t \in Threads, NEW f \in Frame, Replaced(t, f),
         Top(t).at \in Loading, f.at \notin Loading, f.m = Top(t).m,
         initializing' = initializing \ {<<Top(t).m, Top(t).mod>>}, UNCHANGED modules
  PROVE  LoadInv'
<1> DEFINE n == Len(stack[t])
<1>1. /\ \A u \in Threads : DOMAIN stack'[u] = DOMAIN stack[u]
      /\ \A u \in Threads : \A i \in DOMAIN stack[u] :
           stack'[u][i] = stack[u][i] \/ (u = t /\ i = n)
      /\ n \in DOMAIN stack[t] /\ stack[t] # << >>
      /\ stack[t][n] = Top(t) /\ stack'[t][n] = f
  BY ReplacedFrames
<1>2. stack[t] \in Seq(Frame)
  BY DEF TypeOK, Frame
<1>3. \A u \in Threads : \A i \in DOMAIN stack[u] :
        stack[u][i].at \in Loading /\ stack[u][i].m = Top(t).m => u = t /\ i = n
  BY <1>1, <1>2, OnlyLoad
<1> HIDE DEF n
<1>4. f.at \notin Loading /\ f.at # "body"
  BY DEF Loading
<1>5. \A u \in Threads : \A i \in DOMAIN stack'[u] : stack'[u][i].at \in Loading =>
        /\ i \in DOMAIN stack[u] /\ stack'[u][i] = stack[u][i] /\ stack[u][i].m # Top(t).m
  BY <1>1, <1>3, <1>4
<1>6. ASSUME NEW u \in Threads, NEW i \in DOMAIN stack'[u]
      PROVE  LET g == stack'[u][i]
             IN  /\ g.at \in Loading => <<g.m, g.mod>> \in initializing'
                 /\ g.at = "body" => modules[g.m] = g.mod /\ g.mod # 0
  <2>1. CASE stack'[u][i].at \in Loading
    <3>1. i \in DOMAIN stack[u] /\ stack'[u][i] = stack[u][i] /\ stack[u][i].m # Top(t).m
      BY <1>5, <2>1
    <3>2. <<stack[u][i].m, stack[u][i].mod>> # <<Top(t).m, Top(t).mod>>
      BY <3>1
    <3> QED
      BY <2>1, <3>1, <3>2 DEF LoadInv
  <2>2. CASE stack'[u][i].at \notin Loading
    BY <2>2 DEF Loading
  <2> QED
    BY <2>1, <2>2
<1>7. ASSUME NEW load \in initializing'
      PROVE  \E u \in Threads : \E i \in Frames(u, load[1], Loading)' : stack'[u][i].mod = load[2]
  <2>1. PICK u \in Threads : \E i \in Frames(u, load[1], Loading) : stack[u][i].mod = load[2]
    BY DEF LoadInv
  <2>2. PICK i \in Frames(u, load[1], Loading) : stack[u][i].mod = load[2]
    BY <2>1
  <2>3. i \in DOMAIN stack[u] /\ stack[u][i].at \in Loading /\ stack[u][i].m = load[1]
    BY DEF Frames
  <2>4. ~ (u = t /\ i = n)
    <3>1. load = <<load[1], load[2]>> /\ load # <<Top(t).m, Top(t).mod>>
      BY DEF TypeOK
    <3> QED
      BY <1>1, <2>2, <2>3, <3>1
  <2>5. stack'[u][i] = stack[u][i] /\ i \in DOMAIN stack'[u]
    BY <1>1, <2>3, <2>4
  <2>6. i \in Frames(u, load[1], Loading)'
    BY <2>3, <2>5 DEF Frames
  <2> QED
    BY <2>2, <2>5, <2>6
<1>8. \A m \in Modules : \A u \in Threads, v \in Threads :
        \A i \in Frames(u, m, Loading)', j \in Frames(v, m, Loading)' : u = v /\ i = j
  <2>1. \A u \in Threads : \A m : Frames(u, m, Loading)' \subseteq Frames(u, m, Loading)
    BY <1>5 DEF Frames
  <2> QED
    BY <2>1 DEF LoadInv
<1> QED
  BY <1>6, <1>7, <1>8 DEF LoadInv

(* A load begins: nobody else loads the module.                            *)
LEMMA AfterBegin ==
  ASSUME TypeOK, LoadInv, NEW t \in Threads, NEW f \in Frame, Replaced(t, f),
         Top(t).at \notin Loading, f.at = "body", f.m = Top(t).m, f.mod # 0,
         \A u \in Threads : Frames(u, f.m, Loading) = {},
         modules' = [modules EXCEPT ![f.m] = f.mod],
         initializing' = initializing \union {<<f.m, f.mod>>}
  PROVE  LoadInv'
<1> DEFINE n == Len(stack[t])
<1>1. /\ \A u \in Threads : DOMAIN stack'[u] = DOMAIN stack[u]
      /\ \A u \in Threads : \A i \in DOMAIN stack[u] :
           stack'[u][i] = stack[u][i] \/ (u = t /\ i = n)
      /\ n \in DOMAIN stack[t] /\ stack[t] # << >>
      /\ stack[t][n] = Top(t) /\ stack'[t][n] = f
  BY ReplacedFrames
<1> HIDE DEF n
<1>2. f.at \in Loading
  BY DEF Loading
<1>3. \A u \in Threads : \A i \in DOMAIN stack[u] : stack[u][i].at \in Loading =>
        stack[u][i].m # f.m /\ ~ (u = t /\ i = n)
  BY <1>1 DEF Frames
<1>4. modules' \in [Modules -> Nat] /\ f.m \in Modules /\ modules'[f.m] = f.mod
  BY DEF TypeOK, Frame
<1>6. ASSUME NEW u \in Threads, NEW i \in DOMAIN stack'[u]
      PROVE  LET g == stack'[u][i]
             IN  /\ g.at \in Loading => <<g.m, g.mod>> \in initializing'
                 /\ g.at = "body" => modules'[g.m] = g.mod /\ g.mod # 0
  <2>1. CASE u = t /\ i = n
    BY <1>1, <1>4, <2>1
  <2>2. CASE ~ (u = t /\ i = n) /\ stack'[u][i].at \in Loading
    <3>1. i \in DOMAIN stack[u] /\ stack'[u][i] = stack[u][i] /\ stack[u][i].m # f.m
      BY <1>1, <1>3, <2>2
    <3>2. stack[u][i].m \in Modules
      <4>1. stack[u] \in Seq(Frame)
        BY DEF TypeOK, Frame
      <4>2. stack[u][i] \in Frame
        BY <3>1, <4>1
      <4> QED
        BY <4>2 DEF Frame
    <3>3. modules'[stack[u][i].m] = modules[stack[u][i].m]
      BY <3>1, <3>2 DEF TypeOK
    <3> QED
      BY <2>2, <3>1, <3>3 DEF LoadInv
  <2>3. CASE stack'[u][i].at \notin Loading
    BY <2>3 DEF Loading
  <2> QED
    BY <2>1, <2>2, <2>3
<1>7. ASSUME NEW load \in initializing'
      PROVE  \E u \in Threads : \E i \in Frames(u, load[1], Loading)' : stack'[u][i].mod = load[2]
  <2>1. CASE load = <<f.m, f.mod>>
    <3>1. n \in Frames(t, f.m, Loading)'
      BY <1>1, <1>2 DEF Frames
    <3> QED
      BY <1>1, <2>1, <3>1
  <2>2. CASE load \in initializing
    <3>1. PICK u \in Threads : \E i \in Frames(u, load[1], Loading) : stack[u][i].mod = load[2]
      BY <2>2 DEF LoadInv
    <3>2. PICK i \in Frames(u, load[1], Loading) : stack[u][i].mod = load[2]
      BY <3>1
    <3>3. i \in DOMAIN stack[u] /\ stack[u][i].at \in Loading /\ stack[u][i].m = load[1]
      BY DEF Frames
    <3>5. stack'[u][i] = stack[u][i] /\ i \in DOMAIN stack'[u]
      BY <1>1, <1>3, <3>3
    <3>6. i \in Frames(u, load[1], Loading)'
      BY <3>3, <3>5 DEF Frames
    <3> QED
      BY <3>2, <3>5, <3>6
  <2> QED
    BY <2>1, <2>2
<1>8. ASSUME NEW m \in Modules, NEW u \in Threads, NEW v \in Threads,
             NEW i \in Frames(u, m, Loading)', NEW j \in Frames(v, m, Loading)'
      PROVE  u = v /\ i = j
  <2>1. CASE m = f.m
    BY <1>1, <1>3, <2>1 DEF Frames
  <2>2. CASE m # f.m
    <3>1. i \in Frames(u, m, Loading) /\ j \in Frames(v, m, Loading)
      BY <1>1, <2>2 DEF Frames
    <3> QED
      BY <3>1 DEF LoadInv
  <2> QED
    BY <2>1, <2>2
<1> QED
  BY <1>6, <1>7, <1>8 DEF LoadInv

LEMMA FramesFinite ==
  ASSUME NEW t \in Threads, NEW m, NEW P, stack[t] \in Seq(Frame)
  PROVE  IsFiniteSet(Frames(t, m, P)) /\ Cardinality(Frames(t, m, P)) \in Nat
<1>1. DOMAIN stack[t] = 1 .. Len(stack[t]) /\ Len(stack[t]) \in Nat
  OBVIOUS
<1>2. IsFiniteSet(1 .. Len(stack[t]))
  BY <1>1, FS_Interval
<1>3. Frames(t, m, P) \subseteq 1 .. Len(stack[t])
  BY <1>1 DEF Frames
<1> QED
  BY <1>2, <1>3, FS_Subset, FS_CardinalityType

(* Who holds a module lock owns it.                                        *)
LEMMA HolderOwns ==
  ASSUME TypeOK, HoldInv, NEW t \in Threads, NEW i \in DOMAIN stack[t], stack[t][i].at \in Holding
  PROVE  /\ stack[t][i].m \in Modules
         /\ owner[stack[t][i].m] = t
<1> DEFINE m == stack[t][i].m
<1>1. stack[t] \in Seq(Frame)
  BY DEF TypeOK, Frame
<1>2. m \in Modules
  <2>1. stack[t][i] \in Frame
    BY <1>1
  <2> QED
    BY <2>1 DEF Frame
<1>3. i \in Frames(t, m, Holding)
  BY DEF Frames
<1>4. IsFiniteSet(Frames(t, m, Holding)) /\ Cardinality(Frames(t, m, Holding)) # 0
  BY <1>1, <1>3, FramesFinite, FS_EmptySet
<1>5. Cardinality(Frames(t, m, Holding)) = IF owner[m] = t THEN count[m] ELSE 0
  BY <1>2 DEF HoldInv
<1> QED
  BY <1>2, <1>4, <1>5

(* When a thread finds no module under the lock, nobody is loading it.      *)
LEMMA NotLoading ==
  ASSUME TypeOK, BodiesInv, HoldInv, LoadInv, NEW t \in Threads,
         stack[t] # << >>, Top(t).at = "got", modules[Top(t).m] = 0
  PROVE  \A u \in Threads : Frames(u, Top(t).m, Loading) = {}
<1> DEFINE n == Len(stack[t])
           m == Top(t).m
<1> SUFFICES ASSUME NEW u \in Threads, NEW i \in Frames(u, m, Loading) PROVE FALSE
  OBVIOUS
<1>0. stack[u] \in Seq(Frame) /\ stack[t] \in Seq(Frame)
  BY DEF TypeOK, Frame
<1>1. i \in DOMAIN stack[u] /\ stack[u][i].m = m /\ stack[u][i].at \in Loading
  BY DEF Frames
<1>2. stack[u][i].at \in Holding
  BY <1>1 DEF Loading, Holding
<1>3. owner[m] = u
  BY <1>1, <1>2, HolderOwns
<1>4. n \in DOMAIN stack[t] /\ stack[t][n] = Top(t)
  BY <1>0 DEF Top, Last
<1>5. owner[m] = t
  <2>1. stack[t][n].at \in Holding
    BY <1>4 DEF Holding
  <2> QED
    BY <1>4, <2>1, HolderOwns
<1>6. i # n
  BY <1>1, <1>3, <1>4, <1>5 DEF Loading
<1>7. i \in 1 .. n - 1
  <2>1. i \in 1 .. n /\ n \in Nat
    BY <1>0, <1>1, <1>3, <1>5
  <2> HIDE DEF n
  <2> QED
    BY <2>1, <1>6
<1>8. stack[u][i].at = "body"
  BY <1>3, <1>5, <1>7 DEF BodiesInv
<1>9. modules[stack[u][i].m] = stack[u][i].mod /\ stack[u][i].mod # 0
  BY <1>1, <1>8 DEF LoadInv
<1> QED
  BY <1>1, <1>9

LEMMA LoadingSteps ==
  ASSUME ImportLocksAssumption, TypeOK, BodiesInv, HoldInv, LoadInv, NEW t \in Threads,
         Load(t) \/ Finish(t) \/ Put(t) \/ Fail(t) \/ Clear(t)
  PROVE  TypeOK' /\ BodiesInv' /\ Plain(t) /\ LoadInv'
<1> DEFINE n == Len(stack[t])
<1>1. stack[t] # << >> /\ Top(t).at \in {"got", "body", "put", "clear"}
  BY DEF Load, Finish, Put, Fail, Clear, At
<1>2. Top(t) \in Frame /\ Top(t).m \in Modules /\ Top(t).mod \in Nat /\ Top(t).at \in Holding
  BY <1>1, TopType DEF Frame, Holding
<1>3. UNCHANGED <<lockVars, searchVars>>
  BY DEF Load, Finish, Put, Fail, Clear
<1>4. /\ modules' \in [Modules -> Nat] /\ loads' \in [Modules -> Nat]
      /\ initializing' \subseteq Modules \X (Nat \ {0})
  <2>1. modules \in [Modules -> Nat] /\ loads \in [Modules -> Nat]
        /\ initializing \subseteq Modules \X (Nat \ {0})
    BY DEF TypeOK
  <2>2. CASE Finish(t) \/ Put(t) \/ Fail(t) \/ Clear(t)
    BY <1>2, <2>1, <2>2 DEF Finish, Put, Fail, Clear
  <2>3. CASE Load(t)
    <3>1. CASE UNCHANGED moduleVars
      BY <2>1, <3>1 DEF moduleVars
    <3>2. ASSUME NEW m \in Modules, loads' = [loads EXCEPT ![m] = @ + 1],
                 modules' = [modules EXCEPT ![m] = loads'[m]],
                 initializing' = initializing \union {<<m, loads'[m]>>}
          PROVE  /\ modules' \in [Modules -> Nat] /\ loads' \in [Modules -> Nat]
                 /\ initializing' \subseteq Modules \X (Nat \ {0})
      <4>1. loads'[m] \in Nat \ {0} /\ loads' \in [Modules -> Nat]
        BY <2>1, <3>2
      <4> QED
        BY <2>1, <3>2, <4>1
    <3> QED
      BY <1>2, <2>3, <3>1, <3>2 DEF Load
  <2> QED
    BY <2>2, <2>3
<1>5. ASSUME NEW f \in Frame, Replaced(t, f) PROVE TypeOK'
  BY <1>3, <1>4, <1>5 DEF TypeOK, lockVars, searchVars, Frame, Replaced
<1>6. CASE Finish(t) \/ Put(t) \/ Fail(t)
  <2>1. PICK f \in Frame : /\ f.at \in {"put", "clear"} /\ f.m = Top(t).m /\ f.mod = Top(t).mod
                           /\ Replace(t, f)
    <3>1. \A p \in {"put", "clear"} : p \in Places
      BY DEF Places
    <3>2. \A p \in {"put", "clear"} :
            /\ [Top(t) EXCEPT !.at = p] \in Frame
            /\ [Top(t) EXCEPT !.at = p].m = Top(t).m /\ [Top(t) EXCEPT !.at = p].mod = Top(t).mod
            /\ [Top(t) EXCEPT !.at = p].at = p
      BY <1>2, <3>1 DEF Frame
    <3> QED
      BY <1>6, <3>2 DEF Finish, Put, Fail, Goto
  <2>2. f.at \in Holding
    BY <2>1 DEF Holding
  <2>3. BodiesInv' /\ Plain(t) /\ Replaced(t, f)
    BY <1>1, <1>2, <1>3, <2>1, <2>2, KeepFacts
  <2>4. Top(t).at \in Loading
    BY <1>6 DEF Finish, Put, Fail, At, Loading
  <2>5. UNCHANGED initializing
    BY <1>6 DEF Finish, Put, Fail
  <2>6. PICK x \in Nat : modules' = [modules EXCEPT ![Top(t).m] = x]
    BY <1>2, <1>6 DEF Finish, Put, Fail
  <2>7. LoadInv'
    BY <2>1, <2>3, <2>4, <2>5, <2>6, AfterBody
  <2> QED
    BY <1>5, <2>3, <2>7
<1>7. CASE Clear(t)
  <2> DEFINE f == [Top(t) EXCEPT !.at = "release"]
  <2>1. f \in Frame /\ f.m = Top(t).m /\ f.at = "release"
    BY <1>2 DEF Frame, Places
  <2>2. f.at \in Holding /\ f.at \notin Loading
    BY <2>1 DEF Holding, Loading
  <2>3. Replace(t, f) /\ Top(t).at \in Loading
    BY <1>7 DEF Clear, Goto, At, Loading
  <2> HIDE DEF f
  <2>4. BodiesInv' /\ Plain(t) /\ Replaced(t, f)
    BY <1>1, <1>2, <1>3, <2>1, <2>2, <2>3, KeepFacts
  <2>5. LoadInv'
    BY <1>7, <2>1, <2>2, <2>3, <2>4, AfterClear DEF Clear
  <2> QED
    BY <1>5, <2>1, <2>4, <2>5
<1>8. CASE Load(t)
  <2>0. Top(t).at = "got"
    BY <1>8 DEF Load, At
  <2>1. CASE Top(t).purpose = "load" /\ modules[Top(t).m] = 0
    <3> DEFINE m == Top(t).m
               f == [Top(t) EXCEPT !.mod = loads'[m], !.at = "body"]
    <3>1. /\ loads' = [loads EXCEPT ![m] = @ + 1]
          /\ modules' = [modules EXCEPT ![m] = loads'[m]]
          /\ initializing' = initializing \union {<<m, loads'[m]>>}
          /\ Replace(t, f)
      BY <1>8, <2>1 DEF Load
    <3>2. loads'[m] \in Nat /\ loads'[m] # 0
      BY <1>2, <3>1 DEF TypeOK
    <3>3. f \in Frame /\ f.m = m /\ f.mod = loads'[m] /\ f.at = "body"
      BY <1>2, <3>2 DEF Frame, Places
    <3>4. f.at \in Holding
      BY <3>3 DEF Holding
    <3> HIDE DEF f
    <3>5. BodiesInv' /\ Plain(t) /\ Replaced(t, f)
      BY <1>1, <1>2, <1>3, <3>1, <3>3, <3>4, KeepFacts
    <3>6. \A u \in Threads : Frames(u, m, Loading) = {}
      BY <1>1, <2>0, <2>1, NotLoading
    <3>7. \A u \in Threads : Frames(u, f.m, Loading) = {}
      BY <3>3, <3>6
    <3>8. Top(t).at \notin Loading
      BY <2>0 DEF Loading
    <3>9. /\ modules' = [modules EXCEPT ![f.m] = f.mod]
          /\ initializing' = initializing \union {<<f.m, f.mod>>} /\ f.mod # 0
      BY <3>1, <3>2, <3>3
    <3>10. LoadInv'
      BY <3>3, <3>5, <3>7, <3>8, <3>9, AfterBegin
    <3> QED
      BY <1>5, <3>3, <3>5, <3>10
  <2>2. CASE ~ (Top(t).purpose = "load" /\ modules[Top(t).m] = 0)
    <3>1. PICK f \in Frame : f.m = Top(t).m /\ f.at = "release" /\ Replace(t, f)
      <4>1. /\ [Top(t) EXCEPT !.at = "release"] \in Frame
            /\ [Top(t) EXCEPT !.at = "release"].m = Top(t).m
            /\ [Top(t) EXCEPT !.at = "release"].at = "release"
        BY <1>2 DEF Frame, Places
      <4> DEFINE mod == modules[Top(t).m]
      <4>2. mod \in Nat
        BY <1>2 DEF TypeOK
      <4> HIDE DEF mod
      <4>3. /\ [Top(t) EXCEPT !.mod = mod, !.at = "release", !.purpose = "found"] \in Frame
            /\ [Top(t) EXCEPT !.mod = mod, !.at = "release", !.purpose = "found"].m = Top(t).m
            /\ [Top(t) EXCEPT !.mod = mod, !.at = "release", !.purpose = "found"].at = "release"
        <5>1. "release" \in Places /\ "found" \in Purposes
          BY DEF Places, Purposes
        <5> QED
          BY <1>2, <4>2, <5>1 DEF Frame
      <4> QED
        BY <1>8, <2>2, <4>1, <4>3 DEF Load, Goto, mod
    <3>2. f.at \in Holding /\ f.at \notin Loading /\ Top(t).at \notin Loading
      BY <2>0, <3>1 DEF Holding, Loading
    <3>3. BodiesInv' /\ Plain(t) /\ Replaced(t, f) /\ SameLoads(t)
      BY <1>1, <1>2, <1>3, <3>1, <3>2, KeepFacts
    <3>4. UNCHANGED moduleVars
      BY <1>8, <2>2 DEF Load
    <3>5. TypeOK'
      BY <1>5, <3>3
    <3>6. NoLoad(t)
      BY <3>3, <3>4 DEF NoLoad, Plain
    <3> QED
      BY <3>3, <3>5, <3>6, NoLoadKeepsLoad
  <2> QED
    BY <2>1, <2>2
<1> QED
  BY <1>6, <1>7, <1>8

-----------------------------------------------------------------------------
(* The steps of an acquisition.                                            *)

(* A thread that acquires a lock and does not hold it yet.                 *)
LEMMA AcquiringFacts ==
  ASSUME TypeOK, BodiesInv, NEW t \in Threads, stack[t] # << >>, Top(t).at \in Acquiring,
         NEW p \in Acquiring \union {"check"}, Goto(t, p)
  PROVE  /\ stack' \in [Threads -> Seq(Frame)] /\ Others(t) /\ BodiesInv'
         /\ SameFrames(t, Holding) /\ SameLoads(t)
         /\ stack'[t] # << >> /\ Top(t)'.m = Top(t).m /\ \A q : At(t, q)' <=> q = p
<1> DEFINE f == [Top(t) EXCEPT !.at = p]
<1>1. f \in Frame /\ f.m = Top(t).m /\ f.at = p
  <2>1. p \in Places
    BY DEF Acquiring, Places
  <2> QED
    BY <2>1, TopType DEF Frame
<1>2. Replace(t, f)
  BY DEF Goto
<1> HIDE DEF f
<1>3. Replaced(t, f) /\ stack[t] \in Seq(Frame)
  BY <1>1, <1>2, ReplaceFacts DEF TypeOK, Frame
<1>4. f.at \notin Holding /\ f.at \notin Loading /\ Top(t).at \notin Holding /\ Top(t).at \notin Loading
  BY <1>1 DEF Acquiring, Holding, Loading
<1> QED
  BY <1>1, <1>3, <1>4, WhenReplaced DEF Replaced

LEMMA GivingUpFacts ==
  ASSUME TypeOK, BodiesInv, NEW t \in Threads, stack[t] # << >>, Top(t).at \in Acquiring, Pop(t)
  PROVE  /\ stack' \in [Threads -> Seq(Frame)] /\ Others(t) /\ BodiesInv'
         /\ SameFrames(t, Holding) /\ SameLoads(t) /\ Off(t)'
<1>1. Popped(t) /\ stack[t] \in Seq(Frame)
  BY PopFacts DEF TypeOK, Frame
<1>2. Top(t).at \notin Holding /\ Top(t).at \notin Loading
  BY DEF Acquiring, Holding, Loading
<1> QED
  BY <1>1, <1>2, WhenPopped DEF Popped

LEMMA PassingStays ==
  ASSUME NEW t \in Threads, Others(t), ~ At(t, "pass"), ~ At(t, "pass")'
  PROVE  \A m : Passing(m)' = Passing(m)
BY OthersStay DEF Passing

(* A thread that searches changes only what it knows of others.            *)
LEMMA SearchingFacts ==
  ASSUME Inv, NEW t \in Threads, Searching(t), NEW p \in {"search", "peek"}, Goto(t, p),
         UNCHANGED <<moduleVars, lockVars>>,
         NEW c \in Threads \union {NULL}, p = "peek" => c \in Threads, candidate' = [candidate EXCEPT ![t] = c],
         NEW known \in SUBSET Threads, seen' = [seen EXCEPT ![t] = known]
  PROVE  /\ TypeOK' /\ BodiesInv' /\ HoldInv' /\ LoadInv' /\ SearchInv' /\ WakeupInv'
         /\ \A u \in Threads : HeldUpBy(u)' = HeldUpBy(u) /\ (Blocked(u)' <=> Blocked(u))
         /\ \A u \in Threads \ {t} : /\ candidate'[u] = candidate[u] /\ seen'[u] = seen[u]
                                     /\ \A q : At(u, q)' <=> At(u, q)
         /\ candidate'[t] = c /\ seen'[t] = known
         /\ \A q : At(t, q)' <=> q = p
<1> USE DEF Inv
<1>1. stack[t] # << >> /\ Top(t).at \in {"search", "peek"} /\ Top(t) \in Frame
  BY TopType DEF Searching, At
<1>2. /\ stack' \in [Threads -> Seq(Frame)] /\ Others(t) /\ BodiesInv'
      /\ SameFrames(t, Holding) /\ SameLoads(t)
      /\ stack'[t] # << >> /\ Top(t)'.m = Top(t).m /\ \A q : At(t, q)' <=> q = p
  <2>1. Top(t).at \in Acquiring /\ p \in Acquiring \union {"check"}
    BY <1>1 DEF Acquiring
  <2> QED
    BY <1>1, <2>1, AcquiringFacts
<1>3. TypeOK'
  BY <1>1, <1>2 DEF TypeOK, Frame, moduleVars, lockVars
<1>4. HoldInv'
  BY <1>2, PlainKeepsHold DEF lockVars
<1>5. LoadInv'
  BY <1>2, <1>3, NoLoadKeepsLoad DEF NoLoad
<1>6. \A u \in Threads \ {t} : /\ Top(u)' = Top(u) /\ (Searching(u)' <=> Searching(u))
                               /\ (Blocked(u)' <=> Blocked(u))
                               /\ \A q : At(u, q)' <=> At(u, q)
  BY <1>2, OthersStay
<1>7. Searching(t) /\ Searching(t)'
  BY <1>2 DEF Searching
<1>8. /\ \A u \in Threads \ {t} : candidate'[u] = candidate[u] /\ seen'[u] = seen[u]
      /\ candidate'[t] = c /\ seen'[t] = known
  BY DEF TypeOK
<1>9. SearchInv'
  BY <1>2, <1>6, <1>7, <1>8 DEF SearchInv, lockVars
<1>10. WakeupInv'
  <2>1. ~ At(t, "pass") /\ ~ At(t, "pass")'
    BY <1>1, <1>2 DEF At
  <2>2. \A m : Passing(m)' = Passing(m)
    BY <1>2, <2>1, PassingStays
  <2> QED
    BY <2>2 DEF WakeupInv, lockVars
<1>11. \A u \in Threads : HeldUpBy(u)' = HeldUpBy(u) /\ (Blocked(u)' <=> Blocked(u))
  BY <1>2, <1>6, <1>7 DEF HeldUpBy, lockVars, Blocked
<1> QED
  BY <1>2, <1>3, <1>4, <1>5, <1>6, <1>8, <1>9, <1>10, <1>11

(* It looks at its candidate: the circle goes on behind the candidate.     *)
LEMMA FollowStep ==
  ASSUME ImportLocksAssumption, Inv, NEW t \in Threads, Follow(t)
  PROVE  Inv'
<1> USE DEF Inv
<1> DEFINE c == candidate[t]
<1>1. /\ At(t, "search") /\ Goto(t, "peek") /\ UNCHANGED <<moduleVars, lockVars, candidate>>
      /\ seen' = [seen EXCEPT ![t] = seen[t] \union {c}]
      /\ c \in Threads \ (seen[t] \union {t})
  BY DEF Follow
<1>2. /\ TypeOK' /\ BodiesInv' /\ HoldInv' /\ LoadInv' /\ SearchInv' /\ WakeupInv'
      /\ \A u \in Threads : HeldUpBy(u)' = HeldUpBy(u) /\ (Blocked(u)' <=> Blocked(u))
      /\ \A u \in Threads \ {t} : /\ candidate'[u] = candidate[u] /\ seen'[u] = seen[u]
                                  /\ \A q : At(u, q)' <=> At(u, q)
      /\ candidate'[t] = c /\ seen'[t] = seen[t] \union {c}
      /\ \A q : At(t, q)' <=> q = "peek"
  <2>1. Searching(t) /\ "peek" \in {"search", "peek"} /\ c \in Threads \union {NULL}
        /\ candidate' = [candidate EXCEPT ![t] = c] /\ UNCHANGED <<moduleVars, lockVars>>
    BY <1>1 DEF Searching, TypeOK
  <2>2. seen[t] \union {c} \in SUBSET Threads
    BY <1>1 DEF TypeOK
  <2>3. c \in Threads
    BY <1>1
  <2> HIDE DEF c
  <2> QED
    BY <1>1, <2>1, <2>2, <2>3, SearchingFacts
<1>3. ASSUME NEW S \in SUBSET Threads, Circular(S)'
       PROVE  \E w \in S : Finds(w, S)'
  <2>2. Circular(S)
    BY <1>3, <1>2 DEF Circular
  <2>3. PICK w \in S : Finds(w, S)
    BY <2>2 DEF CircleInv
  <2>4. CASE w # t
    <3>1. /\ At(w, "search")' <=> At(w, "search")
          /\ At(w, "peek")' <=> At(w, "peek")
          /\ candidate'[w] = candidate[w] /\ seen'[w] = seen[w]
      BY <1>2, <2>4
    <3> QED
      BY <1>2, <2>3, <3>1, StillFinds
  <2>5. CASE w = t
    <3>1. PICK Z \in SUBSET S : \E d \in [Z -> SUBSET Threads] :
            /\ t \in Z /\ Z \intersect seen[t] = {}
            /\ \A u \in Z \ {t} :
                 /\ HeldUpBy(u) \in Z
                 /\ d[HeldUpBy(u)] \subseteq d[u] /\ d[HeldUpBy(u)] # d[u]
            /\ c \in Z
      <4>1. Finds(t, S) /\ At(t, "search") /\ ~ At(t, "peek")
        BY <1>1, <2>3, <2>5 DEF At
      <4> QED
        BY <4>1 DEF Finds
    <3>2. PICK d \in [Z -> SUBSET Threads] :
            /\ t \in Z /\ Z \intersect seen[t] = {}
            /\ \A u \in Z \ {t} :
                 /\ HeldUpBy(u) \in Z
                 /\ d[HeldUpBy(u)] \subseteq d[u] /\ d[HeldUpBy(u)] # d[u]
            /\ c \in Z
      BY <3>1
    <3> DEFINE Y == {t} \union {u \in Z : d[u] \subseteq d[c] /\ d[u] # d[c]}
               e == [u \in Y |-> d[u]]
    <3>3. Y \in SUBSET S /\ t \in Y /\ c # t /\ c \in S /\ c \notin Y /\ Y \subseteq Z
      BY <1>1, <3>2
    <3>4. e \in [Y -> SUBSET Threads]
      BY <3>2, <3>3
    <3>5. Y \intersect seen'[t] = {}
      BY <1>2, <3>2, <3>3
    <3>6. ASSUME NEW u \in Y \ {t}
          PROVE  /\ HeldUpBy(u) \in Y
                 /\ e[HeldUpBy(u)] \subseteq e[u] /\ e[HeldUpBy(u)] # e[u]
      <4>1. HeldUpBy(u) \in Z /\ d[HeldUpBy(u)] \subseteq d[u] /\ d[HeldUpBy(u)] # d[u]
        BY <3>2
      <4>2. HeldUpBy(u) \in Y
        BY <4>1
      <4> QED
        BY <4>1, <4>2
    <3>7. HeldUpBy(c) \in Y
      BY <3>2, <3>3
    <3>8. /\ At(t, "peek")' /\ candidate'[t] = c /\ HeldUpBy(candidate[t])' \in Y
      BY <1>1, <1>2, <1>2, <3>7
    <3> HIDE DEF Y, e
    <3>9. \A u \in Y \ {t} : /\ HeldUpBy(u)' \in Y
                             /\ e[HeldUpBy(u)'] \subseteq e[u] /\ e[HeldUpBy(u)'] # e[u]
      BY <1>2, <3>3, <3>6
    <3>10. Finds(t, S)'
      BY <3>3, <3>4, <3>5, <3>8, <3>9 DEF Finds
    <3> QED
      BY <2>5, <3>10
  <2> QED
    BY <2>4, <2>5
<1> QED
  BY <1>2, <1>3 DEF CircleInv

(* It goes on to the owner of the lock that its candidate wants.           *)
LEMMA PeekStep ==
  ASSUME ImportLocksAssumption, Inv, NEW t \in Threads, Peek(t)
  PROVE  Inv'
<1> USE DEF Inv
<1> DEFINE m == BlockingOn(candidate[t])
           c == IF m = NULL THEN NULL ELSE owner[m]
<1>1. /\ At(t, "peek") /\ Goto(t, "search") /\ UNCHANGED <<moduleVars, lockVars, seen>>
      /\ candidate' = [candidate EXCEPT ![t] = c]
  BY DEF Peek
<1>2. /\ TypeOK' /\ BodiesInv' /\ HoldInv' /\ LoadInv' /\ SearchInv' /\ WakeupInv'
      /\ \A u \in Threads : HeldUpBy(u)' = HeldUpBy(u) /\ (Blocked(u)' <=> Blocked(u))
      /\ \A u \in Threads \ {t} : /\ candidate'[u] = candidate[u] /\ seen'[u] = seen[u]
                                  /\ \A q : At(u, q)' <=> At(u, q)
      /\ candidate'[t] = c /\ seen'[t] = seen[t]
      /\ \A q : At(t, q)' <=> q = "search"
  <2>1. Searching(t) /\ "search" \in {"search", "peek"}
        /\ seen' = [seen EXCEPT ![t] = seen[t]] /\ seen[t] \in SUBSET Threads
    BY <1>1 DEF Searching, TypeOK
  <2>2. c \in Threads \union {NULL}
    <3>1. candidate[t] \in Threads
      BY <1>1 DEF SearchInv
    <3>2. m # NULL => m \in Modules
      <4>1. m # NULL => stack[candidate[t]] # << >> /\ m = Top(candidate[t]).m
        BY DEF BlockingOn
      <4> QED
        BY <3>1, <4>1, TopType DEF Frame
    <3> QED
      BY <3>2 DEF TypeOK
  <2>3. UNCHANGED <<moduleVars, lockVars>>
    BY <1>1
  <2> HIDE DEF c
  <2> QED
    BY <1>1, <2>1, <2>2, <2>3, SearchingFacts
<1>3. ASSUME NEW S \in SUBSET Threads, Circular(S)'
      PROVE  \E w \in S : Finds(w, S)'
  <2>2. Circular(S)
    BY <1>3, <1>2 DEF Circular
  <2>3. PICK w \in S : Finds(w, S)
    BY <2>2 DEF CircleInv
  <2>4. CASE w # t
    <3>1. /\ At(w, "search")' <=> At(w, "search")
          /\ At(w, "peek")' <=> At(w, "peek")
          /\ candidate'[w] = candidate[w] /\ seen'[w] = seen[w]
      BY <1>2, <2>4
    <3> QED
      BY <1>2, <2>3, <3>1, StillFinds
  <2>5. CASE w = t
    <3> DEFINE x == candidate[t]
    <3>1. PICK Z \in SUBSET S : \E d \in [Z -> SUBSET Threads] :
            /\ t \in Z /\ Z \intersect seen[t] = {}
            /\ \A u \in Z \ {t} :
                 /\ HeldUpBy(u) \in Z
                 /\ d[HeldUpBy(u)] \subseteq d[u] /\ d[HeldUpBy(u)] # d[u]
            /\ x \in S /\ HeldUpBy(x) \in Z
      <4>1. Finds(t, S) /\ At(t, "peek") /\ ~ At(t, "search")
        BY <1>1, <2>3, <2>5 DEF At
      <4> QED
        BY <4>1 DEF Finds
    <3>2. PICK d \in [Z -> SUBSET Threads] :
            /\ t \in Z /\ Z \intersect seen[t] = {}
            /\ \A u \in Z \ {t} :
                 /\ HeldUpBy(u) \in Z
                 /\ d[HeldUpBy(u)] \subseteq d[u] /\ d[HeldUpBy(u)] # d[u]
            /\ x \in S /\ HeldUpBy(x) \in Z
      BY <3>1
    <3>3. c = HeldUpBy(x)
      <4>1. Blocked(x) /\ stack[x] # << >> /\ Top(x).at \in Acquiring
        BY <2>2, <3>2 DEF Circular, Blocked, Searching, At, Acquiring
      <4>2. Top(x).m \in Modules
        BY <3>2, <4>1, TopType DEF Frame
      <4>3. m = Top(x).m /\ m # NULL
        BY <4>1, <4>2, ImportLocksAssumption DEF BlockingOn, ImportLocksAssumption
      <4> QED
        BY <4>3 DEF HeldUpBy
    <3>4. /\ At(t, "search")' /\ candidate'[t] \in Z
          /\ \A u \in Z \ {t} :
               /\ HeldUpBy(u)' \in Z
               /\ d[HeldUpBy(u)'] \subseteq d[u] /\ d[HeldUpBy(u)'] # d[u]
          /\ Z \intersect seen'[t] = {}
      BY <1>2, <3>2, <3>3
    <3>5. Finds(t, S)'
      BY <3>2, <3>4 DEF Finds
    <3> QED
      BY <2>5, <3>5
  <2> QED
    BY <2>4, <2>5
<1> QED
  BY <1>2, <1>3 DEF CircleInv

(* The other steps of an acquisition but its last one.                     *)
LEMMA UnheldFacts ==
  ASSUME Inv, NEW t \in Threads, stack[t] # << >>, Top(t).at \in Acquiring,
         Pop(t) \/ \E p \in Acquiring \union {"check"} : Goto(t, p),
         UNCHANGED <<modules, loads, initializing, owner, count>>,
         waiters' \in [Modules -> Nat], wakeup' \in [Modules -> BOOLEAN],
         candidate' \in [Threads -> Threads \union {NULL}], seen' \in [Threads -> SUBSET Threads]
  PROVE  TypeOK' /\ BodiesInv' /\ HoldInv' /\ LoadInv' /\ Others(t)
<1> USE DEF Inv
<1>1. /\ stack' \in [Threads -> Seq(Frame)] /\ Others(t) /\ BodiesInv'
      /\ SameFrames(t, Holding) /\ SameLoads(t)
  BY AcquiringFacts, GivingUpFacts
<1>2. TypeOK'
  BY <1>1 DEF TypeOK, Frame
<1>3. HoldInv'
  BY <1>1, PlainKeepsHold
<1>4. LoadInv'
  BY <1>1, <1>2, NoLoadKeepsLoad DEF NoLoad, moduleVars
<1> QED
  BY <1>1, <1>2, <1>3, <1>4

LEMMA DeadlockStep ==
  ASSUME ImportLocksAssumption, Inv, NEW t \in Threads, Deadlock(t)
  PROVE  Inv'
<1> USE DEF Inv
<1>1. /\ stack[t] # << >> /\ Top(t).at = "search"
      /\ Pop(t) \/ Goto(t, "check")
      /\ UNCHANGED <<moduleVars, lockVars>>
      /\ candidate' = [candidate EXCEPT ![t] = NULL] /\ seen' = [seen EXCEPT ![t] = {}]
  BY DEF Deadlock, EndSearch, At
<1>2. /\ UNCHANGED <<modules, loads, initializing, owner, count, waiters, wakeup>>
      /\ waiters' \in [Modules -> Nat] /\ wakeup' \in [Modules -> BOOLEAN]
      /\ candidate' \in [Threads -> Threads \union {NULL}] /\ seen' \in [Threads -> SUBSET Threads]
  BY <1>1 DEF moduleVars, lockVars, TypeOK
<1>3. Top(t).at \in Acquiring /\ "check" \in Acquiring \union {"check"}
  BY <1>1 DEF Acquiring
<1>4. TypeOK' /\ BodiesInv' /\ HoldInv' /\ LoadInv' /\ Others(t)
  BY <1>1, <1>2, <1>3, UnheldFacts
<1>5. Off(t)' /\ ~ Blocked(t)' /\ ~ Searching(t)' /\ ~ At(t, "peek")'
  <2>1. CASE Pop(t)
    BY <1>1, <1>3, <2>1, GivingUpFacts DEF Off, Blocked, Searching
  <2>2. CASE Goto(t, "check")
    <3>1. \A q : At(t, q)' <=> q = "check"
      BY <1>1, <1>3, <2>2, AcquiringFacts
    <3> QED
      BY <3>1 DEF Off, Blocked, Searching
  <2> QED
    BY <1>1, <2>1, <2>2
<1>6. \A u \in Threads \ {t} : Top(u)' = Top(u) /\ (Searching(u)' <=> Searching(u))
                               /\ (At(u, "peek")' <=> At(u, "peek"))
  BY <1>4, OthersStay
<1>7. /\ \A u \in Threads \ {t} : candidate'[u] = candidate[u] /\ seen'[u] = seen[u]
      /\ seen'[t] = {}
  BY <1>1 DEF TypeOK
<1>8. SearchInv'
  BY <1>2, <1>5, <1>6, <1>7 DEF SearchInv
<1>9. WakeupInv'
  <2>1. ~ At(t, "pass") /\ ~ At(t, "pass")'
    BY <1>1, <1>5 DEF At, Off
  <2>2. \A m : Passing(m)' = Passing(m)
    BY <1>4, <2>1, PassingStays
  <2> QED
    BY <1>2, <2>2 DEF WakeupInv
<1>10. CircleInv'
  BY <1>2, <1>4, <1>5, <1>7, AwayKeepsCircle
<1> QED
  BY <1>4, <1>8, <1>9, <1>10

(* No deadlock was found: the thread is the witness of no circle.          *)
LEMMA QueueUpStep ==
  ASSUME ImportLocksAssumption, Inv, NEW t \in Threads, QueueUp(t)
  PROVE  Inv'
<1> USE DEF Inv
<1>m. PICK m \in Modules : m = Top(t).m
  BY TopType DEF QueueUp, NoDeadlock, At, Frame
<1>1. /\ stack[t] # << >> /\ Top(t).at = "search" /\ At(t, "search") /\ Goto(t, "wait")
      /\ UNCHANGED <<moduleVars, owner, count>>
      /\ candidate' = [candidate EXCEPT ![t] = NULL] /\ seen' = [seen EXCEPT ![t] = {}]
      /\ \/ wakeup[m] /\ UNCHANGED <<wakeup, waiters>>
         \/ /\ ~ wakeup[m] /\ wakeup' = [wakeup EXCEPT ![m] = TRUE]
            /\ waiters' = [waiters EXCEPT ![m] = @ + 1]
  BY <1>m DEF QueueUp, NoDeadlock, EndSearch, At
<1>2. /\ UNCHANGED <<modules, loads, initializing, owner, count>>
      /\ waiters' \in [Modules -> Nat] /\ wakeup' \in [Modules -> BOOLEAN]
      /\ candidate' \in [Threads -> Threads \union {NULL}] /\ seen' \in [Threads -> SUBSET Threads]
  <2>1. /\ waiters \in [Modules -> Nat] /\ wakeup \in [Modules -> BOOLEAN]
        /\ candidate \in [Threads -> Threads \union {NULL}] /\ seen \in [Threads -> SUBSET Threads]
    BY DEF TypeOK
  <2>2. candidate' \in [Threads -> Threads \union {NULL}] /\ seen' \in [Threads -> SUBSET Threads]
    BY <1>1, <2>1
  <2>3. wakeup' \in [Modules -> BOOLEAN]
    BY <1>1, <2>1
  <2>4. waiters' \in [Modules -> Nat]
    BY <1>1, <2>1
  <2> QED
    BY <1>1, <2>2, <2>3, <2>4 DEF moduleVars
<1>3. Top(t).at \in Acquiring /\ "wait" \in Acquiring \union {"check"}
  BY <1>1 DEF Acquiring
<1>4. TypeOK' /\ BodiesInv' /\ HoldInv' /\ LoadInv' /\ Others(t)
  BY <1>1, <1>2, <1>3, UnheldFacts
<1>5. Top(t)'.m = m /\ \A q : At(t, q)' <=> q = "wait"
  BY <1>1, <1>3, <1>m, AcquiringFacts
<1>6. \A u \in Threads \ {t} : Top(u)' = Top(u) /\ (Searching(u)' <=> Searching(u))
                               /\ (Blocked(u)' <=> Blocked(u))
                               /\ \A q : At(u, q)' <=> At(u, q)
  BY <1>4, OthersStay
<1>7. /\ \A u \in Threads \ {t} : candidate'[u] = candidate[u] /\ seen'[u] = seen[u]
      /\ seen'[t] = {}
  BY <1>1 DEF TypeOK
<1>8. SearchInv'
  BY <1>2, <1>5, <1>6, <1>7, <1>m DEF SearchInv, Searching
<1>9. WakeupInv'
  <2>1. ~ At(t, "pass") /\ ~ At(t, "pass")'
    BY <1>1, <1>5 DEF At
  <2>2. \A k : Passing(k)' = Passing(k)
    BY <1>4, <2>1, PassingStays
  <2>3. count[m] > 0
    BY <1>1, <1>m DEF SearchInv, Searching
  <2>4. CASE wakeup[m]
    <3>1. UNCHANGED <<wakeup, waiters>>
      BY <1>1, <2>4
    <3> QED
      BY <1>2, <2>2, <3>1 DEF WakeupInv
  <2>5. CASE ~ wakeup[m]
    <3>1. /\ wakeup'[m] /\ waiters'[m] = waiters[m] + 1
          /\ \A k \in Modules \ {m} : wakeup'[k] = wakeup[k] /\ waiters'[k] = waiters[k]
      <4>1. waiters \in [Modules -> Nat] /\ wakeup \in [Modules -> BOOLEAN]
        BY DEF TypeOK
      <4>2. /\ wakeup' = [wakeup EXCEPT ![m] = TRUE]
            /\ waiters' = [waiters EXCEPT ![m] = @ + 1]
        BY <1>1, <2>5
      <4>3. waiters'[m] = waiters[m] + 1 /\ \A k \in Modules \ {m} : waiters'[k] = waiters[k]
        BY <4>1, <4>2
      <4>4. wakeup'[m] /\ \A k \in Modules \ {m} : wakeup'[k] = wakeup[k]
        BY <4>1, <4>2
      <4> QED
        BY <4>3, <4>4
    <3>2. waiters[m] = 0 /\ Passing(m) = {}
      BY <1>m, <2>5 DEF WakeupInv
    <3> QED
      BY <1>2, <2>2, <2>3, <3>1, <3>2 DEF WakeupInv
  <2> QED
    BY <2>4, <2>5
<1>10. ASSUME NEW S \in SUBSET Threads, Circular(S)'
       PROVE  \E w \in S : Finds(w, S)'
  <2>1. \A u \in Threads : HeldUpBy(u)' = HeldUpBy(u) /\ (Blocked(u)' <=> Blocked(u))
    BY <1>1, <1>2, <1>5, <1>6, <1>m DEF HeldUpBy, Blocked, Searching
  <2>2. Circular(S)
    BY <1>10, <2>1 DEF Circular
  <2>3. PICK w \in S : Finds(w, S)
    BY <2>2 DEF CircleInv
  <2>4. CASE w # t
    <3>1. /\ At(w, "search")' <=> At(w, "search")
          /\ At(w, "peek")' <=> At(w, "peek")
          /\ candidate'[w] = candidate[w] /\ seen'[w] = seen[w]
      BY <1>6, <1>7, <2>4
    <3> QED
      BY <2>1, <2>3, <3>1, StillFinds
  <2>5. CASE w = t
    <3>1. candidate[t] \in S /\ candidate[t] \notin seen[t]
      BY <1>1, <2>3, <2>5 DEF Finds, At
    <3>2. candidate[t] # NULL
      BY <3>1, ImportLocksAssumption DEF ImportLocksAssumption
    <3>3. BlockingOn(candidate[t]) # NULL
      <4> DEFINE x == candidate[t]
      <4>1. stack[x] # << >> /\ Top(x).at \in Acquiring
        BY <2>2, <3>1 DEF Circular, Blocked, Searching, At, Acquiring
      <4>2. Top(x).m \in Modules
        BY <3>1, <4>1, TopType DEF Frame
      <4> QED
        BY <4>1, <4>2, ImportLocksAssumption DEF BlockingOn, ImportLocksAssumption
    <3> QED
      BY <3>1, <3>2, <3>3 DEF QueueUp, NoDeadlock
  <2> QED
    BY <2>4, <2>5
<1>11. CircleInv'
  BY <1>10 DEF CircleInv
<1> QED
  BY <1>4, <1>8, <1>9, <1>11

(* A waiter is woken and takes the wakeup, to pass it on.                  *)
LEMMA WakeupAcquireStep ==
  ASSUME ImportLocksAssumption, Inv, NEW t \in Threads, WakeupAcquire(t)
  PROVE  Inv'
<1> USE DEF Inv
<1>m. PICK m \in Modules : m = Top(t).m
  BY TopType DEF WakeupAcquire, At, Frame
<1>1. /\ stack[t] # << >> /\ Top(t).at = "wait" /\ Goto(t, "pass")
      /\ UNCHANGED <<moduleVars, owner, count, waiters, candidate, seen>>
      /\ ~ wakeup[m] /\ wakeup' = [wakeup EXCEPT ![m] = TRUE]
  BY <1>m DEF WakeupAcquire, searchVars, At
<1>2. /\ UNCHANGED <<modules, loads, initializing, owner, count, waiters, candidate, seen>>
      /\ waiters' \in [Modules -> Nat] /\ wakeup' \in [Modules -> BOOLEAN]
      /\ candidate' \in [Threads -> Threads \union {NULL}] /\ seen' \in [Threads -> SUBSET Threads]
  BY <1>1 DEF moduleVars, TypeOK
<1>3. Top(t).at \in Acquiring /\ "pass" \in Acquiring \union {"check"}
  BY <1>1 DEF Acquiring
<1>4. TypeOK' /\ BodiesInv' /\ HoldInv' /\ LoadInv' /\ Others(t)
  BY <1>1, <1>2, <1>3, UnheldFacts
<1>5. Top(t)'.m = m /\ \A q : At(t, q)' <=> q = "pass"
  BY <1>1, <1>3, <1>m, AcquiringFacts
<1>6. \A u \in Threads \ {t} : Top(u)' = Top(u) /\ (Searching(u)' <=> Searching(u))
                               /\ \A q : At(u, q)' <=> At(u, q)
  BY <1>4, OthersStay
<1>7. ~ Searching(t) /\ ~ Searching(t)' /\ ~ Blocked(t)' /\ ~ At(t, "peek")'
  BY <1>1, <1>5 DEF Searching, Blocked, At
<1>8. SearchInv'
  BY <1>2, <1>6, <1>7 DEF SearchInv
<1>9. WakeupInv'
  <2>1. Passing(m)' = Passing(m) \union {t} /\ \A k : k # m => Passing(k)' = Passing(k)
    <3>1. ~ At(t, "pass") /\ At(t, "pass")'
      BY <1>1, <1>5 DEF At
    <3> QED
      BY <1>5, <1>6, <1>m, <3>1 DEF Passing
  <2>2. /\ wakeup'[m] /\ \A k \in Modules \ {m} : wakeup'[k] = wakeup[k]
    BY <1>1, <1>m DEF TypeOK
  <2>3. waiters[m] = 0 /\ Passing(m) = {}
    BY <1>1, <1>m DEF WakeupInv
  <2>4. Passing(m)' = {t}
    BY <2>1, <2>3
  <2>5. wakeup'[m] /\ waiters'[m] = 0 /\ \E u \in Threads : Passing(m)' = {u}
    BY <1>2, <2>2, <2>3, <2>4
  <2>6. ASSUME NEW k \in Modules \ {m}
        PROVE  wakeup'[k] = wakeup[k] /\ Passing(k)' = Passing(k)
    BY <2>1, <2>2
  <2>7. /\ \/ ~ wakeup'[m] /\ waiters'[m] = 0 /\ Passing(m)' = {}
           \/ wakeup'[m] /\ waiters'[m] = 1 /\ Passing(m)' = {}
           \/ wakeup'[m] /\ waiters'[m] = 0 /\ \E u \in Threads : Passing(m)' = {u}
        /\ ~ (waiters'[m] > 0)
    BY <2>5
  <2>8. ASSUME NEW k \in Modules \ {m}
        PROVE  /\ \/ ~ wakeup'[k] /\ waiters'[k] = 0 /\ Passing(k)' = {}
                  \/ wakeup'[k] /\ waiters'[k] = 1 /\ Passing(k)' = {}
                  \/ wakeup'[k] /\ waiters'[k] = 0 /\ \E u \in Threads : Passing(k)' = {u}
               /\ waiters'[k] > 0 => count'[k] > 0
    <3>1. /\ \/ ~ wakeup[k] /\ waiters[k] = 0 /\ Passing(k) = {}
             \/ wakeup[k] /\ waiters[k] = 1 /\ Passing(k) = {}
             \/ wakeup[k] /\ waiters[k] = 0 /\ \E u \in Threads : Passing(k) = {u}
          /\ waiters[k] > 0 => count[k] > 0
      BY DEF WakeupInv
    <3> QED
      BY <1>2, <2>6, <3>1
  <2> QED
    BY <2>7, <2>8 DEF WakeupInv
<1>10. CircleInv'
  BY <1>2, <1>4, <1>7, AwayKeepsCircle
<1> QED
  BY <1>4, <1>8, <1>9, <1>10

LEMMA WakeupReleaseStep ==
  ASSUME ImportLocksAssumption, Inv, NEW t \in Threads, WakeupRelease(t)
  PROVE  Inv'
<1> USE DEF Inv
<1>m. PICK m \in Modules : m = Top(t).m
  BY TopType DEF WakeupRelease, At, Frame
<1>1. /\ stack[t] # << >> /\ Top(t).at = "pass" /\ Goto(t, "enter")
      /\ UNCHANGED <<moduleVars, owner, count, waiters, candidate, seen>>
      /\ wakeup' = [wakeup EXCEPT ![m] = FALSE]
  BY <1>m DEF WakeupRelease, searchVars, At
<1>2. /\ UNCHANGED <<modules, loads, initializing, owner, count, waiters, candidate, seen>>
      /\ waiters' \in [Modules -> Nat] /\ wakeup' \in [Modules -> BOOLEAN]
      /\ candidate' \in [Threads -> Threads \union {NULL}] /\ seen' \in [Threads -> SUBSET Threads]
  BY <1>1 DEF moduleVars, TypeOK
<1>3. Top(t).at \in Acquiring /\ "enter" \in Acquiring \union {"check"}
  BY <1>1 DEF Acquiring
<1>4. TypeOK' /\ BodiesInv' /\ HoldInv' /\ LoadInv' /\ Others(t)
  BY <1>1, <1>2, <1>3, UnheldFacts
<1>5. Top(t)'.m = m /\ \A q : At(t, q)' <=> q = "enter"
  BY <1>1, <1>3, <1>m, AcquiringFacts
<1>6. \A u \in Threads \ {t} : Top(u)' = Top(u) /\ (Searching(u)' <=> Searching(u))
                               /\ \A q : At(u, q)' <=> At(u, q)
  BY <1>4, OthersStay
<1>7. ~ Searching(t) /\ ~ Searching(t)' /\ ~ Blocked(t)' /\ ~ At(t, "peek")'
  BY <1>1, <1>5 DEF Searching, Blocked, At
<1>8. SearchInv'
  BY <1>2, <1>6, <1>7 DEF SearchInv
<1>9. WakeupInv'
  <2>1. Passing(m)' = Passing(m) \ {t} /\ \A k : k # m => Passing(k)' = Passing(k)
    <3>1. At(t, "pass") /\ ~ At(t, "pass")'
      BY <1>1, <1>5 DEF At
    <3> QED
      BY <1>5, <1>6, <1>m, <3>1 DEF Passing
  <2>2. /\ ~ wakeup'[m] /\ \A k \in Modules \ {m} : wakeup'[k] = wakeup[k]
    BY <1>1, <1>m DEF TypeOK
  <2>3. waiters[m] = 0 /\ Passing(m) = {t}
    <3>1. t \in Passing(m)
      BY <1>1, <1>m DEF Passing, At
    <3> QED
      BY <1>m, <3>1 DEF WakeupInv
  <2>4. Passing(m)' = {}
    BY <2>1, <2>3
  <2>5. ~ wakeup'[m] /\ waiters'[m] = 0
    BY <1>2, <2>2, <2>3
  <2>6. ASSUME NEW k \in Modules \ {m}
        PROVE  wakeup'[k] = wakeup[k] /\ Passing(k)' = Passing(k)
    BY <2>1, <2>2
  <2>7. /\ \/ ~ wakeup'[m] /\ waiters'[m] = 0 /\ Passing(m)' = {}
           \/ wakeup'[m] /\ waiters'[m] = 1 /\ Passing(m)' = {}
           \/ wakeup'[m] /\ waiters'[m] = 0 /\ \E u \in Threads : Passing(m)' = {u}
        /\ ~ (waiters'[m] > 0)
    BY <2>4, <2>5
  <2>8. ASSUME NEW k \in Modules \ {m}
        PROVE  /\ \/ ~ wakeup'[k] /\ waiters'[k] = 0 /\ Passing(k)' = {}
                  \/ wakeup'[k] /\ waiters'[k] = 1 /\ Passing(k)' = {}
                  \/ wakeup'[k] /\ waiters'[k] = 0 /\ \E u \in Threads : Passing(k)' = {u}
               /\ waiters'[k] > 0 => count'[k] > 0
    <3>1. /\ \/ ~ wakeup[k] /\ waiters[k] = 0 /\ Passing(k) = {}
             \/ wakeup[k] /\ waiters[k] = 1 /\ Passing(k) = {}
             \/ wakeup[k] /\ waiters[k] = 0 /\ \E u \in Threads : Passing(k) = {u}
          /\ waiters[k] > 0 => count[k] > 0
      BY DEF WakeupInv
    <3> QED
      BY <1>2, <2>6, <3>1
  <2> QED
    BY <2>7, <2>8 DEF WakeupInv
<1>10. CircleInv'
  BY <1>2, <1>4, <1>7, AwayKeepsCircle
<1> QED
  BY <1>4, <1>8, <1>9, <1>10

-----------------------------------------------------------------------------
(* A search begins: it is the witness of the circles that it closes.       *)

(* Of an acquisition that closes a circle S and no smaller one, every      *)
(* thread in S is on a way to t: what can be reached from a thread before  *)
(* t shrinks from one thread to the next.                                  *)
NoneSmaller(S, t, next) ==
  \A Y \in SUBSET (S \ {t}) : Y # {} => \E y \in Y : next[y] \notin Y

Shrinks(S, t, next, d) ==
  \A u \in S \ {t} : d[next[u]] \subseteq d[u] /\ d[next[u]] # d[u]

LEMMA CircleShrinks ==
  ASSUME NEW S, NEW t \in S, NEW next \in [S -> S], NoneSmaller(S, t, next)
  PROVE  \E d \in [S -> SUBSET S] : Shrinks(S, t, next, d)
<1> DEFINE Closed(C) == \A y \in C \ {t} : next[y] \in C
           R(x) == {u \in S : \A C \in SUBSET S : x \in C /\ Closed(C) => u \in C}
           d == [x \in S |-> R(x)]
<1>1. ASSUME NEW x \in S PROVE R(x) \in SUBSET S /\ x \in R(x) /\ Closed(R(x))
  <2>1. ASSUME NEW y \in R(x) \ {t} PROVE next[y] \in R(x)
    <3>1. next[y] \in S
      OBVIOUS
    <3>2. ASSUME NEW C \in SUBSET S, x \in C, Closed(C) PROVE next[y] \in C
      BY <3>2
    <3> QED
      BY <3>1, <3>2
  <2> QED
    BY <2>1
<1>2. ASSUME NEW x \in S, NEW C \in SUBSET S, x \in C, Closed(C) PROVE R(x) \subseteq C
  BY <1>2
<1>3. R(t) \subseteq {t}
  <2>1. {t} \in SUBSET S /\ t \in {t} /\ Closed({t})
    OBVIOUS
  <2> HIDE DEF R, Closed
  <2> QED
    BY <2>1, <1>2
<1>4. ASSUME NEW u \in S \ {t}
      PROVE  R(next[u]) \subseteq R(u) /\ R(next[u]) # R(u)
  <2>1. next[u] \in S
    OBVIOUS
  <2>2. R(u) \in SUBSET S /\ Closed(R(u)) /\ next[u] \in R(u)
    <3> HIDE DEF R
    <3> QED
      BY <1>1
  <2>3. R(next[u]) \subseteq R(u)
    <3> HIDE DEF R, Closed
    <3> QED
      BY <1>2, <2>1, <2>2
  <2>4. ASSUME u \in R(next[u]) PROVE FALSE
    <3> DEFINE Q == {x \in S : u \in R(x)}
    <3>1. u \in Q /\ Q \in SUBSET (S \ {t})
      <4> HIDE DEF R
      <4> QED
        BY <1>1, <1>3
    <3>2. ASSUME NEW x \in Q PROVE next[x] \in Q
      <4>1. x \in S /\ next[x] \in S /\ u \in R(x)
        OBVIOUS
      <4>2. CASE u = x
        BY <2>4, <4>1, <4>2
      <4>3. CASE u # x
        <5> DEFINE C == {x} \union R(next[x])
        <5>1. C \in SUBSET S /\ x \in C /\ Closed(C)
          <6> HIDE DEF R
          <6> QED
            BY <1>1, <4>1
        <5>2. R(x) \subseteq C
          <6> HIDE DEF R, Closed, C
          <6> QED
            BY <1>2, <4>1, <5>1
        <5> HIDE DEF R
        <5> QED
          BY <4>1, <4>3, <5>2
      <4> QED
        BY <4>2, <4>3
    <3> HIDE DEF Q
    <3> QED
      BY <3>1, <3>2 DEF NoneSmaller
  <2>5. u \in R(u)
    <3> HIDE DEF R
    <3> QED
      BY <1>1
  <2> HIDE DEF R
  <2> QED
    BY <2>3, <2>4, <2>5
<1>5. d \in [S -> SUBSET S]
  OBVIOUS
<1>6. \A u \in S \ {t} : d[next[u]] \subseteq d[u] /\ d[next[u]] # d[u]
  <2> HIDE DEF R
  <2> QED
    BY <1>4
<1> HIDE DEF d
<1> QED
  BY <1>5, <1>6 DEF Shrinks

LEMMA FindsMore ==
  ASSUME NEW S \in SUBSET Threads, NEW Y \in SUBSET S, NEW w \in Y, Finds(w, Y)
  PROVE  Finds(w, S)
BY DEF Finds

LEMMA EnterSearchStep ==
  ASSUME ImportLocksAssumption, Inv, NEW t \in Threads, Enter(t),
         count[Top(t).m] > 0, owner[Top(t).m] # t
  PROVE  Inv'
<1> USE DEF Inv
<1>m. PICK m \in Modules : m = Top(t).m
  BY TopType DEF Enter, At, Frame
<1>1. /\ stack[t] # << >> /\ Top(t).at = "enter" /\ Goto(t, "search") /\ ~ Guarded(m)
      /\ UNCHANGED <<moduleVars, owner, count, waiters, wakeup, seen>>
      /\ candidate' = [candidate EXCEPT ![t] = owner[m]]
      /\ count[m] > 0 /\ owner[m] # t
  <2>1. /\ stack[t] # << >> /\ Top(t).at = "enter" /\ ~ Guarded(m)
        /\ count[m] > 0 /\ owner[m] # t /\ count[m] # 0
    BY <1>m DEF Enter, At, TypeOK
  <2> QED
    BY <1>m, <2>1 DEF Enter
<1>2. /\ UNCHANGED <<modules, loads, initializing, owner, count, waiters, wakeup, seen>>
      /\ waiters' \in [Modules -> Nat] /\ wakeup' \in [Modules -> BOOLEAN]
      /\ candidate' \in [Threads -> Threads \union {NULL}] /\ seen' \in [Threads -> SUBSET Threads]
  BY <1>1 DEF moduleVars, TypeOK
<1>3. Top(t).at \in Acquiring /\ "search" \in Acquiring \union {"check"}
  BY <1>1 DEF Acquiring
<1>4. TypeOK' /\ BodiesInv' /\ HoldInv' /\ LoadInv' /\ Others(t)
  BY <1>1, <1>2, <1>3, UnheldFacts
<1>5. Top(t)'.m = m /\ \A q : At(t, q)' <=> q = "search"
  BY <1>1, <1>3, <1>m, AcquiringFacts
<1>6. \A u \in Threads \ {t} : Top(u)' = Top(u) /\ (Searching(u)' <=> Searching(u))
                               /\ (Blocked(u)' <=> Blocked(u))
                               /\ \A q : At(u, q)' <=> At(u, q)
  BY <1>4, OthersStay
<1>7. /\ \A u \in Threads \ {t} : candidate'[u] = candidate[u] /\ seen'[u] = seen[u]
      /\ candidate'[t] = owner[m]
  BY <1>1 DEF TypeOK
<1>8. ~ Searching(t) /\ ~ At(t, "pass") /\ ~ At(t, "pass")' /\ Searching(t)' /\ ~ At(t, "peek")'
  BY <1>1, <1>5 DEF Searching, At
<1>9. seen'[t] = {}
  BY <1>2, <1>8 DEF SearchInv
<1>10. SearchInv'
  BY <1>1, <1>2, <1>5, <1>6, <1>7, <1>8 DEF SearchInv
<1>11. WakeupInv'
  <2>1. \A k : Passing(k)' = Passing(k)
    BY <1>4, <1>8, PassingStays
  <2> QED
    BY <1>2, <2>1 DEF WakeupInv
<1>12. \A u \in Threads : HeldUpBy(u)' = HeldUpBy(u)
  BY <1>2, <1>5, <1>6, <1>m DEF HeldUpBy
<1>13. ASSUME NEW S \in SUBSET Threads, Circular(S)'
       PROVE  \E w \in S : Finds(w, S)'
  <2>1. ASSUME NEW Y \in SUBSET S, Y # {}, t \notin Y, \A y \in Y : HeldUpBy(y) \in Y
        PROVE  \E w \in S : Finds(w, S)'
    <3>1. Circular(Y)
      BY <1>6, <1>13, <2>1 DEF Circular
    <3>2. PICK w \in Y : Finds(w, Y)
      BY <3>1 DEF CircleInv
    <3>3. Finds(w, S)
      BY <3>2, FindsMore
    <3>4. /\ At(w, "search")' <=> At(w, "search")
          /\ At(w, "peek")' <=> At(w, "peek")
          /\ candidate'[w] = candidate[w] /\ seen'[w] = seen[w]
      BY <1>6, <1>7, <2>1
    <3>5. Finds(w, S)'
      BY <1>12, <3>3, <3>4, StillFinds
    <3> QED
      BY <3>5
  <2>2. CASE t \notin S
    <3>1. S # {} /\ \A y \in S : HeldUpBy(y) \in S
      BY <1>12, <1>13 DEF Circular
    <3> QED
      BY <2>1, <2>2, <3>1
  <2>3. CASE t \in S /\ \A Y \in SUBSET (S \ {t}) : Y # {} => \E y \in Y : HeldUpBy(y) \notin Y
    <3>1. PICK next \in [S -> S] : \A u \in S : next[u] = HeldUpBy(u)
      <4>1. \A u \in S : HeldUpBy(u) \in S
        BY <1>12, <1>13 DEF Circular
      <4>2. [u \in S |-> HeldUpBy(u)] \in [S -> S]
        BY <4>1
      <4> QED
        BY <4>2
    <3>2. NoneSmaller(S, t, next)
      BY <2>3, <3>1 DEF NoneSmaller
    <3>3. PICK d \in [S -> SUBSET S] : Shrinks(S, t, next, d)
      <4>1. t \in S
        BY <2>3
      <4> QED
        BY <3>2, <4>1, CircleShrinks
    <3>4. d \in [S -> SUBSET Threads]
      BY <3>3
    <3>5. \A u \in S \ {t} : /\ HeldUpBy(u)' \in S
                             /\ d[HeldUpBy(u)'] \subseteq d[u] /\ d[HeldUpBy(u)'] # d[u]
      BY <1>12, <3>1, <3>3 DEF Shrinks
    <3>6. candidate'[t] \in S
      <4>1. candidate'[t] = HeldUpBy(t)
        BY <1>7, <1>m DEF HeldUpBy
      <4> QED
        BY <2>3, <3>1, <4>1
    <3>7. At(t, "search")' /\ S \intersect seen'[t] = {} /\ t \in S /\ S \in SUBSET S
      BY <1>5, <1>9, <2>3
    <3>8. Finds(t, S)'
      BY <3>4, <3>5, <3>6, <3>7 DEF Finds
    <3> QED
      BY <2>3, <3>8
  <2> QED
    BY <2>1, <2>2, <2>3
<1>14. CircleInv'
  BY <1>13 DEF CircleInv
<1> QED
  BY <1>4, <1>10, <1>11, <1>14

-----------------------------------------------------------------------------
(* A lock is taken and released.                                           *)

LEMMA TakenFrames ==
  ASSUME TypeOK, NEW t \in Threads, NEW f \in Frame, Replaced(t, f),
         Top(t).at \notin Holding, f.at \in Holding, f.m = Top(t).m
  PROVE  /\ Cardinality(Frames(t, f.m, Holding)') = Cardinality(Frames(t, f.m, Holding)) + 1
         /\ \A k \in Modules \ {f.m} : Frames(t, k, Holding)' = Frames(t, k, Holding)
<1> DEFINE n == Len(stack[t])
<1>1. /\ DOMAIN stack'[t] = DOMAIN stack[t]
      /\ \A i \in DOMAIN stack[t] : stack'[t][i] = stack[t][i] \/ i = n
      /\ n \in DOMAIN stack[t]
      /\ stack[t][n] = Top(t) /\ stack'[t][n] = f
  BY ReplacedFrames
<1>2. IsFiniteSet(Frames(t, f.m, Holding)) /\ stack[t] \in Seq(Frame)
  <2>1. stack[t] \in Seq(Frame)
    BY DEF TypeOK, Frame
  <2> QED
    BY <2>1, FramesFinite
<1> HIDE DEF n
<1>3. n \notin Frames(t, f.m, Holding) /\ Frames(t, f.m, Holding)' = Frames(t, f.m, Holding) \union {n}
  BY <1>1 DEF Frames
<1>4. \A k \in Modules \ {f.m} : Frames(t, k, Holding)' = Frames(t, k, Holding)
  BY <1>1 DEF Frames
<1>5. Cardinality(Frames(t, f.m, Holding) \union {n}) = Cardinality(Frames(t, f.m, Holding)) + 1
  BY <1>2, <1>3, FS_AddElement
<1> QED
  BY <1>3, <1>4, <1>5

LEMMA ReleasedFrames ==
  ASSUME TypeOK, NEW t \in Threads, NEW m, m = Top(t).m, Top(t).at \in Holding,
         Popped(t) \/ \E f \in Frame : Replaced(t, f) /\ f.m = m /\ f.at \notin Holding
  PROVE  /\ Cardinality(Frames(t, m, Holding)') = Cardinality(Frames(t, m, Holding)) - 1
         /\ \A k \in Modules \ {m} : Frames(t, k, Holding)' = Frames(t, k, Holding)
<1> DEFINE n == Len(stack[t])
<1>1. /\ n \in DOMAIN stack[t] /\ stack[t][n] = Top(t)
      /\ \A i \in DOMAIN stack[t] \ {n} : i \in DOMAIN stack'[t] /\ stack'[t][i] = stack[t][i]
      /\ \A i \in DOMAIN stack'[t] : i \in DOMAIN stack[t] /\ (i = n => stack'[t][i].at \notin Holding)
  <2>1. CASE Popped(t)
    <3>1. stack[t] \in Seq(Frame) /\ stack'[t] \in Seq(Frame)
      BY <2>1 DEF TypeOK, Frame, Popped
    <3>2. /\ n \in Nat \ {0} /\ DOMAIN stack[t] = 1 .. n /\ DOMAIN stack'[t] = 1 .. n - 1
          /\ \A i \in 1 .. n - 1 : stack'[t][i] = stack[t][i]
          /\ stack[t][n] = Top(t)
      BY <2>1, <3>1 DEF Popped
    <3> HIDE DEF n
    <3> QED
      BY <3>2
  <2>2. ASSUME NEW f \in Frame, Replaced(t, f), f.m = m, f.at \notin Holding
        PROVE  /\ n \in DOMAIN stack[t] /\ stack[t][n] = Top(t)
               /\ \A i \in DOMAIN stack[t] \ {n} : i \in DOMAIN stack'[t] /\ stack'[t][i] = stack[t][i]
               /\ \A i \in DOMAIN stack'[t] : i \in DOMAIN stack[t] /\ (i = n => stack'[t][i].at \notin Holding)
    BY <2>2, ReplacedFrames
  <2> QED
    BY <2>1, <2>2
<1>2. IsFiniteSet(Frames(t, m, Holding))
  <2>1. stack[t] \in Seq(Frame)
    BY DEF TypeOK, Frame
  <2> QED
    BY <2>1, FramesFinite
<1> HIDE DEF n
<1>3. n \in Frames(t, m, Holding) /\ {i \in DOMAIN stack'[t] : stack'[t][i].m = m /\ stack'[t][i].at \in Holding}
                                       = Frames(t, m, Holding) \ {n}
  BY <1>1 DEF Frames
<1>4. \A k \in Modules \ {m} : Frames(t, k, Holding)' = Frames(t, k, Holding)
  BY <1>1 DEF Frames
<1>5. Cardinality(Frames(t, m, Holding) \ {n}) = Cardinality(Frames(t, m, Holding)) - 1
  BY <1>2, <1>3, FS_RemoveElement
<1> QED
  BY <1>3, <1>4, <1>5 DEF Frames

LEMMA EnterGotStep ==
  ASSUME ImportLocksAssumption, Inv, NEW t \in Threads, Enter(t),
         ~ (count[Top(t).m] > 0 /\ owner[Top(t).m] # t)
  PROVE  Inv'
<1> USE DEF Inv
<1>m. PICK m \in Modules : m = Top(t).m
  BY TopType DEF Enter, At, Frame
<1> DEFINE f == [Top(t) EXCEPT !.at = "got"]
<1>1. /\ stack[t] # << >> /\ Top(t).at = "enter" /\ Replace(t, f)
      /\ UNCHANGED <<modules, loads, initializing, waiters, wakeup, candidate, seen>>
      /\ owner' = [owner EXCEPT ![m] = t] /\ count' = [count EXCEPT ![m] = @ + 1]
      /\ count[m] = 0 \/ owner[m] = t
  BY <1>m DEF Enter, At, Goto, moduleVars, searchVars
<1>2. f \in Frame /\ f.m = m /\ f.at = "got"
  BY <1>1, <1>m, TopType DEF Frame, Places
<1>3. /\ f.at \in Holding /\ f.at \notin Loading
      /\ Top(t).at \notin Holding /\ Top(t).at \notin Loading
  BY <1>1, <1>2 DEF Holding, Loading
<1> HIDE DEF f
<1>4. Replaced(t, f) /\ stack[t] \in Seq(Frame)
  BY <1>1, <1>2, ReplaceFacts DEF TypeOK, Frame
<1>5. /\ BodiesInv' /\ SameLoads(t) /\ \A q : At(t, q)' <=> q = "got"
  BY <1>2, <1>3, <1>4, WhenReplaced
<1>6. /\ owner' \in [Modules -> Threads \union {NULL}] /\ count' \in [Modules -> Nat]
      /\ owner'[m] = t /\ count'[m] = count[m] + 1 /\ count[m] \in Nat
      /\ \A k \in Modules \ {m} : owner'[k] = owner[k] /\ count'[k] = count[k]
  <2>1. owner \in [Modules -> Threads \union {NULL}] /\ count \in [Modules -> Nat]
    BY DEF TypeOK
  <2>2. owner' \in [Modules -> Threads \union {NULL}] /\ owner'[m] = t
        /\ \A k \in Modules \ {m} : owner'[k] = owner[k]
    BY <1>1, <2>1
  <2>3. count' \in [Modules -> Nat] /\ count'[m] = count[m] + 1 /\ count[m] \in Nat
        /\ \A k \in Modules \ {m} : count'[k] = count[k]
    BY <1>1, <2>1
  <2> QED
    BY <2>2, <2>3
<1>a. \A k \in Modules : count[k] > 0 => count'[k] > 0
  <2>1. count[m] + 1 > 0
    BY <1>6
  <2> QED
    BY <1>6, <2>1
<1>7. TypeOK' /\ Others(t)
  BY <1>1, <1>4, <1>6 DEF TypeOK, Frame, Replaced
<1>8. LoadInv'
  BY <1>1, <1>5, <1>7, NoLoadKeepsLoad DEF NoLoad, moduleVars
<1>9. /\ Off(t) /\ Off(t)' /\ ~ Blocked(t)'
  BY <1>1, <1>5 DEF Off, Searching, Blocked, At
<1>10. HoldInv'
  <2>1. /\ Cardinality(Frames(t, m, Holding)') = Cardinality(Frames(t, m, Holding)) + 1
        /\ \A k \in Modules \ {m} : Frames(t, k, Holding)' = Frames(t, k, Holding)
    BY <1>2, <1>3, <1>4, <1>m, TakenFrames
  <2>2. \A u \in Threads \ {t} : \A k : Frames(u, k, Holding)' = Frames(u, k, Holding)
    BY <1>7 DEF Others, Frames
  <2>3. \A u \in Threads : Cardinality(Frames(u, m, Holding)) = IF owner[m] = u THEN count[m] ELSE 0
    BY DEF HoldInv
  <2>4. owner[m] = NULL <=> count[m] = 0
    BY DEF HoldInv
  <2>5. Cardinality(Frames(t, m, Holding)) = count[m] /\ (owner[m] = t \/ owner[m] = NULL)
    BY <1>1, <2>3, <2>4
  <2>6. ASSUME NEW u \in Threads
        PROVE  Cardinality(Frames(u, m, Holding)') = IF owner'[m] = u THEN count'[m] ELSE 0
    <3>1. CASE u = t
      BY <1>6, <2>1, <2>5, <3>1
    <3>2. CASE u # t
      <4>1. Cardinality(Frames(u, m, Holding)) = 0
        BY <2>3, <2>5, <3>2, ImportLocksAssumption DEF ImportLocksAssumption
      <4> QED
        BY <1>6, <2>2, <3>2, <4>1
    <3> QED
      BY <3>1, <3>2
  <2>7. owner'[m] # NULL /\ count'[m] # 0
    BY <1>6, ImportLocksAssumption DEF ImportLocksAssumption
  <2>8. ASSUME NEW k \in Modules \ {m}
        PROVE  /\ \A u \in Threads :
                    Cardinality(Frames(u, k, Holding)') = IF owner'[k] = u THEN count'[k] ELSE 0
               /\ owner'[k] = NULL <=> count'[k] = 0
    <3>1. \A u \in Threads : Frames(u, k, Holding)' = Frames(u, k, Holding)
      BY <2>1, <2>2
    <3> QED
      BY <1>6, <3>1 DEF HoldInv
  <2>9. ASSUME NEW k \in Modules
        PROVE  /\ \A u \in Threads :
                    Cardinality(Frames(u, k, Holding)') = IF owner'[k] = u THEN count'[k] ELSE 0
               /\ owner'[k] = NULL <=> count'[k] = 0
    BY <2>6, <2>7, <2>8
  <2> QED
    BY <2>9 DEF HoldInv
<1>11. SearchInv'
  <2>1. \A u \in Threads \ {t} : Top(u)' = Top(u) /\ (Searching(u)' <=> Searching(u))
                                 /\ (At(u, "peek")' <=> At(u, "peek"))
    BY <1>7, OthersStay
  <2>2. ASSUME NEW u \in Threads \ {t}, Searching(u) PROVE Top(u).m \in Modules
    BY <2>2, TopType DEF Searching, At, Frame
  <2> QED
    BY <1>1, <1>9, <1>a, <2>1, <2>2 DEF SearchInv, Off, Searching
<1>12. WakeupInv'
  <2>1. \A k : Passing(k)' = Passing(k)
    BY <1>7, <1>9, PassingStays DEF Off
  <2> QED
    BY <1>1, <1>a, <2>1 DEF WakeupInv
<1>13. CircleInv'
  BY <1>1, <1>6, <1>7, <1>9, AwayKeepsCircle
<1> QED
  BY <1>5, <1>7, <1>8, <1>10, <1>11, <1>12, <1>13

(* Where a release leads.                                                  *)
LEMMA ReleaseMoves ==
  ASSUME TypeOK, BodiesInv, NEW t \in Threads, Release(t)
  PROVE  /\ Popped(t) \/ \E f \in Frame : /\ Replaced(t, f) /\ f.m = Top(t).m
                                           /\ f.at \in {"check", "enter"}
         /\ Top(t).at \in Holding /\ Top(t).at \notin Loading /\ stack[t] \in Seq(Frame)
         /\ stack' \in [Threads -> Seq(Frame)] /\ Others(t)
         /\ BodiesInv' /\ SameLoads(t) /\ Off(t)'
<1>m. PICK m \in Modules : m = Top(t).m
  BY TopType DEF Release, At, Frame
<1>1. stack[t] # << >> /\ Top(t).at = "release"
  BY DEF Release, At
<1>2. Popped(t) \/ \E f \in Frame : Replaced(t, f) /\ f.m = m /\ f.at \in {"check", "enter"}
  <2>1. /\ [Top(t) EXCEPT !.at = "check"] \in Frame
        /\ [Top(t) EXCEPT !.at = "check"].m = m /\ [Top(t) EXCEPT !.at = "check"].at = "check"
    BY <1>1, <1>m, TopType DEF Frame, Places
  <2>2. /\ [Top(t) EXCEPT !.at = "enter", !.purpose = "find"] \in Frame
        /\ [Top(t) EXCEPT !.at = "enter", !.purpose = "find"].m = m
        /\ [Top(t) EXCEPT !.at = "enter", !.purpose = "find"].at = "enter"
    BY <1>1, <1>m, TopType DEF Frame, Places, Purposes
  <2>3. Pop(t) \/ \E f \in Frame : Replace(t, f) /\ f.m = m /\ f.at \in {"check", "enter"}
    BY <2>1, <2>2 DEF Release, AfterRelease, Goto, Acquire
  <2> QED
    BY <1>1, <2>3, PopFacts, ReplaceFacts
<1>3. Top(t).at \in Holding /\ Top(t).at \notin Loading /\ stack[t] \in Seq(Frame)
  BY <1>1 DEF Holding, Loading, TypeOK, Frame
<1>4. /\ stack' \in [Threads -> Seq(Frame)] /\ Others(t)
      /\ BodiesInv' /\ SameLoads(t) /\ Off(t)'
  <2>1. CASE Popped(t)
    BY <1>3, <2>1, WhenPopped DEF Popped
  <2>2. ASSUME NEW f \in Frame, Replaced(t, f), f.m = m, f.at \in {"check", "enter"}
        PROVE  /\ stack' \in [Threads -> Seq(Frame)] /\ Others(t)
               /\ BodiesInv' /\ SameLoads(t) /\ Off(t)'
    <3>1. f.at \notin Loading
      BY <2>2 DEF Loading
    <3>2. BodiesInv' /\ SameLoads(t) /\ \A q : At(t, q)' <=> f.at = q
      BY <1>3, <2>2, <3>1, WhenReplaced
    <3> QED
      BY <2>2, <3>2 DEF Replaced, Off, Searching
  <2> QED
    BY <1>2, <2>1, <2>2
<1> QED
  BY <1>m, <1>2, <1>3, <1>4

LEMMA ReleaseStep ==
  ASSUME ImportLocksAssumption, Inv, NEW t \in Threads, Release(t)
  PROVE  Inv'
<1> USE DEF Inv
<1>m. PICK m \in Modules : m = Top(t).m
  BY TopType DEF Release, At, Frame
<1>1. /\ stack[t] # << >> /\ Top(t).at = "release" /\ ~ Guarded(m)
      /\ UNCHANGED <<modules, loads, initializing, candidate, seen>>
      /\ count' = [count EXCEPT ![m] = @ - 1]
      /\ count[m] > 1 => UNCHANGED <<owner, waiters, wakeup>>
      /\ ~ (count[m] > 1) =>
           /\ owner' = [owner EXCEPT ![m] = NULL]
           /\ waiters[m] = 0 => UNCHANGED <<waiters, wakeup>>
           /\ waiters[m] # 0 => /\ waiters' = [waiters EXCEPT ![m] = @ - 1]
                                /\ wakeup' = [wakeup EXCEPT ![m] = FALSE]
  BY <1>m DEF Release, At, moduleVars, searchVars
<1>2. Popped(t) \/ \E f \in Frame : Replaced(t, f) /\ f.m = m /\ f.at \in {"check", "enter"}
  BY <1>m, ReleaseMoves
<1>3. Top(t).at \in Holding /\ Top(t).at \notin Loading /\ stack[t] \in Seq(Frame)
  BY ReleaseMoves
<1>4. /\ stack' \in [Threads -> Seq(Frame)] /\ Others(t)
      /\ BodiesInv' /\ SameLoads(t) /\ Off(t)'
  BY ReleaseMoves
<1>5. /\ Cardinality(Frames(t, m, Holding)') = Cardinality(Frames(t, m, Holding)) - 1
      /\ \A k \in Modules \ {m} : Frames(t, k, Holding)' = Frames(t, k, Holding)
  <2>1. \A p \in {"check", "enter"} : p \notin Holding
    BY DEF Holding
  <2> QED
    BY <1>2, <1>3, <1>m, <2>1, ReleasedFrames
<1>6. owner[m] = t /\ count[m] # 0 /\ count[m] \in Nat
  <2>1. Len(stack[t]) \in DOMAIN stack[t] /\ stack[t][Len(stack[t])] = Top(t)
    BY <1>1, <1>3 DEF Top, Last
  <2>2. owner[m] = t
    BY <1>3, <1>m, <2>1, HolderOwns
  <2> QED
    BY <2>2, ImportLocksAssumption DEF HoldInv, TypeOK, ImportLocksAssumption
<1>7. /\ count' \in [Modules -> Nat] /\ count'[m] = count[m] - 1
      /\ \A k \in Modules \ {m} : count'[k] = count[k]
  <2>1. count \in [Modules -> Nat] /\ count[m] - 1 \in Nat
    BY <1>6 DEF TypeOK
  <2>2. count' = [count EXCEPT ![m] = count[m] - 1]
    BY <1>1
  <2> QED
    BY <2>1, <2>2
<1>8. /\ owner' \in [Modules -> Threads \union {NULL}]
      /\ \A k \in Modules \ {m} : owner'[k] = owner[k]
      /\ IF count[m] > 1 THEN owner'[m] = t ELSE owner'[m] = NULL
  BY <1>1, <1>6 DEF TypeOK
<1>9. ASSUME waiters[m] # 0, ~ (count[m] > 1)
      PROVE  wakeup[m] /\ waiters[m] = 1 /\ Passing(m) = {}
  BY <1>9 DEF WakeupInv
<1>10. /\ waiters' \in [Modules -> Nat] /\ wakeup' \in [Modules -> BOOLEAN]
       /\ \A k \in Modules \ {m} : waiters'[k] = waiters[k] /\ wakeup'[k] = wakeup[k]
       /\ \/ UNCHANGED <<waiters, wakeup>> /\ (waiters[m] = 0 \/ count[m] > 1)
          \/ waiters'[m] = 0 /\ ~ wakeup'[m] /\ Passing(m) = {}
  <2>1. waiters \in [Modules -> Nat] /\ wakeup \in [Modules -> BOOLEAN]
    BY DEF TypeOK
  <2>2. CASE UNCHANGED <<waiters, wakeup>> /\ (waiters[m] = 0 \/ count[m] > 1)
    BY <2>1, <2>2
  <2>3. CASE ~ (count[m] > 1) /\ waiters[m] # 0
    <3>1. waiters[m] = 1 /\ Passing(m) = {}
      BY <1>9, <2>3
    <3>2. /\ waiters' = [waiters EXCEPT ![m] = 0]
          /\ wakeup' = [wakeup EXCEPT ![m] = FALSE]
      BY <1>1, <2>3, <3>1
    <3> QED
      BY <2>1, <3>1, <3>2
  <2> QED
    BY <1>1, <2>2, <2>3
<1>11. TypeOK'
  BY <1>1, <1>4, <1>7, <1>8, <1>10 DEF TypeOK, Frame
<1>12. LoadInv'
  BY <1>1, <1>4, <1>11, NoLoadKeepsLoad DEF NoLoad, moduleVars
<1>13. Off(t) /\ ~ Blocked(t)'
  BY <1>1, <1>4 DEF Off, Searching, Blocked, At
<1>14. HoldInv'
  <2>1. \A u \in Threads \ {t} : \A k : Frames(u, k, Holding)' = Frames(u, k, Holding)
    BY <1>4 DEF Others, Frames
  <2>2. \A u \in Threads : Cardinality(Frames(u, m, Holding)) = IF owner[m] = u THEN count[m] ELSE 0
    BY DEF HoldInv
  <2>3. ~ (count[m] > 1) => count[m] - 1 = 0
    BY <1>6
  <2>4. ASSUME NEW u \in Threads
        PROVE  Cardinality(Frames(u, m, Holding)') = IF owner'[m] = u THEN count'[m] ELSE 0
    <3>1. CASE u = t
      BY <1>5, <1>6, <1>7, <1>8, <2>2, <2>3, <3>1
    <3>2. CASE u # t
      <4>1. Cardinality(Frames(u, m, Holding)) = 0 /\ owner'[m] # u
        BY <1>6, <1>8, <2>2, <3>2, ImportLocksAssumption DEF ImportLocksAssumption
      <4> QED
        BY <2>1, <3>2, <4>1
    <3> QED
      BY <3>1, <3>2
  <2>5. owner'[m] = NULL <=> count'[m] = 0
    BY <1>6, <1>7, <1>8, ImportLocksAssumption DEF ImportLocksAssumption
  <2>6. ASSUME NEW k \in Modules \ {m}
        PROVE  /\ \A u \in Threads :
                    Cardinality(Frames(u, k, Holding)') = IF owner'[k] = u THEN count'[k] ELSE 0
               /\ owner'[k] = NULL <=> count'[k] = 0
    <3>1. \A u \in Threads : Frames(u, k, Holding)' = Frames(u, k, Holding)
      BY <1>5, <2>1
    <3> QED
      BY <1>7, <1>8, <3>1 DEF HoldInv
  <2>7. ASSUME NEW k \in Modules
        PROVE  /\ \A u \in Threads :
                    Cardinality(Frames(u, k, Holding)') = IF owner'[k] = u THEN count'[k] ELSE 0
               /\ owner'[k] = NULL <=> count'[k] = 0
    BY <2>4, <2>5, <2>6
  <2> QED
    BY <2>7 DEF HoldInv
<1>15. SearchInv'
  <2>1. \A u \in Threads \ {t} : Top(u)' = Top(u) /\ (Searching(u)' <=> Searching(u))
                                 /\ (At(u, "peek")' <=> At(u, "peek"))
    BY <1>4, OthersStay
  <2>2. ASSUME NEW u \in Threads \ {t}, Searching(u) PROVE Top(u).m \in Modules \ {m}
    <3>1. Top(u).m \in Modules
      BY <2>2, TopType DEF Searching, At, Frame
    <3>2. Top(u).m # m
      BY <1>1, <2>2 DEF Guarded, Searching
    <3> QED
      BY <3>1, <3>2
  <2>3. UNCHANGED <<candidate, seen>> /\ ~ Searching(t) /\ ~ Searching(t)' /\ ~ At(t, "peek")'
    BY <1>1, <1>4, <1>13 DEF Off, Searching
  <2>4. ASSUME NEW u \in Threads \ {t}
        PROVE  /\ IF Searching(u)' THEN count'[Top(u)'.m] > 0 ELSE seen'[u] = {}
               /\ At(u, "peek")' => candidate'[u] \in Threads
    BY <1>7, <2>1, <2>2, <2>3 DEF SearchInv
  <2> QED
    BY <2>3, <2>4 DEF SearchInv
<1>16. WakeupInv'
  <2>1. \A k : Passing(k)' = Passing(k)
    BY <1>4, <1>13, PassingStays DEF Off
  <2>2. ASSUME NEW k \in Modules \ {m}
        PROVE  /\ \/ ~ wakeup'[k] /\ waiters'[k] = 0 /\ Passing(k)' = {}
                  \/ wakeup'[k] /\ waiters'[k] = 1 /\ Passing(k)' = {}
                  \/ wakeup'[k] /\ waiters'[k] = 0 /\ \E u \in Threads : Passing(k)' = {u}
               /\ waiters'[k] > 0 => count'[k] > 0
    <3>1. /\ \/ ~ wakeup[k] /\ waiters[k] = 0 /\ Passing(k) = {}
             \/ wakeup[k] /\ waiters[k] = 1 /\ Passing(k) = {}
             \/ wakeup[k] /\ waiters[k] = 0 /\ \E u \in Threads : Passing(k) = {u}
          /\ waiters[k] > 0 => count[k] > 0
      BY DEF WakeupInv
    <3> QED
      BY <1>7, <1>10, <2>1, <3>1
  <2>3. /\ \/ ~ wakeup'[m] /\ waiters'[m] = 0 /\ Passing(m)' = {}
           \/ wakeup'[m] /\ waiters'[m] = 1 /\ Passing(m)' = {}
           \/ wakeup'[m] /\ waiters'[m] = 0 /\ \E u \in Threads : Passing(m)' = {u}
        /\ waiters'[m] > 0 => count'[m] > 0
    <3>1. CASE UNCHANGED <<waiters, wakeup>> /\ (waiters[m] = 0 \/ count[m] > 1)
      <4>1. \/ ~ wakeup[m] /\ waiters[m] = 0 /\ Passing(m) = {}
            \/ wakeup[m] /\ waiters[m] = 1 /\ Passing(m) = {}
            \/ wakeup[m] /\ waiters[m] = 0 /\ \E u \in Threads : Passing(m) = {u}
        BY DEF WakeupInv
      <4>2. count[m] > 1 => count'[m] > 0
        BY <1>6, <1>7
      <4>3. waiters'[m] > 0 => count'[m] > 0
        BY <3>1, <4>2
      <4> QED
        BY <2>1, <3>1, <4>1, <4>3
    <3>2. CASE waiters'[m] = 0 /\ ~ wakeup'[m] /\ Passing(m) = {}
      BY <2>1, <3>2
    <3> QED
      BY <1>10, <3>1, <3>2
  <2> QED
    BY <2>2, <2>3 DEF WakeupInv
<1>17. CircleInv'
  <2>1. \A k \in Modules : owner'[k] = owner[k] \/ owner'[k] \notin Threads \ {t}
    BY <1>8, ImportLocksAssumption DEF ImportLocksAssumption
  <2> QED
    BY <1>1, <1>4, <1>13, <2>1, AwayKeepsCircle
<1> QED
  BY <1>4, <1>11, <1>12, <1>14, <1>15, <1>16, <1>17

-----------------------------------------------------------------------------
(* The theorems.                                                           *)

LEMMA InitInv ==
  ASSUME ImportLocksAssumption, Init
  PROVE  Inv
<1>1. TypeOK
  BY DEF Init, TypeOK
<1>2. \A t \in Threads : stack[t] = << >> /\ Len(stack[t]) = 0 /\ DOMAIN stack[t] = {}
  BY DEF Init
<1>3. BodiesInv /\ SearchInv
  BY <1>2 DEF Init, BodiesInv, SearchInv, Searching, At
<1>4. \A t \in Threads : \A m, P : Frames(t, m, P) = {}
  BY <1>2 DEF Frames
<1>5. HoldInv
  BY <1>4, FS_EmptySet, ImportLocksAssumption DEF Init, HoldInv, ImportLocksAssumption
<1>6. LoadInv
  BY <1>2, <1>4 DEF Init, LoadInv
<1>7. \A m : Passing(m) = {}
  BY <1>2 DEF Passing, At
<1>8. WakeupInv
  BY <1>7 DEF Init, WakeupInv
<1>9. CircleInv
  BY <1>2 DEF CircleInv, Circular, Blocked, Searching, At
<1> QED
  BY <1>1, <1>3, <1>5, <1>6, <1>8, <1>9 DEF Inv

LEMMA StutterInv ==
  ASSUME Inv, UNCHANGED vars
  PROVE  Inv'
<1> USE DEF vars, moduleVars, lockVars, searchVars
<1>1. TypeOK' /\ BodiesInv'
  BY DEF Inv, TypeOK, BodiesInv
<1>2. \A t, m, P : Frames(t, m, P)' = Frames(t, m, P)
  BY DEF Frames
<1>3. HoldInv' /\ LoadInv'
  BY <1>2 DEF Inv, HoldInv, LoadInv
<1>4. \A t : /\ Top(t)' = Top(t) /\ (Searching(t)' <=> Searching(t)) /\ (Blocked(t)' <=> Blocked(t))
             /\ HeldUpBy(t)' = HeldUpBy(t) /\ \A q : At(t, q)' <=> At(t, q)
  BY DEF Top, Searching, Blocked, HeldUpBy, At
<1>5. SearchInv'
  BY <1>4 DEF Inv, SearchInv
<1>6. \A m : Passing(m)' = Passing(m)
  BY <1>4 DEF Passing
<1>7. WakeupInv'
  BY <1>6 DEF Inv, WakeupInv
<1>8. \A S \in SUBSET Threads : Circular(S)' => Circular(S)
  BY <1>4 DEF Circular
<1>9. \A S \in SUBSET Threads : \A w \in S : Finds(w, S) => Finds(w, S)'
  BY <1>4, StillFinds
<1>10. CircleInv'
  BY <1>8, <1>9 DEF Inv, CircleInv
<1> QED
  BY <1>1, <1>3, <1>5, <1>7, <1>10 DEF Inv

LEMMA NextInv ==
  ASSUME ImportLocksAssumption, Inv, [Next]_vars
  PROVE  Inv'
<1>1. ASSUME NEW t \in Threads, Step(t) \/ \E m \in Modules : Import(t, m)
      PROVE  Inv'
  <2>1. CASE \/ Ensure(t) \/ Check(t) \/ Find(t) \/ Examine(t) \/ Recheck(t)
             \/ \E m \in Modules : Import(t, m)
    <3>1. TypeOK' /\ BodiesInv' /\ Plain(t) /\ NoLoad(t)
      BY <2>1, PlainSteps DEF Inv
    <3>2. LoadInv'
      BY <3>1, NoLoadKeepsLoad DEF Inv
    <3> QED
      BY <3>1, <3>2, PlainKeeps DEF Inv
  <2>2. CASE Load(t) \/ Finish(t) \/ Put(t) \/ Fail(t) \/ Clear(t)
    <3>1. TypeOK' /\ BodiesInv' /\ Plain(t) /\ LoadInv'
      BY <2>2, LoadingSteps DEF Inv
    <3> QED
      BY <3>1, PlainKeeps DEF Inv
  <2>3. CASE Enter(t)
    BY <2>3, EnterSearchStep, EnterGotStep
  <2>4. CASE Follow(t) \/ Peek(t) \/ Deadlock(t) \/ QueueUp(t)
    BY <2>4, FollowStep, PeekStep, DeadlockStep, QueueUpStep
  <2>5. CASE WakeupAcquire(t) \/ WakeupRelease(t) \/ Release(t)
    BY <2>5, WakeupAcquireStep, WakeupReleaseStep, ReleaseStep
  <2> QED
    BY <1>1, <2>1, <2>2, <2>3, <2>4, <2>5 DEF Step
<1>2. CASE UNCHANGED vars
  BY <1>2, StutterInv
<1> QED
  BY <1>1, <1>2 DEF Next

(* The invariant is inductive: it holds in every reachable state, of any   *)
(* threads that import any modules.                                        *)
THEOREM Invariance == Spec => []Inv
<1>1. Init => Inv
  BY InitInv, ImportLocksAssumption
<1>2. Inv /\ [Next]_vars => Inv'
  BY NextInv, ImportLocksAssumption
<1> QED
  BY <1>1, <1>2, PTL DEF Spec

(* The state invariants that the runs check.                               *)
LEMMA InvOneLoader ==
  ASSUME Inv
  PROVE  OneLoader
<1> SUFFICES ASSUME NEW m \in Modules
             PROVE  Cardinality(Loaders(m)) = Cardinality(Marked(m)) /\ Cardinality(Loaders(m)) <= 1
  BY DEF Inv, HoldInv, OneLoader
<1>1. LoadInv /\ TypeOK
  BY DEF Inv
<1>2. CASE \A t \in Threads : Frames(t, m, Loading) = {}
  <2>1. Loaders(m) = {}
    BY <1>2 DEF Loaders
  <2>2. Marked(m) = {}
    BY <1>1, <1>2 DEF LoadInv, Marked
  <2> QED
    BY <2>1, <2>2, FS_EmptySet
<1>3. ASSUME NEW t \in Threads, NEW i \in Frames(t, m, Loading)
      PROVE  Cardinality(Loaders(m)) = Cardinality(Marked(m)) /\ Cardinality(Loaders(m)) <= 1
  <2>1. \A u \in Threads : \A j \in Frames(u, m, Loading) : u = t /\ j = i
    BY <1>1, <1>3 DEF LoadInv
  <2>2. Loaders(m) = {<<t, i>>}
    <3>1. Loaders(m) \subseteq {<<t, i>>}
      BY <2>1 DEF Loaders
    <3>2. <<t, i>> \in Loaders(m)
      <4>1. <<t, i>> \in {t} \X Frames(t, m, Loading)
        BY <1>3
      <4> QED
        BY <4>1 DEF Loaders
    <3> QED
      BY <3>1, <3>2
  <2>3. Marked(m) = {<<m, stack[t][i].mod>>}
    <3>1. <<m, stack[t][i].mod>> \in Marked(m)
      BY <1>1, <1>3 DEF LoadInv, Marked, Frames
    <3>2. ASSUME NEW load \in Marked(m) PROVE load = <<m, stack[t][i].mod>>
      <4>1. load \in initializing /\ load[1] = m
        BY DEF Marked
      <4>2. \E u \in Threads : \E j \in Frames(u, m, Loading) : stack[u][j].mod = load[2]
        BY <1>1, <4>1 DEF LoadInv
      <4>3. stack[t][i].mod = load[2]
        BY <2>1, <4>2
      <4>4. load = <<load[1], load[2]>>
        BY <1>1, <4>1 DEF TypeOK
      <4> QED
        BY <4>1, <4>3, <4>4
    <3> QED
      BY <3>1, <3>2
  <2>4. Cardinality({<<t, i>>}) = 1 /\ Cardinality({<<m, stack[t][i].mod>>}) = 1
    BY FS_Singleton
  <2> QED
    BY <2>2, <2>3, <2>4
<1> QED
  BY <1>2, <1>3

LEMMA InvWaitersWoken ==
  ASSUME Inv
  PROVE  WaitersWoken
<1> SUFFICES ASSUME NEW m \in Modules
             PROVE  /\ wakeup[m] <=> waiters[m] + Cardinality(Passing(m)) = 1
                    /\ ~ wakeup[m] <=> waiters[m] = 0 /\ Passing(m) = {}
                    /\ Waiting(m) # {} /\ waiters[m] > 0 => count[m] > 0
  BY DEF WaitersWoken
<1>1. /\ \/ ~ wakeup[m] /\ waiters[m] = 0 /\ Passing(m) = {}
         \/ wakeup[m] /\ waiters[m] = 1 /\ Passing(m) = {}
         \/ wakeup[m] /\ waiters[m] = 0 /\ \E t \in Threads : Passing(m) = {t}
      /\ waiters[m] > 0 => count[m] > 0
  BY DEF Inv, WakeupInv
<1>2. Passing(m) = {} => Cardinality(Passing(m)) = 0
  BY FS_EmptySet
<1>3. ASSUME NEW t \in Threads, Passing(m) = {t} PROVE Cardinality(Passing(m)) = 1 /\ Passing(m) # {}
  BY <1>3, FS_Singleton
<1> QED
  BY <1>1, <1>2, <1>3

LEMMA InvNoCircle ==
  ASSUME Inv
  PROVE  NoCircleOfWaits
<1> SUFFICES ASSUME NEW S \in SUBSET Threads, S # {},
                    \A t \in S : At(t, "wait") /\ owner[Top(t).m] \in S
             PROVE  FALSE
  BY DEF NoCircleOfWaits
<1>1. Circular(S)
  BY DEF Circular, Blocked, HeldUpBy
<1>2. PICK t \in S : Finds(t, S)
  BY <1>1 DEF Inv, CircleInv
<1>3. At(t, "search") \/ At(t, "peek")
  BY <1>2 DEF Finds
<1> QED
  BY <1>3 DEF At

(* A module lock belongs to one thread, as often as imports of this thread *)
(* hold it; and a module is only ever loaded by one import at a time.      *)
THEOREM OneLoaderHolds == Spec => []OneLoader
<1>1. Inv => OneLoader
  BY InvOneLoader
<1> QED
  BY <1>1, Invariance, PTL

(* A waiter is woken by the owner's release or by another waiter: wakeup,  *)
(* waiters and the threads that pass the wakeup on always agree.           *)
THEOREM WaitersWokenHolds == Spec => []WaitersWoken
<1>1. Inv => WaitersWoken
  BY InvWaitersWoken
<1> QED
  BY <1>1, Invariance, PTL

(* The search for deadlocks, one candidate at a time and on state that     *)
(* changes meanwhile, finds every circle before its threads wait.          *)
THEOREM NoCircleOfWaitsHolds == Spec => []NoCircleOfWaits
<1>1. Inv => NoCircleOfWaits
  BY InvNoCircle
<1> QED
  BY <1>1, Invariance, PTL

-----------------------------------------------------------------------------
(* The refinement: who waits, what is being loaded.                        *)

LEMMA WaitsStay ==
  ASSUME NEW t \in Threads, Others(t), ~ At(t, "wait"), ~ At(t, "wait")'
  PROVE  Waits' = Waits
<1>1. \A u \in Threads \ {t} : Top(u)' = Top(u) /\ (At(u, "wait")' <=> At(u, "wait"))
  BY OthersStay
<1> QED
  BY <1>1 DEF Waits

LEMMA WaitsChange ==
  ASSUME NEW t \in Threads, Others(t)
  PROVE  Waits' = [Waits EXCEPT ![t] = IF At(t, "wait")' THEN Top(t)'.m ELSE NULL]
<1>1. \A u \in Threads \ {t} : Top(u)' = Top(u) /\ (At(u, "wait")' <=> At(u, "wait"))
  BY OthersStay
<1> QED
  BY <1>1 DEF Waits

LEMMA LoadsStay ==
  ASSUME UNCHANGED initializing
  PROVE  LoadsOf' = LoadsOf
BY DEF LoadsOf, Marked

(* A module is being loaded exactly while an import loads it.              *)
LEMMA LoadsIff ==
  ASSUME TypeOK, LoadInv, NEW m \in Modules
  PROVE  m \in LoadsOf <=> \E t \in Threads : Frames(t, m, Loading) # {}
<1>1. ASSUME m \in LoadsOf PROVE \E t \in Threads : Frames(t, m, Loading) # {}
  <2>1. PICK load \in initializing : load[1] = m
    BY <1>1 DEF LoadsOf, Marked
  <2> QED
    BY <2>1 DEF LoadInv
<1>2. ASSUME NEW t \in Threads, NEW i \in Frames(t, m, Loading) PROVE m \in LoadsOf
  <2>1. <<m, stack[t][i].mod>> \in initializing
    BY DEF LoadInv, Frames
  <2> QED
    BY <2>1 DEF LoadsOf, Marked
<1> QED
  BY <1>1, <1>2

(* The top of a stack is one of its imports.                               *)
LEMMA TopFrame ==
  ASSUME TypeOK, NEW t \in Threads, stack[t] # << >>
  PROVE  /\ Len(stack[t]) \in DOMAIN stack[t] /\ Top(t) = stack[t][Len(stack[t])]
         /\ Top(t) \in Frame /\ Top(t).m \in Modules
<1>1. stack[t] \in Seq(Frame)
  BY DEF TypeOK, Frame
<1> QED
  BY <1>1, TopType DEF Top, Last, Frame

LEMMA TopOwns ==
  ASSUME TypeOK, HoldInv, NEW t \in Threads, stack[t] # << >>, Top(t).at \in Holding
  PROVE  owner[Top(t).m] = t
BY TopFrame, HolderOwns

(* A step that neither touches a lock nor begins or ends a load.           *)
LEMMA StutterLocks ==
  ASSUME NEW t \in Threads, Others(t), ~ At(t, "wait"), ~ At(t, "wait")',
         UNCHANGED <<owner, count, initializing>>
  PROVE  UNCHANGED Locks!vars
BY WaitsStay, LoadsStay DEF Locks!vars

LEMMA PlainLocks ==
  ASSUME ImportLocksAssumption, Inv, NEW t \in Threads,
         \/ Ensure(t) \/ Check(t) \/ Find(t) \/ Examine(t) \/ Recheck(t)
         \/ \E m \in Modules : Import(t, m)
  PROVE  UNCHANGED Locks!vars
<1>1. Plain(t) /\ NoLoad(t)
  BY PlainSteps DEF Inv
<1> QED
  BY <1>1, StutterLocks DEF Plain, NoLoad, Off, lockVars, moduleVars

LEMMA BeginLocks ==
  ASSUME ImportLocksAssumption, Inv, NEW t \in Threads, Load(t)
  PROVE  UNCHANGED Locks!vars \/ Locks!Begin(t, Top(t).m)
<1> DEFINE m == Top(t).m
<1>1. Plain(t) /\ UNCHANGED <<owner, count>>
  BY LoadingSteps DEF Inv, Plain, lockVars
<1>2. CASE UNCHANGED moduleVars
  BY <1>1, <1>2, StutterLocks DEF Plain, Off, moduleVars
<1>3. CASE ~ UNCHANGED moduleVars
  <2>1. /\ stack[t] # << >> /\ Top(t).at = "got" /\ modules[m] = 0
        /\ initializing' = initializing \union {<<m, loads'[m]>>}
    BY <1>3 DEF Load, At
  <2>2. m \in Modules /\ owner[m] = t
    BY <2>1, TopFrame, TopOwns DEF Inv, Holding
  <2>3. \A u \in Threads : Frames(u, m, Loading) = {}
    BY <2>1, NotLoading DEF Inv
  <2>4. m \notin LoadsOf
    BY <2>2, <2>3, LoadsIff DEF Inv
  <2>5. LoadsOf' = LoadsOf \union {m}
    <3>1. ASSUME NEW k \in Modules PROVE k \in LoadsOf' <=> k \in LoadsOf \/ k = m
      <4> DEFINE new == <<m, loads'[m]>>
      <4>1. new[1] = m
        OBVIOUS
      <4>2. initializing' = initializing \union {new}
        BY <2>1
      <4> HIDE DEF m, new
      <4>3. k \in LoadsOf <=> \E load \in initializing : load[1] = k
        BY DEF LoadsOf, Marked
      <4>4. k \in LoadsOf' <=> \E load \in initializing' : load[1] = k
        BY DEF LoadsOf, Marked
      <4> QED
        BY <4>1, <4>2, <4>3, <4>4
    <3> QED
      BY <2>2, <3>1 DEF LoadsOf
  <2>6. Waits' = Waits
    BY <1>1, WaitsStay DEF Plain, Off
  <2> QED
    BY <1>1, <2>2, <2>4, <2>5, <2>6 DEF Locks!Begin
<1> QED
  BY <1>2, <1>3

LEMMA EndLocks ==
  ASSUME ImportLocksAssumption, Inv, NEW t \in Threads, Clear(t)
  PROVE  Locks!End(t, Top(t).m)
<1> DEFINE m == Top(t).m
<1>1. Plain(t) /\ UNCHANGED <<owner, count>>
  BY LoadingSteps DEF Inv, Plain, lockVars
<1>2. /\ stack[t] # << >> /\ Top(t).at \in Loading /\ Top(t).at \in Holding
      /\ initializing' = initializing \ {<<m, Top(t).mod>>}
  BY DEF Clear, At, Loading, Holding
<1>3. m \in Modules /\ owner[m] = t
  BY <1>2, TopFrame, TopOwns DEF Inv
<1>4. Len(stack[t]) \in Frames(t, m, Loading)
  BY <1>2, TopFrame DEF Inv, Frames
<1>5. m \in LoadsOf
  BY <1>3, <1>4, LoadsIff DEF Inv
<1>6. ASSUME NEW load \in initializing, load[1] = m PROVE load = <<m, Top(t).mod>>
  <2>1. PICK u \in Threads : \E i \in Frames(u, m, Loading) : stack[u][i].mod = load[2]
    BY <1>6 DEF Inv, LoadInv
  <2>2. PICK i \in Frames(u, m, Loading) : stack[u][i].mod = load[2]
    BY <2>1
  <2>3. u = t /\ i = Len(stack[t])
    BY <1>3, <1>4 DEF Inv, LoadInv
  <2>4. load[2] = Top(t).mod
    BY <1>2, <2>2, <2>3, TopFrame DEF Inv
  <2>5. load = <<load[1], load[2]>>
    BY DEF Inv, TypeOK
  <2> QED
    BY <1>6, <2>4, <2>5
<1>7. LoadsOf' = LoadsOf \ {m}
  <2>1. ASSUME NEW k \in Modules PROVE k \in LoadsOf' <=> k \in LoadsOf /\ k # m
    BY <1>2, <1>6 DEF LoadsOf, Marked
  <2> QED
    BY <2>1 DEF LoadsOf
<1>8. Waits' = Waits
  BY <1>1, WaitsStay DEF Plain, Off
<1> QED
  BY <1>1, <1>3, <1>5, <1>7, <1>8 DEF Locks!End

LEMMA BodyLocks ==
  ASSUME ImportLocksAssumption, Inv, NEW t \in Threads, Finish(t) \/ Put(t) \/ Fail(t)
  PROVE  UNCHANGED Locks!vars
<1>1. Plain(t)
  BY LoadingSteps DEF Inv
<1>2. UNCHANGED initializing
  BY DEF Finish, Put, Fail
<1> QED
  BY <1>1, <1>2, StutterLocks DEF Plain, Off, lockVars

LEMMA EnterLocks ==
  ASSUME ImportLocksAssumption, Inv, NEW t \in Threads, Enter(t)
  PROVE  UNCHANGED Locks!vars \/ Locks!Acquire(t, Top(t).m)
<1> DEFINE m == Top(t).m
<1>1. stack[t] # << >> /\ Top(t).at = "enter" /\ At(t, "enter") /\ UNCHANGED initializing
  BY DEF Enter, At, moduleVars
<1>2. m \in Modules /\ Top(t) \in Frame
  BY <1>1, TopFrame DEF Inv
<1>3. CASE count[m] > 0 /\ owner[m] # t
  <2>1. Goto(t, "search") /\ UNCHANGED <<owner, count>>
    <3>1. count[m] # 0
      BY <1>2, <1>3 DEF Inv, TypeOK
    <3> QED
      BY <1>3, <3>1 DEF Enter
  <2>2. Others(t) /\ ~ At(t, "wait")'
    BY <1>1, <2>1, AcquiringFacts DEF Inv, Acquiring
  <2>3. ~ At(t, "wait")
    BY <1>1 DEF At
  <2> QED
    BY <1>1, <2>1, <2>2, <2>3, StutterLocks
<1>4. CASE ~ (count[m] > 0 /\ owner[m] # t)
  <2> DEFINE f == [Top(t) EXCEPT !.at = "got"]
  <2>1. /\ Replace(t, f)
        /\ owner' = [owner EXCEPT ![m] = t] /\ count' = [count EXCEPT ![m] = @ + 1]
        /\ count[m] = 0 \/ owner[m] = t
    BY <1>4 DEF Enter, Goto
  <2>2. f \in Frame /\ f.m = m /\ f.at = "got"
    BY <1>2 DEF Frame, Places
  <2> HIDE DEF f
  <2>3. Replaced(t, f) /\ stack[t] \in Seq(Frame)
    BY <1>1, <2>1, <2>2, ReplaceFacts DEF Inv, TypeOK, Frame
  <2>4. \A q : At(t, q)' <=> q = "got"
    BY <2>2, <2>3, WhenReplaced DEF Inv
  <2>5. Waits' = Waits
    BY <1>1, <2>3, <2>4, WaitsStay DEF Replaced, At
  <2>6. owner[m] \in {t, NULL}
    BY <1>2, <2>1 DEF Inv, HoldInv
  <2>7. Waits[t] = NULL
    BY <1>1 DEF Waits, At
  <2> QED
    BY <1>1, <2>1, <2>5, <2>6, <2>7, LoadsStay DEF Locks!Acquire
<1> QED
  BY <1>3, <1>4

LEMMA SearchLocks ==
  ASSUME ImportLocksAssumption, Inv, NEW t \in Threads, Follow(t) \/ Peek(t) \/ Deadlock(t)
  PROVE  UNCHANGED Locks!vars
<1>1. stack[t] # << >> /\ Top(t).at \in Acquiring /\ ~ At(t, "wait")
  BY DEF Follow, Peek, Deadlock, At, Acquiring
<1>2. UNCHANGED <<owner, count, initializing>>
  BY DEF Follow, Peek, Deadlock, moduleVars, lockVars
<1>3. Pop(t) \/ \E p \in {"search", "peek", "check"} : Goto(t, p)
  BY DEF Follow, Peek, Deadlock
<1>4. Others(t) /\ ~ At(t, "wait")'
  <2>1. CASE Pop(t)
    BY <1>1, <2>1, GivingUpFacts DEF Inv, Off
  <2>2. ASSUME NEW p \in {"search", "peek", "check"}, Goto(t, p)
        PROVE  Others(t) /\ ~ At(t, "wait")'
    <3>1. p \in Acquiring \union {"check"} /\ p # "wait"
      BY DEF Acquiring
    <3> QED
      BY <1>1, <2>2, <3>1, AcquiringFacts DEF Inv
  <2> QED
    BY <1>3, <2>1, <2>2
<1> QED
  BY <1>1, <1>2, <1>4, StutterLocks

(* Who begins to wait closes no circle: there is none afterwards.          *)
LEMMA WaitLocks ==
  ASSUME ImportLocksAssumption, Inv, Inv', NEW t \in Threads, QueueUp(t)
  PROVE  Locks!Wait(t, Top(t).m)
<1> DEFINE m == Top(t).m
<1>1. /\ stack[t] # << >> /\ Top(t).at = "search" /\ At(t, "search") /\ Goto(t, "wait")
      /\ UNCHANGED <<initializing, owner, count>>
  BY DEF QueueUp, NoDeadlock, At, moduleVars
<1>2. m \in Modules
  BY <1>1, TopFrame DEF Inv
<1>3. owner[m] # NULL
  <2>1. count[m] > 0
    BY <1>1 DEF Inv, SearchInv, Searching
  <2>2. count[m] # 0
    BY <1>2, <2>1 DEF Inv, TypeOK
  <2> QED
    BY <1>2, <2>2 DEF Inv, HoldInv
<1>4. Others(t) /\ Top(t)'.m = m /\ At(t, "wait")'
  BY <1>1, AcquiringFacts DEF Inv, Acquiring
<1>5. Waits' = [Waits EXCEPT ![t] = m]
  BY <1>4, WaitsChange
<1>6. Waits[t] = NULL
  BY <1>1 DEF Waits, At
<1>7. NoCircleOfWaits'
  <2>1. Inv' => NoCircleOfWaits'
    BY InvNoCircle, PTL
  <2> QED
    BY <2>1
<1>8. Locks!NoCircle'
  <2> SUFFICES ASSUME NEW S \in (SUBSET Threads) \ {{}}, Locks!Circle(S)' PROVE FALSE
    BY DEF Locks!NoCircle
  <2>1. PICK u \in S : At(u, "wait")' => owner'[Top(u)'.m] \notin S
    BY <1>7 DEF NoCircleOfWaits
  <2>2. Waits'[u] # NULL /\ owner'[Waits'[u]] \in S
    BY DEF Locks!Circle
  <2>3. u \in Threads
    OBVIOUS
  <2> QED
    BY <2>1, <2>2, <2>3 DEF Waits
<1> QED
  BY <1>1, <1>3, <1>5, <1>6, <1>8, LoadsStay DEF Locks!Wait

LEMMA WakeLocks ==
  ASSUME ImportLocksAssumption, Inv, NEW t \in Threads, WakeupAcquire(t)
  PROVE  Locks!Wake(t)
<1>1. /\ stack[t] # << >> /\ Top(t).at = "wait" /\ At(t, "wait") /\ Goto(t, "pass")
      /\ UNCHANGED <<initializing, owner, count>>
  BY DEF WakeupAcquire, At, moduleVars
<1>2. Others(t) /\ ~ At(t, "wait")'
  BY <1>1, AcquiringFacts DEF Inv, Acquiring
<1>3. Waits' = [Waits EXCEPT ![t] = NULL]
  BY <1>2, WaitsChange
<1>4. Waits[t] # NULL
  BY <1>1, TopFrame, ImportLocksAssumption DEF Inv, Waits, ImportLocksAssumption
<1> QED
  BY <1>1, <1>3, <1>4, LoadsStay DEF Locks!Wake

LEMMA PassLocks ==
  ASSUME ImportLocksAssumption, Inv, NEW t \in Threads, WakeupRelease(t)
  PROVE  UNCHANGED Locks!vars
<1>1. /\ stack[t] # << >> /\ Top(t).at = "pass" /\ ~ At(t, "wait") /\ Goto(t, "enter")
      /\ UNCHANGED <<initializing, owner, count>>
  BY DEF WakeupRelease, At, moduleVars
<1>2. Others(t) /\ ~ At(t, "wait")'
  BY <1>1, AcquiringFacts DEF Inv, Acquiring
<1> QED
  BY <1>1, <1>2, StutterLocks

(* The last import of a thread that holds a lock does not load.            *)
LEMMA ReleaseLocks ==
  ASSUME ImportLocksAssumption, Inv, NEW t \in Threads, Release(t)
  PROVE  Locks!Release(t, Top(t).m)
<1> DEFINE m == Top(t).m
<1>1. /\ stack[t] # << >> /\ Top(t).at = "release" /\ At(t, "release") /\ UNCHANGED initializing
      /\ count' = [count EXCEPT ![m] = @ - 1]
      /\ count[m] > 1 => UNCHANGED owner
      /\ ~ (count[m] > 1) => owner' = [owner EXCEPT ![m] = NULL]
  BY DEF Release, At, moduleVars
<1>2. m \in Modules /\ owner[m] = t
  BY <1>1, TopFrame, TopOwns DEF Inv, Holding
<1>3. Waits[t] = NULL /\ ~ At(t, "wait")
  BY <1>1 DEF Waits, At
<1>4. Others(t) /\ Off(t)'
  BY ReleaseMoves DEF Inv
<1>5. Waits' = Waits
  BY <1>3, <1>4, WaitsStay DEF Off
<1>6. ASSUME ~ (count[m] > 1), m \in LoadsOf PROVE FALSE
  <2>1. PICK u \in Threads : Frames(u, m, Loading) # {}
    BY <1>2, <1>6, LoadsIff DEF Inv
  <2>2. PICK i \in Frames(u, m, Loading) : TRUE
    BY <2>1
  <2>3. i \in Frames(u, m, Holding) /\ i \in DOMAIN stack[u] /\ stack[u][i].m = m
        /\ stack[u][i].at \in Holding /\ stack[u][i].at \in Loading
    BY <2>2 DEF Frames, Loading, Holding
  <2>4. u = t
    BY <1>2, <2>3, HolderOwns DEF Inv
  <2> DEFINE n == Len(stack[t])
             H == Frames(t, m, Holding)
  <2>5. n \in H /\ i \in H /\ i # n
    BY <1>1, <2>3, <2>4, TopFrame DEF Inv, Frames, Holding, Loading
  <2>6. IsFiniteSet(H) /\ Cardinality(H) = count[m] /\ count[m] \in Nat
    <3>1. stack[t] \in Seq(Frame)
      BY DEF Inv, TypeOK, Frame
    <3> QED
      BY <1>2, <3>1, FramesFinite DEF Inv, HoldInv, TypeOK
  <2> HIDE DEF H, n
  <2>7. Cardinality({i, n}) = 2 /\ {i, n} \subseteq H
    <3>1. IsFiniteSet({i}) /\ Cardinality({i}) = 1
      BY FS_Singleton
    <3>2. Cardinality({i} \union {n}) = 2
      <4>1. n \notin {i}
        BY <2>5
      <4>2. Cardinality({i} \union {n}) = Cardinality({i}) + 1
        BY <3>1, <4>1, FS_AddElement
      <4> QED
        BY <3>1, <4>2
    <3>3. {i} \union {n} = {i, n}
      OBVIOUS
    <3> QED
      BY <2>5, <3>2, <3>3
  <2>8. Cardinality({i, n}) <= Cardinality(H)
    BY <2>6, <2>7, FS_Subset
  <2> QED
    BY <1>6, <2>6, <2>7, <2>8
<1> QED
  BY <1>1, <1>2, <1>3, <1>5, <1>6, LoadsStay DEF Locks!Release

LEMMA StepLocks ==
  ASSUME ImportLocksAssumption, Inv, Inv', [Next]_vars
  PROVE  [Locks!Next]_(Locks!vars)
<1>1. ASSUME NEW t \in Threads, Step(t) \/ \E m \in Modules : Import(t, m)
      PROVE  Locks!Next \/ UNCHANGED Locks!vars
  <2>1. CASE \/ Ensure(t) \/ Check(t) \/ Find(t) \/ Examine(t) \/ Recheck(t)
             \/ \E m \in Modules : Import(t, m)
    BY <2>1, PlainLocks
  <2>2. CASE Finish(t) \/ Put(t) \/ Fail(t)
    BY <2>2, BodyLocks
  <2>3. CASE Follow(t) \/ Peek(t) \/ Deadlock(t)
    BY <2>3, SearchLocks
  <2>4. CASE WakeupRelease(t)
    BY <2>4, PassLocks
  <2>5. CASE WakeupAcquire(t)
    BY <2>5, WakeLocks DEF Locks!Next
  <2>6. CASE Load(t) \/ Clear(t) \/ Enter(t) \/ QueueUp(t) \/ Release(t)
    <3>1. stack[t] # << >>
      BY <2>6 DEF Load, Clear, Enter, QueueUp, NoDeadlock, Release, At
    <3>2. Top(t).m \in Modules
      BY <3>1, TopFrame DEF Inv
    <3> QED
      BY <2>6, <3>2, BeginLocks, EndLocks, EnterLocks, WaitLocks, ReleaseLocks DEF Locks!Next
  <2> QED
    BY <1>1, <2>1, <2>2, <2>3, <2>4, <2>5, <2>6 DEF Step
<1>2. CASE UNCHANGED vars
  <2>1. \A t \in Threads : Top(t)' = Top(t) /\ (At(t, "wait")' <=> At(t, "wait"))
    BY <1>2 DEF vars, Top, At
  <2>2. Waits' = Waits
    BY <2>1 DEF Waits
  <2> QED
    BY <1>2, <2>2, LoadsStay DEF vars, moduleVars, lockVars, Locks!vars
<1> QED
  BY <1>1, <1>2 DEF Next

LEMMA InitLocks == Init => Locks!Init
<1> SUFFICES ASSUME Init PROVE Locks!Init
  OBVIOUS
<1>1. \A t \in Threads : ~ At(t, "wait")
  BY DEF Init, At
<1>2. Waits = [t \in Threads |-> NULL]
  BY <1>1 DEF Waits
<1>3. LoadsOf = {}
  BY DEF Init, LoadsOf, Marked
<1> QED
  BY <1>2, <1>3 DEF Init, Locks!Init

(* The module locks implement locks that their owners may take again, on   *)
(* which threads never wait in a circle, with one load of each module at a *)
(* time and no lock given up during a load.                                *)
THEOREM Implementation == Spec => ImplementsLocks
<1>1. Inv /\ Inv' /\ [Next]_vars => [Locks!Next]_(Locks!vars)
  BY StepLocks, ImportLocksAssumption
<1> QED
  BY <1>1, InitLocks, Invariance, PTL DEF Spec, ImplementsLocks, Locks!Spec

=============================================================================
