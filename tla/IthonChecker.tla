---------------------------- MODULE IthonChecker ----------------------------
(***************************************************************************)
(* The static checker (Checker of Lib/ithon_static.py with the membership  *)
(* tests of Lib/ithon_frontend.py): one statement of the program per step, *)
(* over a stack of scopes and a stack of expected results.                 *)
(*                                                                         *)
(* The syntax tree is made of records.  Expressions, field "k":            *)
(*   const type | name id | bin op left right | un op operand              *)
(*   cmp ops operands | ifexp test body orelse | list elts                 *)
(*   lambda params body | call func args keywords | attr value | other     *)
(* where op is "/", "+", "*" (also for -), "%" (also for //), "**" or "@"  *)
(* (the rest), or "-" and "not", and ops are "<", "=", "in" or "is".       *)
(* Statements:                                                             *)
(*   assign targets value | ann target type value | return value           *)
(*   for target iter body orelse | if test body orelse                     *)
(*   def name params result body variadic | class name bases body extras   *)
(*   import name | from name | expr value | pass | other                   *)
(* A target is a name or NULL (anything else), params are [name, type],    *)
(* a type is the parsed annotation or NULL, an absent value is NULL.       *)
(***************************************************************************)
EXTENDS IthonTypes

CONSTANTS
  Programs,   \* the programs: sequences of statements
  NULL

VARIABLES
  program,    \* the program
  todo,       \* what is left to check, first to last
  scopes,     \* the scopes, the innermost last: name -> type
  returns,    \* the results of the functions around, the innermost last
  locals,     \* history: the scopes of the functions checked, by name
  verdict     \* "checking", "accepted", "rejected"

checkVars == <<program, todo, scopes, returns, locals, verdict>>

(* StaticTypeError                                                         *)
ERROR == Plain("<error>")

Classes == [int |-> INT, float |-> FLOAT, complex |-> COMPLEX, bool |-> BOOL,
            str |-> STR, bytes |-> BYTES, object |-> OBJECT]

Builtins == [id \in DOMAIN Classes |-> IType("type", <<Classes[id]>>)]
            @@ [range |-> Plain("builtin-range"), print |-> Plain("builtin-print")]

(* A block: what it declares is declared before its statements are checked.*)
Block(body, kinds) ==
  LET declaring == SelectSeq(body, LAMBDA s : s.k \in kinds)
  IN  [i \in DOMAIN declaring |-> [k |-> "declare", of |-> declaring[i]]] \o body

InitCheck ==
  /\ program \in Programs
  /\ todo = Block(program, {"def", "class"})
  /\ scopes = <<Builtins>>
  /\ returns = << >>
  /\ locals = << >>
  /\ verdict = "checking"

-----------------------------------------------------------------------------
(* Inference *)

(* lookup: the innermost scope that has the name.                          *)
Lookup(stack, id) ==
  LET having == {i \in DOMAIN stack : id \in DOMAIN stack[i]}
  IN  IF having = {} THEN NULL ELSE stack[Max(having)][id]

ScopeOf(params) ==
  [id \in {params[i].name : i \in DOMAIN params} |->
     params[Max({i \in DOMAIN params : params[i].name = id})].type]

(* An error in a part is an error of the whole.                            *)
Strict(types, result) == IF \E i \in DOMAIN types : types[i] = ERROR THEN ERROR ELSE result

Require(actual, expected) ==
  IF actual # ERROR /\ Assignable(actual, expected) THEN actual ELSE ERROR

Widest(left, right) == IF NumericRank[left] >= NumericRank[right] THEN left ELSE right

BinOpType(op, left, right) ==
  CASE left \in Numeric /\ right \in Numeric /\ op = "/" ->
         IF COMPLEX \in {left, right} THEN COMPLEX ELSE FLOAT
    [] left \in Numeric /\ right \in Numeric /\ op \in {"+", "*", "%", "**"} -> Widest(left, right)
    [] op = "+" /\ left = right /\ left \in {STR, BYTES} -> left
    [] OTHER -> ERROR

UnaryOpType(op, operand) ==
  IF op = "-" /\ operand \in Numeric
  THEN IF operand = BOOL THEN INT ELSE operand
  ELSE ERROR

(* Mutant: the operands of an order comparison may be anything known.      *)
ComparableAll(op, left, right) ==
  /\ UNKNOWN \notin {left, right}
  /\ \/ op = "<"
     \/ op = "=" /\ (Assignable(left, right) \/ Assignable(right, left))

Comparable(op, left, right) ==
  /\ UNKNOWN \notin {left, right}
  /\ \/ op = "<" /\ left \in Numeric /\ right \in Numeric
     \/ op = "=" /\ (Assignable(left, right) \/ Assignable(right, left))

(* IthonChecker.infer: x \in xs on its own.                                *)
MembershipType(left, right) ==
  LET member == IF right.name \in {"type", "list", "set", "tuple", "frozenset"} /\ right.args # << >>
                THEN right.args[1]
                ELSE IF right = STR THEN STR ELSE OBJECT
  IN  Strict(<<left, right, Require(left, member)>>, BOOL)

CompareType(ops, types) ==
  IF ops = <<"in">>
  THEN MembershipType(types[1], types[2])
  ELSE Strict(types, IF \A i \in DOMAIN ops : Comparable(ops[i], types[i], types[i + 1])
                     THEN BOOL
                     ELSE ERROR)

(* infer, with the type the context expects or NULL.                       *)
RECURSIVE Infer(_, _, _)
Infer(e, expected, stack) ==
  LET Of(part) == Infer(part, NULL, stack)
      Each(parts) == [i \in DOMAIN parts |-> Of(parts[i])]
  IN
  CASE e.k = "const" -> e.type
    [] e.k = "name" -> LET t == Lookup(stack, e.id) IN IF t = NULL THEN ERROR ELSE t
    [] e.k = "bin" -> BinOpType(e.op, Of(e.left), Of(e.right))
    [] e.k = "un" -> UnaryOpType(e.op, Of(e.operand))
    [] e.k = "cmp" -> CompareType(e.ops, Each(e.operands))
    [] e.k = "ifexp" ->
         LET branches == <<Infer(e.body, expected, stack), Infer(e.orelse, expected, stack)>>
         IN  Strict(<<Require(Of(e.test), BOOL)>> \o branches, Union(branches))
    [] e.k = "list" /\ e.elts = << >> ->
         IF expected # NULL /\ expected.name = "list" /\ expected.args # << >>
         THEN expected
         ELSE ERROR
    [] e.k = "list" /\ e.elts # << >> ->
         Strict(Each(e.elts), IType("list", <<Union(Each(e.elts))>>))
    [] e.k = "lambda" ->
         IF \/ expected = NULL \/ expected.name # "callable"
            \/ Len(e.params) + 1 # Len(expected.args)
         THEN ERROR
         ELSE LET params == [i \in DOMAIN e.params |-> [name |-> e.params[i], type |-> expected.args[i]]]
                  body   == Infer(e.body, Last(expected.args), Append(stack, ScopeOf(params)))
              IN  Strict(<<Require(body, Last(expected.args))>>, expected)
    [] e.k = "call" /\ e.func = [k |-> "name", id |-> "range"] ->
         Strict([i \in DOMAIN e.args |-> Require(Of(e.args[i]), INT)], RANGE)
    [] e.k = "call" /\ e.func = [k |-> "name", id |-> "print"] -> Strict(Each(e.args), NONE)
    [] e.k = "call" /\ e.func \notin {[k |-> "name", id |-> id] : id \in {"range", "print"}} ->
         LET callee == Of(e.func)
         IN  CASE callee.name = "type" /\ callee.args # << >> -> Strict(Each(e.args), callee.args[1])
               [] callee.name = "callable" ->
                    IF Len(e.args) + 1 # Len(callee.args) \/ e.keywords
                    THEN ERROR
                    ELSE Strict([i \in DOMAIN e.args |->
                                   Require(Infer(e.args[i], callee.args[i], stack), callee.args[i])],
                                Last(callee.args))
               [] callee.name \in {"module", "external"} \/ callee = UNKNOWN ->
                    Strict(Each(e.args), UNKNOWN)
               [] OTHER -> ERROR
    [] e.k = "attr" -> Strict(<<Of(e.value)>>, UNKNOWN)
    [] e.k = "other" -> ERROR
-----------------------------------------------------------------------------
(* Statements *)

Bind(stack, id, t) == [stack EXCEPT ![Len(stack)] = (id :> t) @@ @]

(* assign: the scopes afterwards, or NULL if the target takes no such value.*)
Assign(stack, target, t) ==
  CASE target = NULL -> NULL
    [] target # NULL /\ Lookup(stack, target) = NULL -> Bind(stack, target, t)
    [] OTHER -> IF Assignable(t, Lookup(stack, target)) THEN stack ELSE NULL

AssignAll(stack, targets, t) ==
  FoldLeft(LAMBDA after, target : IF after = NULL THEN NULL ELSE Assign(after, target, t),
           stack, targets)

(* _declare_function: the signature, or ERROR.  The first one stays.       *)
Signature(fn, scope) ==
  IF fn.name \in DOMAIN scope /\ scope[fn.name].name = "callable"
  THEN scope[fn.name]
  ELSE IF \/ \E i \in DOMAIN fn.params : fn.params[i].type = NULL
          \/ fn.variadic
          \/ fn.result = NULL /\ fn.name # "__init__"
       THEN ERROR
       ELSE IType("callable", Append([i \in DOMAIN fn.params |-> fn.params[i].type],
                                     IF fn.result = NULL THEN NONE ELSE fn.result))

(* _declare_class: may the name be this class?                             *)
ClassType(class) == IType("type", <<Plain(class.name)>>)
ClassFree(class, scope) == class.name \in DOMAIN scope => scope[class.name] = ClassType(class)

Checking(kind) == verdict = "checking" /\ todo # << >> /\ Head(todo).k = kind
Stmt == Head(todo)

Accept(more, stack) ==
  /\ todo' = more \o Tail(todo)
  /\ scopes' = stack
  /\ UNCHANGED <<program, returns, locals, verdict>>

Reject ==
  /\ verdict' = "rejected"
  /\ UNCHANGED <<program, todo, scopes, returns, locals>>

Decide(fine, more, stack) ==
  \/ fine /\ Accept(more, stack)
  \/ ~ fine /\ Reject

DeclareFunction ==
  /\ Checking("declare") /\ Stmt.of.k = "def"
  /\ LET signature == Signature(Stmt.of, Last(scopes))
     IN  Decide(signature # ERROR, << >>, Bind(scopes, Stmt.of.name, signature))

DeclareClass ==
  /\ Checking("declare") /\ Stmt.of.k = "class"
  /\ Decide(ClassFree(Stmt.of, Last(scopes)), << >>,
            Bind(scopes, Stmt.of.name, ClassType(Stmt.of)))

CheckClass ==
  /\ Checking("class")
  /\ LET bound == Bind(scopes, Stmt.name, ClassType(Stmt))
         fine  == /\ ClassFree(Stmt, Last(scopes)) /\ ~ Stmt.extras
                  /\ \A i \in DOMAIN Stmt.bases :
                       Infer(Stmt.bases[i], NULL, bound).name \in {"external", "type"}
     IN  Decide(fine, Append(Block(Stmt.body, {"def"}), [k |-> "leave", name |-> NULL]),
                Append(bound, << >>))

(* A function's body is checked where it stands, with the parameters that  *)
(* the declared signature has in a scope of their own.                     *)
CheckDef ==
  /\ Checking("def")
  /\ LET signature == Signature(Stmt, Last(scopes))
         params == [i \in 1 .. Min({Len(Stmt.params), Len(signature.args) - 1}) |->
                      [name |-> Stmt.params[i].name, type |-> signature.args[i]]]
     IN  \/ /\ signature # ERROR
            /\ todo' = Append(Stmt.body, [k |-> "leave", name |-> Stmt.name]) \o Tail(todo)
            /\ scopes' = Append(Bind(scopes, Stmt.name, signature), ScopeOf(params))
            /\ returns' = Append(returns, Last(signature.args))
            /\ UNCHANGED <<program, locals, verdict>>
         \/ signature = ERROR /\ Reject

(* The end of a class (no name) or of a function.                          *)
Leave ==
  /\ Checking("leave")
  /\ todo' = Tail(todo)
  /\ scopes' = Front(scopes)
  /\ returns' = IF Stmt.name = NULL THEN returns ELSE Front(returns)
  /\ locals' = IF Stmt.name = NULL
               THEN locals
               ELSE (Stmt.name :> [id \in UNION {DOMAIN scopes[i] : i \in DOMAIN scopes} |->
                                     Lookup(scopes, id)]) @@ locals
  /\ UNCHANGED <<program, verdict>>

CheckAssign ==
  /\ Checking("assign")
  /\ LET actual == Infer(Stmt.value, NULL, scopes)
         after  == AssignAll(scopes, Stmt.targets, actual)
         fine   == actual \notin {ERROR, UNKNOWN} /\ after # NULL
     IN  Decide(fine, << >>, after)

CheckAnn ==
  /\ Checking("ann")
  /\ LET bound == Bind(scopes, Stmt.target, Stmt.type)
         fine  == /\ Stmt.target # NULL
                  /\ Lookup(scopes, Stmt.target) \in {NULL, Stmt.type}
                  /\ Stmt.value # NULL =>
                       Require(Infer(Stmt.value, Stmt.type, bound), Stmt.type) # ERROR
     IN  Decide(fine, << >>, bound)

(* Mutant: a bare return is not compared with the result.                  *)
CheckReturnValue ==
  /\ Checking("return")
  /\ LET fine == /\ returns # << >>
                 /\ Stmt.value # NULL =>
                      Require(Infer(Stmt.value, Last(returns), scopes), Last(returns)) # ERROR
     IN  Decide(fine, << >>, scopes)

CheckReturn ==
  /\ Checking("return")
  /\ LET fine == /\ returns # << >>
                 /\ LET actual == IF Stmt.value = NULL
                                  THEN NONE
                                  ELSE Infer(Stmt.value, Last(returns), scopes)
                    IN  Require(actual, Last(returns)) # ERROR
     IN  Decide(fine, << >>, scopes)

(* What a loop variable gets: the first argument of the iterable's type.   *)
ItemType(iterable) ==
  CASE iterable.name = "range" -> INT
    [] iterable.name # "range" /\ iterable.args # << >> -> iterable.args[1]
    [] OTHER -> UNKNOWN

CheckFor ==
  /\ Checking("for")
  /\ LET item  == ItemType(Infer(Stmt.iter, NULL, scopes))
         after == Assign(scopes, Stmt.target, item)
         fine  == item # UNKNOWN /\ after # NULL
     IN  Decide(fine, Stmt.body \o Stmt.orelse, after)

CheckIf ==
  /\ Checking("if")
  /\ LET fine == Infer(Stmt.test, NULL, scopes) # ERROR
     IN  Decide(fine, Stmt.body \o Stmt.orelse, scopes)

(* Imports bind their name whatever it was before.                         *)
CheckImport ==
  /\ Checking("import")
  /\ Accept(<< >>, Bind(scopes, Stmt.name, IType("module", <<Plain(Stmt.name)>>)))

CheckImportFrom ==
  /\ Checking("from")
  /\ Decide(Stmt.name # NULL, << >>, Bind(scopes, Stmt.name, Plain("external")))

CheckExpr ==
  /\ Checking("expr")
  /\ LET fine == Infer(Stmt.value, NULL, scopes) # ERROR
     IN  Decide(fine, << >>, scopes)

CheckPass == Checking("pass") /\ Accept(<< >>, scopes)

CheckOther == Checking("other") /\ Reject

FinishCheck ==
  /\ verdict = "checking" /\ todo = << >>
  /\ verdict' = "accepted"
  /\ UNCHANGED <<program, todo, scopes, returns, locals>>

Check ==
  \/ DeclareFunction \/ DeclareClass \/ CheckClass \/ CheckDef \/ Leave \/ CheckAssign
  \/ CheckAnn \/ CheckReturn \/ CheckFor \/ CheckIf \/ CheckImport \/ CheckImportFrom
  \/ CheckExpr \/ CheckPass \/ CheckOther \/ FinishCheck
=============================================================================
