---------------------------- MODULE IthonProgram ----------------------------
(***************************************************************************)
(* An accepted program runs as Python: what the names hold is compared     *)
(* with the types the checker gave them.                                   *)
(*                                                                         *)
(* The interpreter is external; this is as much of it as the types can     *)
(* see.  A value is its class (IthonTypes); tests come out either way;     *)
(* nothing is known of what foreign code returns, except where the program *)
(* declares its type (Callable parameters, annotated names, results), which*)
(* is taken for true.  A function or an instance is called at the root of  *)
(* a statement's value, functions are defined at the top level or in a     *)
(* class, and only calls from outside reach methods.                       *)
(***************************************************************************)
EXTENDS IthonChecker

CONSTANT MaxDepth    \* bound: nested calls

VARIABLES
  status,    \* "waiting", "running", "done", "TypeError", "NameError"
  frames     \* the frames, the innermost last

runVars == <<status, frames>>
vars == <<checkVars, runVars>>

(* A frame: the function executed (NULL for a class body or the module)    *)
(* and its declared result, its names, what it has left to do, and what a  *)
(* constructor gives instead of the function's result.                     *)
Frame(fn, result, env, rest, gives) ==
  [fn |-> fn, result |-> result, env |-> env, rest |-> rest, gives |-> gives]

Init == InitCheck /\ status = "waiting" /\ frames = << >>

Top == Last(frames)
Current == Head(Top.rest)

TYPE_ERROR == Scalar(Plain("<TypeError>"))
NAME_ERROR == Scalar(Plain("<NameError>"))
Fails(v) == v \in {TYPE_ERROR, NAME_ERROR}

-----------------------------------------------------------------------------
(* Names and values *)

RECURSIVE Binds(_)
Binds(body) ==
  UNION {CASE body[i].k = "assign" -> ToSet(body[i].targets)
           [] body[i].k = "ann" -> {body[i].target}
           [] body[i].k = "for" -> {body[i].target} \union Binds(body[i].body \o body[i].orelse)
           [] body[i].k = "if" -> Binds(body[i].body \o body[i].orelse)
           [] body[i].k \in {"import", "from", "def", "class"} -> {body[i].name}
           [] OTHER -> {} : i \in DOMAIN body}

(* What a function binds is local in all of it.                            *)
Local(fn, id) ==
  fn # NULL /\ fn.k = "def" /\ id \in Binds(fn.body)

Resolve(id) ==
  CASE id \in DOMAIN Top.env -> Top.env[id]
    [] id \notin DOMAIN Top.env /\ Local(Top.fn, id) -> NAME_ERROR
    [] id \in DOMAIN frames[1].env -> frames[1].env[id]
    [] id \in DOMAIN Builtins -> Scalar(Builtins[id])
    [] OTHER -> NAME_ERROR

(* A value foreign code gives where the program declares what it gives.    *)
RECURSIVE Promised(_)
Promised(t) ==
  CASE t.name = "union" -> Promised(t.args[1])
    [] t.name = "list" /\ t.args # << >> -> ListOf(<<Promised(t.args[1])>>)
    [] t.name \in {"external", "module", "<unknown>"} -> FOREIGN
    [] OTHER -> Scalar(t)

RECURSIVE FirstFailure(_)
FirstFailure(values) ==
  IF values = << >> THEN NULL
  ELSE IF Fails(Head(values)) THEN Head(values) ELSE FirstFailure(Tail(values))

(* The value once the parts are there, or the failure of a part.           *)
With(parts, value) == IF FirstFailure(parts) = NULL THEN value ELSE FirstFailure(parts)

(* Arithmetic; coin stands for what depends on the numbers.                *)
Arithmetic(op, left, right, coin) ==
  IF left \in Numeric /\ right \in Numeric
  THEN LET wide == Widest(INT, Widest(left, right))
       IN  CASE op = "/" -> Scalar(Widest(FLOAT, wide))
             [] op = "%" -> IF wide = COMPLEX THEN TYPE_ERROR ELSE Scalar(wide)
             [] op = "**" -> Scalar(IF ~ coin THEN wide
                                    ELSE IF wide = INT THEN FLOAT ELSE COMPLEX)
             [] OTHER -> Scalar(wide)
  ELSE IF op = "+" /\ left = right /\ left \in {STR, BYTES} THEN Scalar(left) ELSE TYPE_ERROR

CompareValues(op, left, right) ==
  CASE op = "=" -> Scalar(BOOL)
    [] op = "<" -> IF \/ {left.type, right.type} \subseteq Numeric \ {COMPLEX}
                      \/ left.type = STR /\ right.type = STR
                   THEN Scalar(BOOL) ELSE TYPE_ERROR
    [] OTHER    -> IF \/ right.type.name \in {"list", "range"}
                      \/ left.type = STR /\ right.type = STR
                   THEN Scalar(BOOL) ELSE TYPE_ERROR

RECURSIVE Eval(_, _, _)
Eval(e, expected, coin) ==
  LET Of(part) == Eval(part, NULL, coin)
      Each(parts) == [i \in DOMAIN parts |-> Of(parts[i])]
  IN
  CASE e.k = "value" -> e.value
    [] e.k = "const" -> Scalar(e.type)
    [] e.k = "name" -> Resolve(e.id)
    [] e.k = "bin" ->
         LET left == Of(e.left) right == Of(e.right)
         IN  With(<<left, right>>, Arithmetic(e.op, left.type, right.type, coin))
    [] e.k = "un" -> With(<<Of(e.operand)>>, Scalar(Widest(INT, Of(e.operand).type)))
    [] e.k = "cmp" ->
         LET values == Each(e.operands)
             results == [i \in DOMAIN e.ops |-> CompareValues(e.ops[i], values[i], values[i + 1])]
         IN  With(values, With(results, Scalar(BOOL)))
    [] e.k = "ifexp" ->
         With(<<Of(e.test)>>, Eval(IF coin THEN e.body ELSE e.orelse, expected, coin))
    [] e.k = "list" -> With(Each(e.elts), ListOf(Each(e.elts)))
    [] e.k = "lambda" -> Value(expected, <<e>>)
    [] e.k = "attr" -> With(<<Of(e.value)>>, IF expected = NULL THEN FOREIGN ELSE Promised(expected))
    [] e.k = "call" ->
         LET callee == IF e.func.k = "attr" THEN With(<<Of(e.func.value)>>, FOREIGN) ELSE Of(e.func)
         IN  With(<<callee>> \o Each(e.args),
               CASE callee = FOREIGN -> IF expected = NULL THEN FOREIGN ELSE Promised(expected)
                 [] callee.type.name = "callable" -> Promised(Last(callee.type.args))
                 [] callee.type.name = "builtin-range" -> Value(RANGE, <<Scalar(INT), Scalar(INT)>>)
                 [] callee.type.name = "builtin-print" -> Scalar(NONE)
                 [] callee.type.name = "type" ->
                      IF callee.type.args[1] \in Range(Classes) \/ e.args = << >>
                      THEN Scalar(callee.type.args[1])
                      ELSE TYPE_ERROR
                 [] OTHER -> TYPE_ERROR)
-----------------------------------------------------------------------------
(* Statements *)

Executes(kinds) == status = "running" /\ Top.rest # << >> /\ Current.k \in kinds

Continue(env, more) ==
  /\ frames' = Append(Front(frames), [Top EXCEPT !.env = env, !.rest = more \o Tail(@)])
  /\ UNCHANGED <<status, checkVars>>

Raise(failure) ==
  /\ status' = IF failure = TYPE_ERROR THEN "TypeError" ELSE "NameError"
  /\ UNCHANGED <<frames, checkVars>>

ContinueWith(value, env, more) == IF Fails(value) THEN Raise(value) ELSE Continue(env, more)

BindAll(targets, value) == [id \in targets |-> value] @@ Top.env

(* The statement's value calls something that has a body.                  *)
Calls ==
  /\ Current.value # NULL /\ Current.value.k = "call" /\ Current.value.func.k = "name"
  /\ LET callee == Eval(Current.value.func, NULL, TRUE)
     IN  callee.type.name \in {"callable", "type"} /\ callee.items # << >>

Expected ==
  CASE Current.k = "ann" -> Current.type
    [] Current.k = "return" -> Top.result
    [] OTHER -> NULL

Begin ==
  /\ status = "waiting" /\ verdict = "accepted"
  /\ status' = "running"
  /\ frames' = <<Frame(NULL, NULL, << >>, program, NULL)>>
  /\ UNCHANGED checkVars

ParamNames(fn) ==
  IF fn.k = "lambda" THEN fn.params ELSE [i \in DOMAIN fn.params |-> fn.params[i].name]

(* The call of a function, a lambda or a class with an __init__.           *)
Call(coin) ==
  /\ Executes({"assign", "ann", "expr", "return"}) /\ Calls
  /\ Len(frames) < MaxDepth
  /\ LET call   == Current.value
         callee == Eval(call.func, NULL, coin)
         fn     == callee.items[1]
         names  == ParamNames(fn)
         gives  == IF callee.type.name = "type" THEN Scalar(callee.type.args[1]) ELSE NULL
         self   == IF gives = NULL THEN << >> ELSE <<gives>>
         Param(i) == IF gives = NULL /\ i < Len(callee.type.args) THEN callee.type.args[i] ELSE NULL
         args   == self \o [i \in DOMAIN call.args |-> Eval(call.args[i], Param(i), coin)]
     IN  IF FirstFailure(args) # NULL \/ Len(args) # Len(names)
         THEN Raise(IF FirstFailure(args) # NULL THEN FirstFailure(args) ELSE TYPE_ERROR)
         ELSE /\ frames' = Append(frames,
                    Frame(fn,
                          IF fn.k = "lambda" THEN Last(callee.type.args) ELSE fn.result,
                          [id \in ToSet(names) |->
                             args[Max({i \in DOMAIN names : names[i] = id})]],
                          IF fn.k = "lambda" THEN <<[k |-> "return", value |-> fn.body]>> ELSE fn.body,
                          gives))
              /\ UNCHANGED <<status, checkVars>>

(* The caller's statement goes on with the value the call gave.            *)
Give(value) ==
  /\ frames' = Append(SubSeq(frames, 1, Len(frames) - 2),
                 [frames[Len(frames) - 1] EXCEPT !.rest[1].value =
                    [k |-> "value", value |-> IF Top.gives = NULL THEN value ELSE Top.gives]])
  /\ UNCHANGED <<status, checkVars>>

Return(coin) ==
  /\ Executes({"return"}) /\ ~ Calls
  /\ LET value == IF Current.value = NULL THEN Scalar(NONE) ELSE Eval(Current.value, Expected, coin)
     IN  IF Fails(value) THEN Raise(value) ELSE Give(value)

(* A body that ends without a return gives None.                           *)
FallThrough ==
  /\ status = "running" /\ Top.rest = << >> /\ Top.fn # NULL
  /\ Give(Scalar(NONE))

SetNames(coin) ==
  /\ Executes({"assign", "ann", "expr"}) /\ ~ Calls
  /\ LET value == IF Current.value = NULL THEN NULL ELSE Eval(Current.value, Expected, coin)
         names == CASE Current.k = "assign" -> ToSet(Current.targets)
                    [] Current.k = "ann" /\ value # NULL -> {Current.target}
                    [] OTHER -> {}
     IN  ContinueWith(value, BindAll(names, value), << >>)

(* A loop runs its body for every item.                                    *)
For(coin) ==
  /\ Executes({"for"})
  /\ LET over  == Eval(Current.iter, NULL, coin)
         items == IF over.type = STR THEN <<over>> ELSE over.items
         Round(i) == <<[k |-> "assign", targets |-> <<Current.target>>,
                        value |-> [k |-> "value", value |-> items[i]]]>> \o Current.body
     IN  IF Fails(over) \/ over.type \notin {Plain("list"), RANGE, STR}
         THEN Raise(IF Fails(over) THEN over ELSE TYPE_ERROR)
         ELSE Continue(Top.env, FlattenSeq([i \in DOMAIN items |-> Round(i)]) \o Current.orelse)

If(coin) ==
  /\ Executes({"if"})
  /\ ContinueWith(Eval(Current.test, NULL, coin), Top.env,
                  IF coin THEN Current.body ELSE Current.orelse)

Def ==
  /\ Executes({"def"})
  /\ Continue(BindAll({Current.name}, Value(Signature(Current, << >>), <<Current>>)), << >>)

(* A class body has names of its own.                                      *)
Class ==
  /\ Executes({"class"})
  /\ frames' = Append(frames, Frame(NULL, NULL, << >>, Current.body, NULL))
  /\ UNCHANGED <<status, checkVars>>

EndClass ==
  /\ status = "running" /\ Top.rest = << >> /\ Top.fn = NULL /\ Len(frames) > 1
  /\ LET outer == frames[Len(frames) - 1]
         class == Head(outer.rest)
         init  == IF "__init__" \in DOMAIN Top.env THEN Top.env["__init__"].items ELSE << >>
     IN  frames' = Append(SubSeq(frames, 1, Len(frames) - 2),
                     [outer EXCEPT !.env = (class.name :> Value(ClassType(class), init)) @@ @,
                                   !.rest = Tail(@)])
  /\ UNCHANGED <<status, checkVars>>

Import ==
  /\ Executes({"import", "from"})
  /\ Continue(BindAll({Current.name}, FOREIGN), << >>)

Pass == Executes({"pass"}) /\ Continue(Top.env, << >>)

End ==
  /\ status = "running" /\ Top.rest = << >> /\ Len(frames) = 1
  /\ status' = "done"
  /\ UNCHANGED <<frames, checkVars>>

Run ==
  \/ Begin \/ FallThrough \/ Def \/ Class \/ EndClass \/ Import \/ Pass \/ End
  \/ \E coin \in BOOLEAN : Call(coin) \/ Return(coin) \/ SetNames(coin) \/ For(coin) \/ If(coin)

Next == (Check /\ UNCHANGED runVars) \/ Run

Spec == Init /\ [][Next]_vars

-----------------------------------------------------------------------------
(* Properties *)

TypeOK ==
  /\ verdict \in {"checking", "accepted", "rejected"}
  /\ \A i \in DOMAIN scopes : \A id \in DOMAIN scopes[i] :
       scopes[i][id] # ERROR
  /\ \A i \in DOMAIN returns : returns[i] # ERROR
  /\ status \in {"waiting", "running", "done", "TypeError", "NameError"}
  /\ status # "waiting" => verdict = "accepted" /\ frames # << >>
  /\ Len(frames) <= MaxDepth + 1

(* Every name of the module, and of every function that is running, holds  *)
(* a value of the static type the checker gave the name, whatever way the  *)
(* program took (ITHON-TYPING.md: later assignment must preserve that type;*)
(* an explicit membership type must match the assigned value). A foreign   *)
(* result, alone or as a loop variable, comes to a name only by a          *)
(* declaration; of the members of a list of unknown, which the checker     *)
(* lets a name hold, the type says nothing (README, section 4).            *)
ValuesHaveTypes ==
  \A i \in DOMAIN frames :
    LET f == frames[i]
    IN  (i > 1 => f.fn # NULL /\ f.fn.k = "def") =>
          \A id \in DOMAIN f.env :
            Conforms(f.env[id], IF i = 1 THEN scopes[1][id] ELSE locals[f.fn.name][id])

(* An accepted program never ends in the TypeError of an operation.        *)
NoTypeError == status # "TypeError"

(* A call gives what the function's signature says (function bodies and    *)
(* local calls are checked against those signatures).                      *)
CallsMatchSignatures ==
  [][Len(frames') < Len(frames) /\ Top.fn # NULL /\ Top.gives = NULL /\ Top.result # NULL
       => Conforms(Last(frames').rest[1].value.value, Top.result)]_vars
=============================================================================
