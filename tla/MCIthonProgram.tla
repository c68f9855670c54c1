--------------------------- MODULE MCIthonProgram ---------------------------
(* Programs for IthonProgram: all sequences of a few statements.           *)
EXTENDS IthonProgram

CONSTANTS Statements, MaxLength

MCPrograms == UNION {[1 .. n -> Statements] : n \in 1 .. MaxLength}

(* Expressions *)
Const(t) == [k |-> "const", type |-> t]
Name(id) == [k |-> "name", id |-> id]
Bin(op, e, f) == [k |-> "bin", op |-> op, left |-> e, right |-> f]
Neg(e) == [k |-> "un", op |-> "-", operand |-> e]
Cmp(op, e, f) == [k |-> "cmp", ops |-> <<op>>, operands |-> <<e, f>>]
IfExp(test, e, f) == [k |-> "ifexp", test |-> test, body |-> e, orelse |-> f]
List(elts) == [k |-> "list", elts |-> elts]
Lambda(params, body) == [k |-> "lambda", params |-> params, body |-> body]
CallOf(func, args) == [k |-> "call", func |-> func, args |-> args, keywords |-> FALSE]
Attr(e) == [k |-> "attr", value |-> e]

one  == Const(INT)
half == Const(FLOAT)
text == Const(STR)

(* Statements *)
Set(id, e) == [k |-> "assign", targets |-> <<id>>, value |-> e]
SetBoth(id, id2, e) == [k |-> "assign", targets |-> <<id, id2>>, value |-> e]
Declare(id, t, e) == [k |-> "ann", target |-> id, type |-> t, value |-> e]
Ret(e) == [k |-> "return", value |-> e]
ForEach(id, e, body) == [k |-> "for", target |-> id, iter |-> e, body |-> body, orelse |-> << >>]
IfThen(test, body, orelse) == [k |-> "if", test |-> test, body |-> body, orelse |-> orelse]
Define(id, params, result, body) ==
  [k |-> "def", name |-> id, params |-> params, result |-> result, body |-> body, variadic |-> FALSE]
ClassOf(id, body) == [k |-> "class", name |-> id, bases |-> << >>, body |-> body, extras |-> FALSE]
ImportOf(id) == [k |-> "import", name |-> id]
FromImport(id) == [k |-> "from", name |-> id]
Do(e) == [k |-> "expr", value |-> e]
Skip == [k |-> "pass"]
Unsupported == [k |-> "other"]

Param(id, t) == [name |-> id, type |-> t]
MaybeInt == Union(<<INT, NONE>>)
IntOrText == Union(<<INT, STR>>)
Callable(params, result) == IType("callable", Append(params, result))

(* The fragment in which the checker keeps its promise: nothing is         *)
(* imported over a name, functions return on every path, there is one      *)
(* definition of a name, and arithmetic on numbers is + and / of integers  *)
(* and floats.                                                             *)
SoundStatements == {
  Set("x", one),
  Set("x", text),
  SetBoth("x", "y", Bin("/", one, one)),
  Declare("x", FLOAT, one),
  Declare("y", IntOrText, IfExp(Cmp("=", Name("x"), one), one, text)),
  Set("xs", List(<<one, text>>)),
  Declare("xs", IType("list", <<IntOrText>>), List(<< >>)),
  ForEach("x", Name("xs"), <<Set("y", Name("x"))>>),
  ForEach("y", CallOf(Name("range"), <<one>>), <<Set("x", Bin("+", Name("y"), one))>>),
  Define("f", <<Param("x", FLOAT)>>, MaybeInt,
    <<IfThen(Cmp("<", Name("x"), half), <<Ret(one)>>, <<Set("z", text), Ret(NULL)>>)>>),
  Define("h", <<Param("x", Callable(<<FLOAT>>, MaybeInt))>>, MaybeInt,
    <<Set("y", CallOf(Name("x"), <<half>>)), Ret(Name("y"))>>),
  Set("y", CallOf(Name("f"), <<one>>)),
  Set("x", CallOf(Name("h"), <<Name("f")>>)),
  Declare("g", Callable(<<FLOAT>>, MaybeInt), Lambda(<<"x">>, IfExp(Cmp("=", Name("x"), half), one, Const(NONE)))),
  Declare("g", Callable(<<FLOAT>>, MaybeInt), Name("f")),
  Declare("y", MaybeInt, CallOf(Name("g"), <<half>>)),
  ImportOf("m"),
  Declare("x", FLOAT, CallOf(Attr(Name("m")), <<Neg(one)>>)),
  ClassOf("C", <<Define("__init__", <<Param("self", Plain("C"))>>, NULL, <<Set("x", text)>>),
                 Set("z", one)>>),
  SetBoth("z", "y", CallOf(Name("C"), << >>)),
  Define("e", << >>, INT, <<Ret(NULL)>>),
  Define("e", <<Param("x", NULL)>>, INT, <<Ret(one)>>),
  Set("x", CallOf(Name("e"), << >>)),
  Set("z", Cmp("<", Name("x"), half)),
  Set("x", CallOf(Attr(Name("m")), << >>)),
  Set("xs", List(<<CallOf(Attr(Name("m")), << >>)>>)),
  ForEach("x", List(<<CallOf(Attr(Name("m")), << >>)>>), <<Set("y", Name("x"))>>),
  FromImport("k"),
  Skip,
  Unsupported }

(* Programs outside of it, for a promise that is not kept.                 *)
FallingThrough == {
  Define("f", << >>, INT, <<Skip>>),
  Set("y", CallOf(Name("f"), << >>)) }
=============================================================================
