----------------------------- MODULE IthonTypes -----------------------------
(***************************************************************************)
(* The static types of Ithon (IType of Lib/ithon_static.py) and what they  *)
(* mean: the values a name of a type may hold.  A type is a record         *)
(* [name, args]; the arguments of "callable" are the parameters and the    *)
(* result, those of "union" its members, that of "type" the instances.     *)
(***************************************************************************)
EXTENDS Naturals, Sequences, SequencesExt

IType(name, args) == [name |-> name, args |-> args]
Plain(name) == IType(name, << >>)

UNKNOWN == Plain("<unknown>")
ANY     == Plain("Any")
OBJECT  == Plain("object")
NONE    == Plain("None")
BOOL    == Plain("bool")
INT     == Plain("int")
FLOAT   == Plain("float")
COMPLEX == Plain("complex")
STR     == Plain("str")
BYTES   == Plain("bytes")
RANGE   == Plain("range")

NumericRank == (BOOL :> 0) @@ (INT :> 1) @@ (FLOAT :> 2) @@ (COMPLEX :> 3)
Numeric == DOMAIN NumericRank

(* _union: unions are flat and name a member once, at its first place.     *)
Union(types) ==
  LET members == FlattenSeq([i \in DOMAIN types |->
                   IF types[i].name = "union" THEN types[i].args ELSE <<types[i]>>])
      values  == FoldLeft(LAMBDA seen, t : IF Contains(seen, t) THEN seen ELSE Append(seen, t),
                          << >>, members)
  IN  CASE Len(values) = 0 -> UNKNOWN
        [] Len(values) = 1 -> values[1]
        [] OTHER           -> IType("union", values)

-----------------------------------------------------------------------------
(* is_assignable.  Members of a union are no unions, so the two quantifiers*)
(* replace the recursion.                                                  *)

AssignableMember(actual, expected) ==
  \/ expected \in {ANY, OBJECT}
  \/ actual \in {ANY, UNKNOWN}
  \/ actual = expected
  \/ /\ actual \in Numeric /\ expected \in Numeric
     /\ NumericRank[actual] <= NumericRank[expected]

(* Mutant: one member of the actual union that fits is enough.             *)
AssignableAny(actual, expected) ==
  \/ expected \in {ANY, OBJECT}
  \/ actual \in {ANY, UNKNOWN}
  \/ actual = expected
  \/ /\ expected.name = "union"
     /\ \E i \in DOMAIN expected.args : AssignableMember(actual, expected.args[i])
  \/ /\ actual.name = "union"
     /\ \E i \in DOMAIN actual.args : AssignableMember(actual.args[i], expected)
  \/ AssignableMember(actual, expected)

(* A union on the right is taken apart first, and a union on the left then *)
(* has to fit one of its members as a whole.                               *)
Assignable(actual, expected) ==
  LET Fits(e) == IF actual.name = "union" /\ actual # e /\ e \notin {ANY, OBJECT}
                 THEN \A i \in DOMAIN actual.args : AssignableMember(actual.args[i], e)
                 ELSE AssignableMember(actual, e)
  IN  IF expected.name = "union" /\ actual # expected
      THEN \E i \in DOMAIN expected.args : Fits(expected.args[i])
      ELSE Fits(expected)

-----------------------------------------------------------------------------
(* Values: [type, items] with the class of the value and, of a list or a   *)
(* range, its elements.  A function's class is its signature.              *)

Value(type, items) == [type |-> type, items |-> items]
Scalar(type) == Value(type, << >>)
ListOf(items) == Value(Plain("list"), items)

(* What Python code hands over: nothing is known of it.                    *)
FOREIGN == Scalar(Plain("<foreign>"))

RECURSIVE Conforms(_, _)
Conforms(v, t) ==
  \/ t \in {ANY, OBJECT, UNKNOWN}
  \/ v.type = t
  \/ v.type \in Numeric /\ t \in Numeric /\ NumericRank[v.type] <= NumericRank[t]
  \/ t.name = "union" /\ \E i \in DOMAIN t.args : Conforms(v, t.args[i])
  \/ /\ t.name = "list" /\ v.type = Plain("list")
     /\ \A i \in DOMAIN v.items : Conforms(v.items[i], t.args[1])
  \/ t.name \in {"external", "module"} /\ v = FOREIGN
=============================================================================
