----------------------------- MODULE MCIthonRun -----------------------------
(* Small search paths, module names and texts for IthonRun.                *)
EXTENDS IthonRun

CONSTANTS a, b, lib, home

Do(op) == [op |-> op, arg |-> NULL]
Loads(op, m) == [op |-> op, arg |-> m]

(* The program imports and fails in every way; a exists as Ithon in both   *)
(* directories, b as Python in front of Ithon.                             *)
MCFiles == {[dir |-> lib, module |-> a, form |-> "py"],
            [dir |-> home, module |-> a, form |-> "pi"],
            [dir |-> home, module |-> a, form |-> "init"],
            [dir |-> lib, module |-> b, form |-> "py"]}

MCSources == [pi |-> {<<Do("effect"), Do("reject")>>, <<Loads("import", b), Do("effect")>>,
                      <<Loads("import", a), Loads("import", b)>>, <<Do("effect"), Do("raise")>>,
                      <<Do("illegal")>>},
              py |-> {<<Loads("try", a), Loads("import", a), Do("effect")>>,
                      <<Loads("try", a), Loads("try", b), Do("effect")>>, <<Do("raise")>>}]

MCSearchPath == <<lib, home>>
=============================================================================
