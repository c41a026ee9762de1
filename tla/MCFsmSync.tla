------------------------------ MODULE MCFsmSync ------------------------------
(***************************************************************************)
(* Instances of FsmSync.  A condition is given as the set of the sets of   *)
(* values which are 1.                                                     *)
(***************************************************************************)
EXTENDS FsmSync

On(values, v)  == {S \in SUBSET values : v \in S}
Off(values, v) == {S \in SUBSET values : v \notin S}
Any(values)    == SUBSET values
Acc(i, s, g, o) == [intf |-> i, state |-> s, guard |-> g, operands |-> o]
Chan(r, w, i, f) == [read |-> r, write |-> w, init |-> i, src |-> f]

(***************************************************************************)
(* Nested loops, from clk 1 on: the outer loop reads x from a; the inner   *)
(* one writes to o in one of two branches and reads y from a, again and    *)
(* again while y is 1; then the outer one reads z from a, writes x and y   *)
(* to o and, if x is 1, also to log.  Which of the branches is taken is in *)
(* a channel of the outer loop that depends on z.                          *)
(***************************************************************************)
MCValues == {"x", "y", "z", "again", "branch"}
MCClkOf == [s \in 0..3 |-> s + 1]
MCAccess == {"x", "writeThen", "writeElse", "y", "z", "writeBoth", "writeLog"}
MCaccess == [a \in MCAccess |->
  CASE a = "x"         -> Acc("a", 0, Any(MCValues), {})
    [] a = "writeThen" -> Acc("o", 1, On(MCValues, "branch"), {"x"})
    [] a = "writeElse" -> Acc("o", 1, Off(MCValues, "branch"), {})
    [] a = "y"         -> Acc("a", 2, Any(MCValues), {})
    [] a = "z"         -> Acc("a", 3, Any(MCValues), {})
    [] a = "writeBoth" -> Acc("o", 3, Any(MCValues), {"x", "y"})
    [] a = "writeLog"  -> Acc("log", 3, On(MCValues, "x"), {"x"})]
MCchannel == [c \in {"again", "branch"} |->
  IF c = "again" THEN Chan(1, 2, 0, On(MCValues, "y"))
  ELSE Chan(0, 3, 0, {S \in SUBSET MCValues : ("z" \in S) # ("branch" \in S)})]

(***************************************************************************)
(* p is read from a once, and then x and y again and again while y is 1;   *)
(* y is read in the last state, the loop begins in the second one.         *)
(***************************************************************************)
PrequelValues == {"p", "x", "y", "loop"}
PrequelClkOf == [s \in 0..2 |-> s]
PrequelAccess == {"p", "x", "y", "write"}
Prequelaccess == [a \in PrequelAccess |->
  CASE a = "p" -> Acc("a", 0, Any(PrequelValues), {})
    [] a = "x" -> Acc("a", 1, Any(PrequelValues), {})
    [] a = "y" -> Acc("a", 2, Any(PrequelValues), {})
    [] a = "write" -> Acc("o", 2, Any(PrequelValues), {"p", "x"})]
Prequelchannel == [c \in {"loop"} |-> Chan(1, 2, 0, On(PrequelValues, "y"))]

(***************************************************************************)
(* WriteFsmIf of tests/io/ioFsm2.py: a loop which writes twice or once, in *)
(* turns; the variable i that says which is a channel of one bit.          *)
(***************************************************************************)
IfClkOf == [s \in 0..1 |-> s]
IfAccess == {"write1", "write2", "write3"}
Ifaccess == [a \in IfAccess |->
  Acc("o", IF a = "write2" THEN 1 ELSE 0,
      IF a = "write3" THEN On({"i"}, "i") ELSE Off({"i"}, "i"), {})]
Ifchannel == [c \in {"i"} |-> Chan(0, 0, 0, Off({"i"}, "i"))]

(***************************************************************************)
(* The first write to o is two clks before the second one (its value takes *)
(* that long); x is read with the second write and written by the third.   *)
(***************************************************************************)
GapClkOf == [s \in 0..2 |-> IF s = 0 THEN 0 ELSE s + 1]
GapAccess == {"first", "second", "x", "third"}
Gapaccess == [a \in GapAccess |->
  CASE a = "first"  -> Acc("o", 0, Any({"x"}), {})
    [] a = "second" -> Acc("o", 1, Any({"x"}), {})
    [] a = "x"      -> Acc("a", 1, Any({"x"}), {})
    [] a = "third"  -> Acc("o", 2, Any({"x"}), {"x"})]
Gapchannel == [c \in {} |-> {}]

=============================================================================
