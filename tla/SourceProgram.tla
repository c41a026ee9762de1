--------------------------- MODULE SourceProgram ---------------------------
(***************************************************************************)
(* The abstract specification of the frontends: what the program of a       *)
(* thread does, statement by statement, with plain variables.  It is what a *)
(* reader of the program expects and knows nothing of blocks and phis.      *)
(***************************************************************************)
EXTENDS SourceSyntax

CONSTANT Vars    \* hardware variables of the thread

VARIABLES
    prog,   \* the program, constant
    at,     \* the point executed last, with the outcome of its condition
    mem,    \* the value of each variable, as the statement which made it
    odd,    \* statements executed an odd number of times: tells the value of
            \* an operation from the one it had in the previous iteration
    seen    \* the values which the last statement read

sourceVars == <<prog, at, mem, odd, seen>>

Undefined == << <<>>, FALSE >>
Begin == [p |-> <<0>>, its |-> <<>>, out |-> FALSE]

SourceInit ==
    /\ at = Begin
    /\ mem = [v \in Vars |-> Undefined]
    /\ odd = {}
    /\ seen = <<>>

\* The value which the assignment st at path p gives to its variable.
ValueOf(st, p, flipped, read) ==
    CASE st.op = "const" -> << p, FALSE >>
      [] st.op = "copy"  -> read[1]
      [] OTHER           -> << p, p \in flipped >>

Flip(S, x) == IF x \in S THEN S \ {x} ELSE S \cup {x}

\* One statement or condition of the program.
SourceStep(out) ==
    LET next == Follow(prog, at, at.out)
        p    == next.p
    IN  /\ at.p # <<>>
        /\ out => IsCond(prog, p)
        /\ at' = [p |-> p, its |-> next.its, out |-> out]
        /\ seen' = IF p = <<>> THEN <<>>
                   ELSE IF ~IsCond(prog, p) /\ StmAt(prog, p).k = "useI"
                   THEN << << <<Last(next.its)>>, FALSE >> >>
                   ELSE [n \in 1..Len(Reads(prog, p)) |-> mem[Reads(prog, p)[n]]]
        /\ IF p # <<>> /\ ~IsCond(prog, p) /\ StmAt(prog, p).k = "set"
           THEN LET st == StmAt(prog, p)
                IN  /\ odd' = IF st.op = "op" THEN Flip(odd, p) ELSE odd
                    /\ mem' = [mem EXCEPT ![st.v] = ValueOf(st, p, odd', seen')]
           ELSE UNCHANGED <<mem, odd>>
        /\ UNCHANGED prog

SourceNext == \E out \in BOOLEAN : SourceStep(out)
SourceSpec == SourceInit /\ [][SourceNext]_sourceVars
=============================================================================
