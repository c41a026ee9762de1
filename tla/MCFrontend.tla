----------------------------- MODULE MCFrontend -----------------------------
(***************************************************************************)
(* Programs for the two frontends: all the statements in all the places     *)
(* where they behave differently, with two variables.                       *)
(***************************************************************************)
EXTENDS Frontend

x == 1
y == 2
MCVars == {x, y}

Begins == << Set(x, "const", <<>>), Set(y, "const", <<>>) >>
Ends   == << Use(x), Use(y) >>
If1(c, t, e) == If(<<Case(c, t)>>, e)

(***************************************************************************)
(* Statement objects.                                                       *)
(***************************************************************************)
Simple == {Set(x, "const", <<>>), Set(y, "copy", <<x>>), Set(x, "copy", <<y>>),
           Set(x, "op", <<x, y>>), Use(x)}
Short == {<<a>> : a \in Simple \cup {Break}}
Small == {<<>>} \cup Short \cup {<<a, b>> : a \in Simple, b \in Simple}
Bodies == {<<If1(x, t, e)>> : t \in Small \ {<<>>}, e \in {<<>>} \cup Short}
          \cup {<<If(<<Case(x, t), Case(y, e)>>, f), Use(y)>> : t \in Short, e \in Short, f \in {<<>>, <<Use(x)>>}}
          \cup {b \in Small : Len(b) = 2} \cup {<<Set(x, "op", <<x>>), Break, Use(x)>>}
\* y is not assigned before a loop of Once.
Once(c) == {<< Set(x, "const", <<>>), While(c, b) >> \o Ends : b \in Bodies}
Nested == {Begins \o << While(c, <<While(d, b), Set(y, "op", <<x>>)>>) >> \o Ends :
           c \in {Forever, y}, d \in {Forever, x}, b \in Bodies \cap {<<If1(x, t, <<>>)>> : t \in Short}}
Fors == {<< Set(y, "const", <<>>), For(<<Set(x, "const", <<>>)>>, x, <<Set(x, "op", <<x>>)>>, b) >> \o Ends :
         b \in Bodies}
AstPrograms == Once(x) \cup Once(Forever) \cup Nested \cup Fors

(***************************************************************************)
(* Python functions.                                                        *)
(***************************************************************************)
Straight ==
    {<<Use(x)>>, <<Index(x, y), Use(x)>>, <<SetIndex(<<x, y>>, x, y), Use(x)>>,
     <<If1(x, <<Use(y)>>, <<>>)>>,
     <<If1(x, <<Set(x, "const", <<>>)>>, <<Set(y, "op", <<x>>)>>), Use(y)>>,
     <<If(<<Case(x, <<Set(x, "op", <<y>>)>>), Case(y, <<Set(y, "const", <<>>)>>)>>, <<Use(x)>>), Use(y)>>}
PyBodies == Straight \cup
    {<<If1(x, <<Break>>, <<Use(y)>>)>>,
     <<If1(x, <<Set(x, "op", <<x>>), Continue>>, <<>>), Use(y)>>}
ForBodies == PyBodies \cup
    {<<UseI>>, <<Set(x, "op", <<x>>), UseI>>, <<If1(x, <<Set(x, "const", <<>>)>>, <<UseI>>)>>,
     <<If1(x, <<UseI>>, <<UseI>>), UseI>>, <<If1(x, <<Use(y)>>, <<If1(y, <<UseI>>, <<>>)>>)>>,
     <<PIf(1, <<Set(x, "copy", <<y>>)>>, <<Use(y)>>), Use(x)>>, <<PIf(0, <<UseI>>, <<>>), Use(x)>>,
     <<PIf(1, <<Break>>, <<>>), Use(x)>>}
PyMiddles ==
    Straight \cup {<<PFor(2, b)>> : b \in ForBodies}
    \cup {<<While(c, b)>> : c \in {Forever, x}, b \in PyBodies}
    \cup {<<While(Forever, <<While(Forever, b), Set(x, "op", <<y>>)>>)>> : b \in PyBodies}
    \cup {<<While(Forever, <<PFor(2, b)>>)>> : b \in ForBodies}
    \cup {<<PFor(2, <<Use(y), PFor(n, b), UseI>>)>> : b \in ForBodies, n \in {0, 2}}
    \cup {<<If1(x, <<Use(y)>>, e), While(Forever, <<Use(x)>>)>> : e \in {<<>>, <<Use(x)>>}}
    \cup {<<If1(x, <<PFor(2, <<UseI>>)>>, e), Use(x)>> : e \in {<<>>, <<PFor(2, <<UseI>>)>>}}
PyPrograms == {Begins \o m \o Ends : m \in PyMiddles}
              \cup {<<While(Forever, Begins \o b)>> : b \in PyBodies}

Init == /\ RunInit
        /\ \/ prog \in AstPrograms /\ AstInit /\ NoPyInit
           \/ prog \in PyPrograms /\ PyInit
\* Programs whose SSA shows the wrong iteration are translated but not run.
MCNext == Translate \/ Reject \/ (StartRun /\ ~ReadsStaleI) \/ Run
Spec == Init /\ [][MCNext]_vars
=============================================================================
