------------------------------- MODULE MCWork -------------------------------
(* Instances of Work for TLC.                                                 *)
EXTENDS Work, TLC

\* A plan of four entries: a direct tool beside two workers, and a worker that needs both.
Plan  == <<"d", "a", "b", "c">>
Needs == [a |-> {}, b |-> {}, c |-> {"a", "b"}, d |-> {}]
Flow  == [a |-> <<"skill", "gate", "gate">>, b |-> <<"gate", "asks">>, c |-> <<"skill">>, d |-> <<"skill">>]

\* The edges that a workflow of four nodes may choose among.
Arrows ==
  {<<"START", "a", "next">>, <<"START", "b", "next">>, <<"a", "b", "next">>, <<"a", "c", "next">>,
   <<"b", "c", "next">>, <<"c", "b", "next">>, <<"b", "END", "next">>, <<"c", "END", "next">>,
   <<"a", "b", "if">>, <<"a", "c", "if">>, <<"b", "c", "error">>, <<"c", "d", "next">>, <<"b", "d", "next">>}
\* An operator's request of a server is as good as another.
Symmetry == Permutations(Request)

=============================================================================
