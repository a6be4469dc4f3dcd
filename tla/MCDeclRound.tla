---------------------------- MODULE MCDeclRound ----------------------------
(* DeclRound with its bounds given in the decl_round*.cfg files.           *)
EXTENDS DeclRound, TLC

Symmetry == Permutations(Decls)

\* Bound: nothing is explored after the last round has been closed.
RoundsAhead == Len(rounds) < MaxRounds \/ Current # {}

\* Nor a second round once there is a second task.
RoundsOrTasks == Len(rounds) < 2 \/ tasks < 2

\* Nor after a save has dropped another, of which the properties say nothing.
NoneDropped == ~dropped
=============================================================================
