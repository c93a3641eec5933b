----------------------------- MODULE MCOutboxRelay -----------------------------
(* Model-checking instances of OutboxRelay. *)
EXTENDS OutboxRelay, TLC

\* Publisher processes run the same code.
Symmetry == Permutations(Publishers)

\* What decides how a state goes on: no action reads error or overrun, so for a
\* property that does not either, states that differ in them alone are the same.
WithoutNotes == <<row, lease, age, publisher, broker, dropped>>

=============================================================================
