----------------------------- MODULE MCAuthService -----------------------------
(* Instances of AuthService for TLC. *)
EXTENDS AuthService, TLC

CONSTANTS u1, u2, t0, t1, t2, t3, r1, r2, r3

\* The open sessions are those of u1; u2 is a free e-mail.
MCOwner0 == [t \in Sessions0 |-> u1]

\* Every token but t0 starts unsigned, and requests differ only by name.
MCSymmetry == Permutations(Tokens \ Sessions0) \cup Permutations(Requests)
===============================================================================
