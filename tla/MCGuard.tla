------------------------------- MODULE MCGuard ------------------------------
(* Model-checking instances of Guard.                                       *)
EXTENDS Guard

CONSTANTS c1, c2, i1

MCChannel == {c1, c2}

MCId == {i1}

=============================================================================
