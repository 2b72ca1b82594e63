------------------------------- MODULE MCBridge ------------------------------
(* Model-checking instance of Bridge.                                       *)
EXTENDS Bridge

CONSTANTS ch1, c1, c2

TwoConn == {c1, c2}

OneChannel == {ch1}

(* What is claimed of links that deliver is claimed no longer once a fault  *)
(* has happened: from then on nothing is drawn, and few datagrams are under *)
(* way.  Without faults nothing is left out.                                *)
FewAfterFault ==
    faults < MaxFaults =>
        /\ Len(up) + Len(mid) + Len(back) <= 4
        /\ \A i \in DOMAIN back : back[i].action # "NONE"
        /\ \A p \in crossed : p[1] # "drawing"

=============================================================================
