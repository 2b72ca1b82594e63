---------------------------- MODULE MCGcdBroker -----------------------------
(* Model-checking instance of GcdBroker.                                    *)
EXTENDS GcdBroker

CONSTANTS c1, c2, i1, d1, d2

MCChannel == {c1, c2}

MCId == {i1}

MCFd == {d1, d2}

(* No thread looks at what waits for the uplink, so a behaviour in which it *)
(* waits longer shows nothing that one in which it is sent at once does not.*)
PromptUplink == Len(send_queue) <= 1

=============================================================================
