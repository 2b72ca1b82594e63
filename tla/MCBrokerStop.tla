---------------------------- MODULE MCBrokerStop ----------------------------
(* Model-checking instances of BrokerStop.                                  *)
EXTENDS BrokerStop

CONSTANTS r1, r2

MCReader == {r1, r2}

=============================================================================
