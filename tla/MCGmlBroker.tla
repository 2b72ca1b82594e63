---------------------------- MODULE MCGmlBroker -----------------------------
(* A model-checking instance of GmlBroker.                                  *)
EXTENDS GmlBroker

CONSTANTS c1, c2

MCConn == {c1, c2}

MCChannel == ChannelIds

=============================================================================
