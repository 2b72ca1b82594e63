-------------------------- MODULE MCChannelMailbox --------------------------
(* Model-checking instance of ChannelMailbox.                               *)
EXTENDS ChannelMailbox

CONSTANTS a, b

MCChunk == {a, b}

=============================================================================
