----------------------------- MODULE Multiplexer ----------------------------
(***************************************************************************)
(* The datagrams of the bridge: a channel in two bytes, high byte first, a *)
(* flags byte with the action in its two top bits, and the payload.        *)
(* Sender and receiver of a datagram share nothing but this layout.        *)
(***************************************************************************)
EXTENDS Integers, Sequences

CONSTANT MAX_PAYLOAD_SIZE

ASSUME MultiplexerAssumption == MAX_PAYLOAD_SIZE \in Nat \ {0}

HEADER_SIZE == 3
MAX_DATAGRAM_SIZE == HEADER_SIZE + MAX_PAYLOAD_SIZE

(* ChannelAction, by its value on the wire.                                 *)
NONE == 0
CREATE_CHANNEL == 64
SHUTDOWN_CHANNEL == 128
APPROVAL == 192
ChannelAction == {NONE, CREATE_CHANNEL, SHUTDOWN_CHANNEL, APPROVAL}

(* Channel ids are two bytes on the wire.                                   *)
Octet == 0..255
Channel16 == {256 * high + low : high, low \in Octet}

BridgeMessage(ch, act, data) == [channel |-> ch, action |-> act, payload |-> data]

(* A payload is as long as its caller made it.                              *)
Serialize(m) ==
    <<m.channel \div 256, m.channel % 256, m.action>> \o m.payload

(* recvfrom into a buffer of MAX_DATAGRAM_SIZE bytes cuts off the rest.     *)
Received(d) ==
    IF Len(d) <= MAX_DATAGRAM_SIZE THEN d ELSE SubSeq(d, 1, MAX_DATAGRAM_SIZE)

IsMessage(d) ==
    /\ Len(d) >= HEADER_SIZE
    /\ d[3] % 64 = 0
    /\ 64 * (d[3] \div 64) \in ChannelAction
    /\ Len(d) - HEADER_SIZE <= MAX_PAYLOAD_SIZE

(* The message in a datagram for which IsMessage holds.                     *)
TryCast(d) ==
    BridgeMessage(256 * d[1] + d[2], 64 * (d[3] \div 64),
                  SubSeq(d, HEADER_SIZE + 1, Len(d)))

=============================================================================
