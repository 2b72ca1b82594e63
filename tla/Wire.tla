-------------------------------- MODULE Wire --------------------------------
(***************************************************************************)
(* The bridge messages that gmlbroker, the guard and gcdbroker exchange    *)
(* over UDP, at the level the rest of the project reasons about: action,   *)
(* channel, and what of the payload is ever looked at.                     *)
(*                                                                         *)
(*   NONE      data is a Guacamole payload (a member of Payload)           *)
(*   CREATE    data is the request id                                      *)
(*   APPROVAL  verdict is the first payload byte, data the request id      *)
(*   SHUTDOWN  empty payload                                               *)
(*                                                                         *)
(* The guard reads every payload but a CREATE's and a SHUTDOWN's as        *)
(* Guacamole, an APPROVAL's too: there data is what its parser makes of    *)
(* the payload, whatever its first byte.                                   *)
(* A datagram that Multiplexer::TryCast rejects is the frame Malformed.    *)
(***************************************************************************)
EXTENDS Naturals, Sequences

CONSTANTS Channel,  \* the channel ids in use
          Id        \* well-formed request ids

(* What a payload can mean to the guard's per-channel parser:          *)
(*   whole   complete, allowed instructions                                 *)
(*   denied  complete instructions, all of them disallowed                  *)
(*   mixed   complete instructions, some of them disallowed                 *)
(*   head    the beginning of an allowed instruction                        *)
(*   tail    the rest of that instruction                                   *)
(*   junk    bytes that are not Guacamole                                   *)
Payload == {"whole", "denied", "mixed", "head", "tail", "junk"}

(* Stands for every CREATE payload that is_valid_request_id rejects.        *)
BadId == "badid"

APPROVAL_APPROVE == "A"
APPROVAL_DENY == "D"

None(ch, p) ==
    [action |-> "NONE", channel |-> ch, verdict |-> "-", data |-> p]

Create(ch, id) ==
    [action |-> "CREATE", channel |-> ch, verdict |-> "-", data |-> id]

Approval(ch, v, id) ==
    [action |-> "APPROVAL", channel |-> ch, verdict |-> v, data |-> id]

Shutdown(ch) ==
    [action |-> "SHUTDOWN", channel |-> ch, verdict |-> "-", data |-> "-"]

(* The frame f with payload p in place of its own.                          *)
Carrying(f, p) ==
    [action |-> f.action, channel |-> f.channel, verdict |-> f.verdict, data |-> p]

Malformed ==
    [action |-> "MALFORMED", channel |-> "-", verdict |-> "-", data |-> "-"]

(* The well-formed frames, with a well-formed request id.                   *)
Frame ==
    [action : {"NONE", "CREATE", "APPROVAL", "SHUTDOWN"},
     channel : Channel,
     verdict : {"-", APPROVAL_APPROVE, APPROVAL_DENY},
     data : Payload \cup Id \cup {"-"}]

=============================================================================
