-------------------------------- MODULE Gate --------------------------------
(***************************************************************************)
(* What the guard promises the network behind it, without its threads, its *)
(* parsers or its operator: a set of open channels, and datagrams that     *)
(* keep the other side informed of every change of that set.  What others  *)
(* send is passed on only for a channel that is open, a channel is opened  *)
(* only together with a verdict that says so, and none is closed silently. *)
(* A frame that is passed on keeps its action, so a frame that claims to   *)
(* be a verdict can reach the other side, but only on a channel that was   *)
(* opened already.                                                         *)
(***************************************************************************)
EXTENDS Wire

VARIABLES open,  \* the channels the other side was told are open
          sent   \* the datagrams sent by the last step

gateVars == <<open, sent>>

GateInit ==
    /\ open = {}
    /\ sent = <<>>

(* fs holds one SHUTDOWN for each channel of S, and nothing else.          *)
Announces(fs, S) ==
    /\ \A i \in DOMAIN fs : \E ch \in S : fs[i] = Shutdown(ch)
    /\ \A ch \in S : \E i \in DOMAIN fs : fs[i] = Shutdown(ch)
    /\ \A i, j \in DOMAIN fs : fs[i] = fs[j] => i = j

Admit(ch, id) ==
    /\ open' = open \cup {ch}
    /\ sent' = <<Create(ch, id), Approval(ch, APPROVAL_APPROVE, id)>>

Refuse(ch, id) ==
    /\ open' = open \ {ch}
    /\ sent' = <<Create(ch, id), Approval(ch, APPROVAL_DENY, id), Shutdown(ch)>>

Pass(f) ==
    /\ f.channel \in open
    /\ f.action \in {"NONE", "APPROVAL"}
    /\ f.data \in Payload
    /\ open' = open
    /\ sent' = <<f>>

CloseChannels(S) ==
    /\ open' = open \ S
    /\ Announces(sent', S)

Quiet ==
    /\ open' = open
    /\ sent' = <<>>

GateNext ==
    \/ \E ch \in Channel, id \in Id : Admit(ch, id) \/ Refuse(ch, id)
    \/ \E f \in Frame : Pass(f)
    \/ \E S \in SUBSET Channel : CloseChannels(S)
    \/ Quiet

GateSpec == GateInit /\ [][GateNext]_gateVars

=============================================================================
