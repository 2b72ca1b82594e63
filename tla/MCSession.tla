------------------------------ MODULE MCSession -----------------------------
(* Model-checking instances of Session.                                     *)
EXTENDS Session

Opcode(v) == <<Byte(v)>>
Arg(v) == <<Byte(v)>>

Key == <<Opcode("key")>>
Nop == <<Opcode("nop")>>
Clipboard == <<Opcode("clipboard"), Arg("0")>>
BlobOf(sidx, n) == <<Opcode("blob"), Arg(sidx), [i \in 1..n |-> Byte("x")]>>
Blob == BlobOf("0", 1)
LongBlob == BlobOf("0", 2)
HugeBlob == BlobOf("0", 4)
OtherBlob == BlobOf("1", 1)
End == <<Opcode("end"), Arg("0")>>
Wide == <<Opcode("key"), <<NonAscii>>>>

MCHandshake ==
    <<<<Opcode("select"), Arg("ssh")>>, <<Opcode("connect"), Arg("x")>>>>

Args == <<Opcode("args")>>
Ready == <<Opcode("ready")>>
Sync(t) == <<Opcode("sync"), Arg(t)>>
Text == <<Opcode("name"), <<NonAscii, Byte("x")>>>>
(* A name such as "Resume 2.pdf", with accents: a number and a dot follow   *)
(* the byte that is not ASCII.                                              *)
NumberText == <<Opcode("name"), <<NonAscii, Length(2)>>>>

Reply == <<Args, Ready>>

Scenario(b, g, l, k) == [browser |-> b, guacd |-> g, loss |-> l, keepalive |-> k]

MCScenarios ==
    {Scenario(b, <<>>, 0, 0) :
        b \in {<<Key, Nop, Key>>, <<Nop, Clipboard, LongBlob, Key>>,
               <<Clipboard, Blob, End, Blob>>, <<OtherBlob, Key>>,
               <<Clipboard, LongBlob, LongBlob>>, <<Wide, Key, Nop>>,
               <<Clipboard, HugeBlob>>}}
    \cup
    {Scenario(<<Clipboard, LongBlob, Nop>>, <<>>, 1, 0),
     Scenario(<<Key>>, Reply \o <<Sync("1"), Text, Sync("2")>>, 0, 1),
     Scenario(<<>>, Reply \o <<NumberText, Sync("2"), Sync("3")>>, 0, 0),
     Scenario(<<>>, Reply \o <<Key>>, 1, 0),
     Scenario(<<Clipboard, LongBlob>>, Reply \o <<Key>>, 0, 0)}

PasteScenario == {Scenario(<<Clipboard, LongBlob, Key>>, <<>>, 0, 0)}

=============================================================================
