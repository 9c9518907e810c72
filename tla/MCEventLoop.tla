----------------------------- MODULE MCEventLoop -----------------------------
(* Instances of EventLoop for TLC.                                         *)
EXTENDS EventLoop, TLC

CONSTANTS a, b   \* channels

Rendezvous == a :> 0
OneSlot    == a :> 1
Mixed      == a :> 0 @@ b :> 1

NoSelects   == {}
NoChannels == [ch \in {} |-> 0]
ReceiveOrSend == {{<<"receive", a>>, <<"send", b>>}, {<<"send", a>>}, {}}
BothSides   == {{<<"receive", a>>}, {<<"send", a>>}}
=============================================================================
