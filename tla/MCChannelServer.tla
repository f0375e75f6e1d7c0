--------------------------- MODULE MCChannelServer ---------------------------
(* ChannelServer for TLC: one peer with a request, delivered to a node whose *)
(* clock may run ahead for a while.                                          *)
EXTENDS ChannelServer

MCBackoff  == <<1, 2>>
MCMsgType  == [p \in Peers |-> "request"]
MCDeadline == [p \in Peers |-> MaxTime - 1]

=============================================================================
