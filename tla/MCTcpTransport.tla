--------------------------- MODULE MCTcpTransport ---------------------------
(* Instance for TLC: bodies of one and of two units, in this order.        *)
EXTENDS TcpTransport

MCSize == <<1, 2, 2, 1>>
=============================================================================
