---------------------------- MODULE MCEndpointPool ----------------------------
(* A small instance of EndpointPool for TLC: the second member serves another *)
(* chain.                                                                     *)
EXTENDS EndpointPool

CONSTANT q1

MCForeignSecond == <<1, 2>>
=============================================================================
