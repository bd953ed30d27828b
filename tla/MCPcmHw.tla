------------------------------- MODULE MCPcmHw -------------------------------
(* PcmHw on a ring of three frames whose pointers wrap every two rings.    *)
EXTENDS PcmHw
===============================================================================
