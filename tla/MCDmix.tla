------------------------------- MODULE MCDmix --------------------------------
(* Dmix with rings of four frames in two periods: a client and a slave ring *)
(* of the same size, so that the delays of both can be compared.            *)
EXTENDS Dmix
===============================================================================
