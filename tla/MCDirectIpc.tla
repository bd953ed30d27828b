----------------------------- MODULE MCDirectIpc -----------------------------
(* Three processes that open, mix and close over and over, and any of them  *)
(* may die at any point, MaxCrashes times in all.                         *)
EXTENDS DirectIpc
===============================================================================
