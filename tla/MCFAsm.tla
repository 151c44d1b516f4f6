------------------------------- MODULE MCFAsm -------------------------------
(* The instances of FAsm.                                                  *)
EXTENDS FAsm, MCLines
=============================================================================
