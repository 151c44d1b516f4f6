---------------------------- MODULE MCToolchain -----------------------------
(* The instances of Toolchain.                                             *)
EXTENDS Toolchain, MCLines

MCSources == MovingSources \cup AllSources
=============================================================================
