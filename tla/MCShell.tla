------------------------------ MODULE MCShell ------------------------------
(***************************************************************************)
(* Values for the constants of Shell: a program that chains to another as  *)
(* expdemo does to the keyboard test, and a silent text program (pforth).  *)
(***************************************************************************)
EXTENDS Shell

CONSTANTS expdemo, kbd, pforth

MC_PROGS  == {expdemo, kbd, pforth}
MC_CLI    == {pforth}
MC_SILENT == {pforth}
MC_CHAIN  == [p \in {expdemo} |-> kbd]
=============================================================================
