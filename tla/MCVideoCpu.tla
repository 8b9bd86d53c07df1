----------------------------- MODULE MCVideoCpu -----------------------------
(***************************************************************************)
(* Values for the constants of VideoCpu: the CPU reads one word; the line  *)
(* is two bursts long.                                                     *)
(***************************************************************************)
EXTENDS VideoCpu

MC_DATA    == {0}
MC_MEM     == [a \in Adr |-> 0]
MC_GPU_DAT == 0
MC_RECTS   == {}
MC_OPS     == {[we |-> FALSE, adr |-> 1, dat |-> 0]}
=============================================================================
