------------------------------ MODULE MCSdram ------------------------------
(***************************************************************************)
(* Values for the constants of SdramBoard.                                 *)
(***************************************************************************)
EXTENDS SdramBoard

MC_NONE == {}
MC_VGA  == {4}
MC_GPU  == {8}

\* The CPU: word 1 in the one cell it uses, 0 elsewhere, 2 what it writes.
MC_WORDS     == {0, 1, 2}
MC_WORDS_MEM == [a \in Adr |-> IF a = 1 THEN 1 ELSE 0]
MC_OPS       == {[we |-> w, adr |-> 1, dat |-> 2] : w \in BOOLEAN}

\* Control only: one word everywhere.
MC_ZERO     == {0}
MC_ZERO_MEM == [a \in Adr |-> 0]
MC_ZERO_DAT == 0
MC_ZERO_OPS == {[we |-> w, adr |-> 1, dat |-> 0] : w \in BOOLEAN}
=============================================================================
