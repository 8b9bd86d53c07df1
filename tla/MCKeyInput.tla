----------------------------- MODULE MCKeyInput -----------------------------
(***************************************************************************)
(* Keys for KeyInput: a letter, a shifted digit, both Ctrl keys, the same  *)
(* code with and without E0, a lock.                                       *)
(***************************************************************************)
EXTENDS KeyInput

MC_UART == DOMAIN Encoding

Key(code, ext) == [code |-> code, ext |-> ext]
MC_PS2 == {Key(28, FALSE), Key(18, FALSE), Key(20, FALSE), Key(20, TRUE), Key(88, FALSE),
           Key(117, FALSE), Key(117, TRUE)}

Typing(u, p, l) == [uart |-> u, ps2 |-> p, launch |-> l]
MC_BUDGETS == {Typing(3, 0, 0), Typing(0, 4, 0), Typing(1, 1, 0), Typing(0, 3, 1)}
=============================================================================
