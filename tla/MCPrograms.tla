------------------------------ MODULE MCPrograms ------------------------------
(***************************************************************************)
(* Instances of the programs: small grids, few keys, one scenario for each *)
(* program.                                                                *)
(***************************************************************************)
EXTENDS Programs

MC_FOOD == {<<4, 1>>, <<5, 0>>, <<8, 2>>, <<0, 1>>}
MC_RANDOM == {{<<0, 0>>, <<1, 0>>, <<2, 0>>, <<3, 2>>}, {<<0, 1>>, <<1, 2>>, <<3, 0>>}}

\* The delta, and a vector whose inverse transform uses a factor other than 1.
MC_LOADS ==
  {(0 :> 1) @@ Zeros, (0 :> 2) @@ (64 :> 1729) @@ (128 :> 3328) @@ (192 :> 1600) @@ Zeros}

Scene(p, l, k, m) == [prog |-> p, launches |-> l, keys |-> k, moves |-> m]

MC_SCENARIOS == {Scene("snake", 1, 6, 7), Scene("conway", 2, 5, 2), Scene("expdemo", 2, 6, 0),
                 Scene("ntt", 1, 4, 0), Scene("shell", 0, 7, 0)}
NttOnly == {Scene("ntt", 1, 4, 0)}
=============================================================================
