---------------------------------- MODULE Ntt ----------------------------------
(***************************************************************************)
(* ntt.c: the number theoretic transform of 256 values modulo 3329 and the *)
(* commands that apply it to the buffer ntt_a.  Words have the width they  *)
(* have in C.  The state is one record, ntt:                               *)
(*   a, done         ntt_a and ntt_done                                    *)
(*   verdict         what the last roundtrip since a load has printed      *)
(*   exact           history: what a would be by the definition of the     *)
(*                   transform                                             *)
(*   wide            history: a product to reduce has passed 32 bits       *)
(* Left out: the line editor, which is that of the shell, and the commands *)
(* that only print.                                                        *)
(***************************************************************************)
EXTENDS Integers, Sequences

CONSTANTS LOADS   \* what a load command puts into the buffer: the delta, and any
                  \* vector (load random) in the local build

VARIABLE ntt

NTT_Q     == 3329
NTT_N     == 256
NTT_N_INV == 3316

Index  == 0..NTT_N-1
Word16 == 0..2^16-1

NttState == [a : [Index -> Word16], done : BOOLEAN, verdict : {"", "PASS", "FAIL"},
             exact : [Index -> 0..NTT_Q-1], wide : BOOLEAN]

ASSUME NttAssumption == LOADS \subseteq [Index -> 0..NTT_Q-1]

Zeros == [i \in Index |-> 0]

\* The variables of ntt.c before its first init.
NttStatics ==
  [a |-> Zeros, done |-> FALSE, verdict |-> "", exact |-> Zeros, wide |-> FALSE]

\* The array itself: TLC computes the function once, not at each application.
Stored(f) == CHOOSE array \in {f} : array \in [Index -> Nat]

\* The table of the powers of the generator 17.
TW == LET power[k \in Index] ==
            IF k = 0 THEN 1
            ELSE LET half == power[k \div 2]
                 IN  (half * half * (IF k % 2 = 1 THEN 17 ELSE 1)) % NTT_Q
      IN  Stored(power)

-----------------------------------------------------------------------------
(***************************************************************************)
(* Barrett reduction.  x * 5039 wraps at 2^32; its bits 31..24 are         *)
(* computed here from the two halves of x, split at 2^12.                  *)
(***************************************************************************)
q_est(x) == LET high == (x \div 4096) * 5039
                low  == (x % 4096) * 5039
            IN  ((high + low \div 4096) \div 4096) % 256

barrett(x) == LET r == x - q_est(x) * NTT_Q
              IN  (IF r >= NTT_Q THEN r - NTT_Q ELSE r) % 2^16

\* x * 5039 >= 2^32.
Wide(x) == x > 852345

-----------------------------------------------------------------------------
(***************************************************************************)
(* ntt_sw: eight stages of 128 butterflies.  A stage is a record of the    *)
(* array and of whether a product was too wide.                            *)
(***************************************************************************)
Reduced(v) == IF v >= NTT_Q THEN v - NTT_Q ELSE v

\* Defect: the inverse takes the factors of the forward transform.
Ntt_twiddle_forward(inverse, k) == TW[k]

twiddle(inverse, k) == IF inverse /\ k > 0 THEN NTT_Q - TW[128 - k] ELSE TW[k]

\* The stage of distance half: the top of each pair gets the sum, the bottom
\* the product of the difference.
Stage(st, half, inverse) ==
  LET a == st.a
      IsTop(i)   == (i \div half) % 2 = 0
      sum(i)     == Reduced((a[i] + a[i + half]) % 2^16) % 2^16
      dif(i)     == Reduced((a[i - half] + NTT_Q - a[i]) % 2^16)
      product(i) == dif(i) * twiddle(inverse, (i % half) * (128 \div half))
  IN  [a    |-> Stored([i \in Index |-> IF IsTop(i) THEN sum(i) ELSE barrett(product(i))]),
       wide |-> st.wide \/ \E i \in Index : ~IsTop(i) /\ Wide(product(i))]

Scaled(st, inverse) ==
  IF ~inverse THEN st
  ELSE [a    |-> Stored([i \in Index |-> barrett(st.a[i] * NTT_N_INV)]),
        wide |-> st.wide \/ \E i \in Index : Wide(st.a[i] * NTT_N_INV)]

ntt_sw(st, inverse) ==
  LET stages[s \in 0..8] == IF s = 0 THEN st ELSE Stage(stages[s-1], 2^(8-s), inverse)
  IN  Scaled(stages[8], inverse)

ntt_bit_reverse(st) ==
  LET bit(i, b)  == (i \div 2^b) % 2
      reverse(i) == bit(i, 0) * 128 + bit(i, 1) * 64 + bit(i, 2) * 32 + bit(i, 3) * 16
                    + bit(i, 4) * 8 + bit(i, 5) * 4 + bit(i, 6) * 2 + bit(i, 7)
  IN  [st EXCEPT !.a = Stored([i \in Index |-> st.a[reverse(i)]])]

\* Both, as the commands apply them.
Applied(st, inverse) == ntt_bit_reverse(ntt_sw(st, inverse))

-----------------------------------------------------------------------------
(***************************************************************************)
(* The definition: A[k] is the sum of a[j] * 17^(jk), and the inverse uses *)
(* 17^(-jk) and divides by 256.                                            *)
(***************************************************************************)
\* The sum of 256 values, each half added to the other until one is left.
Total(f) ==
  LET sums[n \in 0..8] == IF n = 0 THEN f
                          ELSE [x \in 0..2^(8-n)-1 |->
                                  (sums[n-1][x] + sums[n-1][x + 2^(8-n)]) % NTT_Q]
  IN  sums[8][0]

Transform(a, inverse) ==
  LET root(n)    == TW[(IF inverse THEN NTT_N - (n % NTT_N) ELSE n) % NTT_N]
      term(j, k) == IF a[j] = 0 THEN 0 ELSE (a[j] * root(j * k)) % NTT_Q
      sum(k)     == Total([j \in Index |-> term(j, k)])
  IN  Stored([k \in Index |-> IF inverse THEN (sum(k) * NTT_N_INV) % NTT_Q ELSE sum(k)])

-----------------------------------------------------------------------------
Ntt_init(n) == [n EXCEPT !.done = FALSE]

\* cmd_load_delta and cmd_load_random.
Ntt_load(n, v) == [n EXCEPT !.a = v, !.exact = v, !.wide = FALSE, !.verdict = ""]

cmd_ntt(n, inverse) ==
  LET st == Applied([a |-> n.a, wide |-> n.wide], inverse)
  IN  [n EXCEPT !.a = st.a, !.wide = st.wide, !.exact = Transform(@, inverse)]

\* NTT and INTT give back what was there, so exact stays.
cmd_roundtrip(n) ==
  LET st == Applied(Applied([a |-> n.a, wide |-> n.wide], FALSE), TRUE)
  IN  [n EXCEPT !.a = st.a, !.wide = st.wide,
                !.verdict = IF st.a = n.a THEN "PASS" ELSE "FAIL"]

NttCommands == {"ntt", "intt", "roundtrip", "quit"}

\* A command line other than a load, once it is complete.
ntt_dispatch(n, command) ==
  CASE command = "ntt"       -> cmd_ntt(n, FALSE)
    [] command = "intt"      -> cmd_ntt(n, TRUE)
    [] command = "roundtrip" -> cmd_roundtrip(n)
    [] command = "quit"      -> [n EXCEPT !.done = TRUE]

Ntt_input(n, command) == IF n.done THEN n ELSE ntt_dispatch(n, command)

Ntt_finish(n) == n.done

-----------------------------------------------------------------------------
\* As long as no product has passed 32 bits the eight in-place stages, the
\* inverse and the bit reversal compute the transform, and a round trip gives
\* back the buffer (ntt.c:55-92).
NttExact == ~ntt.wide => ntt.a = ntt.exact /\ ntt.verdict # "FAIL"

\* A round trip passes whatever was computed before
\* (doc/de2shell-module-acceptance.md: "random input round-trip (NTT->INTT)
\* verified PASS").
RoundTripPasses == ntt.verdict # "FAIL"
=============================================================================
