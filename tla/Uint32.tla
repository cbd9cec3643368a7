------------------------------- MODULE Uint32 -------------------------------
(***************************************************************************)
(* Unsigned machine arithmetic as the firmware uses it: every time stamp   *)
(* and every pulse counter is a uint32_t, and ages are computed as a       *)
(* difference that wraps.  The modulus is a parameter: 2^32 on the ESP32,  *)
(* a small number when TLC explores the wrap-around.                       *)
(***************************************************************************)
EXTENDS Integers

\* The values of an unsigned counter of modulus m.
UintMod(m) == 0 .. m - 1

\* Mutant: the counter saturates nowhere and never wraps.
IncMod_sem_volta(x, m) == x + 1

\* x + 1 on an unsigned counter of modulus m.
IncMod(x, m) == IF x = m - 1 THEN 0 ELSE x + 1

\* (uint32_t)(a - b) on an unsigned counter of modulus m.
SubMod(a, b, m) == IF a >= b THEN a - b ELSE a - b + m
=============================================================================
