------------------------------- MODULE Placa --------------------------------
(***************************************************************************)
(* What every module of the firmware shares: the clock of the board and    *)
(* its two hydraulic circuits.  esp_timer_get_time() is a 64-bit count     *)
(* that never wraps; every module derives from it a uint32_t of            *)
(* milliseconds (millis32, defined four times with the same body), which   *)
(* wraps every 49.7 days.  One unit of agora is one tick of the model, and *)
(* both readings are expressed in it.                                      *)
(***************************************************************************)
EXTENDS Uint32

CONSTANTS
  MS_MOD,    \* modulus of millis32(): 2^32 ms on the target
  MaxTempo   \* bound: the horizon of the model's clock

ASSUME PlacaAssumption ==
  /\ MS_MOD \in Nat \ {0}
  /\ MaxTempo \in Nat

VARIABLE agora   \* esp_timer_get_time()

Circuitos == {"frio", "quente"}

\* static uint32_t millis32()
millis32 == agora % MS_MOD

\* Mutant: the difference is compared as a signed number.
Idade_com_sinal(now, t) == now - t

\* (uint32_t)(now - t): the age of stamp t as the code computes it.
Idade(now, t) == SubMod(now, t, MS_MOD)
=============================================================================
