------------------------------ MODULE BaseProofs ------------------------------
(***************************************************************************)
(* Lemmas that the proofs of several components share: the arithmetic that *)
(* wraps, the clock, and the types of the mode module.                     *)
(***************************************************************************)
EXTENDS Modos, TLAPS

(***************************************************************************)
(* Unsigned arithmetic.                                                    *)
(***************************************************************************)
\* The two operations stay in the range of the type.
LEMMA IncModTipo ==
  ASSUME NEW m \in Nat \ {0}, NEW x \in UintMod(m)
  PROVE  IncMod(x, m) \in UintMod(m)
  BY DEF IncMod, UintMod

LEMMA SubModTipo ==
  ASSUME NEW m \in Nat \ {0}, NEW a \in UintMod(m), NEW b \in UintMod(m)
  PROVE  SubMod(a, b, m) \in UintMod(m)
  BY DEF SubMod, UintMod

\* A counter is at distance 0 from itself.
LEMMA SubModZero ==
  ASSUME NEW m \in Nat \ {0}, NEW a \in UintMod(m)
  PROVE  SubMod(a, a, m) = 0
  BY DEF SubMod, UintMod

\* One more event makes the wrapping difference one larger, while it fits.
LEMMA SubModInc ==
  ASSUME NEW m \in Nat \ {0}, NEW a \in UintMod(m), NEW b \in UintMod(m),
         SubMod(a, b, m) < m - 1
  PROVE  SubMod(IncMod(a, m), b, m) = SubMod(a, b, m) + 1
  BY DEF SubMod, IncMod, UintMod

\* A counter q read between b and a splits the distance from b to a in two.
LEMMA SubModSoma ==
  ASSUME NEW m \in Nat \ {0}, NEW a \in UintMod(m), NEW b \in UintMod(m),
         NEW q \in UintMod(m), SubMod(q, b, m) <= SubMod(a, b, m)
  PROVE  SubMod(a, q, m) = SubMod(a, b, m) - SubMod(q, b, m)
  BY DEF SubMod, UintMod

LEMMA Millis32Tipo ==
  ASSUME agora \in Nat
  PROVE  millis32 \in UintMod(MS_MOD)
  BY PlacaAssumption DEF millis32, UintMod

(***************************************************************************)
(* Types of the mode module.                                               *)
(***************************************************************************)
LEMMA ModosInitTipos ==
  ASSUME modos_init, agora \in Nat
  PROVE  ModosTypeOK
<1>1. millis32 \in UintMod(MS_MOD) /\ 0 \in UintMod(MS_MOD)
  BY Millis32Tipo, PlacaAssumption DEF UintMod
<1> QED
  BY <1>1, ModosAssumption DEF modos_init, ModosTypeOK, ModoOperacao, Tarefas

LEMMA SetTipos ==
  ASSUME ModosTypeOK, NEW t \in Tarefas, SetCompara(t) \/ SetEscreve(t)
  PROVE  ModosTypeOK'
  BY DEF SetCompara, SetEscreve, ModosTypeOK, ModoOperacao, Vai

LEMMA BotaoTipos ==
  ASSUME ModosTypeOK, agora \in Nat, modos_update_button
  PROVE  ModosTypeOK'
<1>1. ASSUME BotaoRelogio PROVE ModosTypeOK'
  BY <1>1, Millis32Tipo DEF BotaoRelogio, ModosTypeOK, Vai
<1>2. ASSUME BotaoAmostra PROVE ModosTypeOK'
  <2>1. UltimaMudanca \in UintMod(MS_MOD) /\ 0 \in UintMod(MS_MOD)
    BY PlacaAssumption DEF UltimaMudanca, ModosTypeOK, UintMod
  <2> QED
    BY <1>2, <2>1 DEF BotaoAmostra, ModosTypeOK, Vai
<1>3. ASSUME NextLe PROVE ModosTypeOK'
  BY <1>3 DEF NextLe, ModosTypeOK, ModoOperacao, Proximo, Vai
<1> QED
  BY <1>1, <1>2, <1>3, SetTipos DEF modos_update_button, Tarefas

LEMMA ComandoTipos ==
  ASSUME ModosTypeOK, processar_comando_modo
  PROVE  ModosTypeOK'
<1>1. ASSUME NEW m \in Comandos, ComandoRecebe(m) PROVE ModosTypeOK'
  BY <1>1, ModosAssumption DEF ComandoRecebe, ModosTypeOK, Vai
<1> QED
  BY <1>1, SetTipos DEF processar_comando_modo, Tarefas

LEMMA PinoTipos ==
  ASSUME ModosTypeOK, PinoMuda
  PROVE  ModosTypeOK'
  BY ModosAssumption DEF PinoMuda, ModosTypeOK

LEMMA ModosParadoTipos ==
  ASSUME ModosTypeOK, UNCHANGED modosVars
  PROVE  ModosTypeOK'
  BY DEF ModosTypeOK, modosVars
=============================================================================
