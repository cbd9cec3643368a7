-------------------------------- MODULE Linha ---------------------------------
(***************************************************************************)
(* oled_line and oled_pixel of src/oled.cpp, against the line they         *)
(* approximate.                                                            *)
(***************************************************************************)
EXTENDS Integers

CONSTANTS
  LARGURA, ALTURA,   \* OLED_WIDTH and OLED_HEIGHT
  Pontas             \* coordinates of the ends, some of them outside

\* The screen is made of pages of eight rows (s_buffer), and an index of the
\* buffer fits in the uint16_t of oled_pixel.
ASSUME LinhaAssumption ==
  /\ LARGURA \in Nat \ {0} /\ ALTURA \in Nat \ {0}
  /\ ALTURA % 8 = 0 /\ LARGURA * ALTURA <= 8 * 65536
  /\ Pontas \subseteq Int

VARIABLES
  ponta,     \* the arguments <<x0, y0, x1, y1>>
  lpos,      \* x0 and y0, as the loop changes them
  erro,      \* err
  aceso,     \* bits of s_buffer: <<index, bit>>
  visitados, \* history: the pixels asked for
  lfim       \* did the loop end?

linhaVars == <<ponta, lpos, erro, aceso, visitados, lfim>>

Mod(v) == IF v < 0 THEN -v ELSE v
DX == Mod(ponta[3] - ponta[1])
DY == -Mod(ponta[4] - ponta[2])
SX == IF ponta[1] < ponta[3] THEN 1 ELSE -1
SY == IF ponta[2] < ponta[4] THEN 1 ELSE -1

LinhaInit ==
  /\ ponta \in Pontas \X Pontas \X Pontas \X Pontas
  /\ lpos = <<ponta[1], ponta[2]>>
  /\ erro = DX + DY
  /\ aceso = {} /\ visitados = {} /\ lfim = FALSE

Dentro(x, y) == x \in 0 .. LARGURA - 1 /\ y \in 0 .. ALTURA - 1

\* Mutant: the last column and row are taken for outside ones.
oled_pixel_borda(x, y) ==
  aceso' = IF x \in 0 .. LARGURA - 2 /\ y \in 0 .. ALTURA - 2
             THEN aceso \cup {<<x + (y \div 8) * LARGURA, y % 8>>} ELSE aceso

oled_pixel(x, y) ==
  aceso' = IF Dentro(x, y) THEN aceso \cup {<<x + (y \div 8) * LARGURA, y % 8>>} ELSE aceso

\* One turn of the loop of oled_line.
oled_line ==
  /\ ~lfim
  /\ oled_pixel(lpos[1], lpos[2])
  /\ visitados' = visitados \cup {lpos}
  /\ lfim' = (lpos = <<ponta[3], ponta[4]>>)
  /\ IF lfim' THEN UNCHANGED <<lpos, erro>>
     ELSE LET anda == 2 * erro >= DY
              sobe == 2 * erro <= DX
          IN  /\ lpos' = <<lpos[1] + IF anda THEN SX ELSE 0, lpos[2] + IF sobe THEN SY ELSE 0>>
              /\ erro' = erro + (IF anda THEN DY ELSE 0) + (IF sobe THEN DX ELSE 0)
  /\ UNCHANGED ponta

LinhaFim == lfim /\ UNCHANGED linhaVars

LinhaNext == oled_line \/ LinhaFim

LinhaSpec == LinhaInit /\ [][LinhaNext]_linhaVars

-----------------------------------------------------------------------------
Maior == IF DX > -DY THEN DX ELSE -DY

\* Every pixel asked for is at most half a pixel off the true line, one for each
\* step of the longer side, so that the loop always meets its end; and the
\* buffer gets exactly those of the screen, each in a bit of its own
\* (oled.cpp:51-85).
LinhaJusta ==
  /\ \A v \in visitados :
       2 * Mod((v[1] - ponta[1]) * (ponta[4] - ponta[2]) - (v[2] - ponta[2]) * (ponta[3] - ponta[1])) <= Maior
  /\ \A u, v \in visitados : u # v => (IF DX = Maior THEN u[1] # v[1] ELSE u[2] # v[2])
  /\ \A v \in visitados : Mod(v[1] - ponta[1]) <= DX /\ Mod(v[2] - ponta[2]) <= -DY
  /\ aceso = {<<v[1] + (v[2] \div 8) * LARGURA, v[2] % 8>> : v \in {w \in visitados : Dentro(w[1], w[2])}}
  /\ \A a \in aceso : a[1] \in 0 .. (LARGURA * ALTURA) \div 8 - 1
=============================================================================
