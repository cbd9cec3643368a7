----------------------------- MODULE MsgProofs ------------------------------
(***************************************************************************)
(* Theorems about the messages of the library.  Those that it writes: for  *)
(* every base above two, every buffer that holds the library's own         *)
(* messages, all lengths of the payloads that a length of four digits can  *)
(* say, and all messages that went through the buffer before.  Those that  *)
(* arrive: for every base above three, every buffer that holds all of a    *)
(* publication but its data, any number of messages and of data, and any   *)
(* cuts of the stream by the readings.                                     *)
(***************************************************************************)
EXTENDS Pacotes, SequenceTheorems, TLAPS

(***************************************************************************)
(* Arithmetic.                                                             *)
(***************************************************************************)
\* A product grows with its factor.
LEMMA Monotono ==
  ASSUME NEW x \in Int, NEW y \in Int, NEW z \in Int, x <= y, 0 <= z
  PROVE  x * z <= y * z
  OBVIOUS

\* Division by a number that is not a constant.
LEMMA Divide ==
  ASSUME NEW a \in Nat, NEW b \in Nat \ {0}
  PROVE  /\ a \div b \in Nat /\ a % b \in 0 .. b - 1
         /\ a = b * (a \div b) + (a % b)
  OBVIOUS

\* Quotient and remainder are the only numbers of which the dividend is made.
LEMMA Quociente ==
  ASSUME NEW a \in Nat, NEW b \in Nat \ {0}, NEW q \in Nat, NEW r \in 0 .. b - 1, a = b * q + r
  PROVE  a \div b = q /\ a % b = r
<1> DEFINE q2 == a \div b
           r2 == a % b
<1>1. q2 \in Nat /\ r2 \in 0 .. b - 1 /\ a = b * q2 + r2
  BY Divide
<1> HIDE DEF q2, r2
<1>2. b * q2 \in Int /\ b * q \in Int /\ b * q2 + r2 = b * q + r
  BY <1>1
<1>3. ~(q < q2)
  <2> SUFFICES ASSUME q + 1 <= q2 PROVE FALSE
    BY <1>1
  <2>1. (q + 1) * b <= q2 * b
    BY <1>1, Monotono
  <2>2. (q + 1) * b = b * q + b /\ q2 * b = b * q2
    BY <1>1
  <2> QED
    BY <1>1, <1>2, <2>1, <2>2
<1>4. ~(q2 < q)
  <2> SUFFICES ASSUME q2 + 1 <= q PROVE FALSE
    BY <1>1
  <2>1. (q2 + 1) * b <= q * b
    BY <1>1, Monotono
  <2>2. (q2 + 1) * b = b * q2 + b /\ q * b = b * q
    BY <1>1
  <2> QED
    BY <1>1, <1>2, <2>1, <2>2
<1>5. q = q2
  BY <1>1, <1>3, <1>4
<1> QED
  BY <1>1, <1>2, <1>5 DEF q2, r2

\* Dividing by a product is dividing by one factor and then by the other.
LEMMA DivideDuasVezes ==
  ASSUME NEW a \in Nat, NEW b \in Nat \ {0}, NEW c \in Nat \ {0}
  PROVE  a \div (b * c) = (a \div b) \div c
<1> DEFINE q == a \div b
           r == a % b
           s == q \div c
           t == q % c
<1>1. q \in Nat /\ r \in 0 .. b - 1 /\ a = b * q + r
  BY Divide
<1> HIDE DEF q, r
<1>2. s \in Nat /\ t \in 0 .. c - 1 /\ q = c * s + t
  BY <1>1, Divide
<1> HIDE DEF s, t
<1>3. b * c \in Nat \ {0}
  <2>1. 1 * c <= b * c
    BY Monotono
  <2> QED
    BY <2>1
<1>4. b * t + r \in 0 .. b * c - 1
  <2>1. 0 * b <= t * b /\ t * b <= (c - 1) * b
    BY <1>2, Monotono
  <2>2. (c - 1) * b = b * c - b /\ t * b = b * t /\ b * t \in Int /\ b * c \in Int /\ 0 * b = 0
    BY <1>2
  <2> QED
    BY <1>1, <2>1, <2>2
<1>5. a = (b * c) * s + (b * t + r)
  <2>1. b * (c * s + t) = (b * c) * s + b * t
    BY <1>2
  <2> QED
    BY <1>1, <1>2, <2>1
<1>6. a \div (b * c) = s
  BY <1>2, <1>3, <1>4, <1>5, Quociente
<1> QED
  BY <1>6 DEF s, q

(***************************************************************************)
(* The digits of a length.                                                 *)
(***************************************************************************)
\* What each digit is worth, none of it zero.
LEMMA Pesos ==
  /\ BASE \in Nat /\ BASE > 2
  /\ Peso[1] = 1 /\ Peso[2] = BASE /\ Peso[3] = BASE * BASE /\ Peso[4] = BASE * BASE * BASE
  /\ Peso[5] = BASE * BASE * BASE * BASE
  /\ Peso[1] \in Nat \ {0} /\ Peso[2] \in Nat \ {0} /\ Peso[3] \in Nat \ {0} /\ Peso[4] \in Nat \ {0}
<1>1. BASE \in Nat /\ BASE > 2
  BY MsgAssumption
<1>2. BASE * BASE \in Nat \ {0}
  <2>1. 1 * BASE <= BASE * BASE
    BY <1>1, Monotono
  <2> QED
    BY <1>1, <2>1
<1>3. BASE * BASE * BASE \in Nat \ {0}
  <2>1. 1 * BASE <= (BASE * BASE) * BASE
    BY <1>1, <1>2, Monotono
  <2> QED
    BY <1>1, <1>2, <2>1
<1> QED
  BY <1>1, <1>2, <1>3 DEF Peso

\* The lengths that four digits can say.
Comprimento == {n \in Nat : n < BASE * BASE * BASE * BASE}

\* The digit j of n, without its flag.
Digito(n, j) == (n \div Peso[j]) % BASE

\* A length has as many digits as its first one needs, four at most.
LEMMA DigitosForma ==
  ASSUME NEW n \in Comprimento
  PROVE  \E k \in 1 .. 4 :
           /\ n < Peso[k + 1] /\ (k = 1 \/ n >= Peso[k])
           /\ Digitos(n) = [j \in 1 .. k |-> N(Digito(n, j) + IF j < k THEN BASE ELSE 0)]
<1> DEFINE P(j) == n < Peso[j + 1] /\ (j = 1 \/ n >= Peso[j])
           k == CHOOSE j \in 1 .. 5 : P(j)
<1>1. n \in Nat /\ n < Peso[5]
  BY Pesos DEF Comprimento
<1>2. \E j \in 1 .. 5 : P(j)
  BY <1>1, Pesos
<1>3. k \in 1 .. 5 /\ P(k)
  BY <1>2
<1>4. k # 5
  BY <1>1, <1>3, Pesos
<1>5. Digitos(n) = [j \in 1 .. k |-> N(Digito(n, j) + IF j < k THEN BASE ELSE 0)]
  BY DEF Digitos, Digito
<1> HIDE DEF k
<1>6. k \in 1 .. 4
  BY <1>3, <1>4
<1> QED
  BY <1>3, <1>5, <1>6

\* A digit is below the base.
LEMMA DigitoTipo ==
  ASSUME NEW n \in Nat, NEW j \in 1 .. 4
  PROVE  Digito(n, j) \in 0 .. BASE - 1
<1>1. Peso[j] \in Nat \ {0}
  BY Pesos
<1>2. n \div Peso[j] \in Nat
  BY <1>1, Divide
<1> QED
  BY <1>2, Pesos, Divide DEF Digito

\* The digits say the number.
LEMMA Soma ==
  ASSUME NEW n \in Nat
  PROVE  /\ n < Peso[2] => n = Digito(n, 1)
         /\ n < Peso[3] => n = Digito(n, 1) + Digito(n, 2) * Peso[2]
         /\ n < Peso[4] => n = Digito(n, 1) + Digito(n, 2) * Peso[2] + Digito(n, 3) * Peso[3]
         /\ n < Peso[5] => n = Digito(n, 1) + Digito(n, 2) * Peso[2] + Digito(n, 3) * Peso[3]
                                 + Digito(n, 4) * Peso[4]
<1> DEFINE B == BASE
           q1 == n \div B
           q2 == q1 \div B
           q3 == q2 \div B
<1>1. B \in Nat \ {0}
  BY Pesos
<1>2. n \div 1 = n
  OBVIOUS
<1>3. q1 \in Nat /\ n % B \in 0 .. B - 1 /\ n = B * q1 + (n % B)
  BY <1>1, Divide
<1>4. q2 \in Nat /\ q1 % B \in 0 .. B - 1 /\ q1 = B * q2 + (q1 % B)
  BY <1>1, <1>3, Divide
<1>5. q3 \in Nat /\ q2 % B \in 0 .. B - 1 /\ q2 = B * q3 + (q2 % B)
  BY <1>1, <1>4, Divide
<1>6. n \div (B * B) = q2
  BY <1>1, DivideDuasVezes
<1>7. n \div ((B * B) * B) = q3
  <2>1. B * B \in Nat \ {0}
    BY Pesos
  <2>2. n \div ((B * B) * B) = (n \div (B * B)) \div B
    BY <1>1, <2>1, DivideDuasVezes
  <2> QED
    BY <1>6, <2>2
<1>8. Digito(n, 1) = n % B /\ Digito(n, 2) = q1 % B /\ Digito(n, 3) = q2 % B /\ Digito(n, 4) = q3 % B
  <2>1. Digito(n, 1) = (n \div 1) % B /\ Digito(n, 2) = (n \div B) % B
        /\ Digito(n, 3) = (n \div (B * B)) % B /\ Digito(n, 4) = (n \div ((B * B) * B)) % B
    BY Pesos DEF Digito
  <2> QED
    BY <1>2, <1>6, <1>7, <2>1
<1> HIDE DEF q1, q2, q3
<1>9. ASSUME NEW q \in Nat, NEW m1 \in Nat, NEW d \in 0 .. B - 1, NEW w \in Nat, m1 = B * q + d, m1 < w * B
      PROVE  q < w
  <2> SUFFICES ASSUME w <= q PROVE FALSE
    BY <1>9
  <2>1. w * B <= q * B
    BY <1>1, <1>9, Monotono
  <2>2. q * B = B * q /\ w * B \in Int /\ q * B \in Int
    BY <1>1, <1>9
  <2> QED
    BY <1>1, <1>9, <2>1, <2>2
<1>10. ASSUME NEW q \in Nat, q < B PROVE q % B = q
  <2>1. B * 0 = 0 /\ q \in 0 .. B - 1 /\ 0 \in Nat
    BY <1>1, <1>10
  <2>2. q = B * 0 + q
    BY <1>10, <2>1
  <2> QED
    BY <1>1, <2>1, <2>2, Quociente
<1>11. n = B * q1 + (n % B) /\ n = B * (B * q2) + (q1 % B) * B + (n % B)
        /\ n = ((B * B) * B) * q3 + (q2 % B) * (B * B) + (q1 % B) * B + (n % B)
  <2> DEFINE d1 == n % B
             d2 == q1 % B
             d3 == q2 % B
  <2>1. d1 \in Int /\ d2 \in Int /\ d3 \in Int /\ n = B * q1 + d1 /\ q1 = B * q2 + d2 /\ q2 = B * q3 + d3
    BY <1>1, <1>3, <1>4, <1>5
  <2> HIDE DEF d1, d2, d3
  <2>2. B * (B * q2 + d2) = B * (B * q2) + d2 * B
    BY <1>1, <1>4, <2>1
  <2>3. B * (B * (B * q3 + d3)) = ((B * B) * B) * q3 + d3 * (B * B)
    BY <1>1, <1>5, <2>1
  <2>4. n = B * (B * q2) + d2 * B + d1
    BY <2>1, <2>2
  <2>5. n = ((B * B) * B) * q3 + d3 * (B * B) + d2 * B + d1
    BY <2>1, <2>3, <2>4
  <2> QED
    BY <2>1, <2>4, <2>5 DEF d1, d2, d3
<1> DEFINE d1 == n % B
           d2 == q1 % B
           d3 == q2 % B
<1>12. ASSUME n < Peso[2] PROVE n = Digito(n, 1)
  <2>1. n % B = n
    BY <1>10, <1>12, Pesos
  <2> QED
    BY <1>8, <2>1
<1>13. ASSUME n < Peso[3] PROVE q1 % B = q1
  <2>1. n < B * B
    BY <1>13, Pesos
  <2>2. q1 < B
    BY <1>1, <1>3, <1>9, <2>1
  <2> QED
    BY <1>3, <1>10, <2>2
<1>14. ASSUME n < Peso[4] PROVE q2 % B = q2
  <2>1. n < (B * B) * B /\ B * B \in Nat
    BY <1>14, Pesos
  <2>2. q1 < B * B
    BY <1>1, <1>3, <1>9, <2>1
  <2>3. q2 < B
    BY <1>1, <1>4, <1>9, <2>2
  <2> QED
    BY <1>4, <1>10, <2>3
<1>15. ASSUME n < Peso[5] PROVE q3 % B = q3
  <2>1. n < ((B * B) * B) * B /\ B * B \in Nat /\ (B * B) * B \in Nat
    BY <1>15, Pesos
  <2>2. q1 < (B * B) * B
    BY <1>1, <1>3, <1>9, <2>1
  <2>3. q2 < B * B
    BY <1>1, <1>4, <1>9, <2>1, <2>2
  <2>4. q3 < B
    BY <1>1, <1>5, <1>9, <2>3
  <2> QED
    BY <1>5, <1>10, <2>4
<1>16. d1 \in Int /\ d2 \in Int /\ d3 \in Int
  BY <1>3, <1>4, <1>5
<1>17. ASSUME n < Peso[3] PROVE n = Digito(n, 1) + Digito(n, 2) * Peso[2]
  <2>1. n = B * q1 + d1 /\ d2 = q1
    BY <1>3, <1>13, <1>17
  <2>2. B * q1 = q1 * B
    BY <1>1, <1>3
  <2>3. n = d1 + d2 * B
    <3> HIDE DEF d1, d2
    <3> QED
      BY <1>1, <1>3, <1>16, <2>1, <2>2
  <2> QED
    BY <1>8, <2>3, Pesos
<1>18. ASSUME n < Peso[4] PROVE n = Digito(n, 1) + Digito(n, 2) * Peso[2] + Digito(n, 3) * Peso[3]
  <2>1. n = B * (B * q2) + d2 * B + d1 /\ d3 = q2
    BY <1>11, <1>14, <1>18
  <2>2. B * (B * q2) = q2 * (B * B)
    BY <1>1, <1>4
  <2>3. n = d1 + d2 * B + d3 * (B * B)
    <3> HIDE DEF d1, d2, d3
    <3> QED
      BY <1>1, <1>4, <1>16, <2>1, <2>2
  <2> QED
    BY <1>8, <2>3, Pesos
<1>19. ASSUME n < Peso[5]
       PROVE n = Digito(n, 1) + Digito(n, 2) * Peso[2] + Digito(n, 3) * Peso[3] + Digito(n, 4) * Peso[4]
  <2>1. n = ((B * B) * B) * q3 + d3 * (B * B) + d2 * B + d1 /\ q3 % B = q3
    BY <1>11, <1>15, <1>19
  <2>2. ((B * B) * B) * q3 = q3 * ((B * B) * B)
    BY <1>1, <1>5
  <2>3. n = d1 + d2 * B + d3 * (B * B) + q3 * ((B * B) * B)
    <3> HIDE DEF d1, d2, d3
    <3> QED
      BY <1>1, <1>5, <1>16, <2>1, <2>2
  <2> QED
    BY <1>8, <2>1, <2>3, Pesos
<1> QED
  BY <1>12, <1>17, <1>18, <1>19

\* What the receiver adds up is the length that was written.
LEMMA TotalLido ==
  ASSUME NEW k \in 1 .. 4, NEW n \in Nat, n < Peso[k + 1], NEW b, TamanhoFixo(b) = k + 1,
         \A j \in 1 .. k : b[j + 1][2] % BASE = Digito(n, j)
  PROVE  mqtt_get_total_length(b) = n + k + 1
<1> DEFINE G(f) == [i \in 1 .. k + 1 |-> IF i = 1 THEN 0 ELSE f[i - 1] + (b[i][2] % BASE) * Peso[i - 1]]
           D(j) == (b[j + 1][2] % BASE) * Peso[j]
           s == [i \in 1 .. k + 1 |-> IF i = 1 THEN 0 ELSE IF i = 2 THEN D(1) ELSE IF i = 3 THEN D(1) + D(2)
                                     ELSE IF i = 4 THEN D(1) + D(2) + D(3) ELSE D(1) + D(2) + D(3) + D(4)]
           f0 == CHOOSE f : f = G(f)
<1>1. \A j \in 1 .. k : D(j) = Digito(n, j) * Peso[j] /\ D(j) \in Int
  <2> SUFFICES ASSUME NEW j \in 1 .. k PROVE D(j) = Digito(n, j) * Peso[j] /\ D(j) \in Int
    OBVIOUS
  <2>1. D(j) = Digito(n, j) * Peso[j]
    OBVIOUS
  <2>2. j \in 1 .. 4
    OBVIOUS
  <2>3. Peso[j] \in Int
    BY <2>2, Pesos
  <2>4. Digito(n, j) \in Int
    BY <2>2, DigitoTipo, Pesos
  <2> QED
    BY <2>1, <2>3, <2>4
<1> HIDE DEF D
<1>2. s = G(s)
  <2>1. \A i \in 1 .. k + 1 : G(s)[i] = IF i = 1 THEN 0 ELSE s[i - 1] + D(i - 1)
    BY DEF D
  <2>2. \A i \in 1 .. k + 1 : s[i] = IF i = 1 THEN 0 ELSE s[i - 1] + D(i - 1)
    <3> SUFFICES ASSUME NEW i \in 1 .. k + 1 PROVE s[i] = IF i = 1 THEN 0 ELSE s[i - 1] + D(i - 1)
      OBVIOUS
    <3>1. CASE i = 1
      BY <3>1
    <3>2. CASE i = 2
      <4>1. s[i] = D(1) /\ s[i - 1] = 0 /\ D(1) \in Int
        BY <1>1, <3>2
      <4> QED
        BY <3>2, <4>1
    <3>3. CASE i = 3
      BY <3>3
    <3>4. CASE i = 4
      BY <3>4
    <3>5. CASE i = 5
      BY <3>5
    <3> QED
      BY <3>1, <3>2, <3>3, <3>4, <3>5
  <2>3. \A i \in 1 .. k + 1 : s[i] = G(s)[i]
    <3> HIDE DEF s, G
    <3> QED
      BY <2>1, <2>2
  <2> HIDE DEF D
  <2> QED
    BY <2>3
<1>3. f0 = G(f0)
  BY <1>2
<1>4. mqtt_get_total_length(b) = f0[k + 1] + (k + 1)
  BY DEF mqtt_get_total_length
<1> HIDE DEF f0
<1>5. \A i \in 1 .. k + 1 : f0[i] = IF i = 1 THEN 0 ELSE f0[i - 1] + D(i - 1)
  BY <1>3 DEF D
<1>6. f0[1] = 0 /\ f0[2] = f0[1] + D(1) /\ (k >= 2 => f0[3] = f0[2] + D(2))
      /\ (k >= 3 => f0[4] = f0[3] + D(3)) /\ (k >= 4 => f0[5] = f0[4] + D(4))
  BY <1>5
<1>7. D(1) = Digito(n, 1) /\ D(1) \in Int
  <2>1. Digito(n, 1) \in Int /\ Peso[1] = 1
    BY DigitoTipo, Pesos
  <2> QED
    BY <1>1, <2>1
<1>8. f0[k + 1] = n
  <2>1. CASE k = 1
    BY <1>6, <1>7, <2>1, Soma
  <2>2. CASE k = 2
    BY <1>1, <1>6, <1>7, <2>2, Soma
  <2>3. CASE k = 3
    BY <1>1, <1>6, <1>7, <2>3, Soma
  <2>4. CASE k = 4
    BY <1>1, <1>6, <1>7, <2>4, Soma
  <2> QED
    BY <2>1, <2>2, <2>3, <2>4
<1> QED
  BY <1>4, <1>8

\* The bytes of all messages.
Marcas == {"n", "d", "t", "h", "velho", "CONNECT", "PUBLISH", "PUBACK", "SUBSCRIBE", "PINGREQ",
            "SUBACK", "PINGRESP"}
Byte == Marcas \X Int

\* Every digit but the last has its flag, and says its part of the number.
LEMMA DigitosLidos ==
  ASSUME NEW n \in Comprimento
  PROVE  /\ Digitos(n) \in Seq(Byte) /\ Len(Digitos(n)) \in 1 .. 4 /\ n < Peso[Len(Digitos(n)) + 1]
         /\ Len(Digitos(n)) = 1 \/ n >= Peso[Len(Digitos(n))]
         /\ \A j \in 1 .. Len(Digitos(n)) :
              /\ Alto(Digitos(n)[j]) <=> j < Len(Digitos(n))
              /\ Digitos(n)[j][2] % BASE = Digito(n, j)
<1> PICK k \in 1 .. 4 :
           /\ n < Peso[k + 1] /\ (k = 1 \/ n >= Peso[k])
           /\ Digitos(n) = [j \in 1 .. k |-> N(Digito(n, j) + IF j < k THEN BASE ELSE 0)]
  BY DigitosForma
<1>1. BASE \in Nat \ {0}
  BY Pesos
<1>2. \A j \in 1 .. k : Digito(n, j) \in 0 .. BASE - 1
  <2>1. n \in Nat /\ \A j \in 1 .. k : j \in 1 .. 4
    BY DEF Comprimento
  <2> QED
    BY <2>1, DigitoTipo
<1>3. \A j \in 1 .. k : Digitos(n)[j] = <<"n", Digito(n, j) + IF j < k THEN BASE ELSE 0>>
  BY DEF N
<1>4. Digitos(n) \in Seq(Byte) /\ Len(Digitos(n)) = k
  <2> DEFINE v(j) == Digito(n, j) + IF j < k THEN BASE ELSE 0
  <2>1. \A j \in 1 .. k : v(j) \in Int
    BY <1>1, <1>2
  <2> HIDE DEF v
  <2>2. \A j \in 1 .. k : <<"n", v(j)>> \in Byte
    BY <2>1 DEF Byte, Marcas
  <2>3. Digitos(n) = [j \in 1 .. k |-> <<"n", v(j)>>]
    BY DEF v, N
  <2>4. Digitos(n) \in [1 .. k -> Byte]
    BY <2>2, <2>3
  <2> QED
    BY <2>4, LenProperties
<1>5. ASSUME NEW j \in 1 .. k
      PROVE  (Alto(Digitos(n)[j]) <=> j < k) /\ Digitos(n)[j][2] % BASE = Digito(n, j)
  <2> DEFINE d == Digito(n, j)
  <2>1. d \in 0 .. BASE - 1
    BY <1>2
  <2>2. Digitos(n)[j][1] = "n" /\ Digitos(n)[j][2] = d + IF j < k THEN BASE ELSE 0
    BY <1>3
  <2> HIDE DEF d
  <2>3. (d + BASE) % BASE = d /\ (d + 0) % BASE = d
    <3>1. d + BASE = BASE * 1 + d /\ d + 0 = BASE * 0 + d /\ d + BASE \in Nat /\ d + 0 \in Nat
      BY <1>1, <2>1
    <3> QED
      BY <1>1, <2>1, <3>1, Quociente
  <2>4. Alto(Digitos(n)[j]) <=> j < k
    BY <1>1, <2>1, <2>2 DEF Alto
  <2>5. Digitos(n)[j][2] % BASE = d
    BY <2>2, <2>3
  <2> QED
    BY <2>4, <2>5 DEF d
<1> QED
  BY <1>4, <1>5

\* A reader who has the first byte and the length knows where the body begins
\* and where the message ends.
LEMMA CabecalhoLido ==
  ASSUME NEW n \in Comprimento, NEW b \in Seq(Byte),
         Len(b) >= Len(Digitos(n)) + 1,
         \A j \in 1 .. Len(Digitos(n)) : b[j + 1] = Digitos(n)[j]
  PROVE  /\ TamanhoFixo(b) = Len(Digitos(n)) + 1
         /\ mqtt_get_total_length(b) = n + Len(Digitos(n)) + 1
<1> DEFINE k == Len(Digitos(n))
           S == {i \in 2 .. Len(b) : ~Alto(b[i])}
<1>1. k \in 1 .. 4 /\ n < Peso[k + 1] /\ n \in Nat /\ Len(b) \in Nat
  BY DigitosLidos DEF Comprimento
<1>2. \A j \in 1 .. k : (Alto(b[j + 1]) <=> j < k) /\ b[j + 1][2] % BASE = Digito(n, j)
  BY DigitosLidos
<1>3. Len(b) >= k + 1
  OBVIOUS
<1> HIDE DEF k
<1>4. k + 1 \in S /\ \A i \in S : k + 1 <= i
  <2>1. ~Alto(b[k + 1])
    BY <1>1, <1>2
  <2>2. ASSUME NEW i \in S, ~(k + 1 <= i) PROVE FALSE
    <3>1. i - 1 \in 1 .. k /\ i - 1 < k /\ (i - 1) + 1 = i
      BY <1>1, <2>2
    <3>2. Alto(b[i])
      BY <1>2, <3>1
    <3> QED
      BY <3>2
  <2> QED
    BY <1>1, <1>3, <2>1, <2>2
<1>5. TamanhoFixo(b) = k + 1
  <2>1. TamanhoFixo(b) = CHOOSE i \in S : \A j \in S : i <= j
    BY <1>4 DEF TamanhoFixo
  <2>2. \A i \in S : i \in Int
    BY <1>1
  <2> HIDE DEF S
  <2>3. PICK i \in S : i = TamanhoFixo(b) /\ \A j \in S : i <= j
    BY <1>4, <2>1
  <2> QED
    BY <1>1, <1>4, <2>2, <2>3
<1>6. mqtt_get_total_length(b) = n + k + 1
  BY <1>1, <1>2, <1>5, TotalLido
<1> QED
  BY <1>5, <1>6 DEF k

(***************************************************************************)
(* Making a message.                                                       *)
(***************************************************************************)
\* The buffer, and the record of the message in it.
Memoria  == [1 .. BUF -> Byte]
Mensagem == [buffer : Memoria, length : Nat, inicio : Nat, off : Int, total : Nat]

\* The body written so far is s.
Montada(msg, s) ==
  /\ msg \in Mensagem
  /\ msg.length = MAX_FIXED_HEADER + Len(s) /\ msg.length <= BUF
  /\ \A i \in 1 .. Len(s) : msg.buffer[MAX_FIXED_HEADER + i] = s[i]

\* set_message_header_size begins an empty body.
LEMMA ComecaMonta ==
  ASSUME NEW msg \in Mensagem
  PROVE  /\ Montada(set_message_header_size(msg), <<>>)
         /\ set_message_header_size(msg).off = msg.off
         /\ set_message_header_size(msg).total = msg.total
<1>1. VELHO \in Memoria
  BY DEF VELHO, Byte, Marcas, Memoria
<1>2. Len(<<>>) = 0 /\ 1 .. 0 = {}
  OBVIOUS
<1> DEFINE c == set_message_header_size(msg)
<1>3. c = [msg EXCEPT !.length = 5, !.buffer = VELHO]
  BY DEF set_message_header_size, MAX_FIXED_HEADER
<1>4. c = [msg EXCEPT !.buffer = VELHO, !.length = 5]
  BY <1>3 DEF Mensagem
<1> HIDE DEF c
<1>5. c \in Mensagem /\ c.length = 5 /\ c.off = msg.off /\ c.total = msg.total
  BY <1>1, <1>4 DEF Mensagem
<1> QED
  BY <1>2, <1>5, MsgAssumption DEF Montada, MAX_FIXED_HEADER, c

\* What is copied whole is the continuation of the body.
LEMMA CopiaMonta ==
  ASSUME NEW msg, NEW s \in Seq(Byte), NEW t \in Seq(Byte), Montada(msg, s),
         MAX_FIXED_HEADER + Len(s) + Len(t) <= BUF
  PROVE  /\ Montada(Copia(msg, t), s \o t)
         /\ Copia(msg, t).off = msg.off /\ Copia(msg, t).total = msg.total
<1> DEFINE b == [i \in 1 .. BUF |-> IF i > msg.length /\ i <= msg.length + Len(t) THEN t[i - msg.length] ELSE msg.buffer[i]]
           u == s \o t
<1>1. msg \in Mensagem /\ msg.length = 5 + Len(s) /\ 5 + Len(s) + Len(t) <= BUF /\ BUF \in Nat
      /\ \A i \in 1 .. Len(s) : msg.buffer[5 + i] = s[i]
  BY MsgAssumption DEF Montada, MAX_FIXED_HEADER
<1>2. Copia(msg, t) = [msg EXCEPT !.buffer = b, !.length = @ + Len(t)]
  BY DEF Copia
<1>3. \A i \in 1 .. Len(t) : t[i] \in Byte
  BY ElementOfSeq
<1>4. Len(s) \in Nat /\ Len(t) \in Nat
  OBVIOUS
<1>5. b \in Memoria
  <2> SUFFICES ASSUME NEW i \in 1 .. BUF
               PROVE  (IF i > msg.length /\ i <= msg.length + Len(t) THEN t[i - msg.length] ELSE msg.buffer[i]) \in Byte
    BY DEF Memoria
  <2>1. ASSUME i > msg.length, i <= msg.length + Len(t) PROVE t[i - msg.length] \in Byte
    BY <1>1, <1>3, <1>4, <2>1
  <2>2. msg.buffer[i] \in Byte
    BY <1>1 DEF Mensagem, Memoria
  <2> QED
    BY <2>1, <2>2
<1>6. u \in Seq(Byte) /\ Len(u) = Len(s) + Len(t)
      /\ \A i \in 1 .. Len(s) + Len(t) : u[i] = IF i <= Len(s) THEN s[i] ELSE t[i - Len(s)]
  BY ConcatProperties
<1> HIDE DEF u
<1>7. \A i \in 1 .. Len(u) : b[5 + i] = u[i]
  <2> SUFFICES ASSUME NEW i \in 1 .. Len(u) PROVE b[5 + i] = u[i]
    OBVIOUS
  <2>1. i \in 1 .. Len(s) + Len(t) /\ 5 + i \in 1 .. BUF
    BY <1>1, <1>4, <1>6
  <2>2. CASE i <= Len(s)
    BY <1>1, <1>4, <1>6, <2>1, <2>2
  <2>3. CASE i > Len(s)
    <3>1. b[5 + i] = t[(5 + i) - msg.length] /\ (5 + i) - msg.length = i - Len(s)
      BY <1>1, <1>4, <2>1, <2>3
    <3> QED
      BY <1>4, <1>6, <2>1, <2>3, <3>1
  <2> QED
    BY <1>4, <2>1, <2>2, <2>3
<1> HIDE DEF b
<1>8. Copia(msg, t).buffer = b /\ Copia(msg, t).length = 5 + Len(u) /\ Copia(msg, t) \in Mensagem
      /\ Copia(msg, t).off = msg.off /\ Copia(msg, t).total = msg.total
  <2> DEFINE l == 5 + Len(s) + Len(t)
  <2>1. l \in Nat /\ Copia(msg, t) = [msg EXCEPT !.buffer = b, !.length = l]
    BY <1>1, <1>2, <1>4
  <2> HIDE DEF l
  <2>2. Copia(msg, t).buffer = b /\ Copia(msg, t).length = l /\ Copia(msg, t) \in Mensagem
        /\ Copia(msg, t).off = msg.off /\ Copia(msg, t).total = msg.total
    BY <1>1, <1>5, <2>1 DEF Mensagem
  <2>3. l = 5 + Len(u)
    BY <1>4, <1>6 DEF l
  <2> QED
    BY <2>2, <2>3
<1> QED
  BY <1>1, <1>4, <1>6, <1>7, <1>8 DEF Montada, MAX_FIXED_HEADER, u

\* What fits is the continuation of the body.
LEMMA PoeMonta ==
  ASSUME NEW msg, NEW s \in Seq(Byte), NEW t \in Seq(Byte), Montada(msg, s),
         MAX_FIXED_HEADER + Len(s) + Len(t) <= BUF
  PROVE  /\ Montada(Poe(msg, t), s \o t)
         /\ Poe(msg, t).off = msg.off /\ Poe(msg, t).total = msg.total
<1>1. msg.length # 0 /\ ~(msg.length + Len(t) > BUF)
  BY MsgAssumption DEF Montada, MAX_FIXED_HEADER
<1>2. Poe(msg, t) = Copia(msg, t)
  BY <1>1 DEF Poe
<1> QED
  BY <1>2, CopiaMonta

\* fini_message puts the first byte and the digits right before the body, and moves
\* the offset by as much as the beginning of the message.
LEMMA FiniMonta ==
  ASSUME NEW msg, NEW s \in Seq(Byte), NEW tipo \in Byte, Montada(msg, s), NEW n \in Comprimento,
         n = IF msg.total # 0 THEN msg.total - MAX_FIXED_HEADER ELSE Len(s)
  PROVE  LET r == fini_message(msg, tipo)
             k == Len(Digitos(n))
         IN  /\ r \in Mensagem /\ r.length = Len(s) + k + 1 /\ r.inicio = 4 - k
             /\ r.off = msg.off - (4 - k) /\ r.total = msg.total
             /\ Fio(r) = (<<tipo>> \o Digitos(n)) \o s
<1> DEFINE r == fini_message(msg, tipo)
           lens == Digitos(n)
           k == Len(lens)
           h == <<tipo>> \o lens
           o == 4 - k
           b == [i \in 1 .. BUF |-> IF i > o /\ i <= 5 THEN h[i - o] ELSE msg.buffer[i]]
           f == h \o s
<1>1. msg \in Mensagem /\ msg.length = 5 + Len(s) /\ 5 + Len(s) <= BUF /\ BUF \in Nat
      /\ \A i \in 1 .. Len(s) : msg.buffer[5 + i] = s[i]
  BY MsgAssumption DEF Montada, MAX_FIXED_HEADER
<1>2. k \in 1 .. 4 /\ lens \in Seq(Byte) /\ Len(s) \in Nat
  BY DigitosLidos
<1>3. h \in Seq(Byte) /\ Len(h) = k + 1
  BY <1>2
<1>4. f \in Seq(Byte) /\ Len(f) = k + 1 + Len(s)
      /\ \A i \in 1 .. k + 1 + Len(s) : f[i] = IF i <= k + 1 THEN h[i] ELSE s[i - (k + 1)]
  BY <1>2, <1>3, ConcatProperties
<1>5. r = [msg EXCEPT !.length = Len(s) + k + 1, !.inicio = o, !.off = @ - o, !.buffer = b]
  <2>1. msg.length # 0 /\ msg.length - 5 = Len(s)
    BY <1>1, <1>2
  <2>2. o = 5 - 1 - k /\ ~(o < 0)
    <3> HIDE DEF k
    <3> QED
      BY <1>2
  <2>3. (IF msg.total # 0 THEN msg.total - 5 ELSE msg.length - 5) = n
    BY <2>1 DEF MAX_FIXED_HEADER
  <2> HIDE DEF lens
  <2>4. lens = Digitos(IF msg.total # 0 THEN msg.total - 5 ELSE msg.length - 5)
    BY <2>3 DEF lens
  <2> QED
    BY <2>1, <2>2, <2>4 DEF fini_message, MAX_FIXED_HEADER
<1> HIDE DEF r, h, f, k
<1>6. b \in Memoria
  <2> SUFFICES ASSUME NEW i \in 1 .. BUF
               PROVE  (IF i > o /\ i <= 5 THEN h[i - o] ELSE msg.buffer[i]) \in Byte
    BY DEF Memoria
  <2>1. ASSUME i > o, i <= 5 PROVE h[i - o] \in Byte
    <3>1. i - o \in 1 .. Len(h)
      BY <1>2, <1>3, <2>1
    <3> QED
      BY <1>3, <3>1, ElementOfSeq
  <2>2. msg.buffer[i] \in Byte
    BY <1>1 DEF Mensagem, Memoria
  <2> QED
    BY <2>1, <2>2
<1>7. \A i \in 1 .. Len(f) : o + i \in 1 .. BUF /\ b[o + i] = f[i]
  <2> SUFFICES ASSUME NEW i \in 1 .. Len(f) PROVE o + i \in 1 .. BUF /\ b[o + i] = f[i]
    OBVIOUS
  <2>1. i \in 1 .. k + 1 + Len(s) /\ o + i \in 1 .. BUF
    <3>1. i \in 1 .. k + 1 + Len(s)
      BY <1>4
    <3> QED
      BY <1>1, <1>2, <3>1
  <2>2. CASE i <= k + 1
    <3>1. o + i > o /\ o + i <= 5 /\ (o + i) - o = i
      BY <1>2, <2>1, <2>2
    <3>2. b[o + i] = h[i]
      BY <2>1, <3>1
    <3> QED
      BY <1>4, <2>1, <2>2, <3>2
  <2>3. CASE i > k + 1
    <3>1. ~(o + i <= 5) /\ o + i = 5 + (i - (k + 1)) /\ i - (k + 1) \in 1 .. Len(s)
      BY <1>2, <2>1, <2>3
    <3>2. b[o + i] = msg.buffer[o + i]
      BY <2>1, <3>1
    <3>3. msg.buffer[o + i] = s[i - (k + 1)]
      BY <1>1, <3>1
    <3>4. f[i] = s[i - (k + 1)]
      BY <1>2, <1>4, <2>1, <2>3
    <3> QED
      BY <2>1, <3>2, <3>3, <3>4
  <2> QED
    BY <1>2, <2>1, <2>2, <2>3
<1> HIDE DEF b
<1>8. r \in Mensagem /\ r.length = Len(s) + k + 1 /\ r.inicio = o /\ r.off = msg.off - o
      /\ r.total = msg.total /\ r.buffer = b
  <2>1. Len(s) + k + 1 \in Nat /\ o \in Nat /\ msg.off - o \in Int
    BY <1>1, <1>2 DEF Mensagem
  <2>2. PICK w \in Int : w = msg.off - o
    BY <2>1
  <2>3. r = [msg EXCEPT !.length = Len(s) + k + 1, !.inicio = o, !.off = w, !.buffer = b]
    BY <1>5, <2>2
  <2> QED
    <3>1. PICK l \in Nat : l = Len(s) + k + 1
      BY <2>1
    <3>2. PICK p \in Nat : p = o
      BY <2>1
    <3> HIDE DEF o
    <3>3. r = [msg EXCEPT !.length = l, !.inicio = p, !.off = w, !.buffer = b]
      BY <2>3, <3>1, <3>2
    <3>4. r \in Mensagem /\ r.buffer = b /\ r.length = l /\ r.inicio = p /\ r.off = w /\ r.total = msg.total
      BY <1>1, <1>6, <3>3 DEF Mensagem
    <3> QED
      BY <2>2, <3>1, <3>2, <3>4
<1>9. Fio(r) = f
  <2> DEFINE g == SubSeq(b, o + 1, o + Len(f))
  <2>1. g = [i \in 1 .. Len(f) |-> b[o + i]]
    <3>1. o + Len(f) \in Int /\ o + 1 \in Int /\ (o + Len(f)) - (o + 1) + 1 = Len(f)
      BY <1>2, <1>4
    <3>2. \A i \in 1 .. Len(f) : (o + 1) + i - 1 = o + i
      BY <1>2, <1>4
    <3> QED
      BY <1>2, <1>4, <3>1, <3>2
  <2>2. g = f
    <3>1. f = [i \in 1 .. Len(f) |-> f[i]]
      BY <1>4, LenProperties
    <3> QED
      BY <1>7, <2>1, <3>1
  <2>3. Fio(r) = g
    <3>1. r.buffer = b /\ r.inicio = o /\ r.length = Len(f)
      <4>1. Len(s) + k + 1 = Len(f)
        BY <1>2, <1>4
      <4> QED
        BY <1>8, <4>1
    <3>2. Fio(r) = SubSeq(r.buffer, r.inicio + 1, r.inicio + r.length)
      BY DEF Fio
    <3> QED
      BY <3>1, <3>2
  <2> QED
    BY <2>2, <2>3
<1> QED
  BY <1>8, <1>9 DEF r, f, h, k

\* A number is two bytes.
LEMMA DoisTipo ==
  ASSUME NEW v \in Nat
  PROVE  /\ Dois(v) \in Seq(Byte) /\ Len(Dois(v)) = 2
         /\ Dois(v)[1] = N(v \div (2 * BASE)) /\ Dois(v)[2] = N(v % (2 * BASE))
<1>1. 2 * BASE \in Nat \ {0}
  BY Pesos
<1>2. v \div (2 * BASE) \in Int /\ v % (2 * BASE) \in Int
  BY <1>1, Divide
<1>3. PICK p \in Int, q \in Int : p = v \div (2 * BASE) /\ q = v % (2 * BASE)
  BY <1>2
<1>4. Dois(v) = <<<<"n", p>>, <<"n", q>>>> /\ N(p) = <<"n", p>> /\ N(q) = <<"n", q>>
  BY <1>3 DEF Dois, N
<1>5. <<"n", p>> \in Byte /\ <<"n", q>> \in Byte
  BY DEF Byte, Marcas
<1> QED
  BY <1>3, <1>4, <1>5

\* Two bytes are read as the number that was written in them.
LEMMA ValorDeDois ==
  ASSUME NEW v \in Nat
  PROVE  Valor(Dois(v)[1], Dois(v)[2]) = v
<1>1. 2 * BASE \in Nat \ {0}
  BY Pesos
<1> DEFINE p == v \div (2 * BASE)
           q == v % (2 * BASE)
<1>2. p \in Int /\ q \in Int /\ v = (2 * BASE) * p + q
  <2>1. PICK w \in Nat \ {0} : w = 2 * BASE
    BY <1>1
  <2>2. v \div w \in Nat /\ v % w \in 0 .. w - 1 /\ v = w * (v \div w) + (v % w)
    BY Divide
  <2>3. p = v \div w /\ q = v % w
    BY <2>1
  <2> HIDE DEF p, q
  <2> QED
    BY <2>1, <2>2, <2>3
<1>3. Dois(v)[1] = <<"n", p>> /\ Dois(v)[2] = <<"n", q>>
  BY DoisTipo DEF N
<1> HIDE DEF p, q
<1>4. Valor(Dois(v)[1], Dois(v)[2]) = p * 2 * BASE + q
  BY <1>3 DEF Valor
<1>5. p * 2 * BASE = (2 * BASE) * p
  BY <1>2, Pesos
<1> QED
  BY <1>2, <1>4, <1>5

\* A run of bytes, byte by byte.
LEMMA BytesTipo ==
  ASSUME NEW marca \in Marcas, NEW k \in Nat
  PROVE  /\ Bytes(marca, k) \in Seq(Byte) /\ Len(Bytes(marca, k)) = k
         /\ \A i \in 1 .. k : Bytes(marca, k)[i] = <<marca, i>>
<1>1. \A i \in 1 .. k : <<marca, i>> \in Byte
  BY DEF Byte
<1>2. Bytes(marca, k) \in [1 .. k -> Byte]
  BY <1>1 DEF Bytes
<1>3. Bytes(marca, k) \in Seq(Byte) /\ Len(Bytes(marca, k)) = k
  BY <1>2, LenProperties
<1>4. \A i \in 1 .. k : Bytes(marca, k)[i] = <<marca, i>>
  BY DEF Bytes
<1> QED
  BY <1>3, <1>4

\* A run cut and continued is the run.
LEMMA BytesContinua ==
  ASSUME NEW marca \in Marcas, NEW k \in Nat, NEW j \in Nat, NEW l \in Nat, j <= l, l <= k
  PROVE  /\ SubSeq(Bytes(marca, k), j + 1, l) \in Seq(Byte)
         /\ Len(SubSeq(Bytes(marca, k), j + 1, l)) = l - j
         /\ Bytes(marca, j) \o SubSeq(Bytes(marca, k), j + 1, l) = Bytes(marca, l)
<1> DEFINE b == Bytes(marca, k)
           p == Bytes(marca, j)
           t == SubSeq(b, j + 1, l)
           u == Bytes(marca, l)
<1>1. /\ b \in Seq(Byte) /\ Len(b) = k /\ \A i \in 1 .. k : b[i] = <<marca, i>>
      /\ p \in Seq(Byte) /\ Len(p) = j /\ \A i \in 1 .. j : p[i] = <<marca, i>>
      /\ u \in Seq(Byte) /\ Len(u) = l /\ \A i \in 1 .. l : u[i] = <<marca, i>>
  BY BytesTipo
<1> HIDE DEF b, p, u
<1>2. j \in Nat /\ l \in Nat /\ j <= l /\ l <= k
  OBVIOUS
<1>3. t \in Seq(Byte) /\ Len(t) = l - j /\ \A i \in 1 .. l - j : t[i] = b[j + i]
  <2>1. j + 1 \in 1 .. k + 1 /\ (IF j + 1 <= l THEN l - (j + 1) + 1 ELSE 0) = l - j
        /\ \A i \in 1 .. l - j : (j + 1) + i - 1 = j + i
    OBVIOUS
  <2> QED
    BY <1>1, <2>1, SubSeqProperties
<1> HIDE DEF t
<1> DEFINE w == p \o t
<1>4. w \in Seq(Byte) /\ Len(w) = Len(p) + Len(t)
      /\ \A i \in 1 .. Len(p) + Len(t) : w[i] = IF i <= Len(p) THEN p[i] ELSE t[i - Len(p)]
  BY <1>1, <1>3, ConcatProperties
<1> HIDE DEF w
<1>5. ASSUME NEW i \in 1 .. l PROVE w[i] = u[i]
  <2>1. w[i] = IF i <= j THEN p[i] ELSE t[i - j]
    BY <1>1, <1>2, <1>3, <1>4
  <2>2. CASE i <= j
    <3>1. i \in 1 .. j /\ i <= j
      BY <1>2, <2>2
    <3>2. w[i] = p[i]
      BY <2>1, <3>1
    <3> QED
      BY <1>1, <3>1, <3>2
  <2>3. CASE i > j
    <3>1. i - j \in 1 .. l - j /\ j + (i - j) = i /\ i \in 1 .. k
      BY <2>3
    <3>2. w[i] = t[i - j]
      BY <2>1, <2>3
    <3> QED
      BY <1>1, <1>3, <3>1, <3>2
  <2> QED
    BY <1>2, <2>2, <2>3
<1>6. w = u
  BY <1>1, <1>2, <1>3, <1>4, <1>5, SeqEqual
<1> QED
  BY <1>3, <1>6 DEF b, p, u, t, w

\* The lengths of the library's own messages need no second thought.
LEMMA Pequeno ==
  ASSUME NEW n \in 0 .. 26
  PROVE  n \in Comprimento
<1>1. BASE \in Nat /\ BASE >= 3
  BY Pesos
<1>2. BASE * BASE \in Nat /\ BASE * BASE >= 9
  <2>1. 3 * BASE <= BASE * BASE
    BY <1>1, Monotono
  <2> QED
    BY <1>1, <2>1
<1>3. BASE * BASE * BASE \in Nat /\ BASE * BASE * BASE >= 27
  <2>1. 9 * BASE <= (BASE * BASE) * BASE
    BY <1>1, <1>2, Monotono
  <2> QED
    BY <1>1, <1>2, <2>1
<1>4. BASE * BASE * BASE * BASE >= 81
  <2>1. 27 * BASE <= ((BASE * BASE) * BASE) * BASE
    BY <1>1, <1>3, Monotono
  <2> QED
    BY <1>1, <1>3, <2>1
<1>5. BASE * BASE * BASE * BASE \in Int
  BY <1>1, <1>3
<1>6. n < BASE * BASE * BASE * BASE
  <2>1. PICK w \in Int : w = BASE * BASE * BASE * BASE
    BY <1>5
  <2>2. w >= 81
    BY <1>4, <2>1
  <2>3. n < w
    BY <2>2
  <2> QED
    BY <2>1, <2>3
<1> QED
  BY <1>6 DEF Comprimento

\* The sequence w is p and then q.
LEMMA Junta ==
  ASSUME NEW p \in Seq(Byte), NEW q \in Seq(Byte), NEW w, w = p \o q
  PROVE  /\ w \in Seq(Byte) /\ Len(w) = Len(p) + Len(q)
         /\ \A i \in 1 .. Len(p) + Len(q) : w[i] = IF i <= Len(p) THEN p[i] ELSE q[i - Len(p)]
  BY ConcatProperties

\* What is put together of bytes is made of bytes.
LEMMA JuntaTipo ==
  ASSUME NEW p \in Seq(Byte), NEW q \in Seq(Byte)
  PROVE  p \o q \in Seq(Byte) /\ Len(p \o q) = Len(p) + Len(q)
  BY ConcatProperties

\* It does not matter what is put together first.
LEMMA JuntaAssocia ==
  ASSUME NEW p \in Seq(Byte), NEW q \in Seq(Byte), NEW r \in Seq(Byte)
  PROVE  (p \o q) \o r = p \o (q \o r)
  BY ConcatAssociative

\* A whole message: its first byte, the length of the body, the body.
Inteira(h, s) == (<<h>> \o Digitos(Len(s))) \o s

\* The receiver finds in a whole message the first byte, the digits, the body, and
\* the length that the message has.
LEMMA InteiraLida ==
  ASSUME NEW h \in Byte, NEW s \in Seq(Byte), Len(s) \in Comprimento
  PROVE  LET b == Inteira(h, s)
             k == Len(Digitos(Len(s)))
         IN  /\ b \in Seq(Byte) /\ Len(b) = Len(s) + k + 1 /\ b[1] = h
             /\ \A j \in 1 .. k : b[j + 1] = Digitos(Len(s))[j]
             /\ \A i \in 1 .. Len(s) : b[k + 1 + i] = s[i]
             /\ TamanhoFixo(b) = k + 1
             /\ mqtt_get_total_length(b) = Len(b)
<1> DEFINE n == Len(s)
           lens == Digitos(n)
           k == Len(lens)
           c == <<h>> \o lens
           b == c \o s
<1>1. k \in 1 .. 4 /\ lens \in Seq(Byte) /\ n \in Nat /\ n \in Comprimento
  BY DigitosLidos
<1>2. <<h>> \in Seq(Byte) /\ Len(<<h>>) = 1 /\ <<h>>[1] = h
  OBVIOUS
<1>3. c \in Seq(Byte) /\ Len(c) = Len(<<h>>) + Len(lens)
      /\ \A i \in 1 .. Len(<<h>>) + Len(lens) : c[i] = IF i <= Len(<<h>>) THEN <<h>>[i] ELSE lens[i - Len(<<h>>)]
  BY <1>1, <1>2, ConcatProperties
<1>4. b \in Seq(Byte) /\ Len(b) = Len(c) + Len(s)
      /\ \A i \in 1 .. Len(c) + Len(s) : b[i] = IF i <= Len(c) THEN c[i] ELSE s[i - Len(c)]
  <2>1. b = c \o s /\ c \in Seq(Byte)
    BY <1>3
  <2> HIDE DEF c, b
  <2> QED
    BY <2>1, Junta
<1> HIDE DEF b, c, k, n, lens
<1>5. k = Len(lens) /\ n = Len(s) /\ lens = Digitos(n)
  BY DEF k, n, lens
<1>6. Len(c) = k + 1 /\ Len(b) = n + k + 1 /\ c[1] = h
  BY <1>1, <1>2, <1>3, <1>4, <1>5
<1>7. \A j \in 1 .. k : c[j + 1] = lens[j]
  <2> SUFFICES ASSUME NEW j \in 1 .. k PROVE c[j + 1] = lens[j]
    OBVIOUS
  <2>1. j + 1 \in 1 .. Len(<<h>>) + Len(lens) /\ ~(j + 1 <= Len(<<h>>)) /\ (j + 1) - Len(<<h>>) = j
    BY <1>1, <1>2, <1>5
  <2> QED
    BY <1>3, <2>1
<1>8. b[1] = h
  BY <1>1, <1>4, <1>5, <1>6
<1>9. \A j \in 1 .. k : b[j + 1] = lens[j]
  <2> SUFFICES ASSUME NEW j \in 1 .. k PROVE b[j + 1] = lens[j]
    OBVIOUS
  <2>1. j + 1 \in 1 .. Len(c) + Len(s) /\ j + 1 <= Len(c)
    BY <1>1, <1>5, <1>6
  <2> QED
    BY <1>4, <1>7, <2>1
<1>10. \A i \in 1 .. n : b[k + 1 + i] = s[i]
  <2> SUFFICES ASSUME NEW i \in 1 .. n PROVE b[k + 1 + i] = s[i]
    OBVIOUS
  <2>1. k + 1 + i \in 1 .. Len(c) + Len(s) /\ ~(k + 1 + i <= Len(c)) /\ (k + 1 + i) - Len(c) = i
    BY <1>1, <1>5, <1>6
  <2> QED
    BY <1>4, <2>1
<1>11. Len(b) >= k + 1
  BY <1>1, <1>6
<1>12. TamanhoFixo(b) = k + 1 /\ mqtt_get_total_length(b) = n + k + 1
  BY <1>1, <1>4, <1>5, <1>9, <1>11, CabecalhoLido
<1>13. Inteira(h, s) = b
  BY DEF Inteira, b, c, lens, n
<1> QED
  BY <1>4, <1>5, <1>6, <1>8, <1>9, <1>10, <1>12, <1>13

(***************************************************************************)
(* The messages of the library.                                            *)
(***************************************************************************)
\* What is in front of the data in the body of a publication.
Frente == (Dois(3) \o TOPICO) \o Dois(ID)

\* The front of a publication: length of the topic, topic, identifier.
LEMMA FrenteTipo ==
  /\ Frente \in Seq(Byte) /\ Len(Frente) = 7
  /\ Frente[1] = Dois(3)[1] /\ Frente[2] = Dois(3)[2]
  /\ \A i \in 1 .. 3 : Frente[2 + i] = TOPICO[i]
  /\ Frente[6] = Dois(ID)[1] /\ Frente[7] = Dois(ID)[2]
<1>1. ID \in Nat
  BY Pesos DEF ID
<1> DEFINE x == Dois(3)
           y == TOPICO
           z == Dois(ID)
           xy == x \o y
           w == xy \o z
<1>2. x \in Seq(Byte) /\ Len(x) = 2 /\ z \in Seq(Byte) /\ Len(z) = 2
  BY <1>1, DoisTipo
<1>3. y \in Seq(Byte) /\ Len(y) = 3
  BY BytesTipo DEF TOPICO, Marcas
<1> HIDE DEF x, y, z
<1>4. xy \in Seq(Byte) /\ Len(xy) = Len(x) + Len(y)
      /\ \A i \in 1 .. Len(x) + Len(y) : xy[i] = IF i <= Len(x) THEN x[i] ELSE y[i - Len(x)]
  BY <1>2, <1>3, ConcatProperties
<1> HIDE DEF xy
<1>5. w \in Seq(Byte) /\ Len(w) = Len(xy) + Len(z)
      /\ \A i \in 1 .. Len(xy) + Len(z) : w[i] = IF i <= Len(xy) THEN xy[i] ELSE z[i - Len(xy)]
  <2>1. w = xy \o z
    OBVIOUS
  <2> HIDE DEF w
  <2> QED
    BY <1>2, <1>4, <2>1, Junta
<1> HIDE DEF w
<1>6. Len(xy) = 5 /\ Len(w) = 7
  BY <1>2, <1>3, <1>4, <1>5
<1>7. \A i \in 1 .. 5 : w[i] = IF i <= 2 THEN x[i] ELSE y[i - 2]
  BY <1>2, <1>3, <1>4, <1>5, <1>6
<1>8. w[1] = x[1] /\ w[2] = x[2]
  BY <1>7
<1>9. \A i \in 1 .. 3 : w[2 + i] = y[i]
  <2> SUFFICES ASSUME NEW i \in 1 .. 3 PROVE w[2 + i] = y[i]
    OBVIOUS
  <2>1. 2 + i \in 1 .. 5 /\ ~(2 + i <= 2) /\ (2 + i) - 2 = i
    OBVIOUS
  <2> QED
    BY <1>7, <2>1
<1>10. w[6] = z[1] /\ w[7] = z[2]
  BY <1>2, <1>5, <1>6
<1>11. Frente = w
  BY DEF Frente, w, xy, x, y, z
<1> QED
  BY <1>5, <1>6, <1>8, <1>9, <1>10, <1>11 DEF x, y, z

\* The length of a body with any of the payloads has its digits.
LEMMA TamanhoTipo ==
  ASSUME NEW k \in TAMANHOS
  PROVE  k \in Nat /\ k > 0 /\ k + 7 \in Comprimento
<1>1. k \in Nat /\ k > 0 /\ k + 7 < BASE * BASE * BASE * BASE
  BY MsgAssumption
<1>2. k + 7 \in Nat
  BY <1>1
<1> QED
  BY <1>1, <1>2 DEF Comprimento

\* A text is preceded by the two bytes of its length.
LEMMA TextoTipo ==
  ASSUME NEW texto \in Seq(Byte)
  PROVE  /\ Dois(Len(texto)) \o texto \in Seq(Byte)
         /\ Len(Dois(Len(texto)) \o texto) = 2 + Len(texto)
<1>1. Dois(Len(texto)) \in Seq(Byte) /\ Len(Dois(Len(texto))) = 2
  BY DoisTipo
<1> QED
  BY <1>1, JuntaTipo

\* The front of a publication, before its data.
LEMMA FrenteMonta ==
  ASSUME NEW msg \in Mensagem
  PROVE  LET c == append_message_id(append_string(set_message_header_size(msg), TOPICO), ID)
         IN  Montada(c, Frente) /\ c.off = msg.off /\ c.total = msg.total /\ c.length = 12
<1> DEFINE c0 == set_message_header_size(msg)
           t1 == Dois(3) \o TOPICO
           c1 == Poe(c0, t1)
           c2 == Poe(c1, Dois(ID))
<1>1. Montada(c0, <<>>) /\ c0.off = msg.off /\ c0.total = msg.total
  BY ComecaMonta
<1>2. TOPICO \in Seq(Byte) /\ Len(TOPICO) = 3
  BY BytesTipo DEF TOPICO, Marcas
<1>3. t1 \in Seq(Byte) /\ Len(t1) = 5
  <2>1. Dois(3) \in Seq(Byte) /\ Len(Dois(3)) = 2
    BY DoisTipo
  <2> QED
    <3> DEFINE x == Dois(3)
    <3>1. x \in Seq(Byte) /\ Len(x) = 2 /\ t1 = x \o TOPICO
      BY <2>1
    <3> HIDE DEF t1, x
    <3>2. t1 \in Seq(Byte) /\ Len(t1) = Len(x) + Len(TOPICO)
      BY <1>2, <3>1, JuntaTipo
    <3> QED
      BY <1>2, <3>1, <3>2
<1>4. Dois(ID) \in Seq(Byte) /\ Len(Dois(ID)) = 2
  <2>1. ID \in Nat
    BY Pesos DEF ID
  <2> QED
    BY <2>1, DoisTipo
<1>5. <<>> \in Seq(Byte) /\ Len(<<>>) = 0
  OBVIOUS
<1> HIDE DEF c0, t1
<1>6. Montada(c1, <<>> \o t1) /\ c1.off = msg.off /\ c1.total = msg.total
  <2>1. MAX_FIXED_HEADER + Len(<<>>) + Len(t1) <= BUF
    BY <1>3, <1>5, MsgAssumption DEF MAX_FIXED_HEADER
  <2> QED
    BY <1>1, <1>3, <1>5, <2>1, PoeMonta
<1>7. <<>> \o t1 = t1
  BY <1>3, ConcatEmptySeq
<1> HIDE DEF c1
<1>8. Montada(c2, t1 \o Dois(ID)) /\ c2.off = msg.off /\ c2.total = msg.total
  <2>1. MAX_FIXED_HEADER + Len(t1) + Len(Dois(ID)) <= BUF
    BY <1>3, <1>4, MsgAssumption DEF MAX_FIXED_HEADER
  <2> QED
    BY <1>3, <1>4, <1>6, <1>7, <2>1, PoeMonta
<1>9. t1 \o Dois(ID) = Frente
  BY DEF t1, Frente
<1>10. c2 = append_message_id(append_string(set_message_header_size(msg), TOPICO), ID)
  BY <1>2 DEF c0, c1, t1, append_message_id, append_string
<1> HIDE DEF c2
<1>11. c2.length = 12
  BY <1>8, <1>9, FrenteTipo DEF Montada, MAX_FIXED_HEADER
<1> QED
  BY <1>8, <1>9, <1>10, <1>11

\* The message in the buffer, whole or without the end of its data.
LEMMA PublicaMonta ==
  ASSUME NEW msg \in Mensagem, NEW k \in TAMANHOS
  PROVE  LET p == mqtt_msg_publish(msg, TOPICO, Bytes("d", k), ID)
             d == Len(Digitos(k + 7))
             f == (<<<<"PUBLISH", 1>>>> \o Digitos(k + 7))
         IN  /\ p \in Mensagem
             /\ 12 + k <= BUF => /\ p.total = 0 /\ p.off = msg.off - (4 - d) /\ p.length = k + 8 + d
                                 /\ Fio(p) = f \o (Frente \o Bytes("d", k))
             /\ 12 + k > BUF  => /\ p.total = k + 12 /\ p.off = 8 + d /\ p.length = BUF - 4 + d
                                 /\ Fio(p) = f \o (Frente \o Bytes("d", BUF - 12))
<1> DEFINE c == append_message_id(append_string(set_message_header_size(msg), TOPICO), ID)
           dados == Bytes("d", k)
           p == mqtt_msg_publish(msg, TOPICO, dados, ID)
           d == Len(Digitos(k + 7))
           h == <<"PUBLISH", 1>>
           f == <<h>> \o Digitos(k + 7)
<1>1. Montada(c, Frente) /\ c.off = msg.off /\ c.total = msg.total /\ c.length = 12
  BY FrenteMonta
<1>2. k \in Nat /\ k > 0 /\ k + 7 \in Comprimento /\ BUF \in Nat /\ BUF >= 26
  BY TamanhoTipo, MsgAssumption
<1>3. "d" \in Marcas /\ h \in Byte
  BY DEF Marcas, Byte
<1>4. dados \in Seq(Byte) /\ Len(dados) = k
  BY <1>2, <1>3, BytesTipo
<1>5. Frente \in Seq(Byte) /\ Len(Frente) = 7
  BY FrenteTipo
<1>6. p = fini_message(IF c.length + k > BUF
                         THEN [Copia(c, SubSeq(dados, 1, BUF - c.length)) EXCEPT !.off = c.length, !.total = k + c.length]
                         ELSE [Copia(c, dados) EXCEPT !.total = 0], h)
  <2>1. c.length # 0
    BY <1>1
  <2> HIDE DEF c, dados
  <2> QED
    BY <1>4, <2>1 DEF mqtt_msg_publish, c
<1> HIDE DEF c, p, dados
<1>7. ASSUME 12 + k <= BUF
      PROVE  p \in Mensagem /\ p.total = 0 /\ p.off = msg.off - (4 - d) /\ p.length = k + 8 + d
             /\ Fio(p) = f \o (Frente \o dados)
  <2> DEFINE e == Copia(c, dados)
             g == [e EXCEPT !.total = 0]
             s == Frente \o dados
  <2>1. Montada(e, s) /\ e.off = msg.off
    <3>1. MAX_FIXED_HEADER + Len(Frente) + Len(dados) <= BUF
      BY <1>2, <1>4, <1>5, <1>7 DEF MAX_FIXED_HEADER
    <3> QED
      BY <1>1, <1>4, <1>5, <3>1, CopiaMonta
  <2>2. s \in Seq(Byte) /\ Len(s) = 7 + k
    <3>1. s \in Seq(Byte) /\ Len(s) = Len(Frente) + Len(dados)
      BY <1>4, <1>5, JuntaTipo
    <3> HIDE DEF s
    <3> QED
      BY <1>2, <1>4, <1>5, <3>1
  <2> HIDE DEF e, s
  <2>3. g \in Mensagem /\ g.buffer = e.buffer /\ g.length = e.length /\ g.off = e.off /\ g.total = 0
    BY <2>1 DEF Montada, Mensagem
  <2>4. p = fini_message(g, h)
    BY <1>1, <1>2, <1>6, <1>7 DEF e
  <2> HIDE DEF g
  <2>5. Montada(g, s)
    BY <2>1, <2>3 DEF Montada
  <2>6. k + 7 = IF g.total # 0 THEN g.total - MAX_FIXED_HEADER ELSE Len(s)
    BY <1>2, <2>2, <2>3
  <2>7. /\ p \in Mensagem /\ p.length = Len(s) + d + 1
        /\ p.off = g.off - (4 - d) /\ p.total = g.total
        /\ Fio(p) = f \o s
    BY <1>2, <1>3, <2>2, <2>4, <2>5, <2>6, FiniMonta
  <2>8. Len(s) + d + 1 = k + 8 + d
    <3>1. d \in Nat
      BY <1>2, DigitosLidos
    <3> HIDE DEF d
    <3> QED
      BY <1>2, <2>2, <3>1
  <2> QED
    BY <2>1, <2>3, <2>7, <2>8 DEF s
<1>8. ASSUME 12 + k > BUF
      PROVE  p \in Mensagem /\ p.total = k + 12 /\ p.off = 8 + d /\ p.length = BUF - 4 + d
             /\ Fio(p) = f \o (Frente \o Bytes("d", BUF - 12))
  <2> DEFINE t == Bytes("d", BUF - 12)
             e == Copia(c, t)
             g == [e EXCEPT !.off = 12, !.total = k + 12]
             s == Frente \o t
  <2>1. t \in Seq(Byte) /\ Len(t) = BUF - 12
    BY <1>2, <1>3, BytesTipo
  <2>2. SubSeq(dados, 1, BUF - 12) = t
    <3>1. PICK l \in Nat : l = BUF - 12
      BY <1>2
    <3>2. l <= k /\ 0 \in Nat /\ 0 <= l /\ 0 + 1 = 1
      BY <1>2, <1>8, <3>1
    <3>3. SubSeq(dados, 1, l) \in Seq(Byte) /\ Bytes("d", 0) \o SubSeq(dados, 1, l) = Bytes("d", l)
      <4>1. SubSeq(dados, 0 + 1, l) \in Seq(Byte) /\ Bytes("d", 0) \o SubSeq(dados, 0 + 1, l) = Bytes("d", l)
        <5>1. 0 <= l
          BY <3>2
        <5> QED
          BY <1>2, <1>3, <3>2, <5>1, BytesContinua DEF dados
      <4> QED
        BY <3>2, <4>1
    <3>4. Bytes("d", 0) = <<>>
      BY <1>3, BytesTipo, EmptySeq
    <3>5. <<>> \o SubSeq(dados, 1, l) = SubSeq(dados, 1, l)
      BY <3>3, ConcatEmptySeq
    <3> QED
      BY <3>1, <3>3, <3>4, <3>5
  <2> HIDE DEF t
  <2>3. Montada(e, s)
    <3>1. MAX_FIXED_HEADER + Len(Frente) + Len(t) <= BUF
      BY <1>2, <1>5, <2>1 DEF MAX_FIXED_HEADER
    <3> QED
      BY <1>1, <1>5, <2>1, <3>1, CopiaMonta
  <2>4. s \in Seq(Byte) /\ Len(s) = BUF - 5
    <3>1. s \in Seq(Byte) /\ Len(s) = Len(Frente) + Len(t)
      BY <1>5, <2>1, JuntaTipo
    <3> HIDE DEF s
    <3> QED
      BY <1>2, <1>5, <2>1, <3>1
  <2> HIDE DEF e, s
  <2>5. g \in Mensagem /\ g.buffer = e.buffer /\ g.length = e.length /\ g.off = 12 /\ g.total = k + 12
    <3>1. k + 12 \in Nat
      BY <1>2
    <3>2. PICK w \in Nat : w = k + 12
      BY <3>1
    <3>3. e \in Mensagem
      BY <2>3 DEF Montada
    <3>4. PICK o \in Int : o = 12
      OBVIOUS
    <3>5. g = [e EXCEPT !.off = o, !.total = w]
      BY <3>2, <3>4
    <3> HIDE DEF g
    <3>6. g \in Mensagem /\ g.buffer = e.buffer /\ g.length = e.length /\ g.off = o /\ g.total = w
      BY <3>3, <3>5 DEF Mensagem
    <3> QED
      BY <3>2, <3>4, <3>6
  <2>6. p = fini_message(g, h)
    <3>1. c.length + k > BUF
      BY <1>1, <1>2, <1>8
    <3> QED
      BY <1>1, <1>6, <2>2, <3>1 DEF e
  <2> HIDE DEF g
  <2>7. Montada(g, s)
    BY <2>3, <2>5 DEF Montada
  <2>8. k + 7 = IF g.total # 0 THEN g.total - MAX_FIXED_HEADER ELSE Len(s)
    BY <1>2, <2>5 DEF MAX_FIXED_HEADER
  <2>9. /\ p \in Mensagem /\ p.length = Len(s) + d + 1
        /\ p.off = g.off - (4 - d) /\ p.total = g.total
        /\ Fio(p) = f \o s
    BY <1>2, <1>3, <2>4, <2>6, <2>7, <2>8, FiniMonta
  <2>10. Len(s) + d + 1 = BUF - 4 + d /\ 12 - (4 - d) = 8 + d
    <3>1. d \in Nat
      BY <1>2, DigitosLidos
    <3> HIDE DEF d
    <3> QED
      BY <1>2, <2>4, <3>1
  <2> QED
    BY <2>5, <2>9, <2>10 DEF s, t
<1>9. p \in Mensagem
  BY <1>2, <1>7, <1>8
<1> QED
  BY <1>7, <1>8, <1>9 DEF p, dados

\* x is msg with a body of n bytes, s.
Corpo(x, msg, s, n) ==
  /\ s \in Seq(Byte) /\ Len(s) = n /\ Montada(x, s)
  /\ x.off = msg.off /\ x.total = msg.total

\* Anything that fits in the shortest buffer is put in the body.
LEMMA CorpoPoe ==
  ASSUME NEW x, NEW msg, NEW s, NEW n \in Nat, Corpo(x, msg, s, n),
         NEW t \in Seq(Byte), n + Len(t) <= 21
  PROVE  Corpo(Poe(x, t), msg, s \o t, n + Len(t))
<1>1. s \in Seq(Byte) /\ Len(s) = n /\ Montada(x, s) /\ x.off = msg.off /\ x.total = msg.total
  BY DEF Corpo
<1>2. MAX_FIXED_HEADER + Len(s) + Len(t) <= BUF
  BY <1>1, MsgAssumption DEF MAX_FIXED_HEADER
<1>3. Montada(Poe(x, t), s \o t) /\ Poe(x, t).off = msg.off /\ Poe(x, t).total = msg.total
  BY <1>1, <1>2, PoeMonta
<1>4. s \o t \in Seq(Byte) /\ Len(s \o t) = Len(s) + Len(t)
  BY <1>1, JuntaTipo
<1> DEFINE u == s \o t
           y == Poe(x, t)
<1>5. u \in Seq(Byte) /\ Len(u) = n + Len(t)
  BY <1>1, <1>4
<1>6. Montada(y, u) /\ y.off = msg.off /\ y.total = msg.total
  BY <1>3
<1> HIDE DEF u, y
<1>7. Corpo(y, msg, u, n + Len(t))
  BY <1>5, <1>6 DEF Corpo
<1> QED
  BY <1>7 DEF u, y

\* So is a text with its length.
LEMMA CorpoTexto ==
  ASSUME NEW x, NEW msg, NEW s, NEW n \in Nat, Corpo(x, msg, s, n),
         NEW texto \in Seq(Byte), n + 2 + Len(texto) <= 21
  PROVE  Corpo(append_string(x, texto), msg, s \o (Dois(Len(texto)) \o texto), n + 2 + Len(texto))
<1> DEFINE d == Dois(Len(texto))
           t == d \o texto
<1>1. d \in Seq(Byte) /\ Len(d) = 2
  BY DoisTipo
<1> HIDE DEF d
<1>2. t \in Seq(Byte) /\ Len(t) = Len(d) + Len(texto)
  BY <1>1, JuntaTipo
<1>3. append_string(x, texto) = Poe(x, t)
  BY DEF append_string, d
<1> HIDE DEF t
<1>4. Len(t) = 2 + Len(texto) /\ n + Len(t) = n + 2 + Len(texto) /\ n + Len(t) <= 21
  BY <1>1, <1>2
<1>5. Corpo(Poe(x, t), msg, s \o t, n + Len(t))
  BY <1>2, <1>4, CorpoPoe
<1> QED
  BY <1>3, <1>4, <1>5 DEF t, d

\* The body is empty at first.
LEMMA CorpoComeca ==
  ASSUME NEW msg \in Mensagem
  PROVE  Corpo(set_message_header_size(msg), msg, <<>>, 0)
<1>1. <<>> \in Seq(Byte) /\ Len(<<>>) = 0
  OBVIOUS
<1> QED
  BY <1>1, ComecaMonta DEF Corpo

\* A message of the library's own is short, and none of its parts is cut.
LEMMA CurtaMonta ==
  ASSUME m \in Mensagem, NEW tipo \in {"CONNECT", "SUBSCRIBE", "PUBACK", "PINGREQ"}
  PROVE  \E x : \E s \in Seq(Byte) : \E h \in Byte :
           /\ Curta(tipo) = fini_message(x, h) /\ Montada(x, s)
           /\ x.off = m.off /\ x.total = m.total
           /\ Len(s) <= 21 /\ h[1] = tipo
           /\ tipo = "PUBACK" => s = Dois(ID)
<1> DEFINE c == set_message_header_size(m)
           Feita(x, s, n, h) ==
             Curta(tipo) = fini_message(x, h) /\ Corpo(x, m, s, n) /\ h \in Byte /\ h[1] = tipo
<1>1. SUFFICES \E x, s, h : \E n \in 0 .. 21 : Feita(x, s, n, h) /\ (tipo = "PUBACK" => s = Dois(ID))
  BY DEF Corpo
<1>2. Corpo(c, m, <<>>, 0)
  BY CorpoComeca
<1>3. <<"CONNECT", 0>> \in Byte /\ <<"SUBSCRIBE", 1>> \in Byte /\ <<"PUBACK", 0>> \in Byte /\ <<"PINGREQ", 0>> \in Byte
  BY DEF Byte, Marcas
<1>4. Dois(ID) \in Seq(Byte) /\ Len(Dois(ID)) = 2
  <2>1. ID \in Nat
    BY Pesos DEF ID
  <2> QED
    BY <2>1, DoisTipo
<1> DEFINE h10 == Bytes("h", 10)
           t3 == Bytes("t", 3)
           t1 == Bytes("t", 1)
<1>5. /\ h10 \in Seq(Byte) /\ Len(h10) = 10
      /\ t3 \in Seq(Byte) /\ Len(t3) = 3
      /\ t1 \in Seq(Byte) /\ Len(t1) = 1
  BY BytesTipo DEF Marcas
<1> HIDE DEF h10, t3, t1
<1>6. CASE tipo = "CONNECT"
  <2> DEFINE x1 == Poe(c, h10)
             x2 == append_string(x1, t3)
             x3 == append_string(x2, t1)
             x4 == append_string(x3, t1)
  <2>1. PICK s1 : Corpo(x1, m, s1, 10)
    <3>1. Corpo(x1, m, <<>> \o h10, 0 + Len(h10))
      <4>1. 0 + Len(h10) <= 21 /\ 0 \in Nat
        BY <1>5
      <4> QED
        BY <1>2, <1>5, <4>1, CorpoPoe
    <3>2. 0 + Len(h10) = 10
      BY <1>5
    <3> QED
      BY <3>1, <3>2
  <2> HIDE DEF x1
  <2>2. PICK s2 : Corpo(x2, m, s2, 15)
    <3>1. 10 + 2 + Len(t3) = 15 /\ 15 <= 21 /\ 10 \in Nat
      BY <1>5
    <3> QED
      BY <1>5, <2>1, <3>1, CorpoTexto
  <2> HIDE DEF x2
  <2>3. PICK s3 : Corpo(x3, m, s3, 18)
    <3>1. 15 + 2 + Len(t1) = 18 /\ 18 <= 21 /\ 15 \in Nat
      BY <1>5
    <3> QED
      BY <1>5, <2>2, <3>1, CorpoTexto
  <2> HIDE DEF x3
  <2>4. PICK s4 : Corpo(x4, m, s4, 21)
    <3>1. 18 + 2 + Len(t1) = 21 /\ 21 <= 21 /\ 18 \in Nat
      BY <1>5
    <3> QED
      BY <1>5, <2>3, <3>1, CorpoTexto
  <2>5. Curta(tipo) = fini_message(x4, <<"CONNECT", 0>>)
    BY <1>6 DEF Curta, mqtt_msg_connect, x1, x2, x3, h10, t3, t1
  <2> HIDE DEF x4
  <2>6. Feita(x4, s4, 21, <<"CONNECT", 0>>) /\ tipo # "PUBACK"
    BY <1>3, <1>6, <2>4, <2>5
  <2> QED
    BY <2>6
<1>7. CASE tipo = "SUBSCRIBE"
  <2> DEFINE x1 == append_message_id(c, ID)
             x2 == append_string(x1, t3)
             x3 == Poe(x2, <<N(1)>>)
  <2>1. PICK s1 : Corpo(x1, m, s1, 2)
    <3>1. Corpo(Poe(c, Dois(ID)), m, <<>> \o Dois(ID), 0 + Len(Dois(ID)))
      <4>1. 0 + Len(Dois(ID)) <= 21 /\ 0 \in Nat
        BY <1>4
      <4> QED
        BY <1>2, <1>4, <4>1, CorpoPoe
    <3>2. 0 + Len(Dois(ID)) = 2
      BY <1>4
    <3> QED
      BY <3>1, <3>2 DEF append_message_id
  <2> HIDE DEF x1
  <2>2. PICK s2 : Corpo(x2, m, s2, 7)
    <3>1. 2 + 2 + Len(t3) = 7 /\ 7 <= 21 /\ 2 \in Nat
      BY <1>5
    <3> QED
      BY <1>5, <2>1, <3>1, CorpoTexto
  <2> HIDE DEF x2
  <2>3. PICK s3 : Corpo(x3, m, s3, 8)
    <3>1. <<N(1)>> \in Seq(Byte) /\ Len(<<N(1)>>) = 1
      BY DEF N, Byte, Marcas
    <3>2. 7 + Len(<<N(1)>>) = 8 /\ 8 <= 21 /\ 7 \in Nat
      BY <3>1
    <3> QED
      BY <2>2, <3>1, <3>2, CorpoPoe
  <2>4. Curta(tipo) = fini_message(x3, <<"SUBSCRIBE", 1>>)
    BY <1>7 DEF Curta, mqtt_msg_subscribe, x1, x2, t3, TOPICO
  <2> HIDE DEF x3
  <2>5. Feita(x3, s3, 8, <<"SUBSCRIBE", 1>>) /\ tipo # "PUBACK"
    BY <1>3, <1>7, <2>3, <2>4
  <2> QED
    BY <2>5
<1>8. CASE tipo = "PUBACK"
  <2> DEFINE x == append_message_id(c, ID)
  <2>1. Corpo(x, m, Dois(ID), 2)
    <3>1. Corpo(Poe(c, Dois(ID)), m, <<>> \o Dois(ID), 0 + Len(Dois(ID)))
      <4>1. 0 + Len(Dois(ID)) <= 21 /\ 0 \in Nat
        BY <1>4
      <4> QED
        BY <1>2, <1>4, <4>1, CorpoPoe
    <3>2. 0 + Len(Dois(ID)) = 2
      BY <1>4
    <3>3. <<>> \o Dois(ID) = Dois(ID)
      BY <1>4, ConcatEmptySeq
    <3> QED
      BY <3>1, <3>2, <3>3 DEF append_message_id
  <2>2. Curta(tipo) = fini_message(x, <<"PUBACK", 0>>)
    BY <1>8 DEF Curta, mqtt_msg_puback
  <2> HIDE DEF x
  <2>3. Feita(x, Dois(ID), 2, <<"PUBACK", 0>>)
    BY <1>3, <1>8, <2>1, <2>2
  <2> QED
    BY <2>3
<1>9. CASE tipo = "PINGREQ"
  <2>1. Curta(tipo) = fini_message(c, <<"PINGREQ", 0>>)
    BY <1>9 DEF Curta, mqtt_msg_pingreq
  <2> HIDE DEF c
  <2>2. Feita(c, <<>>, 0, <<"PINGREQ", 0>>) /\ tipo # "PUBACK"
    BY <1>2, <1>3, <1>9, <2>1
  <2> QED
    BY <2>2
<1> QED
  BY <1>6, <1>7, <1>8, <1>9

(***************************************************************************)
(* Reading what was written.                                               *)
(***************************************************************************)
\* The first byte of a publication.
PUBLICA == <<"PUBLISH", 1>>

\* b is the beginning of c.
Parte(b, c) == b \in Seq(Byte) /\ Len(b) <= Len(c) /\ \A i \in 1 .. Len(b) : b[i] = c[i]

\* Once the fixed header is there, the beginning of a message says how long it is.
LEMMA ParteLida ==
  ASSUME NEW h \in Byte, NEW s \in Seq(Byte), Len(s) \in Comprimento,
         NEW b, Parte(b, Inteira(h, s)), Len(b) >= Len(Digitos(Len(s))) + 1
  PROVE  LET k == Len(Digitos(Len(s)))
         IN  /\ TamanhoFixo(b) = k + 1
             /\ mqtt_get_total_length(b) = Len(s) + k + 1
             /\ b[1] = h
             /\ \A i \in 1 .. Len(b) - (k + 1) : i \in 1 .. Len(s) /\ b[k + 1 + i] = s[i]
<1> DEFINE c == Inteira(h, s)
           n == Len(s)
           k == Len(Digitos(n))
<1>1. /\ Len(c) = n + k + 1 /\ c[1] = h
      /\ \A j \in 1 .. k : c[j + 1] = Digitos(n)[j]
      /\ \A i \in 1 .. n : c[k + 1 + i] = s[i]
  BY InteiraLida
<1>2. k \in 1 .. 4 /\ n \in Nat /\ n \in Comprimento
  BY DigitosLidos
<1>3. b \in Seq(Byte) /\ Len(b) \in Nat /\ Len(b) <= Len(c) /\ Len(b) >= k + 1
      /\ \A i \in 1 .. Len(b) : b[i] = c[i]
  BY DEF Parte
<1> HIDE DEF c, n, k
<1>4. \A j \in 1 .. k : b[j + 1] = Digitos(n)[j]
  BY <1>1, <1>2, <1>3
<1>5. TamanhoFixo(b) = k + 1 /\ mqtt_get_total_length(b) = n + k + 1
  BY <1>2, <1>3, <1>4, CabecalhoLido DEF k
<1>6. b[1] = h
  BY <1>1, <1>2, <1>3
<1>7. \A i \in 1 .. Len(b) - (k + 1) : i \in 1 .. n /\ b[k + 1 + i] = s[i]
  <2> SUFFICES ASSUME NEW i \in 1 .. Len(b) - (k + 1) PROVE i \in 1 .. n /\ b[k + 1 + i] = s[i]
    OBVIOUS
  <2>1. i \in 1 .. n /\ k + 1 + i \in 1 .. Len(b)
    BY <1>1, <1>2, <1>3
  <2> QED
    BY <1>1, <1>3, <2>1
<1> QED
  BY <1>5, <1>6, <1>7 DEF k, n

\* A whole message is a beginning of itself.
LEMMA ParteToda ==
  ASSUME NEW h \in Byte, NEW s \in Seq(Byte), Len(s) \in Comprimento
  PROVE  LET c == Inteira(h, s)
             k == Len(Digitos(Len(s)))
         IN  Parte(c, c) /\ Len(c) = Len(s) + k + 1 /\ Len(c) >= k + 1
<1> DEFINE c == Inteira(h, s)
           k == Len(Digitos(Len(s)))
<1>1. c \in Seq(Byte) /\ Len(c) = Len(s) + k + 1
  BY InteiraLida
<1>2. k \in 1 .. 4 /\ Len(s) \in Nat
  BY DigitosLidos
<1> HIDE DEF c, k
<1>3. Len(c) <= Len(c) /\ Len(c) >= k + 1
  BY <1>1, <1>2
<1>4. Parte(c, c)
  BY <1>1, <1>3 DEF Parte
<1> QED
  BY <1>1, <1>3, <1>4 DEF c, k

\* A length below the base is one digit.
LEMMA UmDigito ==
  ASSUME NEW n \in Comprimento, n < BASE
  PROVE  Len(Digitos(n)) = 1
<1> DEFINE k == Len(Digitos(n))
<1>1. k \in 1 .. 4 /\ (k = 1 \/ n >= Peso[k])
  BY DigitosLidos
<1> HIDE DEF k
<1>2. n \in Nat /\ BASE \in Nat /\ BASE > 2
  BY Pesos DEF Comprimento
<1>3. BASE * BASE \in Nat /\ BASE * BASE >= BASE
  <2>1. 1 * BASE <= BASE * BASE
    BY <1>2, Monotono
  <2> QED
    BY <1>2, <2>1
<1>4. (BASE * BASE) * BASE \in Nat /\ (BASE * BASE) * BASE >= BASE
  <2>1. 1 * BASE <= (BASE * BASE) * BASE
    BY <1>2, <1>3, Monotono
  <2> QED
    BY <1>2, <1>3, <2>1
<1>5. Peso[2] >= BASE /\ Peso[3] >= BASE /\ Peso[4] >= BASE
      /\ Peso[2] \in Nat /\ Peso[3] \in Nat /\ Peso[4] \in Nat
  BY <1>2, <1>3, <1>4, Pesos
<1>6. k = 1
  BY <1>1, <1>2, <1>5
<1> QED
  BY <1>6 DEF k

\* The identifier of a short message is read where it was written.
LEMMA IdLido ==
  ASSUME NEW h \in Byte, h[1] \in {"PUBACK", "SUBACK"}, NEW id \in Nat,
         NEW s \in Seq(Byte), Len(s) >= 2, Len(s) < BASE, Len(s) \in Comprimento,
         s[1] = Dois(id)[1], s[2] = Dois(id)[2]
  PROVE  mqtt_get_id(Inteira(h, s)) = id
<1> DEFINE b == Inteira(h, s)
           n == Len(s)
           k == Len(Digitos(n))
<1>1. /\ Len(b) = n + k + 1 /\ b[1] = h
      /\ \A j \in 1 .. k : b[j + 1] = Digitos(n)[j]
      /\ \A i \in 1 .. n : b[k + 1 + i] = s[i]
  BY InteiraLida
<1>2. n \in Comprimento /\ n \in Nat /\ n >= 2 /\ n < BASE
  BY DEF Comprimento
<1> HIDE DEF n
<1>3. k = 1
  BY <1>2, UmDigito
<1>4. ~Alto(Digitos(n)[1])
  <2>1. 1 \in 1 .. Len(Digitos(n)) /\ ~(1 < Len(Digitos(n)))
    BY <1>3
  <2> QED
    BY <1>2, <2>1, DigitosLidos
<1> HIDE DEF b, k
<1>5. b[1 + 1] = Digitos(n)[1] /\ b[1 + 1 + 1] = s[1] /\ b[1 + 1 + 2] = s[2] /\ Len(b) = n + 1 + 1
  BY <1>1, <1>2, <1>3
<1>6. Len(b) >= 4 /\ ~Alto(b[2]) /\ b[3] = s[1] /\ b[4] = s[2]
  BY <1>2, <1>4, <1>5
<1>7. b[1][1] \in {"PUBACK", "SUBACK"} /\ b[1][1] # "PUBLISH"
  BY <1>1
<1>8. mqtt_get_id(b) = Valor(b[3], b[4])
  BY <1>6, <1>7 DEF mqtt_get_id
<1>9. Valor(Dois(id)[1], Dois(id)[2]) = id
  BY ValorDeDois
<1>10. Valor(b[3], b[4]) = Valor(Dois(id)[1], Dois(id)[2])
  BY <1>6
<1> QED
  BY <1>8, <1>9, <1>10 DEF b

\* The length of the topic is read where it was written, as soon as it is there.
LEMMA TopicoLido ==
  ASSUME NEW k \in Nat, k + 7 \in Comprimento,
         NEW b, Parte(b, Inteira(PUBLICA, Frente \o Bytes("d", k))),
         Len(b) >= Len(Digitos(k + 7)) + 1
  PROVE  LET d == Len(Digitos(k + 7))
         IN  /\ TamanhoFixo(b) = d + 1 /\ mqtt_get_total_length(b) = k + d + 8
             /\ b[1] = PUBLICA /\ Len(b) <= k + d + 8 /\ b \in Seq(Byte)
             /\ \A i \in 1 .. 7 : d + 1 + i <= Len(b) => b[d + 1 + i] = Frente[i]
             /\ \A i \in 1 .. k : d + 8 + i <= Len(b) => b[d + 8 + i] = <<"d", i>>
             /\ Len(b) >= d + 3 => TamanhoTopico(b) = 3
<1> DEFINE dados == Bytes("d", k)
           s == Frente \o dados
           n == k + 7
           d == Len(Digitos(n))
<1>1. dados \in Seq(Byte) /\ Len(dados) = k /\ Frente \in Seq(Byte) /\ Len(Frente) = 7
      /\ \A i \in 1 .. k : dados[i] = <<"d", i>>
  BY BytesTipo, FrenteTipo DEF Marcas
<1>2. Parte(b, Inteira(PUBLICA, s)) /\ Len(b) >= d + 1
  OBVIOUS
<1> HIDE DEF dados
<1>3. /\ s \in Seq(Byte) /\ Len(s) = Len(Frente) + Len(dados)
      /\ \A i \in 1 .. Len(Frente) + Len(dados) : s[i] = IF i <= Len(Frente) THEN Frente[i] ELSE dados[i - Len(Frente)]
  BY <1>1, ConcatProperties
<1> HIDE DEF s
<1>4. Len(s) = n /\ n \in Comprimento
  BY <1>1, <1>3
<1>5. (\A i \in 1 .. 7 : s[i] = Frente[i]) /\ \A i \in 1 .. k : s[7 + i] = dados[i]
  <2>1. ASSUME NEW i \in 1 .. 7 PROVE s[i] = Frente[i]
    BY <1>1, <1>3
  <2>2. ASSUME NEW i \in 1 .. k PROVE s[7 + i] = dados[i]
    <3>1. 7 + i \in 1 .. Len(Frente) + Len(dados) /\ ~(7 + i <= Len(Frente)) /\ (7 + i) - Len(Frente) = i
      BY <1>1
    <3> QED
      BY <1>3, <3>1
  <2> QED
    BY <2>1, <2>2
<1>6. d \in 1 .. 4
  BY <1>4, DigitosLidos
<1>7. PUBLICA \in Byte
  BY DEF PUBLICA, Byte, Marcas
<1>8. /\ TamanhoFixo(b) = d + 1 /\ mqtt_get_total_length(b) = n + d + 1 /\ b[1] = PUBLICA
      /\ \A i \in 1 .. Len(b) - (d + 1) : b[d + 1 + i] = s[i]
  <2>1. PICK x \in Seq(Byte) : x = s
    BY <1>3
  <2>2. PICK h \in Byte : h = PUBLICA
    BY <1>7
  <2>3. Len(x) = n /\ Len(x) \in Comprimento /\ Parte(b, Inteira(h, x)) /\ Len(b) >= Len(Digitos(Len(x))) + 1
    BY <1>2, <1>4, <2>1, <2>2
  <2> HIDE DEF n
  <2>4. TamanhoFixo(b) = Len(Digitos(Len(x))) + 1
    BY <2>3, ParteLida
  <2>5. mqtt_get_total_length(b) = Len(x) + Len(Digitos(Len(x))) + 1 /\ b[1] = h
    BY <2>3, ParteLida
  <2>6. \A i \in 1 .. Len(b) - (Len(Digitos(Len(x))) + 1) : b[Len(Digitos(Len(x))) + 1 + i] = x[i]
    BY <2>3, ParteLida
  <2> QED
    BY <2>1, <2>2, <2>3, <2>4, <2>5, <2>6
<1>9. b \in Seq(Byte) /\ Len(b) \in Nat /\ Len(b) <= n + d + 1
  <2>1. Len(Inteira(PUBLICA, s)) = Len(s) + Len(Digitos(Len(s))) + 1
    BY <1>3, <1>4, <1>7, InteiraLida
  <2>2. b \in Seq(Byte) /\ Len(b) <= Len(Inteira(PUBLICA, s))
    BY <1>2 DEF Parte
  <2>3. Len(Inteira(PUBLICA, s)) = n + d + 1 /\ n \in Nat
    BY <1>4, <2>1
  <2> HIDE DEF n, d
  <2> QED
    BY <1>6, <2>2, <2>3
<1> HIDE DEF d
<1>10. ASSUME NEW i \in 1 .. 7, d + 1 + i <= Len(b) PROVE b[d + 1 + i] = Frente[i]
  <2>1. i \in 1 .. Len(b) - (d + 1)
    BY <1>6, <1>9, <1>10
  <2> QED
    BY <1>5, <1>8, <2>1
<1>11. ASSUME NEW i \in 1 .. k, d + 8 + i <= Len(b) PROVE b[d + 8 + i] = <<"d", i>>
  <2>1. 7 + i \in 1 .. Len(b) - (d + 1) /\ d + 1 + (7 + i) = d + 8 + i
    BY <1>6, <1>9, <1>11
  <2> QED
    BY <1>1, <1>5, <1>8, <2>1
<1>12. ASSUME Len(b) >= d + 3 PROVE TamanhoTopico(b) = 3
  <2>1. b[d + 1 + 1] = Dois(3)[1] /\ b[d + 1 + 2] = Dois(3)[2]
    <3>1. d + 1 + 1 <= Len(b) /\ d + 1 + 2 <= Len(b)
      BY <1>6, <1>9, <1>12
    <3> QED
      BY <1>10, <3>1, FrenteTipo
  <2>2. TamanhoTopico(b) = Valor(Dois(3)[1], Dois(3)[2])
    BY <1>8, <2>1 DEF TamanhoTopico
  <2> QED
    BY <2>2, ValorDeDois
<1>13. mqtt_get_total_length(b) = k + d + 8 /\ Len(b) <= k + d + 8
  BY <1>6, <1>8, <1>9
<1> QED
  BY <1>8, <1>9, <1>10, <1>11, <1>12, <1>13 DEF d

\* Identifier, topic and data of a publication are read where they were written, as
\* soon as they are there; data that have not come yet are missing at the end.
LEMMA PublicacaoLida ==
  ASSUME NEW k \in Nat, k + 7 \in Comprimento,
         NEW b, Parte(b, Inteira(PUBLICA, Frente \o Bytes("d", k))),
         Len(b) >= Len(Digitos(k + 7)) + 8
  PROVE  LET f == Len(Digitos(k + 7)) + 8
         IN  /\ mqtt_get_id(b) = ID
             /\ mqtt_get_publish_topic(b) = TOPICO
             /\ Len(b) - f \in 0 .. k
             /\ mqtt_get_publish_data(b) = IF Len(b) = f THEN NULO ELSE Bytes("d", Len(b) - f)
<1> DEFINE d == Len(Digitos(k + 7))
<1>6. d \in 1 .. 4
  BY DigitosLidos
<1>7. /\ TamanhoFixo(b) = d + 1 /\ mqtt_get_total_length(b) = k + d + 8
      /\ b[1] = PUBLICA /\ Len(b) <= k + d + 8 /\ b \in Seq(Byte)
      /\ \A i \in 1 .. 7 : d + 1 + i <= Len(b) => b[d + 1 + i] = Frente[i]
      /\ \A i \in 1 .. k : d + 8 + i <= Len(b) => b[d + 8 + i] = <<"d", i>>
      /\ Len(b) >= d + 3 => TamanhoTopico(b) = 3
  <2>1. Len(b) >= d + 1
    BY <1>6
  <2> QED
    BY <2>1, TopicoLido
<1>8. Len(b) >= d + 8 /\ Len(b) \in Nat
  BY <1>7
<1> HIDE DEF d
<1>9. \A i \in 1 .. 7 : b[d + 1 + i] = Frente[i]
  <2> SUFFICES ASSUME NEW i \in 1 .. 7 PROVE b[d + 1 + i] = Frente[i]
    OBVIOUS
  <2>1. d + 1 + i <= Len(b)
    BY <1>6, <1>8
  <2> QED
    BY <1>7, <2>1
<1>10. TamanhoTopico(b) = 3
  BY <1>6, <1>7, <1>8
<1>11. b[1][1] = "PUBLISH" /\ b[1][2] = 1
  BY <1>7 DEF PUBLICA
<1>12. mqtt_get_id(b) = ID
  <2>1. ~(d + 1 + 2 >= Len(b)) /\ ~(d + 1 + 2 + 3 + 2 > Len(b))
    BY <1>6, <1>8
  <2>2. mqtt_get_id(b) = Valor(b[d + 1 + 2 + 3 + 1], b[d + 1 + 2 + 3 + 2])
    BY <1>7, <1>10, <1>11, <2>1 DEF mqtt_get_id
  <2>3. b[d + 1 + 6] = Dois(ID)[1] /\ b[d + 1 + 7] = Dois(ID)[2]
    BY <1>9, FrenteTipo
  <2>4. d + 1 + 2 + 3 + 1 = d + 1 + 6 /\ d + 1 + 2 + 3 + 2 = d + 1 + 7
    BY <1>6
  <2>5. ID \in Nat
    BY Pesos DEF ID
  <2> QED
    BY <2>2, <2>3, <2>4, <2>5, ValorDeDois
<1>13. mqtt_get_publish_topic(b) = TOPICO
  <2> DEFINE i0 == d + 1 + 2
             t == SubSeq(b, i0 + 1, i0 + 3)
  <2>1. ~(i0 >= Len(b)) /\ ~(i0 + 3 > Len(b))
    BY <1>6, <1>8
  <2>2. mqtt_get_publish_topic(b) = t
    BY <1>7, <1>10, <2>1 DEF mqtt_get_publish_topic
  <2>3. TOPICO \in Seq(Byte) /\ Len(TOPICO) = 3
    BY BytesTipo DEF TOPICO, Marcas
  <2>4. i0 \in Nat
    BY <1>6
  <2>5. \A i \in 1 .. 3 : b[i0 + i] = TOPICO[i]
    <3> SUFFICES ASSUME NEW i \in 1 .. 3 PROVE b[i0 + i] = TOPICO[i]
      OBVIOUS
    <3>1. 2 + i \in 1 .. 7 /\ d + 1 + (2 + i) = i0 + i
      BY <1>6
    <3>2. b[i0 + i] = Frente[2 + i]
      BY <1>9, <3>1
    <3> QED
      BY <3>2, FrenteTipo
  <2> HIDE DEF i0
  <2>6. \A i \in i0 + 1 .. i0 + 3 : b[i] \in Byte
    <3> SUFFICES ASSUME NEW i \in i0 + 1 .. i0 + 3 PROVE b[i] \in Byte
      OBVIOUS
    <3>1. Len(b) \in Nat
      BY <1>6, <1>8
    <3>2. i \in 1 .. Len(b)
      BY <2>1, <2>4, <3>1
    <3> QED
      BY <1>7, <3>2, ElementOfSeq
  <2>7. t \in Seq(Byte) /\ Len(t) = 3 /\ \A i \in 1 .. 3 : t[i] = b[i0 + i]
    <3>1. i0 + 1 <= i0 + 3 /\ (i0 + 3) - (i0 + 1) + 1 = 3 /\ i0 + 1 \in Int /\ i0 + 3 \in Int
          /\ \A i \in 1 .. 3 : (i0 + 1) + i - 1 = i0 + i
      BY <2>4
    <3> QED
      BY <2>6, <3>1, SubSeqProperties
  <2> HIDE DEF t
  <2>8. t = TOPICO
    BY <2>3, <2>5, <2>7, SeqEqual
  <2> QED
    BY <2>2, <2>8
<1>14. Len(b) - (d + 8) \in 0 .. k
       /\ mqtt_get_publish_data(b) = IF Len(b) = d + 8 THEN NULO ELSE Bytes("d", Len(b) - (d + 8))
  <2> DEFINE f == d + 8
             l == Len(b) - f
             t == SubSeq(b, f + 1, f + l)
             u == Bytes("d", l)
             i0 == TamanhoFixo(b) + 2
             g0 == i0 + TamanhoTopico(b) + IF b[1][2] > 0 THEN 2 ELSE 0
             total == mqtt_get_total_length(b)
  <2>1. f \in Nat /\ l \in 0 .. k /\ Len(b) = f + l
    BY <1>6, <1>7, <1>8
  <2>2. mqtt_get_publish_data(b) =
          IF i0 >= Len(b) THEN NULO
          ELSE IF g0 >= Len(b) \/ total < g0 THEN NULO
          ELSE SubSeq(b, g0 + 1, Min2(total, Len(b)))
    BY Zenon DEF mqtt_get_publish_data
  <2>3. total = k + f
    BY <1>6, <1>7
  <2>4. i0 = d + 3
    BY <1>6, <1>7
  <2>5. g0 = f
    BY <1>6, <1>10, <1>11, <2>4
  <2>6. ~(i0 >= Len(b)) /\ ~(total < g0)
    BY <1>6, <1>8, <2>1, <2>3, <2>4, <2>5
  <2>7. Min2(total, Len(b)) = f + l
    <3> HIDE DEF total, l, f
    <3> QED
      BY <2>1, <2>3 DEF Min2
  <2> HIDE DEF i0, g0, total, f, l
  <2>8. mqtt_get_publish_data(b) = IF f >= Len(b) THEN NULO ELSE t
    BY <2>2, <2>5, <2>6, <2>7
  <2>9. \A i \in f + 1 .. f + l : b[i] \in Byte
    <3> SUFFICES ASSUME NEW i \in f + 1 .. f + l PROVE b[i] \in Byte
      OBVIOUS
    <3>1. i \in 1 .. Len(b)
      BY <2>1
    <3> QED
      BY <1>7, <3>1, ElementOfSeq
  <2>10. ASSUME l # 0 PROVE t \in Seq(Byte) /\ Len(t) = l /\ \A i \in 1 .. l : t[i] = b[f + i]
    <3>1. f + 1 <= f + l /\ (f + l) - (f + 1) + 1 = l /\ f + 1 \in Int /\ f + l \in Int
          /\ \A i \in 1 .. l : (f + 1) + i - 1 = f + i
      BY <2>1, <2>10
    <3> QED
      BY <2>9, <3>1, SubSeqProperties
  <2>11. u \in Seq(Byte) /\ Len(u) = l /\ \A i \in 1 .. l : u[i] = <<"d", i>>
    <3>1. l \in Nat /\ "d" \in Marcas
      BY <2>1 DEF Marcas
    <3> QED
      BY <3>1, BytesTipo
  <2>12. \A i \in 1 .. l : b[f + i] = <<"d", i>>
    <3> SUFFICES ASSUME NEW i \in 1 .. l PROVE b[f + i] = <<"d", i>>
      OBVIOUS
    <3>1. i \in 1 .. k /\ d + 8 + i <= Len(b) /\ f + i = d + 8 + i
      BY <1>6, <2>1 DEF f
    <3> QED
      BY <1>7, <3>1
  <2> HIDE DEF t, u
  <2>13. ASSUME l # 0 PROVE t = u
    BY <2>1, <2>10, <2>11, <2>12, <2>13, SeqEqual
  <2>14. (f >= Len(b)) = (l = 0) /\ (Len(b) = f) = (l = 0)
    BY <2>1
  <2>15. mqtt_get_publish_data(b) = IF Len(b) = f THEN NULO ELSE u
    BY <2>8, <2>13, <2>14
  <2> QED
    BY <2>1, <2>15 DEF f, l, u
<1> QED
  BY <1>12, <1>13, <1>14 DEF d

(***************************************************************************)
(* The messages one after another.                                         *)
(***************************************************************************)
\* A publication with the first j bytes of its data.
PubAte(k, j) == (<<PUBLICA>> \o Digitos(k + 7)) \o (Frente \o Bytes("d", j))

\* The bytes of the message that was asked for.
Certa(b, p) ==
  \E h \in Byte : \E s \in Seq(Byte) :
    /\ Len(s) \in Comprimento /\ b = Inteira(h, s) /\ h[1] = p.tipo
    /\ p.tipo = "PUBACK" => s = Dois(ID)
    /\ p.tipo = "PUBLISH" => /\ p.k \in TAMANHOS /\ h = PUBLICA
                            /\ s = Frente \o Bytes("d", p.k)

\* In the loop, what was written and what is in the buffer are the beginning of
\* the item, up to the data that the counters name.
Escrevendo ==
  /\ pedido.tipo = "PUBLISH" /\ pedido.k \in TAMANHOS /\ m.total = 0
  /\ resta \in 1 .. pedido.k /\ atual = pedido.k - resta
  /\ item = PubAte(pedido.k, pedido.k)
  /\ m.length - m.off >= 1
  /\ fio \o Fio(m) = PubAte(pedido.k, Min2(pedido.k, atual + (m.length - m.off)))

\* An offset left from the messages before never passes the front of a publication.
MsgInv ==
  /\ m \in Mensagem /\ m.off <= 12
  /\ mpc \in {"pronto", "escreve"}
  /\ mpc = "pronto" => m.total = 0 \/ \E k \in TAMANHOS : m.total = k + 12
  /\ mpc = "pronto" /\ pedido # NADA /\ ~torta => item = fio /\ Certa(fio, pedido)
  /\ mpc = "escreve" => Escrevendo

\* Any part of a publication is made of bytes.
LEMMA PubTipo ==
  ASSUME NEW k \in TAMANHOS, NEW j \in Nat
  PROVE  /\ PubAte(k, j) \in Seq(Byte)
         /\ <<PUBLICA>> \o Digitos(k + 7) \in Seq(Byte)
         /\ Frente \o Bytes("d", j) \in Seq(Byte)
         /\ Bytes("d", j) \in Seq(Byte)
<1>1. Digitos(k + 7) \in Seq(Byte)
  BY TamanhoTipo, DigitosLidos
<1>2. <<PUBLICA>> \in Seq(Byte)
  BY DEF PUBLICA, Byte, Marcas
<1>3. Bytes("d", j) \in Seq(Byte) /\ Frente \in Seq(Byte)
  BY BytesTipo, FrenteTipo DEF Marcas
<1>4. <<PUBLICA>> \o Digitos(k + 7) \in Seq(Byte)
  BY <1>1, <1>2, JuntaTipo
<1>5. Frente \o Bytes("d", j) \in Seq(Byte)
  BY <1>3, JuntaTipo
<1>6. PubAte(k, j) \in Seq(Byte)
  BY <1>4, <1>5, JuntaTipo DEF PubAte
<1> QED
  BY <1>3, <1>4, <1>5, <1>6

\* The data that follow make it longer.
LEMMA PubContinua ==
  ASSUME NEW k \in TAMANHOS, NEW j \in Nat, NEW l \in Nat, j <= l, l <= k
  PROVE  PubAte(k, j) \o SubSeq(Bytes("d", k), j + 1, l) = PubAte(k, l)
<1> DEFINE f == <<PUBLICA>> \o Digitos(k + 7)
           g == Frente
           a == Bytes("d", j)
           t == SubSeq(Bytes("d", k), j + 1, l)
<1>1. f \in Seq(Byte) /\ a \in Seq(Byte) /\ g \in Seq(Byte) /\ g \o a \in Seq(Byte)
  BY PubTipo, FrenteTipo
<1>2. t \in Seq(Byte) /\ a \o t = Bytes("d", l)
  <2>1. k \in Nat /\ "d" \in Marcas
    BY TamanhoTipo DEF Marcas
  <2> QED
    BY <2>1, BytesContinua
<1> HIDE DEF f, g, a, t
<1>3. (f \o (g \o a)) \o t = f \o ((g \o a) \o t)
  BY <1>1, <1>2, JuntaAssocia, Zenon
<1>4. (g \o a) \o t = g \o (a \o t)
  BY <1>1, <1>2, JuntaAssocia, Zenon
<1>5. (f \o (g \o a)) \o t = f \o (g \o Bytes("d", l))
  BY <1>2, <1>3, <1>4
<1>6. PubAte(k, j) = f \o (g \o a) /\ PubAte(k, l) = f \o (g \o Bytes("d", l))
  BY DEF PubAte, f, g, a
<1> QED
  BY <1>5, <1>6 DEF t

\* A publication with all of its data is the one that was asked for.
LEMMA PubCerta ==
  ASSUME NEW k \in TAMANHOS, NEW p, p.tipo = "PUBLISH", p.k = k
  PROVE  Certa(PubAte(k, k), p)
<1> DEFINE s == Frente \o Bytes("d", k)
<1>1. k \in Nat /\ k + 7 \in Comprimento
  BY TamanhoTipo
<1>2. Bytes("d", k) \in Seq(Byte) /\ Len(Bytes("d", k)) = k /\ Frente \in Seq(Byte) /\ Len(Frente) = 7
  BY <1>1, BytesTipo, FrenteTipo DEF Marcas
<1>3. s \in Seq(Byte) /\ Len(s) = Len(Frente) + Len(Bytes("d", k))
  BY <1>2, JuntaTipo
<1> HIDE DEF s
<1>4. Len(s) = k + 7
  BY <1>1, <1>2, <1>3
<1>5. PubAte(k, k) = Inteira(PUBLICA, s)
  BY <1>4 DEF PubAte, Inteira, s
<1>6. PUBLICA \in Byte /\ PUBLICA[1] = "PUBLISH"
  BY DEF PUBLICA, Byte, Marcas
<1> QED
  BY <1>1, <1>3, <1>4, <1>5, <1>6 DEF Certa, s

\* The invariant holds before the first message.
LEMMA MsgInvInit == MsgInit => MsgInv
<1> SUFFICES ASSUME MsgInit PROVE MsgInv
  OBVIOUS
<1>1. VELHO \in Memoria
  BY DEF VELHO, Byte, Marcas, Memoria
<1>2. m \in Mensagem /\ m.off <= 12 /\ m.total = 0
  BY <1>1 DEF MsgInit, Mensagem
<1>3. mpc = "pronto" /\ pedido = NADA
  BY DEF MsgInit
<1> QED
  BY <1>2, <1>3 DEF MsgInv

\* Of a message of the library's own all is written. Its length is the length of its
\* body, because no total is left over, unless the history says so.
LEMMA EscreveCurtaPasso ==
  ASSUME MsgInv, EscreveCurta
  PROVE  MsgInv'
<1>1. m \in Mensagem /\ m.off <= 12 /\ mpc = "pronto" /\ (m.total = 0 \/ \E k \in TAMANHOS : m.total = k + 12)
  BY DEF MsgInv, EscreveCurta
<1>2. PICK tipo \in {"CONNECT", "SUBSCRIBE", "PUBACK", "PINGREQ"} :
           m' = Curta(tipo) /\ pedido' = [tipo |-> tipo, k |-> 0]
  BY DEF EscreveCurta
<1>3. PICK x : \E s \in Seq(Byte) : \E h \in Byte :
           /\ Curta(tipo) = fini_message(x, h) /\ Montada(x, s)
           /\ x.off = m.off /\ x.total = m.total
           /\ Len(s) <= 21 /\ h[1] = tipo
           /\ tipo = "PUBACK" => s = Dois(ID)
  BY <1>1, CurtaMonta
<1>4. PICK s \in Seq(Byte), h \in Byte :
           /\ Curta(tipo) = fini_message(x, h) /\ Montada(x, s)
           /\ x.off = m.off /\ x.total = m.total
           /\ Len(s) <= 21 /\ h[1] = tipo
           /\ tipo = "PUBACK" => s = Dois(ID)
  BY <1>3
<1> DEFINE n == IF x.total # 0 THEN x.total - MAX_FIXED_HEADER ELSE Len(s)
           d == Len(Digitos(n))
<1>5. n \in Comprimento
  <2>1. CASE m.total = 0
    <3>1. Len(s) \in 0 .. 26
      <4>1. PICK l \in Nat : l = Len(s)
        BY LenProperties
      <4>2. l <= 21
        BY <1>4, <4>1
      <4>3. l \in 0 .. 26
        BY <4>2
      <4> QED
        BY <4>1, <4>3
    <3> QED
      BY <1>4, <2>1, <3>1, Pequeno
  <2>2. CASE m.total # 0
    <3>1. PICK k \in TAMANHOS : m.total = k + 12
      BY <1>1, <2>2
    <3>2. k \in Nat /\ k + 7 \in Comprimento
      BY TamanhoTipo
    <3>3. n = k + 7
      BY <1>4, <2>2, <3>1, <3>2 DEF MAX_FIXED_HEADER
    <3> QED
      BY <3>2, <3>3
  <2> QED
    BY <2>1, <2>2
<1>6. PICK r : r = m'
  OBVIOUS
<1>7. r = fini_message(x, h)
  BY <1>2, <1>4, <1>6
<1> HIDE DEF n
<1>8. /\ r \in Mensagem /\ r.off = x.off - (4 - d) /\ r.total = x.total
      /\ Fio(r) = (<<h>> \o Digitos(n)) \o s
  <2>1. n = IF x.total # 0 THEN x.total - MAX_FIXED_HEADER ELSE Len(s)
    BY DEF n
  <2> QED
    BY <1>4, <1>5, <1>7, <2>1, FiniMonta
<1>9. r.off <= 12
  <2>1. d \in 1 .. 4
    BY <1>5, DigitosLidos
  <2>2. m.off \in Int
    BY <1>1 DEF Mensagem
  <2> HIDE DEF d
  <2> QED
    BY <1>1, <1>4, <1>8, <2>1, <2>2
<1>10. torta' = (m.total # 0) /\ fio' = Fio(r) /\ item' = fio' /\ mpc' = "pronto"
  BY <1>1, <1>6 DEF EscreveCurta
<1>11. ASSUME ~torta' PROVE Certa(fio', pedido')
  <2>1. m.total = 0
    BY <1>10, <1>11
  <2>2. n = Len(s)
    BY <1>4, <2>1 DEF n
  <2>3. fio' = Inteira(h, s) /\ Len(s) \in Comprimento
    BY <1>5, <1>8, <1>10, <2>2 DEF Inteira
  <2>4. pedido'.tipo = tipo /\ tipo # "PUBLISH"
    BY <1>2
  <2> QED
    BY <1>4, <2>3, <2>4 DEF Certa
<1>12. m' \in Mensagem /\ m'.off <= 12 /\ m'.total = m.total
  BY <1>4, <1>6, <1>8, <1>9
<1> QED
  BY <1>1, <1>10, <1>11, <1>12 DEF MsgInv

\* The item is the whole publication, and what is in the buffer is its beginning. When
\* all of it fits, an offset left over may make the part of the data look longer than the
\* data, never shorter, so the loop makes a single turn.
LEMMA PublicaPasso ==
  ASSUME MsgInv, enqueue_publish
  PROVE  MsgInv'
<1>1. m \in Mensagem /\ m.off <= 12 /\ m.off \in Int /\ fio' = <<>> /\ atual' = 0
  BY DEF MsgInv, enqueue_publish, Mensagem
<1>2. PICK k \in TAMANHOS :
        LET p == mqtt_msg_publish(m, TOPICO, Bytes("d", k), ID)
        IN  \/ /\ m' = [p EXCEPT !.total = 0]
               /\ item' = Fio(p) \o IF p.total = 0 THEN <<>> ELSE SubSeq(Bytes("d", k), p.length - p.off + 1, k)
               /\ pedido' = [tipo |-> "PUBLISH", k |-> k]
               /\ mpc' = "escreve" /\ resta' = k
            \/ /\ m' = p /\ pedido' = NADA /\ mpc' = mpc
  BY DEF enqueue_publish
<1> DEFINE p == mqtt_msg_publish(m, TOPICO, Bytes("d", k), ID)
           d == Len(Digitos(k + 7))
<1>3. /\ p \in Mensagem
      /\ 12 + k <= BUF => /\ p.total = 0 /\ p.off = m.off - (4 - d) /\ p.length = k + 8 + d
                          /\ Fio(p) = PubAte(k, k)
      /\ 12 + k > BUF  => /\ p.total = k + 12 /\ p.off = 8 + d /\ p.length = BUF - 4 + d
                          /\ Fio(p) = PubAte(k, BUF - 12)
  BY <1>1, PublicaMonta DEF PubAte, PUBLICA
<1>4. k \in Nat /\ k > 0 /\ d \in 1 .. 4 /\ BUF \in Nat /\ BUF >= 26
  BY TamanhoTipo, DigitosLidos, MsgAssumption
<1>5. \/ /\ m' = [p EXCEPT !.total = 0]
         /\ item' = Fio(p) \o IF p.total = 0 THEN <<>> ELSE SubSeq(Bytes("d", k), p.length - p.off + 1, k)
         /\ pedido' = [tipo |-> "PUBLISH", k |-> k]
         /\ mpc' = "escreve" /\ resta' = k
      \/ /\ m' = p /\ pedido' = NADA /\ mpc' = mpc
  BY <1>2
<1> HIDE DEF p, d
<1>6. p.off <= 12 /\ p.off \in Int /\ p.length \in Nat
      /\ (12 + k <= BUF => p.length - p.off >= k) /\ (12 + k > BUF => p.length - p.off = BUF - 12)
  <2>1. CASE 12 + k <= BUF
    BY <1>1, <1>3, <1>4, <2>1
  <2>2. CASE 12 + k > BUF
    BY <1>1, <1>3, <1>4, <2>2
  <2> QED
    BY <1>4, <2>1, <2>2
<1>7. p.total = 0 \/ p.total = k + 12
  BY <1>3, <1>4
<1>8. CASE m' = p /\ pedido' = NADA /\ mpc' = mpc
  <2>1. mpc' = "pronto"
    BY <1>8 DEF enqueue_publish
  <2> QED
    BY <1>3, <1>6, <1>7, <1>8, <2>1 DEF MsgInv
<1>9. CASE /\ m' = [p EXCEPT !.total = 0]
           /\ item' = Fio(p) \o IF p.total = 0 THEN <<>> ELSE SubSeq(Bytes("d", k), p.length - p.off + 1, k)
           /\ pedido' = [tipo |-> "PUBLISH", k |-> k]
           /\ mpc' = "escreve" /\ resta' = k
  <2>1. PICK r : r = m'
    OBVIOUS
  <2>2. r \in Mensagem /\ r.buffer = p.buffer /\ r.length = p.length /\ r.inicio = p.inicio /\ r.off = p.off /\ r.total = 0
    BY <1>3, <1>9, <2>1 DEF Mensagem
  <2>3. Fio(r) = Fio(p)
    BY <2>2 DEF Fio
  <2>4. item' = PubAte(k, k) /\ Fio(p) = PubAte(k, Min2(k, p.length - p.off))
    <3>1. CASE 12 + k <= BUF
      <4>1. item' = PubAte(k, k) \o <<>>
        BY <1>3, <1>9, <3>1
      <4>2. PubAte(k, k) \o <<>> = PubAte(k, k)
        BY <1>4, PubTipo, ConcatEmptySeq
      <4>3. Min2(k, p.length - p.off) = k
        BY <1>4, <1>6, <3>1 DEF Min2
      <4> QED
        BY <1>3, <3>1, <4>1, <4>2, <4>3
    <3>2. CASE 12 + k > BUF
      <4>1. PICK j \in Nat : j = BUF - 12
        BY <1>4
      <4>2. j <= k /\ j < k + 1 /\ p.length - p.off = j /\ p.total # 0
        BY <1>3, <1>4, <1>6, <3>2, <4>1
      <4>3. item' = PubAte(k, j) \o SubSeq(Bytes("d", k), j + 1, k)
        BY <1>3, <1>9, <3>2, <4>1, <4>2
      <4>4. PubAte(k, j) \o SubSeq(Bytes("d", k), j + 1, k) = PubAte(k, k)
        <5>1. k <= k
          BY <1>4
        <5> QED
          BY <1>4, <4>2, <5>1, PubContinua
      <4>5. Min2(k, p.length - p.off) = j
        BY <1>4, <4>2 DEF Min2
      <4> QED
        BY <1>3, <3>2, <4>1, <4>3, <4>4, <4>5
    <3> QED
      BY <1>4, <3>1, <3>2
  <2>5. p.length - p.off >= 1
    BY <1>4, <1>6
  <2>6. <<>> \o Fio(p) = Fio(p)
    <3>1. Fio(p) \in Seq(Byte)
      <4>1. Min2(k, p.length - p.off) \in Nat
        BY <1>4, <1>6, <2>5 DEF Min2
      <4> QED
        BY <2>4, <4>1, PubTipo
    <3> QED
      BY <3>1, ConcatEmptySeq
  <2>7. pedido'.tipo = "PUBLISH" /\ pedido'.k = k
    BY <1>9
  <2>8. 0 + (p.length - p.off) = p.length - p.off
    BY <1>6
  <2>9. Escrevendo'
    <3>1. m'.total = 0 /\ m'.length - m'.off = p.length - p.off /\ Fio(m') = Fio(p)
      BY <2>1, <2>2, <2>3
    <3>2. fio' \o Fio(m') = PubAte(k, Min2(k, atual' + (m'.length - m'.off)))
      BY <1>1, <2>4, <2>6, <2>8, <3>1
    <3>3. resta' \in 1 .. k /\ atual' = k - resta'
      BY <1>1, <1>4, <1>9
    <3>4. m'.length - m'.off >= 1
      BY <2>5, <3>1
    <3> QED
      BY <2>4, <2>7, <3>1, <3>2, <3>3, <3>4 DEF Escrevendo
  <2>10. m' \in Mensagem /\ m'.off <= 12
    BY <1>6, <2>1, <2>2
  <2> QED
    BY <1>9, <2>9, <2>10 DEF MsgInv
<1> QED
  BY <1>5, <1>8, <1>9

\* The data that follow, alone in the buffer.
LEMMA CopiaVazia ==
  ASSUME NEW e \in Mensagem, e.length = 0, e.inicio = 0, NEW t \in Seq(Byte), Len(t) <= BUF
  PROVE  LET r == Copia(e, t)
         IN  r \in Mensagem /\ r.length = Len(t) /\ r.off = e.off /\ r.total = e.total /\ Fio(r) = t
<1> DEFINE r == Copia(e, t)
           l == Len(t)
           b == [i \in 1 .. BUF |-> IF i > e.length /\ i <= e.length + l THEN t[i - e.length] ELSE e.buffer[i]]
<1>1. r = [e EXCEPT !.buffer = b, !.length = e.length + l]
  BY DEF Copia
<1>2. l \in Nat /\ l <= BUF /\ BUF \in Nat /\ e.length + l = l
  BY MsgAssumption, LenProperties
<1> HIDE DEF r, l
<1>3. b \in Memoria
  <2> SUFFICES ASSUME NEW i \in 1 .. BUF
               PROVE  (IF i > e.length /\ i <= e.length + l THEN t[i - e.length] ELSE e.buffer[i]) \in Byte
    BY DEF Memoria
  <2>1. ASSUME i > e.length, i <= e.length + l PROVE t[i - e.length] \in Byte
    <3>1. i - e.length \in 1 .. Len(t)
      BY <1>2, <2>1 DEF l
    <3> QED
      BY <3>1, ElementOfSeq
  <2>2. e.buffer[i] \in Byte
    BY DEF Mensagem, Memoria
  <2> QED
    BY <2>1, <2>2
<1>4. \A i \in 1 .. l : b[i] = t[i]
  <2> SUFFICES ASSUME NEW i \in 1 .. l PROVE b[i] = t[i]
    OBVIOUS
  <2>1. i \in 1 .. BUF /\ i > e.length /\ i <= e.length + l /\ i - e.length = i
    BY <1>2
  <2> QED
    BY <2>1
<1> HIDE DEF b
<1>5. /\ r \in Mensagem /\ r.buffer = b /\ r.length = l /\ r.inicio = 0 /\ r.off = e.off /\ r.total = e.total
  BY <1>1, <1>2, <1>3 DEF Mensagem
<1>6. Fio(r) = t
  <2>1. Fio(r) = SubSeq(b, 1, l)
    <3>1. 0 + 1 = 1 /\ 0 + l = l
      BY <1>2
    <3> QED
      BY <1>5, <3>1 DEF Fio
  <2>2. SubSeq(b, 1, l) = [i \in 1 .. l |-> b[i]]
    <3>1. l - 1 + 1 = l /\ \A i \in 1 .. l : 1 + i - 1 = i
      BY <1>2
    <3> QED
      BY <1>2, <3>1
  <2>3. t = [i \in 1 .. l |-> t[i]]
    BY LenProperties DEF l
  <2> QED
    BY <1>4, <2>1, <2>2, <2>3
<1> QED
  BY <1>5, <1>6 DEF r, l

\* A turn of the loop writes what follows in the item, and ends with the last of it.
LEMMA EscrevePartePasso ==
  ASSUME MsgInv, EscreveParte
  PROVE  MsgInv'
<1> DEFINE k == pedido.k
           d == m.length - m.off
           rr == resta - d
           aa == atual + d
           w == Min2(rr, BUF)
           t == SubSeq(Bytes("d", k), aa + 1, aa + w)
<1>1. m \in Mensagem /\ m.off <= 12 /\ m.off \in Int /\ m.length \in Nat /\ Escrevendo
  BY DEF MsgInv, EscreveParte, Mensagem
<1>2. k \in TAMANHOS /\ m.total = 0 /\ resta \in 1 .. k /\ atual = k - resta /\ item = PubAte(k, k)
      /\ d >= 1 /\ fio \o Fio(m) = PubAte(k, Min2(k, aa)) /\ pedido.tipo = "PUBLISH"
  BY <1>1 DEF Escrevendo
<1>3. /\ fio' = fio \o Fio(m) /\ resta' = rr /\ atual' = aa
      /\ mpc' = IF rr > 0 THEN "escreve" ELSE "pronto"
      /\ m' = IF rr > 0
                THEN Copia([m EXCEPT !.off = 0, !.inicio = 0, !.length = 0, !.buffer = VELHO], t)
                ELSE [m EXCEPT !.off = 0]
      /\ pedido' = pedido /\ item' = item /\ torta' = torta
  BY DEF EscreveParte
<1>4. k \in Nat /\ k > 0 /\ BUF \in Nat /\ BUF >= 26 /\ d \in Int
  <2>1. d \in Int
    BY <1>1
  <2>2. k \in TAMANHOS
    BY <1>2
  <2> HIDE DEF k
  <2>3. k \in Nat /\ k > 0
    BY <2>2, TamanhoTipo
  <2> QED
    BY <2>1, <2>3, MsgAssumption
<1>5. pedido'.k = k /\ pedido'.tipo = "PUBLISH"
  BY <1>2, <1>3
<1> HIDE DEF k, d
<1>6. rr \in Int /\ aa \in Nat /\ aa = k - rr
  BY <1>2, <1>4
<1> HIDE DEF rr, aa
<1>7. PICK r : r = m'
  OBVIOUS
<1>8. CASE rr > 0
  <2> DEFINE e == [m EXCEPT !.off = 0, !.inicio = 0, !.length = 0, !.buffer = VELHO]
  <2>1. w \in Nat /\ w >= 1 /\ w <= BUF /\ w <= rr /\ aa <= k /\ aa + w <= k /\ aa + w \in Nat /\ aa <= aa + w
    BY <1>4, <1>6, <1>8 DEF Min2
  <2> HIDE DEF w
  <2>2. t \in Seq(Byte) /\ Len(t) = w
    <3>1. PICK l \in Nat : l = aa + w
      BY <2>1
    <3>2. aa <= l /\ l <= k /\ l - aa = w
      BY <1>6, <2>1, <3>1
    <3>3. "d" \in Marcas
      BY DEF Marcas
    <3>4. SubSeq(Bytes("d", k), aa + 1, l) \in Seq(Byte) /\ Len(SubSeq(Bytes("d", k), aa + 1, l)) = l - aa
      <4>1. k \in Nat /\ aa \in Nat /\ l \in Nat /\ aa <= l /\ l <= k
        BY <1>4, <1>6, <3>2
      <4> HIDE DEF t
      <4> QED
        BY <3>3, <4>1, BytesContinua
    <3> QED
      BY <3>1, <3>2, <3>4
  <2>3. e \in Mensagem /\ e.length = 0 /\ e.inicio = 0 /\ e.off = 0 /\ e.total = 0
    <3>1. VELHO \in Memoria
      BY DEF VELHO, Byte, Marcas, Memoria
    <3>2. PICK z \in Nat, y \in Int : z = 0 /\ y = 0
      OBVIOUS
    <3>3. e = [m EXCEPT !.off = y, !.inicio = z, !.length = z, !.buffer = VELHO]
      BY <3>2
    <3> HIDE DEF e
    <3>4. e \in Mensagem /\ e.length = z /\ e.inicio = z /\ e.off = y /\ e.total = m.total
      BY <1>1, <3>1, <3>3 DEF Mensagem
    <3> QED
      BY <1>2, <3>2, <3>4
  <2>4. r = Copia(e, t)
    BY <1>3, <1>7, <1>8
  <2> HIDE DEF e
  <2>5. PubAte(k, aa) \o t = PubAte(k, aa + w)
    BY <1>2, <1>6, <2>1, PubContinua
  <2> HIDE DEF t
  <2>6. r \in Mensagem /\ r.length = w /\ r.off = 0 /\ r.total = 0 /\ Fio(r) = t
    BY <2>1, <2>2, <2>3, <2>4, CopiaVazia
  <2>7. fio' = PubAte(k, aa)
    <3>1. Min2(k, aa) = aa
      BY <1>4, <1>6, <2>1 DEF Min2
    <3> QED
      BY <1>2, <1>3, <3>1
  <2>8. m'.length - m'.off = w /\ Fio(m') = t /\ m'.total = 0 /\ m' \in Mensagem /\ m'.off <= 12
    BY <1>7, <2>1, <2>6
  <2>9. Min2(k, atual' + (m'.length - m'.off)) = aa + w
    <3>1. atual' + (m'.length - m'.off) = aa + w
      BY <1>3, <2>8
    <3>2. Min2(k, aa + w) = aa + w
      BY <1>4, <2>1 DEF Min2
    <3> QED
      BY <3>1, <3>2
  <2>10. fio' \o Fio(m') = PubAte(k, Min2(k, atual' + (m'.length - m'.off)))
    BY <2>5, <2>7, <2>8, <2>9
  <2>11. resta' \in 1 .. k /\ atual' = k - resta' /\ m'.length - m'.off >= 1
    <3>1. rr \in 1 .. k
      BY <1>4, <1>6, <1>8
    <3> QED
      BY <1>3, <1>6, <2>1, <2>8, <3>1
  <2>12. Escrevendo'
    BY <1>2, <1>3, <1>5, <2>8, <2>10, <2>11 DEF Escrevendo
  <2>13. mpc' = "escreve"
    BY <1>3, <1>8
  <2> QED
    BY <2>8, <2>12, <2>13 DEF MsgInv
<1>9. CASE ~(rr > 0)
  <2>1. r = [m EXCEPT !.off = 0]
    BY <1>3, <1>7, <1>9
  <2>2. r \in Mensagem /\ r.off = 0 /\ r.total = 0
    BY <1>1, <1>2, <2>1 DEF Mensagem
  <2>3. m' \in Mensagem /\ m'.off <= 12 /\ m'.total = 0
    BY <1>7, <2>2
  <2>4. Min2(k, aa) = k
    BY <1>4, <1>6, <1>9 DEF Min2
  <2>5. fio' = PubAte(k, k) /\ item' = PubAte(k, k)
    BY <1>2, <1>3, <2>4
  <2>6. Certa(fio', pedido')
    BY <1>2, <1>5, <2>5, PubCerta
  <2>7. mpc' = "pronto"
    BY <1>3, <1>9
  <2> QED
    BY <2>3, <2>5, <2>6, <2>7 DEF MsgInv
<1> QED
  BY <1>8, <1>9

\* A publication given up asks for nothing, and leaves no total.
LEMMA DesistePasso ==
  ASSUME MsgInv, cannot_publish
  PROVE  MsgInv'
<1>1. m \in Mensagem /\ m.off <= 12 /\ mpc' = "pronto" /\ pedido' = NADA /\ m' = [m EXCEPT !.total = 0]
  BY DEF MsgInv, cannot_publish
<1>2. PICK r : r = m'
  OBVIOUS
<1>3. r \in Mensagem /\ r.off = m.off /\ r.total = 0
  BY <1>1, <1>2 DEF Mensagem
<1> QED
  BY <1>1, <1>2, <1>3 DEF MsgInv

\* Every step keeps the invariant.
LEMMA MsgInvPasso ==
  ASSUME MsgInv, [MsgNext]_msgVars
  PROVE  MsgInv'
<1>1. CASE UNCHANGED msgVars
  BY <1>1 DEF msgVars, MsgInv, Escrevendo, Fio
<1> QED
  BY <1>1, EscreveCurtaPasso, PublicaPasso, EscrevePartePasso, DesistePasso DEF MsgNext

\* A message written whole is the one that was asked for, so it is read as such.
LEMMA MsgInvMostra == MsgInv => MensagemInteira
<1> SUFFICES ASSUME MsgInv, mpc = "pronto", pedido # NADA, ~torta
             PROVE  /\ item = fio
                    /\ mqtt_get_total_length(fio) = Len(fio)
                    /\ fio[1][1] = pedido.tipo
                    /\ pedido.tipo \in {"PUBACK", "PUBLISH"} => mqtt_get_id(fio) = ID
                    /\ pedido.tipo = "PUBLISH" =>
                         /\ mqtt_get_publish_topic(fio) = TOPICO
                         /\ mqtt_get_publish_data(fio) = Bytes("d", pedido.k)
  BY DEF MensagemInteira
<1>1. item = fio /\ Certa(fio, pedido)
  BY DEF MsgInv
<1>2. PICK h \in Byte, s \in Seq(Byte) :
        /\ Len(s) \in Comprimento /\ fio = Inteira(h, s) /\ h[1] = pedido.tipo
        /\ pedido.tipo = "PUBACK" => s = Dois(ID)
        /\ pedido.tipo = "PUBLISH" => /\ pedido.k \in TAMANHOS /\ h = PUBLICA
                                     /\ s = Frente \o Bytes("d", pedido.k)
  BY <1>1 DEF Certa
<1>3. mqtt_get_total_length(fio) = Len(fio) /\ fio[1] = h
  BY <1>2, InteiraLida
<1>4. ASSUME pedido.tipo = "PUBACK" PROVE mqtt_get_id(fio) = ID
  <2>1. h[1] = "PUBACK" /\ fio = Inteira(h, Dois(ID))
    BY <1>2, <1>4
  <2>2. ID \in Nat /\ BASE > 2
    BY Pesos DEF ID
  <2>3. PICK d : d = Dois(ID)
    OBVIOUS
  <2>4. d \in Seq(Byte) /\ Len(d) = 2 /\ Len(d) \in Comprimento
    <3>1. Dois(ID) \in Seq(Byte) /\ Len(Dois(ID)) = 2
      BY <2>2, DoisTipo
    <3>2. Len(d) \in 0 .. 26
      BY <2>3, <3>1
    <3> QED
      BY <2>3, <3>1, <3>2, Pequeno
  <2>5. Len(d) >= 2 /\ Len(d) < BASE /\ h[1] \in {"PUBACK", "SUBACK"} /\ d[1] = Dois(ID)[1] /\ d[2] = Dois(ID)[2]
    BY <2>1, <2>2, <2>3, <2>4, Pesos
  <2> QED
    BY <2>1, <2>2, <2>3, <2>4, <2>5, IdLido
<1>5. ASSUME pedido.tipo = "PUBLISH"
      PROVE  /\ mqtt_get_id(fio) = ID
             /\ mqtt_get_publish_topic(fio) = TOPICO
             /\ mqtt_get_publish_data(fio) = Bytes("d", pedido.k)
  <2>1. pedido.k \in TAMANHOS /\ fio = Inteira(PUBLICA, Frente \o Bytes("d", pedido.k))
    BY <1>2, <1>5
  <2>2. PICK k \in TAMANHOS : k = pedido.k
    BY <2>1
  <2>3. k \in Nat /\ k > 0 /\ k + 7 \in Comprimento
    BY TamanhoTipo
  <2>4. PICK x : x = Frente \o Bytes("d", k)
    OBVIOUS
  <2>5. x \in Seq(Byte) /\ Len(x) = k + 7 /\ PUBLICA \in Byte
    <3>1. Bytes("d", k) \in Seq(Byte) /\ Len(Bytes("d", k)) = k
      BY <2>3, BytesTipo DEF Marcas
    <3>2. x \in Seq(Byte) /\ Len(x) = Len(Frente) + Len(Bytes("d", k))
      BY <2>4, <3>1, FrenteTipo, JuntaTipo
    <3> QED
      BY <2>3, <3>1, <3>2, FrenteTipo DEF PUBLICA, Byte, Marcas
  <2>6. fio = Inteira(PUBLICA, x)
    BY <2>1, <2>2, <2>4
  <2>7. Parte(fio, fio) /\ Len(fio) = k + 7 + Len(Digitos(k + 7)) + 1
    <3>1. Len(x) \in Comprimento
      BY <2>3, <2>5
    <3>2. Parte(fio, fio) /\ Len(fio) = Len(x) + Len(Digitos(Len(x))) + 1
      BY <2>5, <2>6, <3>1, ParteToda
    <3> QED
      BY <2>5, <3>2
  <2>8. Len(Digitos(k + 7)) \in 1 .. 4
    BY <2>3, DigitosLidos
  <2> DEFINE d == Len(Digitos(k + 7))
  <2>9. Len(fio) >= d + 8 /\ Len(fio) # d + 8 /\ Len(fio) - (d + 8) = k
    <3>1. d \in 1 .. 4 /\ Len(fio) = k + 7 + d + 1
      BY <2>7, <2>8
    <3> HIDE DEF d
    <3> QED
      BY <2>3, <3>1
  <2>10. Parte(fio, Inteira(PUBLICA, Frente \o Bytes("d", k)))
    BY <2>4, <2>6, <2>7
  <2>11. /\ mqtt_get_id(fio) = ID /\ mqtt_get_publish_topic(fio) = TOPICO
         /\ mqtt_get_publish_data(fio) = IF Len(fio) = d + 8 THEN NULO ELSE Bytes("d", Len(fio) - (d + 8))
    BY <2>3, <2>9, <2>10, PublicacaoLida
  <2> HIDE DEF d
  <2> QED
    BY <2>2, <2>9, <2>11
<1> QED
  BY <1>1, <1>2, <1>3, <1>4, <1>5

\* Whatever messages, finished or cut short, went through the buffer before, a message
\* that was written whole is given back by the functions of the receiver as it was
\* asked for, and the outbox has the same bytes; but for a message of the library's own
\* after a publication that found no memory for its item (mqtt_msg.c:98-139, 439-477,
\* mqtt_client.c:2142-2155, 2219-2250).
THEOREM MensagemChegaInteira == MsgInit /\ [][MsgNext]_msgVars => []MensagemInteira
<1>1. MsgInit => MsgInv
  BY MsgInvInit
<1>2. MsgInv /\ [MsgNext]_msgVars => MsgInv'
  BY MsgInvPasso
<1>3. MsgInv => MensagemInteira
  BY MsgInvMostra
<1> QED
  BY <1>1, <1>2, <1>3, PTL

(***************************************************************************)
(* The messages that arrive.                                               *)
(***************************************************************************)
\* The length of the fixed header of p.
Fixo(p) == Len(Digitos(Len(Conteudo(p)))) + 1
\* And of the whole of it.
Todo(p) == Len(Codifica(p))

\* Where the message i begins, or will begin.
Comeco(i) == IF i <= Len(pacotes) THEN comeco[i] ELSE Len(fluxo)

\* The stream has the bytes of p, from c on.
Posta(p, c) == c + Todo(p) <= Len(fluxo) /\ \A j \in 1 .. Todo(p) : fluxo[c + j] = Codifica(p)[j]

\* The stream is made of the messages sent, one right after another.
CorrenteInv ==
  /\ pacotes \in Seq(Mensagens) /\ comeco \in Seq(Nat) /\ Len(comeco) = Len(pacotes)
  /\ fluxo \in Seq(Byte)
  /\ Comeco(1) = 0
  /\ \A i \in 1 .. Len(pacotes) :
        /\ Comeco(i + 1) = comeco[i] + Todo(pacotes[i])
        /\ Posta(pacotes[i], comeco[i])

\* Before the end of p: what is in in_buffer, and the reading that goes on.
Lendo(p) ==
  /\ evento = SEM_EVENTO /\ junto = <<>> /\ lidos = 0
  /\ pos = comeco[Len(feitas) + 1] + Len(ent)
  /\ rpc = "tamanho" => Len(ent) < Fixo(p)
  /\ rpc \in {"total", "topico", "resto", "processa"} => Len(ent) >= Fixo(p)
  /\ rpc = "topico" => p.tipo = "PUBLISH" /\ Len(ent) < Fixo(p) + 2 /\ Todo(p) > BUF_ENTRADA
  /\ rpc \in {"resto", "processa"} => Todo(p) <= BUF_ENTRADA \/ p.tipo = "PUBLISH"
  /\ rpc = "resto" => alvo = Min2(Todo(p), BUF_ENTRADA)
  /\ rpc = "processa" => Len(ent) >= Min2(Todo(p), BUF_ENTRADA)
  /\ rpc \in {"recebe", "abortada", "tamanho", "total", "topico", "resto", "processa"}

\* A publication whose first data were delivered: the events so far are the data up
\* to the byte read last.
Entregando(p) ==
  /\ rpc \in {"mais", "puback"} /\ p.tipo = "PUBLISH"
  /\ Len(ent) >= Fixo(p) + 7
  /\ lidos \in Len(ent) .. Todo(p)
  /\ rpc = "puback" => lidos = Todo(p)
  /\ rpc = "mais" => lidos < Todo(p)
  /\ pos = comeco[Len(feitas) + 1] + lidos
  /\ junto = Bytes("d", lidos - (Fixo(p) + 7))
  /\ evento \in [topico : {TOPICO, NULO}, len : Nat, offset : Nat, total : Nat]
  /\ evento.offset + evento.len = lidos - (Fixo(p) + 7)
  /\ evento.total = Len(p.dados)
  /\ (evento.topico = TOPICO) = (evento.offset = 0 /\ evento.len = lidos - (Fixo(p) + 7) /\ lidos = Len(ent))

\* The messages done are those sent, and in_buffer has the beginning of the next.
LeitorInv ==
  /\ feitas \in Seq(Mensagens) /\ Len(feitas) <= Len(pacotes)
  /\ \A i \in 1 .. Len(feitas) : feitas[i] = pacotes[i]
  /\ \/ /\ ent = <<>> /\ rpc \in {"recebe", "primeiro"} /\ pos = Comeco(Len(feitas) + 1)
        /\ evento = SEM_EVENTO /\ junto = <<>> /\ lidos = 0
     \/ /\ Len(feitas) < Len(pacotes) /\ Len(ent) >= 1
        /\ Parte(ent, Codifica(pacotes[Len(feitas) + 1]))
        /\ Lendo(pacotes[Len(feitas) + 1]) \/ Entregando(pacotes[Len(feitas) + 1])

PacInv == CorrenteInv /\ desvio \in BOOLEAN /\ (desvio \/ LeitorInv)

\* The lengths of the payloads that arrive.
LEMMA CargaTipo ==
  ASSUME NEW k \in CARGAS
  PROVE  k \in Nat /\ k + 7 \in Comprimento /\ Len(Digitos(k + 7)) + 8 <= BUF_ENTRADA
<1>1. k \in Nat /\ k + 7 < BASE * BASE * BASE * BASE /\ Len(Digitos(k + 7)) + 8 <= BUF_ENTRADA
  BY PacAssumption
<1>2. k + 7 \in Nat
  BY <1>1
<1> QED
  BY <1>1, <1>2 DEF Comprimento

\* What the broker may send.
LEMMA MensagemTipo ==
  ASSUME NEW p \in Mensagens
  PROVE  /\ p = [tipo |-> p.tipo, id |-> p.id, dados |-> p.dados]
         /\ p.tipo \in {"PUBLISH", "PUBACK", "SUBACK", "PINGRESP"}
         /\ p.tipo = "PUBLISH" => p.id = ID /\ \E k \in CARGAS : p.dados = Bytes("d", k)
         /\ p.tipo # "PUBLISH" => p.dados = <<>>
         /\ p.tipo \in {"PUBACK", "SUBACK"} => p.id \in Nat
         /\ p.tipo = "PINGRESP" => p.id = 0
<1>1. \A id \in IDS_ : id \in Nat
  <2>1. BASE \in Nat /\ BASE * (2 * BASE) \in Nat
    BY Pesos
  <2> QED
    BY <2>1 DEF IDS_
<1>2. CASE p \in [tipo : {"PUBLISH"}, id : {ID}, dados : {Bytes("d", k) : k \in CARGAS}]
  BY <1>2
<1>3. CASE p \in [tipo : {"PUBACK", "SUBACK"}, id : IDS_, dados : {<<>>}]
  BY <1>1, <1>3
<1>4. CASE p \in [tipo : {"PINGRESP"}, id : {0}, dados : {<<>>}]
  BY <1>4
<1> QED
  BY <1>2, <1>3, <1>4 DEF Mensagens

\* A publication as bytes.
LEMMA PublicaForma ==
  ASSUME NEW p \in Mensagens, p.tipo = "PUBLISH"
  PROVE  \E k \in CARGAS :
           /\ p.dados = Bytes("d", k) /\ Len(p.dados) = k
           /\ Conteudo(p) = Frente \o Bytes("d", k)
           /\ Conteudo(p) \in Seq(Byte) /\ Len(Conteudo(p)) = k + 7
<1> PICK k \in CARGAS : p.dados = Bytes("d", k) /\ p.id = ID
  BY MensagemTipo
<1>1. k \in Nat
  BY CargaTipo
<1>2. Bytes("d", k) \in Seq(Byte) /\ Len(Bytes("d", k)) = k
  BY <1>1, BytesTipo DEF Marcas
<1>3. Conteudo(p) = Frente \o Bytes("d", k)
  BY DEF Conteudo, Frente
<1>4. Conteudo(p) \in Seq(Byte) /\ Len(Conteudo(p)) = Len(Frente) + Len(Bytes("d", k))
  BY <1>2, <1>3, FrenteTipo, JuntaTipo
<1>5. Len(Conteudo(p)) = k + 7
  BY <1>1, <1>2, <1>4, FrenteTipo
<1> QED
  BY <1>2, <1>3, <1>4, <1>5

\* One byte.
LEMMA SoUm ==
  ASSUME NEW z \in Byte
  PROVE  <<z>> \in Seq(Byte) /\ Len(<<z>>) = 1
OBVIOUS

\* Any other message as bytes.
LEMMA OutraForma ==
  ASSUME NEW p \in Mensagens, p.tipo # "PUBLISH"
  PROVE  /\ Conteudo(p) \in Seq(Byte) /\ Len(Conteudo(p)) \in 0 .. 3
         /\ p.tipo \in {"PUBACK", "SUBACK"} =>
              /\ Len(Conteudo(p)) >= 2
              /\ Conteudo(p)[1] = Dois(p.id)[1] /\ Conteudo(p)[2] = Dois(p.id)[2]
<1>1. CASE p.tipo = "PINGRESP"
  <2>1. Conteudo(p) = <<>>
    BY <1>1 DEF Conteudo
  <2> QED
    BY <1>1, <2>1
<1>2. CASE p.tipo = "PUBACK"
  <2>1. Conteudo(p) = Dois(p.id) /\ p.id \in Nat
    BY <1>2, MensagemTipo DEF Conteudo
  <2>2. Dois(p.id) \in Seq(Byte) /\ Len(Dois(p.id)) = 2
    BY <2>1, DoisTipo
  <2>3. PICK s \in Seq(Byte) : s = Dois(p.id)
    BY <2>2
  <2>12. Len(s) = 2
    BY <2>2, <2>3
  <2> QED
    BY <1>2, <2>1, <2>3, <2>12
<1>3. CASE p.tipo = "SUBACK"
  <2>1. Conteudo(p) = Dois(p.id) \o <<N(1)>> /\ p.id \in Nat
    BY <1>3, MensagemTipo DEF Conteudo
  <2>2. Dois(p.id) \in Seq(Byte) /\ Len(Dois(p.id)) = 2
    BY <2>1, DoisTipo
  <2>3. PICK s \in Seq(Byte) : s = Dois(p.id)
    BY <2>2
  <2>12. Len(s) = 2
    BY <2>2, <2>3
  <2>4. PICK y : y = N(1)
    OBVIOUS
  <2>13. y \in Byte
    <3>1. PICK u \in Int : u = 1
      OBVIOUS
    <3>2. y = <<"n", u>>
      BY <2>4, <3>1 DEF N
    <3>3. <<"n", u>> \in Byte
      BY DEF Byte, Marcas
    <3> QED
      BY <3>2, <3>3, Zenon
  <2>14. PICK z \in Byte : z = y
    BY <2>13
  <2>5. PICK t \in Seq(Byte) : t = <<z>> /\ Len(t) = 1
    BY SoUm
  <2>6. PICK w : w = s \o t
    OBVIOUS
  <2>7. /\ w \in Seq(Byte) /\ Len(w) = Len(s) + Len(t)
        /\ \A i \in 1 .. Len(s) + Len(t) : w[i] = IF i <= Len(s) THEN s[i] ELSE t[i - Len(s)]
    BY <2>6, Junta
  <2>8. Len(w) = 3 /\ w[1] = s[1] /\ w[2] = s[2]
    BY <2>5, <2>7, <2>12
  <2>9. Conteudo(p) = w
    BY <2>1, <2>3, <2>4, <2>5, <2>6, <2>14
  <2>10. Conteudo(p) \in Seq(Byte) /\ Len(Conteudo(p)) = 3
    BY <2>7, <2>8, <2>9
  <2>11. Conteudo(p)[1] = Dois(p.id)[1] /\ Conteudo(p)[2] = Dois(p.id)[2]
    BY <2>3, <2>8, <2>9
  <2> QED
    BY <2>10, <2>11
<1> QED
  BY <1>1, <1>2, <1>3, MensagemTipo

\* The first byte of p.
Primeiro(p) == <<p.tipo, IF p.tipo = "PUBLISH" THEN 1 ELSE 0>>

\* Every message is a first byte, the digits of its length, and its content.
LEMMA Forma ==
  ASSUME NEW p \in Mensagens
  PROVE  /\ Primeiro(p) \in Byte
         /\ Conteudo(p) \in Seq(Byte) /\ Len(Conteudo(p)) \in Comprimento
         /\ Codifica(p) = Inteira(Primeiro(p), Conteudo(p))
         /\ Codifica(p) \in Seq(Byte) /\ Todo(p) = Len(Conteudo(p)) + Fixo(p)
         /\ Fixo(p) \in 2 .. 5 /\ Todo(p) \in Nat /\ Todo(p) >= Fixo(p)
         /\ p.tipo # "PUBLISH" => Todo(p) <= BUF_ENTRADA
<1>1. Primeiro(p) \in Byte
  <2>1. p.tipo \in Marcas
    BY MensagemTipo DEF Marcas
  <2> QED
    BY <2>1 DEF Primeiro, Byte
<1>2. Conteudo(p) \in Seq(Byte) /\ Len(Conteudo(p)) \in Comprimento
  <2>1. CASE p.tipo = "PUBLISH"
    <3> PICK k \in CARGAS : Conteudo(p) \in Seq(Byte) /\ Len(Conteudo(p)) = k + 7
      BY <2>1, PublicaForma
    <3> QED
      BY CargaTipo
  <2>2. CASE p.tipo # "PUBLISH"
    <3>1. Conteudo(p) \in Seq(Byte) /\ Len(Conteudo(p)) \in 0 .. 26
      BY <2>2, OutraForma
    <3> QED
      BY <3>1, Pequeno
  <2> QED
    BY <2>1, <2>2
<1>3. Codifica(p) = Inteira(Primeiro(p), Conteudo(p))
  BY DEF Codifica, Inteira, Primeiro
<1>4. Len(Digitos(Len(Conteudo(p)))) \in 1 .. 4 /\ Len(Conteudo(p)) \in Nat
  BY <1>2, DigitosLidos
<1>5. Codifica(p) \in Seq(Byte) /\ Todo(p) = Len(Conteudo(p)) + Len(Digitos(Len(Conteudo(p)))) + 1
  BY <1>1, <1>2, <1>3, InteiraLida DEF Todo
<1>6. Fixo(p) \in 2 .. 5 /\ Todo(p) = Len(Conteudo(p)) + Fixo(p)
  <2>1. PICK k \in 1 .. 4 : k = Len(Digitos(Len(Conteudo(p))))
    BY <1>4
  <2>2. PICK n \in Nat : n = Len(Conteudo(p))
    BY <1>4
  <2>3. Todo(p) = n + k + 1 /\ Fixo(p) = k + 1
    BY <1>5, <2>1, <2>2 DEF Fixo
  <2>4. Todo(p) = n + Fixo(p) /\ Fixo(p) \in 2 .. 5
    BY <2>1, <2>3
  <2> QED
    BY <2>2, <2>4
<1>7. ASSUME p.tipo # "PUBLISH" PROVE Todo(p) <= BUF_ENTRADA
  <2>1. Len(Conteudo(p)) \in 0 .. 3 /\ BASE > 3 /\ BASE \in Nat /\ BUF_ENTRADA >= 5 /\ BUF_ENTRADA \in Nat
    BY <1>7, OutraForma, PacAssumption, Pesos
  <2>2. PICK n \in Comprimento : n = Len(Conteudo(p)) /\ n \in 0 .. 3
    BY <1>2, <2>1
  <2>3. Len(Digitos(n)) = 1
    BY <2>1, <2>2, UmDigito
  <2>4. Fixo(p) = 2
    BY <2>2, <2>3 DEF Fixo
  <2>5. Todo(p) = n + 2
    BY <1>6, <2>2, <2>4
  <2> QED
    BY <2>1, <2>2, <2>5
<1>8. Todo(p) \in Nat /\ Todo(p) >= Fixo(p)
  BY <1>4, <1>6
<1> QED
  BY <1>1, <1>2, <1>3, <1>5, <1>6, <1>7, <1>8

\* The beginning of a message tells where it is: inside its fixed header, every
\* byte but the first has its flag; after it, the length is known.
LEMMA ComecoLido ==
  ASSUME NEW p \in Mensagens, NEW b, Parte(b, Codifica(p)), Len(b) >= 1
  PROVE  /\ b \in Seq(Byte) /\ Len(b) \in 1 .. Todo(p) /\ b[1] = Primeiro(p)
         /\ Len(b) < Fixo(p) => \A j \in 2 .. Len(b) : Alto(b[j])
         /\ Len(b) >= Fixo(p) => /\ TamanhoFixo(b) = Fixo(p) /\ mqtt_get_total_length(b) = Todo(p)
                                 /\ ~Alto(b[Fixo(p)])
<1> DEFINE n == Len(Conteudo(p))
           k == Len(Digitos(n))
<1>1. /\ Primeiro(p) \in Byte /\ Conteudo(p) \in Seq(Byte) /\ n \in Comprimento
      /\ Codifica(p) = Inteira(Primeiro(p), Conteudo(p)) /\ Todo(p) = n + Fixo(p)
      /\ Fixo(p) = k + 1 /\ Todo(p) \in Nat /\ Todo(p) = Len(Codifica(p))
  BY Forma DEF Fixo, Todo
<1>2. Codifica(p)[1] = Primeiro(p) /\ \A j \in 1 .. k : Codifica(p)[j + 1] = Digitos(n)[j]
  BY <1>1, InteiraLida
<1>3. k \in 1 .. 4 /\ \A j \in 1 .. k : Alto(Digitos(n)[j]) <=> j < k
  BY <1>1, DigitosLidos
<1>4. b \in Seq(Byte) /\ Len(b) \in 1 .. Todo(p) /\ \A i \in 1 .. Len(b) : b[i] = Codifica(p)[i]
  BY <1>1 DEF Parte
<1>5. ASSUME Len(b) >= Fixo(p) PROVE TamanhoFixo(b) = Fixo(p) /\ mqtt_get_total_length(b) = Todo(p)
  <2>1. PICK x \in Seq(Byte) : x = Conteudo(p)
    BY <1>1
  <2>2. PICK h \in Byte : h = Primeiro(p)
    BY <1>1
  <2>3. Len(x) \in Comprimento /\ Parte(b, Inteira(h, x)) /\ Len(b) >= Len(Digitos(Len(x))) + 1
    BY <1>1, <1>5, <2>1, <2>2
  <2>4. TamanhoFixo(b) = Len(Digitos(Len(x))) + 1
    BY <2>3, ParteLida
  <2>5. mqtt_get_total_length(b) = Len(x) + Len(Digitos(Len(x))) + 1
    BY <2>3, ParteLida
  <2>6. k = Len(Digitos(Len(x))) /\ n = Len(x)
    BY <2>1
  <2> HIDE DEF k, n
  <2>7. n \in Nat
    BY <1>1 DEF Comprimento
  <2> QED
    BY <1>1, <1>3, <2>4, <2>5, <2>6, <2>7
<1> HIDE DEF k, n
<1>6. b[1] = Primeiro(p)
  BY <1>2, <1>4
<1>7. ASSUME NEW j \in 2 .. Len(b), j <= k + 1 PROVE Alto(b[j]) <=> j < k + 1
  <2>1. j - 1 \in 1 .. k /\ (j - 1) + 1 = j /\ j \in 1 .. Len(b)
    BY <1>3, <1>4, <1>7
  <2>2. b[j] = Digitos(n)[j - 1]
    BY <1>2, <1>4, <2>1
  <2>3. (j - 1 < k) = (j < k + 1)
    BY <1>3, <2>1
  <2> QED
    BY <1>3, <2>1, <2>2, <2>3
<1>8. ASSUME Len(b) < Fixo(p) PROVE \A j \in 2 .. Len(b) : Alto(b[j])
  BY <1>1, <1>3, <1>4, <1>7, <1>8
<1>9. ASSUME Len(b) >= Fixo(p) PROVE ~Alto(b[Fixo(p)])
  <2>1. Fixo(p) \in 2 .. Len(b)
    BY <1>1, <1>3, <1>4, <1>9
  <2> QED
    BY <1>1, <1>3, <1>7, <2>1
<1> QED
  BY <1>4, <1>5, <1>6, <1>8, <1>9

\* The bytes that a reading returns.
LEMMA TrechoLido ==
  ASSUME fluxo \in Seq(Byte), pos \in Nat, NEW r \in Nat, pos + r <= Len(fluxo)
  PROVE  /\ Trecho(r) \in Seq(Byte) /\ Len(Trecho(r)) = r
         /\ \A i \in 1 .. r : Trecho(r)[i] = fluxo[pos + i]
<1>1. \A i \in pos + 1 .. pos + r : fluxo[i] \in Byte
  <2> SUFFICES ASSUME NEW i \in pos + 1 .. pos + r PROVE fluxo[i] \in Byte
    OBVIOUS
  <2>1. i \in 1 .. Len(fluxo)
    BY LenProperties
  <2> QED
    BY <2>1, ElementOfSeq
<1>2. (IF pos + 1 <= pos + r THEN (pos + r) - (pos + 1) + 1 ELSE 0) = r /\ (pos + r) - (pos + 1) + 1 = r
      /\ \A i \in 1 .. r : pos + 1 + i - 1 = pos + i
  OBVIOUS
<1>3. pos + 1 \in Int /\ pos + r \in Int
  OBVIOUS
<1> QED
  BY <1>1, <1>2, <1>3, SubSeqProperties DEF Trecho

\* What is read after the beginning of a message is more of the message.
LEMMA Estende ==
  ASSUME fluxo \in Seq(Byte), NEW p \in Mensagens, NEW c \in Nat, Posta(p, c),
         NEW b, Parte(b, Codifica(p)), pos = c + Len(b),
         NEW r \in Nat, Len(b) + r <= Todo(p)
  PROVE  Parte(b \o Trecho(r), Codifica(p)) /\ Len(b \o Trecho(r)) = Len(b) + r
<1> DEFINE w == b \o Trecho(r)
<1>1. b \in Seq(Byte) /\ Len(b) \in Nat /\ Todo(p) \in Nat /\ \A i \in 1 .. Len(b) : b[i] = Codifica(p)[i]
  BY Forma, LenProperties DEF Parte
<1>12. c + Todo(p) <= Len(fluxo) /\ \A j \in 1 .. Todo(p) : fluxo[c + j] = Codifica(p)[j]
  BY DEF Posta
<1>2. PICK l \in Nat : l = Len(b)
  BY <1>1
<1>3. pos \in Nat /\ pos + r <= Len(fluxo) /\ pos = c + l /\ l + r <= Todo(p)
  <2>1. PICK n \in Nat, z \in Nat : n = Todo(p) /\ z = Len(fluxo)
    BY <1>1, LenProperties
  <2>2. pos = c + l /\ l + r <= n /\ c + n <= z
    BY <1>2, <1>12, <2>1
  <2>3. pos \in Nat /\ pos + r <= z
    BY <2>2
  <2> QED
    BY <2>1, <2>2, <2>3
<1>4. Trecho(r) \in Seq(Byte) /\ Len(Trecho(r)) = r /\ \A i \in 1 .. r : Trecho(r)[i] = fluxo[pos + i]
  BY <1>3, TrechoLido
<1>5. PICK t \in Seq(Byte) : t = Trecho(r)
  BY <1>4
<1>6. w = b \o t
  BY <1>5
<1> HIDE DEF w
<1>7. /\ w \in Seq(Byte) /\ Len(w) = Len(b) + Len(t)
      /\ \A i \in 1 .. Len(b) + Len(t) : w[i] = IF i <= Len(b) THEN b[i] ELSE t[i - Len(b)]
  BY <1>1, <1>6, Junta
<1>8. Len(t) = r /\ \A i \in 1 .. r : t[i] = fluxo[pos + i]
  BY <1>4, <1>5
<1>9. ASSUME NEW i \in 1 .. l + r PROVE w[i] = Codifica(p)[i]
  <2>1. w[i] = IF i <= l THEN b[i] ELSE t[i - l]
    BY <1>2, <1>7, <1>8, <1>9
  <2>2. CASE i <= l
    <3>1. i \in 1 .. Len(b) /\ w[i] = b[i]
      BY <1>2, <2>1, <2>2
    <3> QED
      BY <1>1, <3>1
  <2>3. CASE i > l
    <3>1. i - l \in 1 .. r /\ pos + (i - l) = c + i /\ i \in 1 .. Todo(p)
      BY <1>1, <1>2, <1>3, <2>3
    <3>2. w[i] = t[i - l]
      BY <2>1, <2>3
    <3>3. t[i - l] = fluxo[c + i]
      BY <1>8, <3>1
    <3>4. fluxo[c + i] = Codifica(p)[i]
      BY <1>12, <3>1
    <3> QED
      BY <3>2, <3>3, <3>4
  <2> QED
    BY <2>2, <2>3
<1>10. Len(w) = l + r
  BY <1>2, <1>7, <1>8
<1>11. Parte(w, Codifica(p))
  BY <1>3, <1>7, <1>9, <1>10 DEF Parte, Todo
<1> QED
  BY <1>2, <1>10, <1>11 DEF w

\* What is read inside the data of a publication is more of the data.
LEMMA EstendeDados ==
  ASSUME fluxo \in Seq(Byte), NEW p \in Mensagens, p.tipo = "PUBLISH",
         NEW c \in Nat, Posta(p, c),
         NEW j \in Nat, pos = c + Fixo(p) + 7 + j,
         NEW r \in Nat, Fixo(p) + 7 + j + r <= Todo(p)
  PROVE  Bytes("d", j) \o Trecho(r) = Bytes("d", j + r)
<1> DEFINE w == Bytes("d", j) \o Trecho(r)
<1>16. PICK g \in 2 .. 5 : g = Fixo(p)
  BY Forma
<1>17. PICK f \in Nat : f = g + 7
  OBVIOUS
<1>1. PICK k \in CARGAS : Conteudo(p) = Frente \o Bytes("d", k) /\ Len(Conteudo(p)) = k + 7
  BY PublicaForma
<1>2. k \in Nat
  BY CargaTipo
<1>3. Todo(p) = k + f /\ Todo(p) \in Nat
  <2>1. PICK n \in Nat : n = Todo(p) /\ n = Len(Conteudo(p)) + Fixo(p)
    BY Forma
  <2>2. n = (k + 7) + g
    BY <1>1, <1>16, <2>1
  <2>3. n = k + f
    BY <1>2, <1>17, <2>2
  <2> QED
    BY <2>1, <2>3
<1>4. \A i \in 1 .. k : Codifica(p)[f + i] = <<"d", i>>
  <2>1. PICK x \in Seq(Byte) : x = Conteudo(p)
    BY Forma
  <2>2. PICK h \in Byte : h = Primeiro(p)
    BY Forma
  <2>3. Codifica(p) = Inteira(h, x) /\ Len(x) \in Comprimento /\ Len(x) = k + 7
    BY <1>1, <2>1, <2>2, Forma
  <2>4. \A i \in 1 .. Len(x) : Inteira(h, x)[Len(Digitos(Len(x))) + 1 + i] = x[i]
    BY <2>3, InteiraLida
  <2>5. Fixo(p) = Len(Digitos(Len(x))) + 1
    BY <2>1 DEF Fixo
  <2>6. PICK e \in Seq(Byte) : e = Bytes("d", k) /\ Len(e) = k /\ \A i \in 1 .. k : e[i] = <<"d", i>>
    BY <1>2, BytesTipo DEF Marcas
  <2>13. PICK a \in Seq(Byte) : a = Frente /\ Len(a) = 7
    BY FrenteTipo
  <2>7. x = a \o e
    BY <1>1, <2>1, <2>6, <2>13
  <2>8. \A i \in 1 .. Len(a) + Len(e) : x[i] = IF i <= Len(a) THEN a[i] ELSE e[i - Len(a)]
    BY <2>7, Junta
  <2> SUFFICES ASSUME NEW i \in 1 .. k PROVE Codifica(p)[f + i] = <<"d", i>>
    OBVIOUS
  <2>9. 7 + i \in 1 .. 7 + k /\ ~(7 + i <= 7) /\ (7 + i) - 7 = i /\ 7 + i \in 1 .. Len(x)
    BY <1>2, <2>3
  <2>10. x[7 + i] = e[i]
    <3>1. PICK y : y = 7 + i
      OBVIOUS
    <3>2. y \in 1 .. Len(a) + Len(e) /\ ~(y <= Len(a)) /\ y - Len(a) = i
      BY <1>2, <2>6, <2>13, <3>1
    <3>3. x[y] = e[y - Len(a)]
      BY <2>8, <3>2
    <3> QED
      BY <3>1, <3>2, <3>3
  <2>11. Inteira(h, x)[Len(Digitos(Len(x))) + 1 + (7 + i)] = x[7 + i]
    BY <2>4, <2>9
  <2>12. g + (7 + i) = f + i
    BY <1>17
  <2>14. Inteira(h, x)[f + i] = x[7 + i]
    BY <1>16, <2>5, <2>11, <2>12
  <2>15. e[i] = <<"d", i>>
    BY <2>6
  <2>16. Codifica(p)[f + i] = e[i]
    BY <2>3, <2>10, <2>14
  <2> QED
    BY <2>15, <2>16, Zenon
<1>5. pos \in Nat /\ pos = c + f + j /\ f + j + r <= Todo(p)
  <2>1. pos = c + g + 7 + j /\ g + 7 + j + r <= Todo(p)
    BY <1>16
  <2>2. c + g + 7 + j = c + f + j /\ g + 7 + j + r = f + j + r /\ c + f + j \in Nat
    BY <1>17
  <2> QED
    BY <2>1, <2>2
<1>18. c + Todo(p) <= Len(fluxo) /\ \A i \in 1 .. Todo(p) : fluxo[c + i] = Codifica(p)[i]
  BY DEF Posta
<1>6. pos + r <= Len(fluxo)
  <2>1. PICK n \in Nat, z \in Nat : n = Todo(p) /\ z = Len(fluxo)
    BY <1>3, LenProperties
  <2>2. pos = c + f + j /\ f + j + r <= n /\ c + n <= z
    BY <1>5, <1>18, <2>1
  <2>3. pos + r <= z
    BY <2>2
  <2> QED
    BY <2>1, <2>3
<1>7. Trecho(r) \in Seq(Byte) /\ Len(Trecho(r)) = r /\ \A i \in 1 .. r : Trecho(r)[i] = fluxo[pos + i]
  BY <1>5, <1>6, TrechoLido
<1>8. PICK t \in Seq(Byte) : t = Trecho(r)
  BY <1>7
<1>9. Len(t) = r /\ \A i \in 1 .. r : t[i] = fluxo[pos + i]
  BY <1>7, <1>8
<1>10. PICK a \in Seq(Byte) : a = Bytes("d", j) /\ Len(a) = j /\ \A i \in 1 .. j : a[i] = <<"d", i>>
  BY BytesTipo DEF Marcas
<1>11. PICK u \in Seq(Byte) : u = Bytes("d", j + r) /\ Len(u) = j + r /\ \A i \in 1 .. j + r : u[i] = <<"d", i>>
  <2>1. j + r \in Nat
    OBVIOUS
  <2> QED
    BY <2>1, BytesTipo DEF Marcas
<1>12. w = a \o t
  BY <1>8, <1>10
<1> HIDE DEF w
<1>13. /\ w \in Seq(Byte) /\ Len(w) = Len(a) + Len(t)
       /\ \A i \in 1 .. Len(a) + Len(t) : w[i] = IF i <= Len(a) THEN a[i] ELSE t[i - Len(a)]
  BY <1>12, Junta
<1>14. ASSUME NEW i \in 1 .. j + r PROVE w[i] = u[i]
  <2>1. w[i] = IF i <= j THEN a[i] ELSE t[i - j]
    BY <1>9, <1>10, <1>13
  <2>2. CASE i <= j
    <3>1. i \in 1 .. j /\ w[i] = a[i]
      BY <2>1, <2>2
    <3> QED
      BY <1>10, <1>11, <3>1
  <2>3. CASE i > j
    <3>5. PICK n \in Nat : n = Todo(p)
      BY <1>3
    <3>6. n = k + f /\ f + j + r <= n /\ pos = c + f + j
      BY <1>3, <1>5, <3>5
    <3>8. i - j \in 1 .. r
      BY <2>3
    <3>9. pos + (i - j) = c + (f + i)
      <4>1. (c + f + j) + (i - j) = c + (f + i)
        OBVIOUS
      <4> QED
        BY <3>6, <4>1
    <3>10. f + i \in 1 .. n /\ i \in 1 .. k
      BY <1>2, <3>6
    <3>7. i - j \in 1 .. r /\ pos + (i - j) = c + (f + i) /\ f + i \in 1 .. n /\ i \in 1 .. k
      BY <3>8, <3>9, <3>10
    <3>1. i - j \in 1 .. r /\ pos + (i - j) = c + (f + i) /\ f + i \in 1 .. Todo(p) /\ i \in 1 .. k
      BY <3>5, <3>7
    <3>2. w[i] = t[i - j]
      BY <2>1, <2>3
    <3>3. t[i - j] = fluxo[c + (f + i)]
      BY <1>9, <3>1
    <3>4. fluxo[c + (f + i)] = Codifica(p)[f + i]
      BY <1>18, <3>1
    <3> QED
      BY <1>4, <1>11, <3>1, <3>2, <3>3, <3>4
  <2> QED
    BY <2>2, <2>3
<1>15. w = u
  BY <1>9, <1>10, <1>11, <1>13, <1>14, SeqEqual
<1> QED
  BY <1>11, <1>15 DEF w

\* The message that is being read, and where it is in the stream.
LEMMA Atual ==
  ASSUME CorrenteInv, LeitorInv, ent # <<>> \/ rpc \notin {"recebe", "primeiro"}
  PROVE  /\ Len(feitas) < Len(pacotes) /\ Len(feitas) \in Nat /\ Len(ent) >= 1
         /\ \E q \in Mensagens, c \in Nat :
              /\ q = pacotes[Len(feitas) + 1] /\ c = comeco[Len(feitas) + 1]
              /\ Posta(q, c) /\ Comeco(Len(feitas) + 2) = c + Todo(q)
              /\ Parte(ent, Codifica(q)) /\ (Lendo(q) \/ Entregando(q))
<1>1. /\ Len(feitas) < Len(pacotes) /\ Len(ent) >= 1
      /\ Parte(ent, Codifica(pacotes[Len(feitas) + 1]))
      /\ Lendo(pacotes[Len(feitas) + 1]) \/ Entregando(pacotes[Len(feitas) + 1])
  BY DEF LeitorInv
<1>2. Len(feitas) \in Nat /\ Len(pacotes) \in Nat
  BY LenProperties DEF LeitorInv, CorrenteInv
<1>3. PICK i \in 1 .. Len(pacotes) : i = Len(feitas) + 1
  BY <1>1, <1>2
<1>4. /\ Comeco(i + 1) = comeco[i] + Todo(pacotes[i])
      /\ Posta(pacotes[i], comeco[i])
  BY DEF CorrenteInv
<1>5. pacotes[i] \in Mensagens /\ comeco[i] \in Nat
  BY ElementOfSeq DEF CorrenteInv
<1>6. PICK q \in Mensagens, c \in Nat : q = pacotes[i] /\ c = comeco[i]
  BY <1>5
<1>7. i + 1 = Len(feitas) + 2
  BY <1>2, <1>3
<1>8. /\ q = pacotes[Len(feitas) + 1] /\ c = comeco[Len(feitas) + 1]
      /\ Posta(q, c) /\ Comeco(Len(feitas) + 2) = c + Todo(q)
  BY <1>3, <1>4, <1>6, <1>7
<1>9. Parte(ent, Codifica(q)) /\ (Lendo(q) \/ Entregando(q))
  BY <1>1, <1>8
<1> QED
  BY <1>1, <1>2, <1>8, <1>9

\* A step inside a message.
LEMMA Segue ==
  ASSUME LeitorInv, UNCHANGED <<pacotes, feitas>>, Len(feitas) < Len(pacotes),
         NEW q \in Mensagens, q = pacotes[Len(feitas) + 1],
         Len(ent') >= 1, Parte(ent', Codifica(q)), Lendo(q)' \/ Entregando(q)'
  PROVE  LeitorInv'
<1>1. q = pacotes'[Len(feitas') + 1]
  OBVIOUS
<1>2. Lendo(pacotes[Len(feitas) + 1])' \/ Entregando(pacotes[Len(feitas) + 1])'
  BY <1>1 DEF Lendo, Entregando
<1>3. Parte(ent', Codifica(pacotes[Len(feitas) + 1])')
  BY <1>1
<1> QED
  BY <1>2, <1>3 DEF LeitorInv

\* What was done before tells where the reading goes on.
LEMMA RecebePasso ==
  ASSUME CorrenteInv, LeitorInv, Recebe, ~desvio'
  PROVE  LeitorInv'
<1>1. /\ rpc = "recebe" /\ ~(ent # <<>> /\ Enganado(ent))
      /\ rpc' = CASE ent = <<>> -> "primeiro"
                  [] ent # <<>> /\ FaltaTamanho(ent) -> "tamanho"
                  [] OTHER -> "total"
      /\ pacotes' = pacotes /\ comeco' = comeco /\ fluxo' = fluxo /\ pos' = pos /\ ent' = ent /\ alvo' = alvo
      /\ lidos' = lidos /\ evento' = evento /\ junto' = junto /\ feitas' = feitas
  BY DEF Recebe
<1>2. CASE ent = <<>>
  <2>1. rpc' = "primeiro"
    BY <1>1, <1>2
  <2>2. ent = <<>> /\ pos = Comeco(Len(feitas) + 1) /\ evento = SEM_EVENTO /\ junto = <<>> /\ lidos = 0
    BY <1>2, EmptySeq DEF LeitorInv
  <2> QED
    BY <1>1, <2>1, <2>2 DEF LeitorInv, Comeco
<1>3. CASE ent # <<>>
  <2>1. Len(feitas) < Len(pacotes) /\ Len(ent) >= 1
    BY <1>3, Atual
  <2>2. PICK q \in Mensagens : q = pacotes[Len(feitas) + 1] /\ Parte(ent, Codifica(q)) /\ (Lendo(q) \/ Entregando(q))
    BY <1>3, Atual
  <2>3. Lendo(q)
    BY <1>1, <2>2 DEF Entregando
  <2>4. /\ Len(ent) \in 1 .. Todo(q)
        /\ Len(ent) < Fixo(q) => \A j \in 2 .. Len(ent) : Alto(ent[j])
        /\ Len(ent) >= Fixo(q) => ~Alto(ent[Fixo(q)])
    BY <2>1, <2>2, ComecoLido
  <2>5. Fixo(q) \in 2 .. 5 /\ Todo(q) \in Nat
    BY Forma
  <2>6. CASE FaltaTamanho(ent)
    <3>1. rpc' = "tamanho"
      BY <1>1, <1>3, <2>6
    <3>2. \A i \in 2 .. Len(ent) : Alto(ent[i])
      BY <1>1, <1>3, <2>6 DEF Enganado
    <3>3. Len(ent) < Fixo(q)
      BY <2>4, <2>5, <3>2
    <3>4. Lendo(q)'
      BY <1>1, <2>3, <3>1, <3>3 DEF Lendo
    <3> QED
      BY <1>1, <2>1, <2>2, <3>4, Segue
  <2>7. CASE ~FaltaTamanho(ent)
    <3>1. rpc' = "total"
      BY <1>1, <1>3, <2>7
    <3>2. Len(ent) # 1 /\ (Len(ent) >= 6 \/ ~Alto(ent[Len(ent)]))
      BY <2>4, <2>7 DEF FaltaTamanho
    <3>3. Len(ent) >= Fixo(q)
      <4> SUFFICES ASSUME Len(ent) < Fixo(q) PROVE FALSE
        BY <2>4, <2>5
      <4>1. Len(ent) \in 2 .. 4
        <5>1. Len(ent) # 1
          BY <3>2
        <5>2. PICK g \in 2 .. 5 : g = Fixo(q)
          BY <2>5
        <5>3. PICK l \in Nat : l = Len(ent) /\ l >= 1
          BY <2>4, <2>5
        <5>4. l \in 2 .. 4
          BY <5>1, <5>2, <5>3
        <5> QED
          BY <5>3, <5>4
      <4>2. Alto(ent[Len(ent)])
        BY <2>4, <4>1
      <4> QED
        BY <3>2, <4>1, <4>2
    <3>4. Lendo(q)'
      BY <1>1, <2>3, <3>1, <3>3 DEF Lendo
    <3> QED
      BY <1>1, <2>1, <2>2, <3>4, Segue
  <2> QED
    BY <2>6, <2>7
<1> QED
  BY <1>2, <1>3

\* A call that reads no more leaves what was read.
LEMMA InterrompidaPasso ==
  ASSUME CorrenteInv, LeitorInv, rpc \in {"tamanho", "topico", "resto"}, Interrompida
  PROVE  LeitorInv'
<1>1. /\ rpc' \in {"abortada", "recebe"}
      /\ pacotes' = pacotes /\ comeco' = comeco /\ fluxo' = fluxo /\ pos' = pos /\ ent' = ent /\ alvo' = alvo
      /\ lidos' = lidos /\ evento' = evento /\ junto' = junto /\ feitas' = feitas
  BY DEF Interrompida
<1>2. Len(feitas) < Len(pacotes) /\ Len(ent) >= 1
  BY Atual
<1>3. PICK q \in Mensagens : q = pacotes[Len(feitas) + 1] /\ Parte(ent, Codifica(q)) /\ (Lendo(q) \/ Entregando(q))
  BY Atual
<1>4. Lendo(q)
  BY <1>3 DEF Entregando
<1>5. Lendo(q)'
  BY <1>1, <1>4 DEF Lendo
<1> QED
  BY <1>1, <1>2, <1>3, <1>5, Segue

\* A reading that goes no further than the message.
LEMMA GuardaPasso ==
  ASSUME CorrenteInv, LeitorInv, rpc \notin {"recebe", "primeiro", "mais", "puback"},
         NEW q \in Mensagens, q = pacotes[Len(feitas) + 1], NEW r \in Nat, Guarda(r), Len(ent) + r <= Todo(q)
  PROVE  /\ Parte(ent', Codifica(q)) /\ Len(ent') = Len(ent) + r /\ Len(ent') >= 1
         /\ pos' = comeco[Len(feitas) + 1] + Len(ent')
<1>1. Len(ent) >= 1
  BY Atual
<1>2. PICK p \in Mensagens, c \in Nat :
        /\ p = pacotes[Len(feitas) + 1] /\ c = comeco[Len(feitas) + 1]
        /\ Posta(p, c)
        /\ Parte(ent, Codifica(p)) /\ (Lendo(p) \/ Entregando(p))
  BY Atual
<1>3. p = q /\ Len(ent) + r <= Todo(p)
  BY <1>2
<1>4. pos = c + Len(ent) /\ Len(ent) \in Nat
  BY <1>2, LenProperties DEF Entregando, Lendo, Parte
<1>5. fluxo \in Seq(Byte)
  BY DEF CorrenteInv
<1>10. /\ Posta(p, c)
       /\ Parte(ent, Codifica(p)) /\ pos = c + Len(ent) /\ Len(ent) + r <= Todo(p)
  BY <1>2, <1>3, <1>4
<1>6. Parte(ent \o Trecho(r), Codifica(p)) /\ Len(ent \o Trecho(r)) = Len(ent) + r
  BY <1>5, <1>10, Estende
<1>7. ent' = ent \o Trecho(r) /\ pos' = pos + r
  BY DEF Guarda
<1>8. Len(ent') = Len(ent) + r /\ Parte(ent', Codifica(q))
  BY <1>3, <1>6, <1>7
<1>9. pos' = c + (Len(ent) + r) /\ Len(ent) + r >= 1
  BY <1>1, <1>4, <1>7
<1> QED
  BY <1>2, <1>8, <1>9

\* A reading returns no more than it asked for, and no more than has arrived.
LEMMA ChegaTipo ==
  ASSUME fluxo \in Seq(Byte), pos \in Nat, NEW k \in Int, NEW r, Chega(r, k)
  PROVE  r \in Nat /\ r >= 1 /\ r <= k /\ pos + r <= Len(fluxo)
<1>1. PICK l \in Nat : l = Len(fluxo)
  BY LenProperties
<1>2. r \in 1 .. IF k < l - pos THEN k ELSE l - pos
  BY <1>1 DEF Chega, Min2
<1>3. r \in Nat /\ r >= 1 /\ r <= k /\ pos + r <= l
  BY <1>2
<1> QED
  BY <1>1, <1>3

\* A byte is read only of a message that was sent, and it begins one.
LEMMA LePrimeiroPasso ==
  ASSUME CorrenteInv, LeitorInv, LePrimeiro
  PROVE  LeitorInv'
<1>1. rpc = "primeiro" /\ comeco' = comeco /\ fluxo' = fluxo /\ pacotes' = pacotes /\ feitas' = feitas
      /\ lidos' = lidos /\ evento' = evento /\ junto' = junto
  BY DEF LePrimeiro, Erro
<1>2. ent = <<>> /\ pos = Comeco(Len(feitas) + 1) /\ evento = SEM_EVENTO /\ junto = <<>> /\ lidos = 0
  BY <1>1 DEF LeitorInv, Lendo, Entregando
<1>3. CASE rpc' = "recebe" /\ UNCHANGED <<pacotes, comeco, fluxo, pos, ent, antes, alvo, lidos, evento, junto, feitas, desvio>>
  <2>1. ent' = <<>> /\ pos' = pos
    BY <1>2, <1>3
  <2> QED
    BY <1>1, <1>2, <1>3, <2>1 DEF LeitorInv, Comeco
<1>4. ASSUME Chega(1, 1)
      PROVE  /\ Len(feitas) < Len(pacotes)
             /\ \E q \in Mensagens, c \in Nat :
                  /\ q = pacotes[Len(feitas) + 1] /\ c = comeco[Len(feitas) + 1] /\ pos = c
                  /\ Posta(q, c)
  <2>1. PICK r \in Nat : r = 1
    OBVIOUS
  <2>2. Chega(r, r)
    BY <1>4, <2>1
  <2>3. Len(feitas) \in Nat /\ Len(pacotes) \in Nat /\ Len(feitas) <= Len(pacotes) /\ fluxo \in Seq(Byte)
        /\ Len(comeco) = Len(pacotes)
    BY LenProperties DEF LeitorInv, CorrenteInv
  <2>4. PICK i \in Nat : i = Len(feitas) + 1
    BY <2>3
  <2>5. pos \in Nat
    <3>1. CASE i <= Len(pacotes)
      <4>1. i \in 1 .. Len(pacotes)
        BY <2>3, <2>4, <3>1
      <4>2. comeco[i] \in Nat
        BY <2>3, <4>1, ElementOfSeq DEF CorrenteInv
      <4> QED
        BY <1>2, <2>4, <3>1, <4>2 DEF Comeco
    <3>2. CASE ~(i <= Len(pacotes))
      <4>1. Len(fluxo) \in Nat
        BY <2>3, LenProperties
      <4> QED
        BY <1>2, <2>4, <3>2, <4>1 DEF Comeco
    <3> QED
      BY <3>1, <3>2
  <2>6. pos + r <= Len(fluxo)
    BY <2>2, <2>3, <2>5, ChegaTipo
  <2>7. i <= Len(pacotes)
    <3> SUFFICES ASSUME ~(i <= Len(pacotes)) PROVE FALSE
      OBVIOUS
    <3>1. pos = Len(fluxo)
      BY <1>2, <2>4 DEF Comeco
    <3> QED
      BY <2>1, <2>5, <2>6, <3>1
  <2>8. i \in 1 .. Len(pacotes)
    BY <2>3, <2>4, <2>7
  <2>9. /\ Posta(pacotes[i], comeco[i])
    BY <2>8 DEF CorrenteInv
  <2>10. pacotes[i] \in Mensagens /\ comeco[i] \in Nat
    BY <2>3, <2>8, ElementOfSeq DEF CorrenteInv
  <2>11. PICK q \in Mensagens, c \in Nat : q = pacotes[i] /\ c = comeco[i]
    BY <2>10
  <2>12. pos = c
    BY <1>2, <2>4, <2>7, <2>11 DEF Comeco
  <2>13. Len(feitas) < Len(pacotes)
    BY <2>3, <2>4, <2>7
  <2>14. /\ q = pacotes[Len(feitas) + 1] /\ c = comeco[Len(feitas) + 1] /\ pos = c
         /\ Posta(q, c)
    BY <2>4, <2>9, <2>11, <2>12
  <2> QED
    BY <2>13, <2>14
<1>5. ASSUME Chega(1, 1)
      PROVE  /\ mqtt_has_valid_msg_hdr(Trecho(1))
             /\ Guarda(1) /\ rpc' = "tamanho" => LeitorInv'
  <2>1. PICK q \in Mensagens, c \in Nat :
                  /\ q = pacotes[Len(feitas) + 1] /\ c = comeco[Len(feitas) + 1] /\ pos = c
                  /\ Posta(q, c)
    BY <1>4, <1>5
  <2>2. Len(feitas) < Len(pacotes)
    BY <1>4, <1>5
  <2>3. PICK r \in Nat : r = 1
    OBVIOUS
  <2>4. fluxo \in Seq(Byte) /\ Todo(q) \in Nat /\ Fixo(q) \in 2 .. 5 /\ Todo(q) >= Fixo(q)
    BY Forma DEF CorrenteInv
  <2>5. PICK b \in Seq(Byte) : b = <<>>
    BY EmptySeq
  <2>6. Len(b) = 0 /\ Parte(b, Codifica(q))
    <3>1. Len(b) = 0
      BY <2>5, EmptySeq
    <3>2. Len(Codifica(q)) \in Nat
      BY <2>4 DEF Todo
    <3> QED
      BY <3>1, <3>2 DEF Parte
  <2>7. pos = c + Len(b) /\ Len(b) + r <= Todo(q)
    BY <2>1, <2>3, <2>4, <2>6
  <2>17. /\ Posta(q, c)
         /\ Parte(b, Codifica(q)) /\ pos = c + Len(b) /\ Len(b) + r <= Todo(q)
    BY <2>1, <2>6, <2>7
  <2>8. Parte(b \o Trecho(r), Codifica(q)) /\ Len(b \o Trecho(r)) = Len(b) + r
    BY <2>4, <2>17, Estende
  <2>9. PICK t : t = Trecho(r)
    OBVIOUS
  <2>10. t \in Seq(Byte) /\ Len(t) = r /\ t[1] = fluxo[pos + 1]
    <3>1. pos \in Nat /\ pos + r <= Len(fluxo)
      <4>1. Len(fluxo) \in Nat
        BY <2>4, LenProperties
      <4>2. c + Todo(q) <= Len(fluxo)
        BY <2>1 DEF Posta
      <4> QED
        BY <2>1, <2>3, <2>4, <4>1, <4>2
    <3>2. Trecho(r) \in Seq(Byte) /\ Len(Trecho(r)) = r /\ \A i \in 1 .. r : Trecho(r)[i] = fluxo[pos + i]
      BY <2>4, <3>1, TrechoLido
    <3>3. t \in Seq(Byte) /\ Len(t) = r /\ \A i \in 1 .. r : t[i] = fluxo[pos + i]
      BY <2>9, <3>2
    <3> QED
      BY <2>3, <3>3
  <2>11. b \o t = t
    BY <2>5, <2>10, ConcatEmptySeq
  <2>12. Parte(t, Codifica(q)) /\ Len(t) = 1
    BY <2>3, <2>8, <2>9, <2>10, <2>11
  <2>13. t[1] = Primeiro(q)
    <3>1. Len(t) >= 1
      BY <2>12
    <3> QED
      BY <2>12, <3>1, ComecoLido
  <2>14. Primeiro(q) \in Tipos
    <3>1. q.tipo \in {"PUBLISH", "PUBACK", "SUBACK", "PINGRESP"}
      BY MensagemTipo
    <3> QED
      BY <3>1 DEF Primeiro, Tipos
  <2>15. mqtt_has_valid_msg_hdr(Trecho(1))
    BY <2>3, <2>9, <2>13, <2>14 DEF mqtt_has_valid_msg_hdr
  <2>16. ASSUME Guarda(1), rpc' = "tamanho" PROVE LeitorInv'
    <3>1. ent' = b \o Trecho(r) /\ pos' = pos + r
      BY <1>2, <2>3, <2>5, <2>16 DEF Guarda
    <3>2. ent' = t
      BY <2>9, <2>11, <3>1
    <3>3. pos' = c + Len(ent') /\ Len(ent') = 1
      BY <2>1, <2>3, <2>12, <3>1, <3>2
    <3>4. Lendo(q)'
      BY <1>1, <1>2, <2>1, <2>4, <2>16, <3>3 DEF Lendo
    <3>5. Parte(ent', Codifica(q)) /\ Len(ent') >= 1
      BY <2>12, <3>2, <3>3
    <3>6. UNCHANGED <<pacotes, feitas>> /\ q = pacotes[Len(feitas) + 1]
      BY <1>1, <2>1
    <3> QED
      BY <2>2, <3>4, <3>5, <3>6, Segue
  <2> QED
    BY <2>15, <2>16
<1> QED
  BY <1>3, <1>5 DEF LePrimeiro

\* A publication in the stream, whose topic and identifier fit in in_buffer.
LEMMA PublicaLugar ==
  ASSUME NEW q \in Mensagens, q.tipo = "PUBLISH"
  PROVE  \E k \in CARGAS :
           /\ Codifica(q) = Inteira(PUBLICA, Frente \o Bytes("d", k))
           /\ q.dados = Bytes("d", k) /\ Len(q.dados) = k /\ q.id = ID
           /\ k \in Nat /\ Fixo(q) = Len(Digitos(k + 7)) + 1 /\ Fixo(q) + 7 <= BUF_ENTRADA
           /\ Todo(q) = Fixo(q) + 7 + k
<1> PICK k \in CARGAS :
           /\ q.dados = Bytes("d", k) /\ Len(q.dados) = k
           /\ Conteudo(q) = Frente \o Bytes("d", k)
           /\ Conteudo(q) \in Seq(Byte) /\ Len(Conteudo(q)) = k + 7
  BY PublicaForma
<1>1. k \in Nat /\ k + 7 \in Comprimento /\ Len(Digitos(k + 7)) + 8 <= BUF_ENTRADA
  BY CargaTipo
<1>2. Codifica(q) = Inteira(PUBLICA, Frente \o Bytes("d", k))
  <2>1. Primeiro(q) = PUBLICA
    BY DEF Primeiro, PUBLICA
  <2> QED
    BY <2>1, Forma
<1>3. Fixo(q) = Len(Digitos(k + 7)) + 1
  BY DEF Fixo
<1>4. PICK g \in 1 .. 4 : g = Len(Digitos(k + 7))
  BY <1>1, DigitosLidos
<1>5. Fixo(q) + 7 <= BUF_ENTRADA
  <2>1. g + 8 <= BUF_ENTRADA /\ Fixo(q) = g + 1
    BY <1>1, <1>3, <1>4
  <2> QED
    BY <2>1, PacAssumption
<1>6. Todo(q) = Fixo(q) + 7 + k
  <2>1. Todo(q) = Len(Conteudo(q)) + Fixo(q)
    BY Forma
  <2>2. Todo(q) = (k + 7) + (g + 1) /\ Fixo(q) = g + 1 /\ k \in Nat
    BY <1>1, <1>3, <1>4, <2>1
  <2> QED
    BY <2>2
<1>7. q.id = ID
  BY MensagemTipo
<1> QED
  BY <1>1, <1>2, <1>3, <1>5, <1>6, <1>7

\* A digit of the length, until the last.
LEMMA LeTamanhoPasso ==
  ASSUME CorrenteInv, LeitorInv, LeTamanho
  PROVE  LeitorInv'
<1>1. rpc = "tamanho"
  BY DEF LeTamanho
<1>2. Len(feitas) < Len(pacotes) /\ Len(ent) >= 1
  BY <1>1, Atual
<1>3. PICK q \in Mensagens, c \in Nat :
        /\ q = pacotes[Len(feitas) + 1] /\ c = comeco[Len(feitas) + 1]
        /\ Parte(ent, Codifica(q)) /\ (Lendo(q) \/ Entregando(q))
  BY <1>1, Atual
<1>4. Lendo(q)
  BY <1>1, <1>3 DEF Entregando
<1>5. CASE Interrompida
  BY <1>1, <1>5, InterrompidaPasso
<1>6. CASE /\ Chega(1, 1) /\ Guarda(1)
           /\ rpc' = IF Len(ent') < 6 /\ Alto(ent'[Len(ent')]) THEN "tamanho" ELSE "total"
           /\ UNCHANGED <<pacotes, comeco, fluxo, antes, alvo, lidos, evento, junto, feitas, desvio>>
  <2>1. PICK r \in Nat : r = 1
    OBVIOUS
  <2>2. Guarda(r)
    BY <1>6, <2>1
  <2>3. Fixo(q) \in 2 .. 5 /\ Todo(q) \in Nat /\ Todo(q) >= Fixo(q)
    BY Forma
  <2>4. Len(ent) < Fixo(q) /\ Len(ent) \in Nat
    BY <1>1, <1>3, <1>4, LenProperties DEF Lendo, Parte
  <2>5. Len(ent) + r <= Todo(q) /\ Len(ent) + r <= Fixo(q)
    BY <2>1, <2>3, <2>4
  <2>6. /\ Parte(ent', Codifica(q)) /\ Len(ent') = Len(ent) + r /\ Len(ent') >= 1
        /\ pos' = comeco[Len(feitas) + 1] + Len(ent')
    BY <1>1, <1>3, <2>2, <2>5, GuardaPasso
  <2>7. PICK l \in Nat : l = Len(ent') /\ l >= 2 /\ l <= Fixo(q)
    BY <1>2, <2>1, <2>4, <2>5, <2>6
  <2>8. /\ l < Fixo(q) => \A j \in 2 .. l : Alto(ent'[j])
        /\ l >= Fixo(q) => ~Alto(ent'[Fixo(q)])
    BY <2>6, <2>7, ComecoLido
  <2>9. /\ rpc' \in {"tamanho", "total"}
        /\ rpc' = "tamanho" => l < Fixo(q)
        /\ rpc' = "total" => l >= Fixo(q)
    <3>1. CASE l < Fixo(q)
      <4>1. Alto(ent'[l]) /\ l < 6
        BY <2>3, <2>7, <2>8, <3>1
      <4>2. rpc' = "tamanho"
        BY <1>6, <2>7, <4>1
      <4> QED
        BY <3>1, <4>2
    <3>2. CASE l = Fixo(q)
      <4>1. ~Alto(ent'[l])
        BY <2>3, <2>8, <3>2
      <4>2. rpc' = "total"
        BY <1>6, <2>7, <4>1
      <4> QED
        BY <2>7, <3>2, <4>2
    <3> QED
      BY <2>3, <2>7, <3>1, <3>2
  <2>10. Lendo(q)'
    BY <1>1, <1>4, <1>6, <2>6, <2>7, <2>9 DEF Lendo
  <2>11. UNCHANGED <<pacotes, feitas>>
    BY <1>6
  <2> QED
    BY <1>2, <1>3, <2>6, <2>10, <2>11, Segue
<1> QED
  BY <1>5, <1>6 DEF LeTamanho

\* With the length known, how much of the message is to be in in_buffer.
LEMMA TotalPasso ==
  ASSUME CorrenteInv, LeitorInv, Total
  PROVE  LeitorInv'
<1>1. rpc = "total"
  BY DEF Total
<1>2. Len(feitas) < Len(pacotes) /\ Len(ent) >= 1
  BY <1>1, Atual
<1>3. PICK q \in Mensagens :
        q = pacotes[Len(feitas) + 1] /\ Parte(ent, Codifica(q)) /\ (Lendo(q) \/ Entregando(q))
  BY <1>1, Atual
<1>4. Lendo(q) /\ Len(ent) >= Fixo(q)
  BY <1>1, <1>3 DEF Entregando, Lendo
<1>5. TamanhoFixo(ent) = Fixo(q) /\ mqtt_get_total_length(ent) = Todo(q) /\ ent[1] = Primeiro(q)
  BY <1>2, <1>3, <1>4, ComecoLido
<1>6. Fixo(q) \in 2 .. 5 /\ Todo(q) \in Nat /\ (q.tipo # "PUBLISH" => Todo(q) <= BUF_ENTRADA)
      /\ Len(ent) \in Nat /\ BUF_ENTRADA \in Nat
  BY <1>3, Forma, LenProperties, PacAssumption DEF Parte
<1>7. ent[1][1] = q.tipo
  BY <1>5 DEF Primeiro
<1>8. ASSUME q.tipo = "PUBLISH", Len(ent) >= Fixo(q) + 2
      PROVE  Fixo(q) + TamanhoTopico(ent) + ent[1][2] * 2 <= BUF_ENTRADA
  <2>1. PICK k \in CARGAS : /\ Codifica(q) = Inteira(PUBLICA, Frente \o Bytes("d", k))
                            /\ Fixo(q) = Len(Digitos(k + 7)) + 1 /\ Fixo(q) + 7 <= BUF_ENTRADA
    BY <1>8, PublicaLugar
  <2>2. k \in Nat /\ k + 7 \in Comprimento
    BY CargaTipo
  <2>3. PICK d \in 1 .. 4 : d = Len(Digitos(k + 7))
    BY <2>2, DigitosLidos
  <2>4. Len(ent) >= Len(Digitos(k + 7)) + 1 /\ Len(ent) >= Len(Digitos(k + 7)) + 3
    BY <1>6, <1>8, <2>1, <2>3
  <2>5. Parte(ent, Inteira(PUBLICA, Frente \o Bytes("d", k)))
    BY <1>3, <2>1
  <2>6. TamanhoTopico(ent) = 3
    BY <2>2, <2>4, <2>5, TopicoLido
  <2>7. ent[1][2] = 1
    BY <1>5, <1>8 DEF Primeiro
  <2> QED
    BY <1>6, <2>1, <2>6, <2>7
<1>9. \/ Todo(q) <= BUF_ENTRADA /\ alvo' = Todo(q) /\ rpc' = "resto"
      \/ Todo(q) > BUF_ENTRADA /\ q.tipo = "PUBLISH" /\ Len(ent) < Fixo(q) + 2 /\ rpc' = "topico"
      \/ Todo(q) > BUF_ENTRADA /\ q.tipo = "PUBLISH" /\ alvo' = BUF_ENTRADA /\ rpc' = "resto"
  <2> DEFINE h == TamanhoFixo(ent)
             cabe == h + TamanhoTopico(ent) + ent[1][2] * 2 <= BUF_ENTRADA
  <2>1. IF Todo(q) <= BUF_ENTRADA THEN alvo' = Todo(q) /\ rpc' = "resto"
        ELSE IF q.tipo # "PUBLISH" THEN rpc' = "erro" /\ UNCHANGED alvo
        ELSE IF Len(ent) < Fixo(q) + 2 THEN rpc' = "topico" /\ UNCHANGED alvo
        ELSE IF cabe THEN alvo' = BUF_ENTRADA /\ rpc' = "resto"
        ELSE rpc' = "erro" /\ UNCHANGED alvo
    BY <1>5, <1>7 DEF Total
  <2>2. Todo(q) > BUF_ENTRADA /\ ~(Len(ent) < Fixo(q) + 2) => cabe
    BY <1>5, <1>6, <1>8
  <2> HIDE DEF cabe
  <2> QED
    BY <1>6, <2>1, <2>2
<1>10. /\ pacotes' = pacotes /\ comeco' = comeco /\ fluxo' = fluxo /\ pos' = pos /\ ent' = ent
       /\ lidos' = lidos /\ evento' = evento /\ junto' = junto /\ feitas' = feitas
  BY DEF Total
<1>11. Lendo(q)'
  <2>1. /\ evento' = SEM_EVENTO /\ junto' = <<>> /\ lidos' = 0
        /\ pos' = comeco'[Len(feitas') + 1] + Len(ent') /\ Len(ent') >= Fixo(q)
    BY <1>4, <1>10 DEF Lendo
  <2>2. rpc' = "topico" => q.tipo = "PUBLISH" /\ Len(ent') < Fixo(q) + 2 /\ Todo(q) > BUF_ENTRADA
    BY <1>9, <1>10
  <2>3. rpc' = "resto" => (Todo(q) <= BUF_ENTRADA \/ q.tipo = "PUBLISH") /\ alvo' = Min2(Todo(q), BUF_ENTRADA)
    BY <1>6, <1>9 DEF Min2
  <2>4. rpc' \in {"topico", "resto"}
    BY <1>9
  <2> QED
    BY <2>1, <2>2, <2>3, <2>4 DEF Lendo
<1> QED
  BY <1>2, <1>3, <1>10, <1>11, Segue

\* The length of the topic of a publication that is longer than in_buffer, and at
\* most two bytes after it.
LEMMA LeTopicoPasso ==
  ASSUME CorrenteInv, LeitorInv, LeTopico
  PROVE  LeitorInv'
<1>1. rpc = "topico"
  BY DEF LeTopico
<1>2. Len(feitas) < Len(pacotes) /\ Len(ent) >= 1
  BY <1>1, Atual
<1>3. PICK q \in Mensagens :
        q = pacotes[Len(feitas) + 1] /\ Parte(ent, Codifica(q)) /\ (Lendo(q) \/ Entregando(q))
  BY <1>1, Atual
<1>4. Lendo(q) /\ Len(ent) >= Fixo(q) /\ q.tipo = "PUBLISH" /\ Len(ent) < Fixo(q) + 2 /\ Todo(q) > BUF_ENTRADA
  BY <1>1, <1>3 DEF Entregando, Lendo
<1>5. TamanhoFixo(ent) = Fixo(q)
  BY <1>2, <1>3, <1>4, ComecoLido
<1>6. CASE Interrompida
  BY <1>1, <1>6, InterrompidaPasso
<1>7. CASE /\ \E r \in 1 .. 3 : Chega(r, Len(ent) - TamanhoFixo(ent) + 2) /\ Guarda(r)
           /\ rpc' = IF Len(ent') < TamanhoFixo(ent) + 2 THEN "recebe" ELSE "total"
           /\ UNCHANGED <<pacotes, comeco, fluxo, antes, alvo, lidos, evento, junto, feitas, desvio>>
  <2>1. PICK r \in 1 .. 3 : Guarda(r)
    BY <1>7
  <2>2. Fixo(q) \in 2 .. 5 /\ Todo(q) \in Nat /\ Len(ent) \in Nat /\ BUF_ENTRADA \in Nat
    BY <1>3, Forma, LenProperties, PacAssumption DEF Parte
  <2>3. Fixo(q) + 7 <= BUF_ENTRADA
    BY <1>4, PublicaLugar
  <2>4. Len(ent) + r <= Todo(q) /\ r \in Nat
    BY <1>4, <2>2, <2>3
  <2>5. /\ Parte(ent', Codifica(q)) /\ Len(ent') = Len(ent) + r /\ Len(ent') >= 1
        /\ pos' = comeco[Len(feitas) + 1] + Len(ent')
    BY <1>1, <1>3, <2>1, <2>4, GuardaPasso
  <2>6. rpc' \in {"recebe", "total"} /\ Len(ent') >= Fixo(q)
    BY <1>4, <1>7, <2>2, <2>5
  <2>7. Lendo(q)'
    BY <1>4, <1>7, <2>5, <2>6 DEF Lendo
  <2>8. UNCHANGED <<pacotes, feitas>>
    BY <1>7
  <2> QED
    BY <1>2, <1>3, <2>5, <2>7, <2>8, Segue
<1> QED
  BY <1>6, <1>7 DEF LeTopico

\* The rest of the message, or of what of it goes to in_buffer.
LEMMA LeRestoPasso ==
  ASSUME CorrenteInv, LeitorInv, LeResto
  PROVE  LeitorInv'
<1>1. rpc = "resto"
  BY DEF LeResto
<1>2. Len(feitas) < Len(pacotes) /\ Len(ent) >= 1
  BY <1>1, Atual
<1>3. PICK q \in Mensagens, c \in Nat :
        /\ q = pacotes[Len(feitas) + 1] /\ c = comeco[Len(feitas) + 1]
        /\ Parte(ent, Codifica(q)) /\ (Lendo(q) \/ Entregando(q))
  BY <1>1, Atual
<1>4. /\ Lendo(q) /\ Len(ent) >= Fixo(q) /\ alvo = Min2(Todo(q), BUF_ENTRADA)
      /\ Todo(q) <= BUF_ENTRADA \/ q.tipo = "PUBLISH"
      /\ pos = c + Len(ent)
  BY <1>1, <1>3 DEF Entregando, Lendo
<1>5. Fixo(q) \in 2 .. 5 /\ Todo(q) \in Nat /\ Len(ent) \in Nat /\ BUF_ENTRADA \in Nat
  BY <1>3, Forma, LenProperties, PacAssumption DEF Parte
<1>6. alvo \in Nat /\ alvo <= Todo(q)
  BY <1>4, <1>5 DEF Min2
<1>7. CASE Len(ent) < alvo /\ Interrompida
  BY <1>1, <1>7, InterrompidaPasso
<1>8. CASE /\ \E r \in 1 .. BUF_ENTRADA : Chega(r, alvo - Len(ent)) /\ Guarda(r)
           /\ rpc' = IF Len(ent') < alvo THEN "recebe" ELSE "processa"
           /\ UNCHANGED <<pacotes, comeco, fluxo, antes, alvo, lidos, evento, junto, feitas, desvio>>
  <2>1. PICK r : Chega(r, alvo - Len(ent)) /\ Guarda(r)
    BY <1>8
  <2>2. r \in Nat /\ r <= alvo - Len(ent)
    <3>1. alvo - Len(ent) \in Int /\ pos \in Nat /\ fluxo \in Seq(Byte)
      BY <1>4, <1>5, <1>6 DEF CorrenteInv
    <3> QED
      BY <2>1, <3>1, ChegaTipo
  <2>3. Len(ent) + r <= Todo(q)
    BY <1>5, <1>6, <2>2
  <2>4. /\ Parte(ent', Codifica(q)) /\ Len(ent') = Len(ent) + r /\ Len(ent') >= 1
        /\ pos' = comeco[Len(feitas) + 1] + Len(ent')
    BY <1>1, <1>3, <2>1, <2>2, <2>3, GuardaPasso
  <2>5. Len(ent') \in Nat /\ Len(ent') >= Fixo(q)
    BY <1>4, <1>5, <2>2, <2>4
  <2>6. rpc' \in {"recebe", "processa"} /\ (rpc' = "processa" => Len(ent') >= Min2(Todo(q), BUF_ENTRADA))
    BY <1>4, <1>6, <1>8, <2>5
  <2>7. Lendo(q)'
    BY <1>4, <1>8, <2>4, <2>5, <2>6 DEF Lendo
  <2>8. UNCHANGED <<pacotes, feitas>>
    BY <1>8
  <2> QED
    BY <1>2, <1>3, <2>4, <2>7, <2>8, Segue
<1>9. CASE /\ Len(ent) >= alvo /\ rpc' = "processa"
           /\ UNCHANGED <<pacotes, comeco, fluxo, pos, ent, antes, alvo, lidos, evento, junto, feitas, desvio>>
  <2>1. Lendo(q)'
    BY <1>4, <1>9 DEF Lendo
  <2>2. Parte(ent', Codifica(q)) /\ Len(ent') >= 1
    BY <1>2, <1>3, <1>9
  <2>3. UNCHANGED <<pacotes, feitas>>
    BY <1>9
  <2> QED
    BY <1>2, <1>3, <2>1, <2>2, <2>3, Segue
<1> QED
  BY <1>7, <1>8, <1>9 DEF LeResto

\* The message is done: the next one begins where it ends.
LEMMA AcabaPasso ==
  ASSUME CorrenteInv, LeitorInv, ent # <<>> \/ rpc \notin {"recebe", "primeiro"},
         NEW q \in Mensagens, q = pacotes[Len(feitas) + 1],
         pos = comeco[Len(feitas) + 1] + Todo(q),
         feitas' = Append(feitas, q), UNCHANGED <<pacotes, comeco, fluxo, pos>>,
         ent' = <<>>, rpc' = "recebe", evento' = SEM_EVENTO, junto' = <<>>, lidos' = 0
  PROVE  LeitorInv'
<1>1. Len(feitas) < Len(pacotes) /\ Len(feitas) \in Nat /\ Len(pacotes) \in Nat
      /\ Comeco(Len(feitas) + 2) = comeco[Len(feitas) + 1] + Todo(q)
  <2>1. Len(pacotes) \in Nat
    BY LenProperties DEF CorrenteInv
  <2> QED
    BY <2>1, Atual
<1>2. feitas \in Seq(Mensagens) /\ \A i \in 1 .. Len(feitas) : feitas[i] = pacotes[i]
  BY DEF LeitorInv
<1>3. /\ feitas' \in Seq(Mensagens) /\ Len(feitas') = Len(feitas) + 1
      /\ \A i \in 1 .. Len(feitas) : feitas'[i] = feitas[i]
      /\ feitas'[Len(feitas) + 1] = q
  BY <1>2, AppendProperties
<1>4. \A i \in 1 .. Len(feitas') : feitas'[i] = pacotes'[i]
  <2> SUFFICES ASSUME NEW i \in 1 .. Len(feitas') PROVE feitas'[i] = pacotes'[i]
    OBVIOUS
  <2>1. i \in 1 .. Len(feitas) \/ i = Len(feitas) + 1
    BY <1>1, <1>3
  <2>2. CASE i \in 1 .. Len(feitas)
    BY <1>2, <1>3, <2>2
  <2>3. CASE i = Len(feitas) + 1
    BY <1>3, <2>3
  <2> QED
    BY <2>1, <2>2, <2>3
<1>5. pos' = Comeco(Len(feitas) + 1)'
  <2>1. Len(feitas') + 1 = Len(feitas) + 2
    BY <1>1, <1>3
  <2>2. pos' = Comeco(Len(feitas) + 2)
    BY <1>1
  <2> QED
    BY <2>1, <2>2 DEF Comeco
<1>6. Len(feitas') <= Len(pacotes')
  BY <1>1, <1>3
<1> QED
  BY <1>3, <1>4, <1>5, <1>6 DEF LeitorInv

\* A message that is no publication is understood as it was sent.
LEMMA ProcessaPasso ==
  ASSUME CorrenteInv, LeitorInv, Processa
  PROVE  LeitorInv'
<1>1. /\ rpc = "processa" /\ ent[1][1] # "PUBLISH"
      /\ feitas' = Append(feitas, [tipo |-> ent[1][1], id |-> mqtt_get_id(ent), dados |-> <<>>])
      /\ ent' = <<>> /\ rpc' = "recebe" /\ pacotes' = pacotes /\ comeco' = comeco /\ fluxo' = fluxo /\ pos' = pos
      /\ lidos' = lidos /\ evento' = evento /\ junto' = junto
  BY DEF Processa
<1>2. Len(feitas) < Len(pacotes) /\ Len(ent) >= 1
  BY <1>1, Atual
<1>3. PICK q \in Mensagens :
        q = pacotes[Len(feitas) + 1] /\ Parte(ent, Codifica(q)) /\ (Lendo(q) \/ Entregando(q))
  BY <1>1, Atual
<1>4. /\ Lendo(q) /\ Len(ent) >= Min2(Todo(q), BUF_ENTRADA) /\ pos = comeco[Len(feitas) + 1] + Len(ent)
      /\ evento = SEM_EVENTO /\ junto = <<>> /\ lidos = 0
  BY <1>1, <1>3 DEF Entregando, Lendo
<1>5. ent[1] = Primeiro(q) /\ ent \in Seq(Byte) /\ Len(ent) \in 1 .. Todo(q)
  BY <1>2, <1>3, ComecoLido
<1>6. ent[1][1] = q.tipo /\ q.tipo # "PUBLISH"
  BY <1>1, <1>5 DEF Primeiro
<1>7. Codifica(q) \in Seq(Byte) /\ Todo(q) \in Nat /\ Todo(q) <= BUF_ENTRADA
  BY <1>6, Forma
<1>8. Len(ent) = Todo(q)
  <2>1. BUF_ENTRADA \in Nat
    BY PacAssumption
  <2>2. Min2(Todo(q), BUF_ENTRADA) = Todo(q)
    BY <1>7, <2>1 DEF Min2
  <2> QED
    BY <1>4, <1>5, <1>7, <2>2
<1>9. ent = Codifica(q)
  <2>1. Len(ent) = Len(Codifica(q)) /\ \A i \in 1 .. Len(ent) : ent[i] = Codifica(q)[i]
    BY <1>3, <1>8 DEF Parte, Todo
  <2> QED
    BY <1>5, <1>7, <2>1, SeqEqual
<1>10. mqtt_get_id(ent) = q.id
  <2>1. CASE q.tipo = "PINGRESP"
    <3>1. q.id = 0
      BY <2>1, MensagemTipo
    <3>2. mqtt_get_id(ent) = 0
      BY <1>6, <2>1 DEF mqtt_get_id
    <3> QED
      BY <3>1, <3>2
  <2>2. CASE q.tipo \in {"PUBACK", "SUBACK"}
    <3>1. PICK id \in Nat : id = q.id
      BY <2>2, MensagemTipo
    <3>2. PICK h \in Byte : h = Primeiro(q)
      BY Forma
    <3>3. PICK s \in Seq(Byte) : s = Conteudo(q)
      BY Forma
    <3>4. h[1] \in {"PUBACK", "SUBACK"}
      BY <2>2, <3>2 DEF Primeiro
    <3>5. Len(s) \in 0 .. 3 /\ Len(s) >= 2 /\ s[1] = Dois(id)[1] /\ s[2] = Dois(id)[2]
      BY <1>6, <2>2, <3>1, <3>3, OutraForma
    <3>9. Len(s) \in Comprimento
      BY <3>3, Forma
    <3>6. Len(s) < BASE /\ Len(s) \in Comprimento /\ Len(s) >= 2
      <4>1. BASE \in Nat /\ BASE > 3
        BY PacAssumption, Pesos
      <4>2. PICK l \in 0 .. 3 : l = Len(s)
        BY <3>5
      <4>3. l < BASE
        BY <4>1
      <4> QED
        BY <3>5, <3>9, <4>2, <4>3
    <3>7. mqtt_get_id(Inteira(h, s)) = id
      BY <3>4, <3>5, <3>6, IdLido
    <3>8. ent = Inteira(h, s)
      BY <1>9, <3>2, <3>3, Forma
    <3> QED
      BY <3>1, <3>7, <3>8
  <2> QED
    BY <1>6, <2>1, <2>2, MensagemTipo
<1>11. feitas' = Append(feitas, q)
  <2>1. q = [tipo |-> q.tipo, id |-> q.id, dados |-> q.dados] /\ q.dados = <<>>
    BY <1>6, MensagemTipo
  <2>2. [tipo |-> ent[1][1], id |-> mqtt_get_id(ent), dados |-> <<>>] = q
    BY <1>6, <1>10, <2>1
  <2> QED
    BY <1>1, <2>2
<1>12. pos = comeco[Len(feitas) + 1] + Todo(q)
  BY <1>4, <1>8
<1> QED
  BY <1>1, <1>3, <1>4, <1>11, <1>12, AcabaPasso

\* No topic and no data is what stands for none.
LEMMA NaoNulo ==
  /\ TOPICO # NULO
  /\ \A l \in Nat : l >= 1 => Bytes("d", l) # NULO
<1>1. NULO[1][1] = "nulo"
  BY DEF NULO
<1>2. TOPICO # NULO
  <2>1. PICK n \in Nat : n = 3
    OBVIOUS
  <2>2. TOPICO = Bytes("t", n)
    BY <2>1 DEF TOPICO
  <2>3. PICK u : u = Bytes("t", n)
    OBVIOUS
  <2>4. \A i \in 1 .. n : u[i] = <<"t", i>>
    BY <2>3, BytesTipo DEF Marcas
  <2>5. u[1] = <<"t", 1>>
    BY <2>1, <2>4
  <2>6. u[1][1] = "t"
    BY <2>5
  <2>7. u # NULO
    BY <1>1, <2>6
  <2> QED
    BY <2>2, <2>3, <2>7
<1>3. ASSUME NEW l \in Nat, l >= 1 PROVE Bytes("d", l) # NULO
  <2>1. PICK u : u = Bytes("d", l)
    OBVIOUS
  <2>2. \A i \in 1 .. l : u[i] = <<"d", i>>
    BY <2>1, BytesTipo DEF Marcas
  <2>3. 1 \in 1 .. l
    BY <1>3
  <2>4. u[1] = <<"d", 1>>
    BY <2>2, <2>3
  <2>5. u[1][1] = "d"
    BY <2>4
  <2>6. u # NULO
    BY <1>1, <2>5
  <2> QED
    BY <2>1, <2>6
<1> QED
  BY <1>2, <1>3

\* The first event has the topic, and the data that are in in_buffer.
LEMMA EntregaPasso ==
  ASSUME CorrenteInv, LeitorInv, Entrega
  PROVE  LeitorInv'
<1>1. rpc = "processa" /\ ent[1][1] = "PUBLISH" /\ pacotes' = pacotes /\ comeco' = comeco /\ fluxo' = fluxo
      /\ pos' = pos /\ ent' = ent /\ feitas' = feitas
  BY DEF Entrega
<1>2. Len(feitas) < Len(pacotes) /\ Len(ent) >= 1
  BY <1>1, Atual
<1>3. PICK q \in Mensagens, c \in Nat :
        /\ q = pacotes[Len(feitas) + 1] /\ c = comeco[Len(feitas) + 1]
        /\ Parte(ent, Codifica(q)) /\ (Lendo(q) \/ Entregando(q))
  BY <1>1, Atual
<1>4. Lendo(q) /\ Len(ent) >= Min2(Todo(q), BUF_ENTRADA) /\ pos = c + Len(ent)
  BY <1>1, <1>3 DEF Entregando, Lendo
<1>5. ent[1] = Primeiro(q) /\ Len(ent) \in 1 .. Todo(q)
  BY <1>2, <1>3, ComecoLido
<1>6. q.tipo = "PUBLISH"
  BY <1>1, <1>5 DEF Primeiro
<1>7. PICK k \in CARGAS :
           /\ Codifica(q) = Inteira(PUBLICA, Frente \o Bytes("d", k))
           /\ Len(q.dados) = k
           /\ k \in Nat /\ Fixo(q) = Len(Digitos(k + 7)) + 1 /\ Fixo(q) + 7 <= BUF_ENTRADA
           /\ Todo(q) = Fixo(q) + 7 + k
  BY <1>6, PublicaLugar
<1>8. PICK g \in 2 .. 5, n \in Nat : g = Fixo(q) /\ n = Todo(q)
  BY Forma
<1>9. PICK l \in Nat : l = Len(ent) /\ l <= n
  BY <1>5, <1>8
<1>10. n = g + 7 + k /\ l >= g + 7
  <2>1. BUF_ENTRADA \in Nat /\ k \in Nat
    BY <1>7, PacAssumption
  <2>2. n = g + 7 + k /\ g + 7 <= BUF_ENTRADA /\ l >= Min2(n, BUF_ENTRADA)
    BY <1>4, <1>7, <1>8, <1>9
  <2> QED
    BY <2>1, <2>2 DEF Min2
<1>11. k + 7 \in Comprimento
  BY CargaTipo
<1>12. PICK f \in Nat : f = Len(Digitos(k + 7)) + 8 /\ f = g + 7
  <2>1. PICK d \in 1 .. 4 : d = Len(Digitos(k + 7))
    BY <1>11, DigitosLidos
  <2>2. g = d + 1
    BY <1>7, <1>8, <2>1
  <2> QED
    BY <2>1, <2>2
<1>13. Parte(ent, Inteira(PUBLICA, Frente \o Bytes("d", k))) /\ Len(ent) >= Len(Digitos(k + 7)) + 8
  BY <1>3, <1>7, <1>9, <1>10, <1>12
<1>14. mqtt_get_publish_topic(ent) = TOPICO
  BY <1>7, <1>11, <1>13, PublicacaoLida
<1>15. mqtt_get_publish_data(ent) = IF Len(ent) = f THEN NULO ELSE Bytes("d", Len(ent) - f)
  BY <1>7, <1>11, <1>12, <1>13, PublicacaoLida
<1>16. PICK w : w = Sem(mqtt_get_publish_data(ent))
  OBVIOUS
<1>17. w = Bytes("d", l - f) /\ Len(w) = l - f /\ l - f \in Nat
  <2>1. l - f \in Nat
    BY <1>10, <1>12
  <2>2. PICK j \in Nat : j = l - f
    BY <2>1
  <2>3. Bytes("d", j) \in Seq(Byte) /\ Len(Bytes("d", j)) = j
    BY BytesTipo DEF Marcas
  <2>4. CASE l = f
    <3>1. w = <<>>
      BY <1>9, <1>15, <1>16, <2>4 DEF Sem
    <3>2. Len(Bytes("d", j)) = 0
      BY <2>2, <2>3, <2>4
    <3>3. Bytes("d", j) = <<>>
      BY <2>3, <3>2, EmptySeq
    <3> QED
      BY <2>1, <2>2, <2>3, <3>1, <3>3
  <2>5. CASE l # f
    <3>1. mqtt_get_publish_data(ent) = Bytes("d", j)
      BY <1>9, <1>15, <2>2, <2>5
    <3>2. j >= 1
      BY <2>2, <2>5
    <3>3. Bytes("d", j) # NULO
      BY <3>2, NaoNulo
    <3>4. w = Bytes("d", j)
      BY <1>16, <3>1, <3>3 DEF Sem
    <3> QED
      BY <2>1, <2>2, <2>3, <3>4
  <2> QED
    BY <2>4, <2>5
<1>18. mqtt_get_total_length(ent) = n
  <2>1. Len(ent) >= Fixo(q)
    BY <1>8, <1>9, <1>10
  <2> QED
    BY <1>2, <1>3, <1>8, <2>1, ComecoLido
<1>19. /\ evento' = [topico |-> TOPICO, len |-> l - f, offset |-> 0, total |-> (l - f) + n - l]
       /\ junto' = w /\ lidos' = l
       /\ rpc' = IF l < n THEN "mais" ELSE "puback"
  <2>1. mqtt_get_publish_topic(ent) # NULO
    BY <1>14, NaoNulo
  <2>2. /\ evento' = [topico |-> mqtt_get_publish_topic(ent), len |-> Len(w), offset |-> 0,
                      total |-> Len(w) + mqtt_get_total_length(ent) - Len(ent)]
        /\ junto' = w /\ lidos' = Len(ent)
        /\ rpc' = IF Len(ent) < mqtt_get_total_length(ent) THEN "mais" ELSE "puback"
    BY <1>16, <2>1 DEF Entrega
  <2> QED
    BY <1>9, <1>14, <1>17, <1>18, <2>2
<1>20. PICK j \in Nat : j = l - f
  BY <1>17
<1>21. (l - f) + n - l = k
  BY <1>7, <1>10, <1>12
<1>22. evento' = [topico |-> TOPICO, len |-> j, offset |-> 0, total |-> k]
  BY <1>19, <1>20, <1>21
<1>23. /\ evento'.topico = TOPICO /\ evento'.len = j /\ evento'.offset = 0 /\ evento'.total = k
       /\ evento' \in [topico : {TOPICO, NULO}, len : Nat, offset : Nat, total : Nat]
  BY <1>7, <1>22
<1>24. lidos' - (Fixo(q) + 7) = j
  BY <1>8, <1>12, <1>19, <1>20
<1>25. junto' = Bytes("d", lidos' - (Fixo(q) + 7))
  BY <1>17, <1>19, <1>20, <1>24
<1>26. /\ rpc' \in {"mais", "puback"} /\ lidos' \in Len(ent') .. Todo(q)
       /\ rpc' = "puback" => lidos' = Todo(q)
       /\ rpc' = "mais" => lidos' < Todo(q)
       /\ Len(ent') >= Fixo(q) + 7 /\ lidos' = Len(ent')
  BY <1>1, <1>8, <1>9, <1>10, <1>19
<1>27. pos' = comeco'[Len(feitas') + 1] + lidos'
  BY <1>1, <1>3, <1>4, <1>9, <1>19
<1>28. evento'.offset + evento'.len = lidos' - (Fixo(q) + 7)
  BY <1>23, <1>24
<1>29. Entregando(q)'
  BY <1>6, <1>7, <1>23, <1>24, <1>25, <1>26, <1>27, <1>28 DEF Entregando
<1>30. Parte(ent', Codifica(q)) /\ Len(ent') >= 1 /\ UNCHANGED <<pacotes, feitas>>
  BY <1>1, <1>2, <1>3
<1> QED
  BY <1>2, <1>3, <1>29, <1>30, Segue

\* Every event that follows has the data right after those of the one before.
LEMMA EntregaMaisPasso ==
  ASSUME CorrenteInv, LeitorInv, EntregaMais, ~desvio'
  PROVE  LeitorInv'
<1>1. rpc = "mais" /\ pacotes' = pacotes /\ comeco' = comeco /\ fluxo' = fluxo /\ ent' = ent /\ feitas' = feitas
  BY DEF EntregaMais
<1>2. Len(feitas) < Len(pacotes) /\ Len(ent) >= 1
  BY <1>1, Atual
<1>3. PICK q \in Mensagens, c \in Nat :
        /\ q = pacotes[Len(feitas) + 1] /\ c = comeco[Len(feitas) + 1]
        /\ Posta(q, c)
        /\ Parte(ent, Codifica(q)) /\ (Lendo(q) \/ Entregando(q))
  BY <1>1, Atual
<1>4. Entregando(q)
  BY <1>1, <1>3 DEF Lendo
<1>5. PICK g \in 2 .. 5, n \in Nat, l \in Nat : g = Fixo(q) /\ n = Todo(q) /\ l = Len(ent)
  BY <1>3, Forma, LenProperties DEF Parte
<1>6. /\ q.tipo = "PUBLISH" /\ l >= g + 7 /\ lidos \in l .. n /\ lidos < n
      /\ pos = c + lidos /\ junto = Bytes("d", lidos - (g + 7))
      /\ evento.offset + evento.len = lidos - (g + 7)
      /\ evento.total = Len(q.dados)
      /\ evento \in [topico : {TOPICO, NULO}, len : Nat, offset : Nat, total : Nat]
  BY <1>1, <1>3, <1>4, <1>5 DEF Entregando
<1>7. mqtt_get_total_length(ent) = n
  <2>1. Len(ent) >= Fixo(q)
    BY <1>5, <1>6
  <2> QED
    BY <1>2, <1>3, <1>5, <2>1, ComecoLido
<1>8. PICK r :
        /\ Chega(r, Min2(n - lidos, BUF_ENTRADA))
        /\ pos' = pos + r /\ lidos' = lidos + r
        /\ evento' = [evento EXCEPT !.topico = NULO, !.len = r, !.offset = Desloca(evento)]
        /\ junto' = junto \o Trecho(r)
        /\ rpc' = IF lidos + r < n THEN "mais" ELSE "puback"
  BY <1>7 DEF EntregaMais
<1>9. lidos \in Nat /\ pos \in Nat /\ fluxo \in Seq(Byte)
  BY <1>6 DEF CorrenteInv
<1>10. r \in Nat /\ r >= 1 /\ lidos + r <= n
  <2>1. PICK k \in Int : k = Min2(n - lidos, BUF_ENTRADA) /\ k <= n - lidos
    <3>1. BUF_ENTRADA \in Nat /\ n - lidos \in Int
      BY <1>9, PacAssumption
    <3>2. PICK x \in Int : x = n - lidos
      BY <3>1
    <3>3. PICK y : y = Min2(x, BUF_ENTRADA)
      OBVIOUS
    <3>4. y \in Int /\ y <= x
      BY <3>1, <3>3 DEF Min2
    <3> QED
      BY <3>2, <3>3, <3>4
  <2>2. r \in Nat /\ r >= 1 /\ r <= k
    BY <1>8, <1>9, <2>1, ChegaTipo
  <2> QED
    BY <1>9, <2>1, <2>2
<1>11. PICK j \in Nat : j = lidos - (g + 7)
  BY <1>6, <1>9
<1>12. Bytes("d", j) \o Trecho(r) = Bytes("d", j + r)
  <2>1. pos = c + Fixo(q) + 7 + j
    <3>1. c + g + 7 + j = c + lidos
      BY <1>9, <1>11
    <3> QED
      BY <1>5, <1>6, <3>1
  <2>2. Fixo(q) + 7 + j + r <= Todo(q)
    <3>1. g + 7 + j + r <= n
      BY <1>9, <1>10, <1>11
    <3> QED
      BY <1>5, <3>1
  <2>3. Posta(q, c)
    BY <1>3
  <2>4. q.tipo = "PUBLISH" /\ fluxo \in Seq(Byte) /\ r \in Nat
    BY <1>6, <1>9, <1>10
  <2> QED
    BY <2>1, <2>2, <2>3, <2>4, EstendeDados
<1>13. lidos' - (Fixo(q) + 7) = j + r
  <2>1. (lidos + r) - (g + 7) = j + r
    BY <1>9, <1>10, <1>11
  <2> QED
    BY <1>5, <1>8, <2>1
<1>14. junto' = Bytes("d", lidos' - (Fixo(q) + 7))
  BY <1>6, <1>8, <1>11, <1>12, <1>13
<1>15. PICK e \in [topico : {TOPICO, NULO}, len : Nat, offset : Nat, total : Nat] : e = evento
  BY <1>6
<1>16. PICK o \in Nat : o = e.offset + e.len /\ o = j
  BY <1>6, <1>11, <1>15
<1>17. /\ evento'.topico = NULO /\ evento'.len = r /\ evento'.offset = o /\ evento'.total = e.total
       /\ evento' \in [topico : {TOPICO, NULO}, len : Nat, offset : Nat, total : Nat]
  <2>1. evento' = [e EXCEPT !.topico = NULO, !.len = r, !.offset = o]
    BY <1>8, <1>15, <1>16 DEF Desloca
  <2>2. PICK y \in {TOPICO, NULO} : y = NULO
    OBVIOUS
  <2>3. evento' = [e EXCEPT !.topico = y, !.len = r, !.offset = o]
    BY <2>1, <2>2
  <2>4. PICK z : z = evento'
    OBVIOUS
  <2>5. z = [e EXCEPT !.topico = y, !.len = r, !.offset = o]
    BY <2>3, <2>4
  <2>6. /\ z.topico = y /\ z.len = r /\ z.offset = o /\ z.total = e.total
        /\ z \in [topico : {TOPICO, NULO}, len : Nat, offset : Nat, total : Nat]
    BY <1>10, <2>5
  <2> QED
    BY <2>2, <2>4, <2>6
<1>18. evento'.offset + evento'.len = lidos' - (Fixo(q) + 7)
  BY <1>13, <1>16, <1>17
<1>19. evento'.total = Len(q.dados)
  BY <1>6, <1>15, <1>17
<1>20. /\ rpc' \in {"mais", "puback"} /\ lidos' \in Len(ent') .. Todo(q)
       /\ rpc' = "puback" => lidos' = Todo(q)
       /\ rpc' = "mais" => lidos' < Todo(q)
       /\ Len(ent') >= Fixo(q) + 7 /\ lidos' # Len(ent')
  <2>1. lidos + r \in l .. n /\ lidos + r # l /\ (~(lidos + r < n) => lidos + r = n)
    BY <1>6, <1>9, <1>10
  <2>2. lidos' = lidos + r /\ Len(ent') = l
    BY <1>1, <1>5, <1>8
  <2> QED
    BY <1>5, <1>6, <1>8, <2>1, <2>2
<1>21. pos' = comeco'[Len(feitas') + 1] + lidos'
  <2>1. pos' = c + (lidos + r)
    BY <1>6, <1>8, <1>9, <1>10
  <2> QED
    BY <1>1, <1>3, <1>8, <2>1
<1>22. evento'.topico # TOPICO
  BY <1>17, NaoNulo
<1>23. Entregando(q)'
  BY <1>6, <1>14, <1>17, <1>18, <1>19, <1>20, <1>21, <1>22 DEF Entregando
<1>24. Parte(ent', Codifica(q)) /\ Len(ent') >= 1 /\ UNCHANGED <<pacotes, feitas>>
  BY <1>1, <1>2, <1>3
<1> QED
  BY <1>2, <1>3, <1>23, <1>24, Segue

\* A publication is acknowledged with its identifier, after all its data.
LEMMA ConfirmaPasso ==
  ASSUME CorrenteInv, LeitorInv, Confirma
  PROVE  LeitorInv'
<1>1. /\ rpc = "puback"
      /\ feitas' = Append(feitas, [tipo |-> "PUBLISH", id |-> mqtt_get_id(ent), dados |-> junto])
      /\ ent' = <<>> /\ junto' = <<>> /\ evento' = SEM_EVENTO /\ lidos' = 0 /\ rpc' = "recebe"
      /\ pacotes' = pacotes /\ comeco' = comeco /\ fluxo' = fluxo /\ pos' = pos
  BY DEF Confirma
<1>2. PICK q \in Mensagens :
        q = pacotes[Len(feitas) + 1] /\ Parte(ent, Codifica(q)) /\ (Lendo(q) \/ Entregando(q))
  BY <1>1, Atual
<1>3. Entregando(q)
  BY <1>1, <1>2 DEF Lendo
<1>4. /\ q.tipo = "PUBLISH" /\ Len(ent) >= Fixo(q) + 7 /\ lidos = Todo(q)
      /\ pos = comeco[Len(feitas) + 1] + lidos /\ junto = Bytes("d", lidos - (Fixo(q) + 7))
  BY <1>1, <1>3 DEF Entregando
<1>5. PICK k \in CARGAS :
           /\ Codifica(q) = Inteira(PUBLICA, Frente \o Bytes("d", k))
           /\ q.dados = Bytes("d", k) /\ q.id = ID
           /\ k \in Nat /\ Fixo(q) = Len(Digitos(k + 7)) + 1
           /\ Todo(q) = Fixo(q) + 7 + k
  BY <1>4, PublicaLugar
<1>6. k + 7 \in Comprimento
  BY CargaTipo
<1>7. PICK g \in 2 .. 5 : g = Fixo(q)
  BY Forma
<1>8. lidos - (Fixo(q) + 7) = k
  <2>1. (g + 7 + k) - (g + 7) = k
    BY <1>5
  <2> QED
    BY <1>4, <1>5, <1>7, <2>1
<1>9. junto = q.dados
  BY <1>4, <1>5, <1>8
<1>10. Len(ent) >= Len(Digitos(k + 7)) + 8
  <2>1. PICK d \in 1 .. 4 : d = Len(Digitos(k + 7))
    BY <1>6, DigitosLidos
  <2>2. Len(ent) >= (d + 1) + 7
    BY <1>4, <1>5, <2>1
  <2>3. (d + 1) + 7 = d + 8
    OBVIOUS
  <2> QED
    BY <2>1, <2>2, <2>3
<1>11. Parte(ent, Inteira(PUBLICA, Frente \o Bytes("d", k)))
  BY <1>2, <1>5
<1>12. mqtt_get_id(ent) = ID
  BY <1>5, <1>6, <1>10, <1>11, PublicacaoLida
<1>13. feitas' = Append(feitas, q)
  <2>1. q = [tipo |-> q.tipo, id |-> q.id, dados |-> q.dados]
    BY MensagemTipo
  <2>2. [tipo |-> "PUBLISH", id |-> mqtt_get_id(ent), dados |-> junto] = q
    BY <1>4, <1>5, <1>9, <1>12, <2>1
  <2> QED
    BY <1>1, <2>2
<1>14. pos = comeco[Len(feitas) + 1] + Todo(q)
  BY <1>4
<1> QED
  BY <1>1, <1>2, <1>13, <1>14, AcabaPasso

\* A message sent is added at the end of the stream, and moves nothing before it.
LEMMA EnviaPasso ==
  ASSUME CorrenteInv, Envia
  PROVE  CorrenteInv' /\ (LeitorInv => LeitorInv')
<1>1. PICK p \in Mensagens : pacotes' = Append(pacotes, p) /\ fluxo' = fluxo \o Codifica(p)
  BY DEF Envia
<1>2. comeco' = Append(comeco, Len(fluxo)) /\ pos' = pos /\ rpc' = rpc /\ ent' = ent /\ alvo' = alvo
      /\ lidos' = lidos /\ evento' = evento /\ junto' = junto /\ feitas' = feitas
  BY DEF Envia
<1>3. /\ pacotes \in Seq(Mensagens) /\ comeco \in Seq(Nat) /\ Len(comeco) = Len(pacotes) /\ fluxo \in Seq(Byte)
      /\ Comeco(1) = 0
  BY DEF CorrenteInv
<1>4. PICK n \in Nat, l \in Nat, t \in Nat : n = Len(pacotes) /\ l = Len(fluxo) /\ t = Todo(p)
  BY <1>3, LenProperties, Forma
<1>5. /\ pacotes' \in Seq(Mensagens) /\ Len(pacotes') = n + 1 /\ pacotes'[n + 1] = p
      /\ \A i \in 1 .. n : pacotes'[i] = pacotes[i]
  BY <1>1, <1>3, <1>4, AppendProperties
<1>6. /\ comeco' \in Seq(Nat) /\ Len(comeco') = n + 1 /\ comeco'[n + 1] = l
      /\ \A i \in 1 .. n : comeco'[i] = comeco[i]
  <2>1. comeco' = Append(comeco, l) /\ Len(comeco) = n
    BY <1>2, <1>3, <1>4
  <2> QED
    BY <1>3, <2>1, AppendProperties
<1>7. PICK s \in Seq(Byte) : s = Codifica(p)
  BY Forma
<1>8. PICK w : w = fluxo \o s
  OBVIOUS
<1>9. fluxo' = w /\ Len(s) = t
  BY <1>1, <1>4, <1>7, <1>8 DEF Todo
<1>10. /\ w \in Seq(Byte) /\ Len(w) = l + t
       /\ \A i \in 1 .. l + t : w[i] = IF i <= l THEN fluxo[i] ELSE s[i - l]
  <2>1. PICK x \in Seq(Byte) : x = fluxo
    BY <1>3
  <2>2. w = x \o s /\ Len(x) = l
    BY <1>4, <1>8, <2>1
  <2>3. /\ w \in Seq(Byte) /\ Len(w) = Len(x) + Len(s)
        /\ \A i \in 1 .. Len(x) + Len(s) : w[i] = IF i <= Len(x) THEN x[i] ELSE s[i - Len(x)]
    BY <2>2, Junta
  <2> QED
    BY <1>9, <2>1, <2>2, <2>3
<1>11. /\ fluxo' \in Seq(Byte) /\ Len(fluxo') = l + t
       /\ \A i \in 1 .. l : fluxo'[i] = fluxo[i]
       /\ \A j \in 1 .. t : fluxo'[l + j] = Codifica(p)[j]
  <2>1. ASSUME NEW i \in 1 .. l PROVE w[i] = fluxo[i]
    BY <1>10
  <2>2. ASSUME NEW j \in 1 .. t PROVE w[l + j] = s[j]
    <3>1. l + j \in 1 .. l + t /\ ~(l + j <= l) /\ (l + j) - l = j
      OBVIOUS
    <3> QED
      BY <1>10, <3>1
  <2> QED
    BY <1>7, <1>9, <1>10, <2>1, <2>2
<1>12. \A i \in 1 .. n + 1 : comeco'[i] = Comeco(i) /\ Comeco(i)' = Comeco(i)
  <2> SUFFICES ASSUME NEW i \in 1 .. n + 1 PROVE comeco'[i] = Comeco(i) /\ Comeco(i)' = Comeco(i)
    OBVIOUS
  <2>1. Comeco(i)' = comeco'[i]
    BY <1>5 DEF Comeco
  <2>2. CASE i <= n
    <3>1. i \in 1 .. n
      BY <2>2
    <3> QED
      BY <1>4, <1>6, <2>1, <2>2, <3>1 DEF Comeco
  <2>3. CASE i = n + 1
    <3>1. Comeco(i) = l
      BY <1>4, <2>3 DEF Comeco
    <3> QED
      BY <1>6, <2>1, <2>3, <3>1
  <2> QED
    BY <2>2, <2>3
<1>13. Comeco(n + 2)' = l + t
  <2>1. PICK i \in Nat : i = n + 2
    OBVIOUS
  <2>2. Comeco(i)' = Len(fluxo')
    BY <1>5, <2>1 DEF Comeco
  <2> QED
    BY <1>11, <2>1, <2>2
<1>14. ASSUME NEW i \in 1 .. n + 1
       PROVE  /\ Comeco(i + 1)' = comeco'[i] + Todo(pacotes'[i])
              /\ Posta(pacotes[i], comeco[i])'
  <2>1. CASE i <= n
    <3>1. i \in 1 .. n /\ i \in 1 .. Len(pacotes) /\ i + 1 \in 1 .. n + 1
      BY <1>4, <2>1
    <3>2. /\ Comeco(i + 1) = comeco[i] + Todo(pacotes[i])
          /\ Posta(pacotes[i], comeco[i])
      BY <3>1 DEF CorrenteInv
    <3>3. comeco[i] \in Nat /\ pacotes[i] \in Mensagens
      BY <1>3, <3>1, ElementOfSeq
    <3>4. PICK c \in Nat, q \in Mensagens : c = comeco[i] /\ q = pacotes[i]
      BY <3>3
    <3>5. PICK k \in Nat : k = Todo(q)
      BY Forma
    <3>6. comeco'[i] = c /\ pacotes'[i] = q
      BY <1>5, <1>6, <3>1, <3>4
    <3>7. Comeco(i + 1)' = c + Todo(q)
      BY <1>12, <3>1, <3>2, <3>4
    <3>8. c + k <= l
      BY <1>4, <3>2, <3>4, <3>5 DEF Posta
    <3>9. c + Todo(q) <= Len(fluxo')
      BY <1>11, <3>5, <3>8
    <3>10. \A j \in 1 .. Todo(q) : fluxo'[c + j] = Codifica(q)[j]
      <4> SUFFICES ASSUME NEW j \in 1 .. k PROVE fluxo'[c + j] = Codifica(q)[j]
        BY <3>5
      <4>1. c + j \in 1 .. l
        BY <3>8
      <4>2. fluxo'[c + j] = fluxo[c + j]
        BY <1>11, <4>1
      <4>3. fluxo[c + j] = Codifica(q)[j]
        BY <3>2, <3>4, <3>5 DEF Posta
      <4> QED
        BY <4>2, <4>3
    <3> QED
      BY <3>6, <3>7, <3>9, <3>10 DEF Posta
  <2>2. CASE i = n + 1
    <3>1. comeco'[i] = l /\ pacotes'[i] = p
      BY <1>5, <1>6, <2>2
    <3>2. Comeco(i + 1)' = l + t
      <4>1. i + 1 = n + 2
        BY <2>2
      <4> QED
        BY <1>13, <4>1
    <3>3. Todo(pacotes'[i]) = t /\ comeco'[i] + Todo(pacotes'[i]) = l + t
      BY <1>4, <3>1
    <3>4. comeco'[i] + Todo(pacotes'[i]) <= Len(fluxo')
      BY <1>11, <3>3
    <3>5. \A j \in 1 .. t : fluxo'[comeco'[i] + j] = Codifica(pacotes'[i])[j]
      BY <1>11, <3>1
    <3> QED
      BY <3>2, <3>3, <3>4, <3>5 DEF Posta
  <2> QED
    BY <2>1, <2>2
<1>15. Comeco(1)' = 0
  <2>1. PICK i \in 1 .. n + 1 : i = 1
    OBVIOUS
  <2>2. Comeco(i)' = Comeco(i)
    BY <1>12
  <2> QED
    BY <1>3, <2>1, <2>2
<1>16. CorrenteInv'
  BY <1>5, <1>6, <1>11, <1>14, <1>15 DEF CorrenteInv
<1>17. ASSUME LeitorInv PROVE LeitorInv'
  <2>1. PICK f \in Nat : f = Len(feitas) /\ f <= n
    BY <1>4, <1>17, LenProperties DEF LeitorInv
  <2>2. /\ feitas' \in Seq(Mensagens) /\ Len(feitas') = f /\ f <= Len(pacotes')
        /\ \A i \in 1 .. Len(feitas') : feitas'[i] = pacotes'[i]
    <3>1. /\ feitas \in Seq(Mensagens) /\ \A i \in 1 .. f : feitas[i] = pacotes[i]
      BY <1>17, <2>1 DEF LeitorInv
    <3>2. \A i \in 1 .. f : i \in 1 .. n
      BY <2>1
    <3> QED
      BY <1>2, <1>5, <2>1, <3>1, <3>2
  <2>3. CASE /\ ent = <<>> /\ rpc \in {"recebe", "primeiro"} /\ pos = Comeco(Len(feitas) + 1)
             /\ evento = SEM_EVENTO /\ junto = <<>> /\ lidos = 0
    <3>1. PICK i \in 1 .. n + 1 : i = f + 1
      BY <2>1
    <3>2. Comeco(i)' = Comeco(i) /\ pos = Comeco(i)
      BY <1>12, <2>1, <2>3, <3>1
    <3>3. pos' = Comeco(Len(feitas) + 1)'
      BY <1>2, <2>2, <3>1, <3>2
    <3> QED
      BY <1>2, <2>2, <2>3, <3>3 DEF LeitorInv
  <2>4. CASE /\ Len(feitas) < Len(pacotes) /\ Len(ent) >= 1
             /\ Parte(ent, Codifica(pacotes[Len(feitas) + 1]))
             /\ Lendo(pacotes[Len(feitas) + 1]) \/ Entregando(pacotes[Len(feitas) + 1])
    <3>1. PICK i \in 1 .. n : i = f + 1
      BY <1>4, <2>1, <2>4
    <3>2. PICK q : q = pacotes[i]
      OBVIOUS
    <3>3. comeco'[i] = comeco[i] /\ pacotes'[i] = q
      BY <1>5, <1>6, <3>2
    <3>4. Len(feitas) + 1 = i /\ Len(feitas') + 1 = i
      BY <2>1, <2>2, <3>1
    <3>5. Lendo(q) \/ Entregando(q)
      BY <2>4, <3>2, <3>4
    <3>6. comeco'[Len(feitas') + 1] = comeco[Len(feitas) + 1]
      BY <3>3, <3>4
    <3>7. Lendo(q) => Lendo(q)'
      BY <1>2, <3>6 DEF Lendo
    <3>8. Entregando(q) => Entregando(q)'
      BY <1>2, <3>6 DEF Entregando
    <3>9. q = pacotes'[Len(feitas') + 1]
      BY <3>3, <3>4
    <3>10. Lendo(pacotes[Len(feitas) + 1])' \/ Entregando(pacotes[Len(feitas) + 1])'
      BY <3>5, <3>7, <3>8, <3>9 DEF Lendo, Entregando
    <3>11. Parte(ent', Codifica(q)) /\ Len(ent') >= 1
      BY <1>2, <2>4, <3>2, <3>4
    <3>12. Parte(ent, Codifica(pacotes[Len(feitas) + 1]))'
      BY <3>9, <3>11
    <3>13. Len(feitas') < Len(pacotes')
      BY <1>5, <2>1, <2>2
    <3> QED
      BY <2>2, <3>10, <3>11, <3>12, <3>13 DEF LeitorInv
  <2> QED
    BY <1>17, <2>3, <2>4 DEF LeitorInv
<1> QED
  BY <1>16, <1>17

\* Nothing was sent, nothing was read.
LEMMA PacInvInit == PacInit => PacInv
<1> SUFFICES ASSUME PacInit PROVE PacInv
  OBVIOUS
<1>1. /\ pacotes = <<>> /\ comeco = <<>> /\ fluxo = <<>> /\ pos = 0 /\ rpc = "recebe" /\ ent = <<>>
      /\ lidos = 0 /\ evento = SEM_EVENTO /\ junto = <<>> /\ feitas = <<>> /\ desvio = FALSE
  BY DEF PacInit
<1>2. /\ pacotes \in Seq(Mensagens) /\ Len(pacotes) = 0 /\ comeco \in Seq(Nat) /\ Len(comeco) = 0
      /\ fluxo \in Seq(Byte) /\ Len(fluxo) = 0 /\ feitas \in Seq(Mensagens) /\ Len(feitas) = 0
  BY <1>1, EmptySeq
<1>3. \A i \in Nat : i >= 1 => Comeco(i) = 0
  BY <1>2 DEF Comeco
<1>4. CorrenteInv
  <2>1. PICK i \in Nat : i = 1
    OBVIOUS
  <2>2. Comeco(1) = 0
    BY <1>3, <2>1
  <2> QED
    BY <1>2, <2>2 DEF CorrenteInv
<1>5. LeitorInv
  <2>1. PICK i \in Nat : i = Len(feitas) + 1 /\ i >= 1
    BY <1>2
  <2>2. pos = Comeco(Len(feitas) + 1)
    BY <1>1, <1>3, <2>1
  <2> QED
    BY <1>1, <1>2, <2>2 DEF LeitorInv
<1> QED
  BY <1>1, <1>4, <1>5 DEF PacInv

\* What was lost is not found again.
LEMMA DesvioFica ==
  ASSUME desvio \in BOOLEAN, PacNext
  PROVE  desvio' \in BOOLEAN /\ (desvio => desvio')
BY DEF PacNext, Envia, Recebe, LePrimeiro, LeTamanho, Total, LeTopico, LeResto, Processa, Entrega,
       EntregaMais, Confirma, PacFim, Interrompida, Erro, pacVars

\* The reader does not change the stream.
LEMMA CorrenteFica ==
  ASSUME PacNext, ~Envia
  PROVE  UNCHANGED <<pacotes, comeco, fluxo>>
BY DEF PacNext, Recebe, LePrimeiro, LeTamanho, Total, LeTopico, LeResto, Processa, Entrega,
       EntregaMais, Confirma, PacFim, Interrompida, Erro, pacVars

\* A step that changes nothing keeps both parts.
LEMMA ParadoPasso ==
  ASSUME UNCHANGED pacVars
  PROVE  (CorrenteInv => CorrenteInv') /\ (LeitorInv => LeitorInv')
<1>1. /\ pacotes' = pacotes /\ comeco' = comeco /\ fluxo' = fluxo /\ pos' = pos /\ rpc' = rpc /\ ent' = ent
      /\ alvo' = alvo /\ lidos' = lidos /\ evento' = evento /\ junto' = junto /\ feitas' = feitas
  BY DEF pacVars
<1> QED
  BY <1>1 DEF CorrenteInv, Comeco, Posta, LeitorInv, Lendo, Entregando

\* Every step keeps the invariant.
LEMMA PacInvPasso ==
  ASSUME PacInv, [PacNext]_pacVars
  PROVE  PacInv'
<1>1. CorrenteInv /\ desvio \in BOOLEAN /\ (desvio \/ LeitorInv)
  BY DEF PacInv
<1>2. CASE UNCHANGED pacVars
  <2>1. desvio' = desvio
    BY <1>2 DEF pacVars
  <2> QED
    BY <1>1, <1>2, <2>1, ParadoPasso DEF PacInv
<1>3. CASE PacNext
  <2>1. desvio' \in BOOLEAN /\ (desvio => desvio')
    BY <1>1, <1>3, DesvioFica
  <2>2. CorrenteInv'
    <3>1. CASE Envia
      BY <1>1, <3>1, EnviaPasso
    <3>2. CASE ~Envia
      <4>1. pacotes' = pacotes /\ comeco' = comeco /\ fluxo' = fluxo
        BY <1>3, <3>2, CorrenteFica
      <4> QED
        BY <1>1, <4>1 DEF CorrenteInv, Comeco, Posta
    <3> QED
      BY <3>1, <3>2
  <2>3. ASSUME ~desvio' PROVE LeitorInv'
    <3>1. LeitorInv
      BY <1>1, <2>1, <2>3
    <3>2. CASE PacFim
      BY <3>1, <3>2, ParadoPasso DEF PacFim
    <3>3. CASE Envia
      BY <1>1, <3>1, <3>3, EnviaPasso
    <3>4. CASE Recebe
      BY <1>1, <2>3, <3>1, <3>4, RecebePasso
    <3>5. CASE LePrimeiro
      BY <1>1, <3>1, <3>5, LePrimeiroPasso
    <3>6. CASE LeTamanho
      BY <1>1, <3>1, <3>6, LeTamanhoPasso
    <3>7. CASE Total
      BY <1>1, <3>1, <3>7, TotalPasso
    <3>8. CASE LeTopico
      BY <1>1, <3>1, <3>8, LeTopicoPasso
    <3>9. CASE LeResto
      BY <1>1, <3>1, <3>9, LeRestoPasso
    <3>10. CASE Processa
      BY <1>1, <3>1, <3>10, ProcessaPasso
    <3>11. CASE Entrega
      BY <1>1, <3>1, <3>11, EntregaPasso
    <3>12. CASE EntregaMais
      BY <1>1, <2>3, <3>1, <3>12, EntregaMaisPasso
    <3>13. CASE Confirma
      BY <1>1, <3>1, <3>13, ConfirmaPasso
    <3> QED
      BY <1>3, <3>2, <3>3, <3>4, <3>5, <3>6, <3>7, <3>8, <3>9, <3>10, <3>11, <3>12, <3>13 DEF PacNext
  <2> QED
    BY <2>1, <2>2, <2>3 DEF PacInv
<1> QED
  BY <1>2, <1>3

\* The beginning of a run of data is a run of data.
LEMMA BytesAte ==
  ASSUME NEW k \in Nat, NEW j \in 0 .. k
  PROVE  Bytes("d", j) = SubSeq(Bytes("d", k), 1, j)
<1>1. PICK b \in Seq(Byte) : b = Bytes("d", k) /\ Len(b) = k /\ \A i \in 1 .. k : b[i] = <<"d", i>>
  BY BytesTipo DEF Marcas
<1>2. PICK u \in Seq(Byte) : u = Bytes("d", j) /\ Len(u) = j /\ \A i \in 1 .. j : u[i] = <<"d", i>>
  <2>1. j \in Nat
    OBVIOUS
  <2> QED
    BY <2>1, BytesTipo DEF Marcas
<1>3. PICK a \in Int : a = 1
  OBVIOUS
<1>4. \A i \in a .. j : b[i] \in Byte
  <2> SUFFICES ASSUME NEW i \in a .. j PROVE b[i] \in Byte
    OBVIOUS
  <2>1. i \in 1 .. Len(b)
    BY <1>1, <1>3
  <2> QED
    BY <2>1, ElementOfSeq
<1>5. PICK t : t = SubSeq(b, a, j)
  OBVIOUS
<1>6. j \in Int /\ (IF a <= j THEN j - a + 1 ELSE 0) = j /\ j - a + 1 = j /\ \A i \in 1 .. j : a + i - 1 = i
  BY <1>3
<1>7. t \in Seq(Byte) /\ Len(t) = j /\ \A i \in 1 .. j : t[i] = b[i]
  BY <1>4, <1>5, <1>6, SubSeqProperties
<1>8. \A i \in 1 .. j : t[i] = u[i]
  <2> SUFFICES ASSUME NEW i \in 1 .. j PROVE t[i] = u[i]
    OBVIOUS
  <2>1. i \in 1 .. k
    OBVIOUS
  <2>2. t[i] = b[i] /\ b[i] = <<"d", i>> /\ u[i] = <<"d", i>>
    BY <1>1, <1>2, <1>7, <2>1
  <2> QED
    BY <2>2
<1>9. t = u
  BY <1>2, <1>7, <1>8, SeqEqual
<1> QED
  BY <1>1, <1>2, <1>3, <1>5, <1>9

\* What is done is what was sent.
LEMMA PacInvMostra == PacInv => QuadroCerto
<1> SUFFICES ASSUME PacInv, ~desvio
             PROVE  /\ Len(feitas) <= Len(pacotes) /\ \A i \in DOMAIN feitas : feitas[i] = pacotes[i]
                    /\ rpc \in {"recebe", "primeiro"} /\ ent = <<>> =>
                         pos = IF Len(feitas) < Len(pacotes) THEN comeco[Len(feitas) + 1] ELSE Len(fluxo)
                    /\ rpc # "erro"
                    /\ evento # SEM_EVENTO =>
                         /\ evento.offset + evento.len = Len(junto)
                         /\ evento.total = Len(pacotes[Len(feitas) + 1].dados)
                         /\ junto = SubSeq(pacotes[Len(feitas) + 1].dados, 1, Len(junto))
                         /\ (evento.topico = TOPICO) = (evento.offset = 0 /\ evento.len = Len(junto) /\ lidos = Len(ent))
  BY DEF QuadroCerto
<1>1. CorrenteInv /\ LeitorInv
  BY DEF PacInv
<1>2. Len(feitas) \in Nat /\ Len(pacotes) \in Nat
  BY <1>1, LenProperties DEF CorrenteInv, LeitorInv
<1>3. Len(feitas) <= Len(pacotes) /\ \A i \in DOMAIN feitas : feitas[i] = pacotes[i]
  <2>1. DOMAIN feitas = 1 .. Len(feitas)
    BY <1>1, LenProperties DEF LeitorInv
  <2> QED
    BY <1>1, <2>1 DEF LeitorInv
<1>4. CASE ent = <<>> /\ rpc \in {"recebe", "primeiro"}
  <2>1. pos = Comeco(Len(feitas) + 1) /\ evento = SEM_EVENTO
    BY <1>1, <1>4, EmptySeq DEF LeitorInv
  <2>2. (Len(feitas) + 1 <= Len(pacotes)) = (Len(feitas) < Len(pacotes))
    BY <1>2
  <2>3. pos = IF Len(feitas) < Len(pacotes) THEN comeco[Len(feitas) + 1] ELSE Len(fluxo)
    BY <2>1, <2>2 DEF Comeco
  <2> QED
    BY <1>3, <1>4, <2>1, <2>3
<1>5. CASE ~(ent = <<>> /\ rpc \in {"recebe", "primeiro"})
  <2>1. PICK q \in Mensagens : q = pacotes[Len(feitas) + 1] /\ (Lendo(q) \/ Entregando(q))
    BY <1>1, <1>5, Atual
  <2>2. rpc # "erro"
    BY <2>1 DEF Lendo, Entregando
  <2>3. ASSUME evento # SEM_EVENTO
        PROVE  /\ evento.offset + evento.len = Len(junto)
               /\ evento.total = Len(pacotes[Len(feitas) + 1].dados)
               /\ junto = SubSeq(pacotes[Len(feitas) + 1].dados, 1, Len(junto))
               /\ (evento.topico = TOPICO) = (evento.offset = 0 /\ evento.len = Len(junto) /\ lidos = Len(ent))
    <3>1. Entregando(q)
      BY <2>1, <2>3 DEF Lendo
    <3>2. /\ q.tipo = "PUBLISH" /\ Len(ent) >= Fixo(q) + 7 /\ lidos \in Len(ent) .. Todo(q)
          /\ junto = Bytes("d", lidos - (Fixo(q) + 7))
          /\ evento.offset + evento.len = lidos - (Fixo(q) + 7)
          /\ evento.total = Len(q.dados)
          /\ (evento.topico = TOPICO) = (evento.offset = 0 /\ evento.len = lidos - (Fixo(q) + 7) /\ lidos = Len(ent))
      BY <3>1 DEF Entregando
    <3>3. PICK k \in CARGAS : q.dados = Bytes("d", k) /\ k \in Nat /\ Todo(q) = Fixo(q) + 7 + k
      BY <3>2, PublicaLugar
    <3>4. PICK g \in 2 .. 5 : g = Fixo(q)
      BY Forma
    <3>5. Len(ent) \in Nat
      <4>1. Len(ent) \in Int
        BY <1>1, <1>5, Atual, LenProperties DEF Parte
      <4> QED
        BY <3>2, <3>4, <4>1
    <3>6. PICK j \in 0 .. k : j = lidos - (Fixo(q) + 7)
      <4>1. lidos \in Int /\ lidos >= g + 7 /\ lidos <= g + 7 + k
        BY <3>2, <3>3, <3>4, <3>5
      <4>2. lidos - (g + 7) \in 0 .. k
        BY <3>3, <4>1
      <4> QED
        BY <3>4, <4>2
    <3>7. junto = Bytes("d", j) /\ Len(junto) = j
      <4>1. j \in Nat
        OBVIOUS
      <4> QED
        BY <3>2, <3>6, <4>1, BytesTipo DEF Marcas
    <3>8. junto = SubSeq(q.dados, 1, Len(junto))
      BY <3>3, <3>7, BytesAte
    <3> QED
      BY <2>1, <3>2, <3>6, <3>7, <3>8
  <2> QED
    BY <1>3, <1>5, <2>2, <2>3
<1> QED
  BY <1>4, <1>5

\* However many messages are sent, whatever is in them, and however the bytes are cut
\* by the readings, the messages done are the ones sent, in order and whole, each begins
\* where the last one ended, none is refused, and the events of a publication have its
\* data at their offsets; except after a length resumed past its end, or a long
\* publication whose sender stopped (mqtt_client.c:1104-1168, 1255-1362, 1283, 1161).
THEOREM QuadroChegaCerto == PacInit /\ [][PacNext]_pacVars => []QuadroCerto
<1>1. PacInit => PacInv
  BY PacInvInit
<1>2. PacInv /\ [PacNext]_pacVars => PacInv'
  BY PacInvPasso
<1>3. PacInv => QuadroCerto
  BY PacInvMostra
<1> QED
  BY <1>1, <1>2, <1>3, PTL
=============================================================================
