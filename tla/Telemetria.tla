------------------------------ MODULE Telemetria ------------------------------
(***************************************************************************)
(* What the MQTT client promises for the telemetry it accepts: delivery at *)
(* least once, or the loss of a message that waited too long, and never a  *)
(* report of success for a message the broker does not have.               *)
(***************************************************************************)
CONSTANT Mensagens

VARIABLES
  pendentes,   \* accepted, and neither reported nor given up
  emvoo,       \* copies on their way
  entregues,   \* what the broker has
  reportadas   \* what the application was told was published

vars == <<pendentes, emvoo, entregues, reportadas>>

Init == pendentes = {} /\ emvoo = {} /\ entregues = {} /\ reportadas = {}

\* A new message is taken, and at once sent, or not; or its sending takes the
\* connection down.
Aceita ==
  /\ \E m \in Mensagens \ (pendentes \cup emvoo \cup entregues \cup reportadas) :
        /\ pendentes' = pendentes \cup {m}
        /\ emvoo' \in {emvoo, emvoo \cup {m}, {}}
  /\ UNCHANGED <<entregues, reportadas>>

Envia ==
  /\ \E m \in pendentes : emvoo' = emvoo \cup {m}
  /\ UNCHANGED <<pendentes, entregues, reportadas>>

\* Another copy may remain on its way.
Entrega ==
  /\ \E m \in emvoo : entregues' = entregues \cup {m} /\ emvoo' \in {emvoo, emvoo \ {m}}
  /\ UNCHANGED <<pendentes, reportadas>>

Perde == emvoo' = {} /\ UNCHANGED <<pendentes, entregues, reportadas>>

Reporta ==
  /\ \E m \in pendentes \cap entregues :
        pendentes' = pendentes \ {m} /\ reportadas' = reportadas \cup {m}
  /\ UNCHANGED <<emvoo, entregues>>

Vence ==
  /\ \E m \in pendentes : pendentes' = pendentes \ {m}
  /\ UNCHANGED <<emvoo, entregues, reportadas>>

\* The client stops for good.
Encerra == pendentes' = {} /\ emvoo' = {} /\ UNCHANGED <<entregues, reportadas>>

Next == Aceita \/ Envia \/ Entrega \/ Perde \/ Reporta \/ Vence \/ Encerra

Spec == Init /\ [][Next]_vars
=============================================================================
