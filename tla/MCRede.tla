------------------------------- MODULE MCRede -------------------------------
(* The Wi-Fi station, the driver and app_main.                             *)
EXTENDS Rede
=============================================================================
