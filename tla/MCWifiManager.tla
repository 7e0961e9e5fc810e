--------------------------- MODULE MCWifiManager ----------------------------
(* Instances of WifiManager for TLC.                                       *)
EXTENDS WifiManager

(* One tick for the first retry, two for the later ones.                   *)
BackoffTwo == <<1, 2>>

=============================================================================
