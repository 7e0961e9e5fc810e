--------------------------- MODULE MCTelnetOutBuf ---------------------------
(* Instances of TelnetOutBuf for TLC.                                      *)
EXTENDS TelnetOutBuf

=============================================================================
