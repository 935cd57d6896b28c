--------------------------- MODULE MCDataRelayer ---------------------------
(* DataRelayer with two halting threads: the main thread and the one of    *)
(* the control packets.                                                    *)
EXTENDS DataRelayer
=============================================================================
