---------------------------- MODULE MCUartSocket ----------------------------
(* Instances of UartSocket for TLC.                                        *)
EXTENDS UartSocket
=============================================================================
