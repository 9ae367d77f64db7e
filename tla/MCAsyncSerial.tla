----------------------------- MODULE MCAsyncSerial ----------------------------
(* Transfers for TLC: one the UART may take in parts after one it takes at *)
(* once, so that the interrupt of the first may find the second, and one   *)
(* of no bytes.                                                            *)
EXTENDS AsyncSerial

Transfers == <<1, 2, 0>>
===============================================================================
