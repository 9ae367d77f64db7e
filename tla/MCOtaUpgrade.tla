---------------------------- MODULE MCOtaUpgrade ------------------------------
(* A file with one sub-element the library does not know, and an upgrade   *)
(* image of two images.                                                    *)
EXTENDS OtaUpgrade

MCSkipped == <<4>>
===============================================================================
