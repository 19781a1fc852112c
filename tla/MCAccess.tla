------------------------------ MODULE MCAccess ------------------------------
(* Access for TLC: one device with one socket.                             *)
EXTENDS Access, TLC
CONSTANTS d1, s1
OneDevice == s1 :> d1
=============================================================================
