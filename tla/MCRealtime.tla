----------------------------- MODULE MCRealtime -----------------------------
EXTENDS Realtime, TLC
CONSTANTS d1, s1, s2

(* Two pages of one device.                                                *)
OneDevice == s1 :> d1 @@ s2 :> d1

=============================================================================
