----------------------------- MODULE MCScreens -----------------------------
(* Screens for TLC: the page's thread and one more, one load and the sync. *)
EXTENDS Screens, TLC

CONSTANTS own, other, sync, direct

MCThreads == {own, other}
MCSlots   == {sync, direct}
=============================================================================
