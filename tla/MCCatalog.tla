----------------------------- MODULE MCCatalog ------------------------------
(* Catalog for TLC.                                                        *)
EXTENDS Catalog
CONSTANTS p1, e1, v1, v2
=============================================================================
