--------------------------- MODULE MCQuarantine ---------------------------
(* Two alerts that name one path, one of them fit to be moved by a chain. *)
EXTENDS Quarantine

CONSTANTS a1, a2

===========================================================================
