--------------------------- MODULE MCInstrumenter ---------------------------
(* Sources with up to five places, in any order and with any numbers of DCE *)
(* and VR markers: fewer, as many and more of one kind than of the other.  *)
EXTENDS Instrumenter
=============================================================================
