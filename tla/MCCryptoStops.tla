---------------------------- MODULE MCCryptoStops ----------------------------
(* One pair: its battery, then two or three stops of up to three units on a *)
(* grid of two.                                                             *)
EXTENDS CryptoStops
=============================================================================
