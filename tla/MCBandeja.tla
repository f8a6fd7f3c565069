----------------------------- MODULE MCBandeja -----------------------------
(* The instance of Bandeja for TLC: who logs in.                           *)
EXTENDS Bandeja, TLC

CONSTANTS ana, luis, p1

DeAna == p1 :> ana
=============================================================================
