------------------------- MODULE MCSerialAutomation -------------------------
(* The instance of the run "serial" is one of those the proofs are about.  *)
EXTENDS MCAutomation, SerialAutomation

ASSUME SerialAssumption == Undisturbed
=============================================================================
