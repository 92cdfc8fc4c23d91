-------------------------------- MODULE Wire --------------------------------
(***************************************************************************)
(* The three formats that travel between a browser and the library: proofs *)
(* in, instructions out, and the headers that carry them and more.  They   *)
(* share no state, so they are taken one at a time.                        *)
(***************************************************************************)
EXTENDS HeaderWire, InstructionWire, ProofWire

vars == <<headerVars, json, proofVars>>

Init == HeaderInit /\ InstructionInit /\ ProofInit

Headers ==
  /\ json = <<>> /\ original = None
  /\ HeaderNext
  /\ UNCHANGED <<json, proofVars>>

Instructions ==
  /\ entries = <<>> /\ original = None
  /\ InstructionNext
  /\ UNCHANGED <<headerVars, proofVars>>

Proofs ==
  /\ entries = <<>> /\ json = <<>>
  /\ ProofNext
  /\ UNCHANGED <<headerVars, json>>

Next == Headers \/ Instructions \/ Proofs

Spec == Init /\ [][Next]_vars

=============================================================================
