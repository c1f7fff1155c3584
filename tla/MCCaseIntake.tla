---------------------------- MODULE MCCaseIntake ----------------------------
(* Instances of CaseIntake for TLC.                                         *)
EXTENDS CaseIntake, TLC

IntakeSymmetry ==
    Permutations(Ids) \cup Permutations(Keys) \cup Permutations(Sessions)
=============================================================================
