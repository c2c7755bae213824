----------------------------- MODULE MCAttempt -----------------------------
(* Instances of Attempt for TLC.  Arguments on both sides of what Validate *)
(* lets through, for fields of every kind and for those it relates.        *)
EXTENDS Attempt

MCSetters ==
  { <<"protocol", "UDP">>, <<"firstHop", 10>>, <<"maxHops", 5>>, <<"wait", 1500>>,
    <<"squeries", 5>>, <<"gapLimit", 5>>, <<"payloadHex", "">>, <<"userID", 7>>,
    <<"stream", 1>>, <<"pmtud", TRUE>>, <<"pmtud", FALSE>> }
MCExtraArgs == { <<"-m", "7">>, <<"a b">> }

ConfigSymmetry == Permutations(Configs)
=============================================================================
