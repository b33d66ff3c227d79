----------------------------- MODULE MCGuidance -----------------------------
(***************************************************************************)
(* The faults of the other instances in one knowledge base, each opened and *)
(* followed to its end.                                                     *)
(***************************************************************************)
EXTENDS Guidance, Faults, TLC

MCKeys == EngineKeys \cup {TractionFound, Isolated, PowerBlock, Grounded, NotLowered, Traction1Found, LongInterval,
                           Frequently, OnePosition, Q44Energised, DJCloses, Permission, GRTest, Motor}

MCKB == "QLM_dropped" :> QLM(2) @@ "QLM_with_QOP_QRSI" :> QLMWithQOP(1) @@ "pantograph_damaged" :> Pantograph
        @@ "QRSI1_drops_on_run" :> QRSI1 @@ "ICDJ" :> ICDJ @@ "ICDJ_Q44_branch" :> Q44Branch
        @@ "Isolation_of_traction_motors" :> IsolationOfTM
=============================================================================
