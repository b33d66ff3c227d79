------------------------------ MODULE MCEngine ------------------------------
(***************************************************************************)
(* The procedures that differ in kind, in one knowledge base: the relay     *)
(* reset and the reroute to the procedure with an isolation, roof work      *)
(* behind two preconditions, alternative routes and what a claim implies, a *)
(* hub left for the branch whose last step is hazardous, and an observation *)
(* followed by a branch on the loco.  A conversation stays with one         *)
(* situation; the pilot says what its messages may be parsed into, in any   *)
(* order and as often as they like.                                         *)
(***************************************************************************)
EXTENDS Diagnosis, Faults, TLC

VARIABLE situation  \* what this conversation is about

MCKeys == EngineKeys \cup {TractionFound, Isolated, PowerBlock, Grounded, NotLowered, Traction1Found, LongInterval,
                           Frequently, OnePosition, Q44Energised, DJCloses, Permission, GRTest, Motor}

MCKB == "QLM_dropped" :> QLM(2) @@ "QLM_with_QOP_QRSI" :> QLMWithQOP(2) @@ "pantograph_damaged" :> Pantograph
        @@ "QRSI1_drops_on_run" :> QRSI1 @@ "ICDJ" :> ICDJ @@ "ICDJ_Q44_branch" :> Q44Branch
        @@ "Isolation_of_traction_motors" :> IsolationOfTM

Says(k, v)   == [NoNews EXCEPT !.facts[k] = v]
YesOrNo(S)   == {Says(k, v) : k \in S, v \in {"yes", "no"}}
Claiming(S)  == [NoNews EXCEPT !.claimed = S]
ClaimsOne(f) == {Claiming({s}) : s \in StepIds(f)}
Intends(act) == [NoNews EXCEPT !.intent = act]
Denies       == [NoNews EXCEPT !.denies = TRUE]
Agrees       == [NoNews EXCEPT !.confirmed = "yes"]
ActsAgain    == [NoNews EXCEPT !.confirmed = "yes", !.presenting = TRUE]
Presents(x)  == [NoNews EXCEPT !.fault = x, !.confirmed = "yes", !.presenting = TRUE]
Guesses(x)   == [NoNews EXCEPT !.fault = x, !.confirmed = "no"]
WithRelay(u) == [u EXCEPT !.tellsRelays = TRUE, !.relays = {"QOP-1"}]
Loco(v)      == [NoNews EXCEPT !.loco[RB] = v]

BothChecks == {"check_ht2_compartment", "check_oil_levels"}

\* One relay, its two identical checks and the reset.
FirstReset ==
    {NoNews, Presents("QLM_dropped"), Guesses("QLM_dropped"), ActsAgain, Agrees, Denies, Intends("reset_QLM"),
     Claiming({"check_ht2_compartment"}), Claiming({"check_oil_levels", "look_around"}),
     Claiming({"reset_decision"}), [Claiming({"reset_decision"}) EXCEPT !.presenting = TRUE],
     [Claiming({"reset_decision"}) EXCEPT !.facts[QLMResetEarlier] = "yes", !.facts[FaultResolved] = "yes"]}
    \cup YesOrNo({Abnormality, QLMResetEarlier}) \cup {Says(FaultResolved, "yes"), Says(FaultRecurred, "yes")}

\* A traction relay acted with it: the reroute, and an abnormality that can be isolated.
TwoRelays ==
    {Presents("QLM_dropped"), [Guesses("QLM_with_QOP_QRSI") EXCEPT !.presenting = TRUE], ActsAgain, WithRelay(NoNews),
     [WithRelay(Presents("QLM_dropped")) EXCEPT
         !.claimed = BothChecks \cup {"check_traction_power_circuit", "look_around"}],
     Claiming(BothChecks), Claiming({"check_traction_power_circuit"}), Claiming({"reset_decision"}),
     Says(QLMResetEarlier, "no")}
    \cup YesOrNo({Abnormality, TractionFound, Isolated})

RoofWork ==
    {Presents("pantograph_damaged"), Guesses("pantograph_damaged"), Agrees, Denies, Intends("work_on_roof"),
     [NoNews EXCEPT !.clearIntent = TRUE], Says(NotLowered, "yes"), Says(FaultResolved, "yes"),
     Claiming({"secure_damaged_pantograph_on_roof", "earth_damaged_pantograph_hpt"})}
    \cup YesOrNo({PowerBlock, Grounded}) \cup ClaimsOne(Pantograph)

Routes ==
    {Presents("QRSI1_drops_on_run"), Says(Traction1Found, "yes"), Says(OnePosition, "yes")}
    \cup YesOrNo({Isolated, LongInterval, Frequently}) \cup ClaimsOne(QRSI1)

Wedging ==
    {Guesses("ICDJ"), Presents("ICDJ_Q44_branch"), Agrees, Intends("wedge_Q44"), Says(Q44Energised, "no"),
     Says(GRTest, "yes")}
    \cup YesOrNo({DJCloses, Permission}) \cup ClaimsOne(ICDJ) \cup ClaimsOne(Q44Branch)

Motors ==
    {Presents("Isolation_of_traction_motors"), Guesses("Isolation_of_traction_motors"), NoNews, Denies,
     Says(Motor, "tm2"), Says(FaultResolved, "yes"), Loco("fitted"), Loco("not_fitted")}
    \cup ClaimsOne(IsolationOfTM)

Situations == <<FirstReset, TwoRelays, RoofWork, Routes, Wedging, Motors>>
MCMessages == UNION {Situations[n] : n \in DOMAIN Situations}

-----------------------------------------------------------------------------
SituationInit == Init /\ situation \in DOMAIN Situations

OneSituation ==
    /\ SituationInit
    /\ [][UNCHANGED situation /\ \E u \in Situations[situation] : Turn(u)]_<<vars, situation>>
=============================================================================
