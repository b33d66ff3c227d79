-------------------------------- MODULE Faults --------------------------------
(***************************************************************************)
(* Excerpts of the knowledge base (kb/faults/*.yaml): each fault with the   *)
(* steps that differ in kind (gate, branch, isolation, observation) and as  *)
(* many of its plain checks as an instance asks for.                        *)
(***************************************************************************)
EXTENDS Reflex

EngineKeys == {Abnormality, FaultResolved, FaultRecurred, ResetPerformed, ResetInstructed, QLMResetEarlier}

Is(k, v) == [fact |-> k, value |-> v]

-----------------------------------------------------------------------------
(* qlm_dropped, qlm_with_qop_qrsi, qla_dropped: a relay reset only once.    *)

Isolated        == "isolation_successful"
TractionFound   == "traction_abnormality_found"
AuxFound        == "aux_abnormality_found"
QLAResetEarlier == "was_QLA_reset_earlier_this_trip"

ResetDecision == [Step("reset_decision") EXCEPT !.gate = ResetLimit(QLMResetEarlier, FaultRecurred)]

FeedingChecks(n) ==
    SubSeq(<< Step("check_ht2_compartment"), Step("check_oil_levels"),
              [Step("check_arc_chutes_and_terminals") EXCEPT !.finding = "arc_chute_terminal_abnormality"] >>, 1, n)

QLM(n) ==
    [Fault("QLM_dropped", FeedingChecks(n) \o <<ResetDecision>>)
     EXCEPT !.combos = << [also |-> {"QOP-1", "QOP-2", "QRSI-1", "QRSI-2"}, to |-> "QLM_with_QOP_QRSI"],
                          [also |-> {"QLA", "QOA"}, to |-> "QLM_with_QLA_QOA"] >>]

QLMWithQOP(n) ==
    Fault("QLM_with_QOP_QRSI",
          FeedingChecks(n) \o
          << [Step("check_traction_power_circuit") EXCEPT !.abnormality = TractionFound, !.isolation = Isolated],
             ResetDecision >>)

QLA == Fault("QLA_dropped",
             << [Step("check_aux_circuit_for_smoke_smell_fire") EXCEPT
                    !.abnormality = AuxFound, !.isolation = Isolated],
                [Step("reset_qla") EXCEPT !.gate = ResetLimit(QLAResetEarlier, FaultRecurred)] >>)

-----------------------------------------------------------------------------
(* dj_tripped_on_line: the intake hub, whose combinations lead to QLM.      *)

Tripped == [Fault("DJ_tripped_on_line", << Step("prepare_loco_to_pick_up_abnormal_sign") >>)
               EXCEPT !.combos = << [also |-> {"QLM"}, to |-> "QLM_dropped"] >>, !.unresolved = "unresolved"]

\* manual_operation_of_relays: one of three relays is pressed by hand, which is hazardous,
\* and the pilot is sent back to that hub if DJ does not close.
ManualRelay           == "manual_relay"
C118Opened            == "c118_fully_opened"
ClosesWithManualRelay == "dj_closes_with_manual_relay"

ManualOperation ==
    [Fault("Manual_operation_of_relays",
        << [Step("identify_which_relay_is_to_be_operated_manually") EXCEPT !.elicits = ManualRelay],
           Step("stop_the_train_break_the_seal_and_open_the_relay_cover"),
           [Step("q118_ensure_c118_fully_opened") EXCEPT
               !.applies = {Is(ManualRelay, "q118")}, !.elicits = C118Opened],
           [Step("q118_press_relay_then_bp2dj") EXCEPT
               !.applies = {Is(ManualRelay, "q118")}, !.gate = HazardExposure("work_on_relay", {C118Opened})],
           [Step("q118_release_relay_after_30_seconds") EXCEPT
               !.applies = {Is(ManualRelay, "q118")}, !.elicits = ClosesWithManualRelay, !.completes = TRUE] >>)
     EXCEPT !.routes = << [fact |-> ClosesWithManualRelay, equals |-> "no", to |-> "DJ_tripped_on_line"] >>,
            !.phrases = {ManualRelay}, !.resolved = "resolved", !.unresolved = "unresolved"]

-----------------------------------------------------------------------------
(* pantograph_damaged: work on the roof, and a situation left to TLC.       *)

PowerBlock == "ohe_power_block_obtained_and_earthed"
Grounded   == "loco_grounded"
NotLowered == "pantograph_not_lowered"

Pantograph ==
    [Fault("pantograph_damaged",
        << Step("obtain_emergency_power_block"),
           [Step("secure_damaged_pantograph_on_roof") EXCEPT
               !.gate = HazardExposure("work_on_roof", {PowerBlock, Grounded})],
           Step("earth_damaged_pantograph_hpt"),
           [Step("resume_traction_and_report") EXCEPT !.completes = TRUE] >>)
     EXCEPT !.defers = << [fact |-> NotLowered, equals |-> "yes", after |-> {}] >>,
            !.resolved = "resolved", !.unresolved = "unresolved"]

-----------------------------------------------------------------------------
(* qrsi1_drops_on_run: no gate, alternative routes, facts a claim implies.  *)

Traction1Found == "traction1_abnormality_found"
LongInterval   == "drops_after_long_interval"
Frequently     == "drops_frequently"
OnePosition    == "drops_in_particular_hmcs1_position"

QRSI1 ==
    [Fault("QRSI1_drops_on_run",
        << [Step("check_traction_circuit_1") EXCEPT !.abnormality = Traction1Found, !.isolation = Isolated],
           [Step("recheck_and_reset_if_drops_after_long_interval") EXCEPT
               !.head = IfClause, !.applies = {Is(LongInterval, "yes")}],
           [Step("try_hmcs1_positions_if_frequent") EXCEPT
               !.head = IfClause, !.applies = {Is(Frequently, "yes")},
               !.implies = {Is(Frequently, "yes"), Is(LongInterval, "no")}],
           [Step("isolate_tm_of_bad_hmcs1_position") EXCEPT
               !.head = IfClause, !.applies = {Is(Frequently, "yes"), Is(OnePosition, "yes")},
               !.implies = {Is(Frequently, "yes"), Is(LongInterval, "no"), Is(OnePosition, "yes")},
               !.completes = TRUE] >>)
     EXCEPT !.resolved = "resolved", !.unresolved = "unresolved"]

-----------------------------------------------------------------------------
(* icdj, icdj_q44_branch: a hub left on a stated fact for the branch whose  *)
(* last step, wedging, is hazardous and due in one of two situations.       *)

Q44Energised == "q44_energised"
DJCloses     == "dj_closes_with_manual_q44"
Permission   == "tlc_permission_for_wedging_q44"
GRTest       == "gr_efficiency_test_done"

ICDJ ==
    [Fault("ICDJ", << Step("stop_and_secure_train") >>)
     EXCEPT !.routes = << [fact |-> Q44Energised, equals |-> "no", to |-> "ICDJ_Q44_branch"] >>,
            !.confirmFirst = TRUE, !.unresolved = "unresolved"]

Q44Branch ==
    [Fault("ICDJ_Q44_branch",
        << Step("energise_q44_manually"),
           [Step("resume_traction_operating_q44_manually_each_time") EXCEPT
               !.applies = {Is(DJCloses, "yes")}, !.requiresStated = TRUE, !.completes = TRUE],
           [Step("wedge_q44") EXCEPT
               !.gate = HazardExposure("wedge_Q44", {Permission, GRTest}),
               !.applies = {Is(DJCloses, "no")}, !.requiresStated = TRUE, !.completes = TRUE] >>)
     EXCEPT !.resolved = "resolved", !.unresolved = "unresolved"]

-----------------------------------------------------------------------------
(* isolation_of_traction_motors: an observation, and the rheostatic-braking *)
(* axis of the loco.                                                        *)

Motor == "tm_to_isolate"
RB    == "loco_rb"

IsolationOfTM ==
    [Fault("Isolation_of_traction_motors",
        << [Step("identify_the_traction_motor_to_isolate") EXCEPT !.elicits = Motor],
           Step("isolate_positive_side_by_hmcs_position"),
           [Step("isolate_negative_side_by_reverser_bit_rb_fitted") EXCEPT
               !.applies = {Is(RB, "fitted")}, !.completes = TRUE],
           [Step("isolate_negative_side_by_reverser_bit_no_rb") EXCEPT
               !.applies = {Is(RB, "not_fitted")}, !.completes = TRUE] >>)
     EXCEPT !.axes = {RB}, !.resolved = "resolved", !.unresolved = "unresolved"]
-----------------------------------------------------------------------------
(* lschba_glows_on_run: an observation whose wordings ("DJ trips") are also  *)
(* the hub's alias, then a branch on the cause it shows.                     *)

Cause == "lschba_cause"

LSCHBA ==
    [Fault("LSCHBA_glows_on_run",
        << [Step("keep_hba_zero_and_observe_whether_dj_trips") EXCEPT !.elicits = Cause],
           [Step("chba_ensure_hchba_on_1") EXCEPT !.applies = {Is(Cause, "chba_defective")}],
           [Step("chba_use_battery_sparingly") EXCEPT
               !.applies = {Is(Cause, "chba_defective")}, !.completes = TRUE],
           [Step("qv61_ensure_chba_working_frequently") EXCEPT
               !.applies = {Is(Cause, "qv61_defective")}, !.completes = TRUE] >>)
     EXCEPT !.phrases = {Cause}, !.resolved = "resolved", !.unresolved = "unresolved"]
=============================================================================
