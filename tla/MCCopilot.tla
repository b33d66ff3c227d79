----------------------------- MODULE MCCopilot ------------------------------
(***************************************************************************)
(* The agent's loop where one reroute leads to the next: from the manual     *)
(* operation of a relay to "DJ tripped on line" by a stated fact, and by the *)
(* relay targets reported on to QLM_dropped and to its own combinations.     *)
(* The KB encodes every target of its combination rules; QLM_with_QLA_QOA is *)
(* left out here, for the answer the loop then has to give.                  *)
(***************************************************************************)
EXTENDS Copilot, Faults, TLC

MCKeys == EngineKeys \cup {TractionFound, Isolated, ClosesWithManualRelay, ManualRelay, C118Opened}

MCKB == "DJ_tripped_on_line" :> Tripped @@ "QLM_dropped" :> QLM(1) @@ "QLM_with_QOP_QRSI" :> QLMWithQOP(1)
        @@ "Manual_operation_of_relays" :> ManualOperation

HubReached(sure, acted) ==
    [NoNews EXCEPT !.fault = "Manual_operation_of_relays", !.confirmed = sure, !.presenting = (sure = "yes"),
                   !.facts[ClosesWithManualRelay] = "no", !.tellsRelays = TRUE, !.relays = acted]

MCMessages ==
    { NoNews,
      [HubReached("yes", {"QLM", "QOP-1"}) EXCEPT !.claimed = {"check_ht2_compartment"}, !.facts[QLMResetEarlier] = "no"],
      [HubReached("yes", {"QLM", "QOP-1"}) EXCEPT !.facts[TractionFound] = "yes"],
      HubReached("no", {"QLM", "QLA"}),
      [NoNews EXCEPT !.fault = "Manual_operation_of_relays", !.confirmed = "no", !.facts[ManualRelay] = "q118"],
      [NoNews EXCEPT !.confirmed = "yes"],
      [NoNews EXCEPT !.claimed = {"check_ht2_compartment"}] }

-----------------------------------------------------------------------------
\* A conversation stays with the trouble it was opened with.
StaysOnTopic == turn'.update.fault = None \/ pc # "idle" \/ diag.fault = None

OneTopic ==
    /\ LoopInit
    /\ [][LoopNext /\ StaysOnTopic]_loopVars
    /\ []<>(pc = "idle") \/ []<><<Node>>_loopVars
=============================================================================
