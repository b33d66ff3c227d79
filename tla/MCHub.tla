------------------------------- MODULE MCHub --------------------------------
(***************************************************************************)
(* The hub "DJ tripped on line" and the QLM procedure it is left for: what   *)
(* the pilot reports with the tripping may already include the reset.       *)
(***************************************************************************)
EXTENDS Diagnosis, Faults, TLC

MCKeys == EngineKeys

MCKB == "DJ_tripped_on_line" :> Tripped @@ "QLM_dropped" :> [QLM(1) EXCEPT !.combos = <<>>]

HubOpened(done) ==
    [NoNews EXCEPT !.fault = "DJ_tripped_on_line", !.confirmed = "yes", !.presenting = TRUE,
                   !.tellsRelays = TRUE, !.relays = {"QLM"}, !.claimed = done]

MCMessages ==
    { HubOpened({}), HubOpened({"check_ht2_compartment"}), HubOpened({"check_ht2_compartment", "reset_decision"}),
      [NoNews EXCEPT !.presenting = TRUE],
      [NoNews EXCEPT !.claimed = {"check_ht2_compartment"}],
      [NoNews EXCEPT !.facts[QLMResetEarlier] = "no"], [NoNews EXCEPT !.facts[QLMResetEarlier] = "yes"] }
=============================================================================
