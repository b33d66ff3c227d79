------------------------------ MODULE MCReset -------------------------------
(***************************************************************************)
(* The QLM procedure with two of its three identical feeding-circuit checks,*)
(* and the messages a pilot's turn can be parsed into while it is worked    *)
(* through.                                                                 *)
(***************************************************************************)
EXTENDS Diagnosis, Faults, TLC

MCKeys == EngineKeys

MCKB == "QLM_dropped" :> QLM(2)

States(k, v) == [NoNews.facts EXCEPT ![k] = v]
Says(k, v)   == [NoNews EXCEPT !.facts = States(k, v)]

MCMessages ==
    { NoNews,
      [NoNews EXCEPT !.fault = "QLM_dropped", !.confirmed = "yes", !.presenting = TRUE],
      [NoNews EXCEPT !.fault = "QLM_dropped", !.confirmed = "no"],
      [NoNews EXCEPT !.confirmed = "yes", !.presenting = TRUE],
      [NoNews EXCEPT !.confirmed = "yes"],
      [NoNews EXCEPT !.claimed = {"check_ht2_compartment"}],
      [NoNews EXCEPT !.claimed = {"check_oil_levels", "look_around"}],
      [NoNews EXCEPT !.claimed = {"reset_decision"}],
      [NoNews EXCEPT !.claimed = {"reset_decision"}, !.presenting = TRUE],
      [NoNews EXCEPT !.claimed = {"reset_decision"},
                     !.facts = [States(QLMResetEarlier, "yes") EXCEPT ![FaultResolved] = "yes"]],
      [NoNews EXCEPT !.denies = TRUE],
      [NoNews EXCEPT !.intent = "reset_QLM"] }
    \cup {Says(k, v) : k \in {Abnormality, QLMResetEarlier, FaultResolved, FaultRecurred}, v \in {"yes", "no"}}
=============================================================================
