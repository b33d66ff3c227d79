---------------------------- MODULE MCTwoRelays -----------------------------
(***************************************************************************)
(* One conversation about two faults that have nothing to do with each other:*)
(* QLM dropped, then QLA dropped, each with its own permitted reset.        *)
(***************************************************************************)
EXTENDS Retry, Faults, TLC

MCKeys == EngineKeys \cup {QLAResetEarlier, AuxFound, Isolated}

MCKB == "QLM_dropped" :> [QLM(1) EXCEPT !.combos = <<>>] @@ "QLA_dropped" :> QLA

Presents(x) == [NoNews EXCEPT !.fault = x, !.confirmed = "yes", !.presenting = TRUE]
Says(k, v)  == [NoNews EXCEPT !.facts[k] = v]

MCMessages ==
    { Presents("QLM_dropped"), Presents("QLA_dropped"),
      [Presents("QLM_dropped") EXCEPT !.claimed = {"check_ht2_compartment", "reset_decision"},
                                      !.facts[QLMResetEarlier] = "no"],
      [NoNews EXCEPT !.claimed = {"check_ht2_compartment"}],
      Says(QLMResetEarlier, "no"), Says(FaultResolved, "yes") }
=============================================================================
