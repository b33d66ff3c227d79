------------------------------ MODULE MCIntake ------------------------------
(***************************************************************************)
(* The hub "DJ tripped on line", the two QLM procedures it may lead to, and  *)
(* a procedure of which "DJ trips" is an answer.  A conversation turns on    *)
(* one topic: whom the messages are about, a relay that acts again, or how   *)
(* the hub is left; its messages come in any order, as often as they like.   *)
(***************************************************************************)
EXTENDS Intake, Faults, TLC

VARIABLE topic  \* what this conversation turns on

MCKeys == EngineKeys \cup {TractionFound, Isolated, Cause}

Hub    == "DJ_tripped_on_line"
Relay  == "QLM_dropped"
Both   == "QLM_with_QOP_QRSI"
Glows  == "LSCHBA_glows_on_run"

MCKB == Hub :> Tripped @@ Relay :> QLM(1) @@ Both :> QLMWithQOP(1) @@ Glows :> LSCHBA

MCPrecedence == Hub :> -2 @@ Relay :> 2 @@ Both :> 2 @@ Glows :> 1

-----------------------------------------------------------------------------
(* What the pilot's words match, and what the model may read into them.      *)

Found(cause) == [Silence.phrases EXCEPT ![Glows][Cause] = cause]

AllNormal  == Silence
QLMDropped == [Silence EXCEPT !.exact = Relay, !.hits = {Relay}]
ThenTrips  == [Silence EXCEPT !.hits = {Hub}, !.phrases = Found("chba_defective")]  \* "then the DJ trips"
QLMToo     == [ThenTrips EXCEPT !.hits = {Hub, Relay}]                              \* "DJ tripped, QLM locked"
EitherQLM  == [Silence EXCEPT !.hits = {Relay, Both}]                               \* "QLM, QLM with QOP"
LampGlows  == [Silence EXCEPT !.hits = {Glows}, !.phrases = Found("qv61_defective")]

Guesses(t, x, sure) == [t EXCEPT !.guess = x, !.sure = sure]
SaysNo(t)           == [t EXCEPT !.confirms = "no"]
SaysYes(t)          == [t EXCEPT !.confirms = "yes"]
ActsNow(t)          == [t EXCEPT !.presents = TRUE]
Claiming(t, S)      == [t EXCEPT !.claimed = S]
Acted(t, relay)     == [t EXCEPT !.tellsRelays = TRUE, !.relays = {relay}]

TheList == [AllNormal EXCEPT !.detail = TRUE]   \* "yes, give me the list"

WhoseFault ==
    \* A text that names one fault settles it, whatever the model makes of it.
    {QLMDropped, Guesses(SaysNo(QLMToo), Glows, TRUE), LampGlows, EitherQLM, Guesses(EitherQLM, Relay, TRUE)}
    \cup UNION {{t, SaysNo(t), Guesses(t, Relay, TRUE), Guesses(SaysNo(t), Glows, TRUE)} : t \in {AllNormal, ThenTrips}}
    \cup {SaysYes(AllNormal), Guesses(AllNormal, Relay, FALSE), Guesses(SaysNo(AllNormal), Hub, FALSE),
          ActsNow(Guesses(SaysNo(AllNormal), Both, TRUE)), Guesses(AllNormal, "headlight", TRUE),
          [AllNormal EXCEPT !.outside = TRUE], TheList}

ActsAgain ==
    {QLMDropped, Guesses(SaysNo(QLMDropped), Both, TRUE), ActsNow(Guesses(EitherQLM, Relay, TRUE)), AllNormal, SaysYes(AllNormal), Acted(AllNormal, "QOP-1"),
     Claiming(QLMDropped, {"check_ht2_compartment"}), Claiming(AllNormal, {"check_ht2_compartment"}),
     [Claiming(AllNormal, {"reset_decision"}) EXCEPT !.resetEarlier = "yes", !.resolved = "yes"],
     TheList, [AllNormal EXCEPT !.resetEarlier = "no"], [AllNormal EXCEPT !.abnormality = "no"],
     [AllNormal EXCEPT !.recurred = TRUE], [AllNormal EXCEPT !.facts[FaultRecurred] = "no"]}

HubLeft ==
    {ThenTrips, Guesses(ThenTrips, Relay, TRUE), ActsNow(Guesses(ThenTrips, Glows, FALSE)), QLMToo, LampGlows,
     Acted(ThenTrips, "QLM"), Acted(AllNormal, "QOP-1"), SaysYes(AllNormal), Guesses(SaysNo(AllNormal), Glows, TRUE),
     Claiming(AllNormal, {"prepare_loco_to_pick_up_abnormal_sign"}),
     Claiming(Guesses(ThenTrips, Relay, TRUE), {"prepare_loco_to_pick_up_abnormal_sign", "check_ht2_compartment"}),
     [AllNormal EXCEPT !.facts[Cause] = "qv61_defective"], [AllNormal EXCEPT !.facts[TractionFound] = "yes"]}

Topics   == <<WhoseFault, ActsAgain, HubLeft>>
MCInputs == UNION {Topics[n] : n \in DOMAIN Topics}

MCMessages == Trusted

-----------------------------------------------------------------------------
TopicInit == IntakeInit /\ topic \in DOMAIN Topics

OneTopic ==
    /\ TopicInit
    /\ [][UNCHANGED topic /\ \E m \in Topics[topic] : Hear(m)]_<<intakeVars, topic>>
=============================================================================
