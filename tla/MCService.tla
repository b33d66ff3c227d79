------------------------------ MODULE MCService -----------------------------
(***************************************************************************)
(* Two pilots at one server.  The first sets a bar of one or of two locos,   *)
(* says which configuration the loco has, swaps, reads and starts anew; the  *)
(* second takes a turn, and shares the lock.  Each scenario sends some of    *)
(* these requests, in any order and up to Threads at a time.                 *)
(***************************************************************************)
EXTENDS Service, TLC

VARIABLE scenario  \* the requests that are sent

Pair   == [locos |-> << Loco("A", "siv"), Loco("B", "arno") >>, active |-> 1]
Single == [locos |-> << Loco("C", "siv") >>, active |-> 1]

MCRequests ==
    "apply"     :> [Request("locos", "s1") EXCEPT !.bar = Pair] @@
    "swap"      :> Request("swap", "s1") @@
    "withBar"   :> [Request("turn", "s1") EXCEPT !.bar = Single] @@
    "states"    :> [Request("turn", "s1") EXCEPT !.says = "arno"] @@
    "follows"   :> Request("turn", "s1") @@
    "forget"    :> Request("forget", "s1") @@
    "view"      :> Request("read", "s1") @@
    "elsewhere" :> Request("turn", "s2")

Scenarios == { {"apply", "swap", "states", "withBar"}, {"withBar", "states", "forget"},
               {"states", "follows", "forget", "elsewhere"}, {"apply", "swap", "forget", "view"},
               {"apply", "withBar", "view"} }

ScenarioInit == ServiceInit /\ scenario \in Scenarios

OneScenario ==
    /\ ScenarioInit
    /\ [][UNCHANGED scenario /\ \E r \in scenario : Send(r) \/ Step(r)]_<<serviceVars, scenario>>
    /\ \A r \in DOMAIN Requests : WF_serviceVars(Step(r))
=============================================================================
