------------------------------ MODULE Scenarios ------------------------------
(***************************************************************************)
(* The payment scenarios of app/scenarios.py: the last four digits of the  *)
(* requisite choose the initial status, the status the background task     *)
(* moves a pending payment to, and the default delay in seconds.           *)
(***************************************************************************)
EXTENDS Naturals

FinalStatuses == {"success", "failed", "unknown"}

Scenario(initial, final, defaultDelay) ==
  [initial |-> initial, final |-> final, defaultDelay |-> defaultDelay]

\* "none" is Python's None; "9999" stands for every suffix without an entry of
\* its own, which falls back to DEFAULT_SCENARIO.
SCENARIOS ==
  [sfx \in {"0001", "0002", "0003", "0004", "0005", "9999"} |->
     CASE sfx = "0001" -> Scenario("success", "none", 0)
       [] sfx = "0002" -> Scenario("failed",  "none", 0)
       [] sfx = "0003" -> Scenario("pending", "success", 10)
       [] sfx = "0004" -> Scenario("pending", "failed", 10)
       [] sfx = "0005" -> Scenario("pending", "unknown", 15)
       [] sfx = "9999" -> Scenario("success", "none", 0)]

AllSuffixes == DOMAIN SCENARIOS

\* all_configurable: the scenarios that wait, whose delay an admin can set.
Configurable == {sfx \in AllSuffixes : SCENARIOS[sfx].initial = "pending"}
==============================================================================
