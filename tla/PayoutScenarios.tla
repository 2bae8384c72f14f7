--------------------------- MODULE PayoutScenarios ---------------------------
(***************************************************************************)
(* The tables of app/payout_scenarios.py: the "state" codes of the three   *)
(* payout endpoints, the forced answers of a code's scenario and the OTP   *)
(* stub.  Python's None | code is the empty set | the singleton of a code, *)
(* so "forced is not None" reads  Forced(...) # {}.                        *)
(***************************************************************************)
EXTENDS Integers

Success         == 0
NotFound        == 1     \* check, pay; for block also "already blocked"
AlreadyPaid     == 2
Expired         == 3
NotBlocked      == 4
ScenarioExpired == 8
ScenarioBlocked == 9
Limited         == 10
OtpMissing      == 11
OtpExpired      == 12
OtpIncorrect    == 13
InternalError   == -100

\* One record per scenario: what each endpoint is forced to answer.
SCENARIOS ==
  [ normal           |-> [check |-> {},                block |-> {},                pay |-> {}],
    scenario_blocked |-> [check |-> {ScenarioBlocked}, block |-> {ScenarioBlocked}, pay |-> {}],
    limited          |-> [check |-> {Limited},         block |-> {},                pay |-> {}],
    scenario_expired |-> [check |-> {},                block |-> {ScenarioExpired}, pay |-> {}],
    internal_error   |-> [check |-> {InternalError},   block |-> {InternalError},
                          pay   |-> {InternalError}] ]

ScenarioKeys == DOMAIN SCENARIOS

\* An unknown key behaves as the default scenario.
Resolve(key) == IF key \in ScenarioKeys THEN SCENARIOS[key] ELSE SCENARIOS["normal"]

\* The four classes of an OTP field; "" stands for an absent or empty one and
\* "7890" for any string that is none of the others.
Otps == {"", "0000", "0002", "7890"}

CheckOtp(otp) ==
  CASE otp = ""     -> {OtpMissing}
    [] otp = "0000" -> {}
    [] otp = "0002" -> {OtpExpired}
    [] OTHER        -> {OtpIncorrect}
==============================================================================
