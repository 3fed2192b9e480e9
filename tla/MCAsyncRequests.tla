-------------------------- MODULE MCAsyncRequests --------------------------
(* Instances of AsyncRequests for TLC.                                       *)
EXTENDS AsyncRequests, TLC

CONSTANTS r1, r2

\* What the requests of an instance call.
Mixed == {(r1 :> MoreCalls) @@ (r2 :> EnvCall), (r1 :> MoreCalls) @@ (r2 :> OneCall)}
OneAndOne == {(r1 :> OneCall) @@ (r2 :> OneCall)}

AllOrNone == {AllRules, {}}
ClosesBusy == {AllRules \ {"closesIdle"}}
DropsEnv == {AllRules \ {"keepsEnv"}}
=============================================================================
