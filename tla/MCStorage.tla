------------------------------ MODULE MCStorage -----------------------------
(* An instance of Storage for TLC.  The second tenant's and schedule's ids have *)
(* a colon; no id continues another one after a colon.                       *)
EXTENDS Storage

TwoTenants == {<<"t">>, <<"u", "t">>}
TwoSchedules == {<<"s">>, <<"r", "s">>}
TwoExecutions == {<<"d">>, <<"e">>}
OneAttempt == {<<"a">>}
AttemptsOfOne == [a \in OneAttempt |-> <<"d">>]
=============================================================================
