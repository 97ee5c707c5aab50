----------------------------- MODULE MCCrosstab -----------------------------
(* Two or three tabs that come and go, and as many notifications, calls of *)
(* addChannel, failures and delays as one of the budgets allows.  The unit *)
(* of time is 5 seconds.                                                   *)
EXTENDS Crosstab

CONSTANTS channel1, channel2, message1, message2

Budget(opened, sends, added, failed, late) ==
    [opened |-> opened, sent |-> sends, added |-> added, failed |-> failed, late |-> late]

MCBudgets == {Budget(3, 0, 0, 1, 0),
              Budget(2, 2, 0, 1, 0), Budget(2, 1, 0, 0, 1), Budget(2, 1, 1, 0, 0),
              Budget(2, 0, 1, 1, 0), Budget(2, 0, 1, 0, 1), Budget(2, 0, 2, 0, 0)}
=============================================================================
