---------------------------- MODULE MCCopyService ----------------------------
(* Requests for TLC: X, Y and Z are folders copied to, the others are copied from. *)
EXTENDS CopyService

Ask(type, src, sources, dst, target) ==
    [type |-> type, src |-> src, sources |-> sources, dst |-> dst, target |-> target]

\* Three requests for one folder, one of them with a message that already lies
\* there, a folder and a file.
MCPlan ==
    "r1" :> Ask("messages", "A", <<"X", "A">>, "X", "X") @@
    "r2" :> Ask("file", "f", <<"f">>, "X", "X") @@
    "r3" :> Ask("messages", "B", <<"B">>, "Y", "Y") @@
    "r4" :> Ask("folder", "F", <<"F">>, "Z", "Z/F") @@
    "r5" :> Ask("messages", "B", <<"B">>, "X", "X")
MCRequests == DOMAIN MCPlan

ASSUME PlanOfTheRunIsOrdinary == Requests = MCRequests => Ordinary

\* The same messages are copied to the same folder twice.
MCPlanTwins ==
    "r1" :> Ask("messages", "A", <<"A">>, "X", "X") @@
    "r2" :> Ask("messages", "A", <<"A">>, "X", "X") @@
    "r3" :> Ask("messages", "B", <<"B">>, "Y", "Y") @@
    "r4" :> Ask("messages", "B", <<"B">>, "X", "X")
MCRequestsTwins == DOMAIN MCPlanTwins

\* Messages of two folders in one request, and a request for another folder.
MCPlanCross ==
    "r1" :> Ask("messages", "A", <<"A", "B">>, "X", "X") @@
    "r2" :> Ask("messages", "B", <<"B">>, "Y", "Y")
MCRequestsCross == DOMAIN MCPlanCross

\* A folder that may be refused between two requests for its destination.
MCPlanRefused ==
    "r1" :> Ask("messages", "A", <<"A">>, "Z", "Z") @@
    "r2" :> Ask("folder", "F", <<"F">>, "Z", "Z/F") @@
    "r3" :> Ask("messages", "B", <<"B">>, "Z", "Z")
MCRequestsRefused == DOMAIN MCPlanRefused

\* A folder without messages from another server, and messages for the folder that it is
\* copied into.
MCPlanEmpty ==
    "r1" :> Ask("emptyFolder", "F", <<"F">>, "Z", "Z/F") @@
    "r2" :> Ask("messages", "B", <<"B">>, "Z", "Z")
MCRequestsEmpty == DOMAIN MCPlanEmpty
=============================================================================
