----------------------------- MODULE Compilation -----------------------------
(***************************************************************************)
(* What one run of the program promises to whoever started it, without     *)
(* saying how: it decides once between success and failure, touches the    *)
(* output file only together with a success, and leaves no temporary file  *)
(* behind, unless it crashes.  Driver is shown to implement it.            *)
(***************************************************************************)

VARIABLES
  outcome,   \* "pending", "success", "failure" or "crashed"
  output,    \* what is in the output file
  scratch    \* whether there is a temporary file of this run

vars == <<outcome, output, scratch>>

Start ==
  /\ outcome = "pending" /\ ~scratch /\ scratch' = TRUE
  /\ UNCHANGED <<outcome, output>>

\* What is written is not said: the program does not check it.
Succeed ==
  /\ outcome = "pending" /\ outcome' = "success"
  /\ output' \in {"old", "code", "part"}
  /\ UNCHANGED scratch

Fail ==
  /\ outcome = "pending" /\ outcome' \in {"failure", "crashed"}
  /\ UNCHANGED <<output, scratch>>

CleanUp ==
  /\ outcome \in {"success", "failure"} /\ scratch /\ scratch' = FALSE
  /\ UNCHANGED <<outcome, output>>

Init == outcome = "pending" /\ output = "old" /\ scratch = FALSE

Next == Start \/ Succeed \/ Fail \/ CleanUp

Spec == Init /\ [][Next]_vars

\* Every run comes to an end and has cleaned up by then.
Conclusion ==
  <>(outcome = "crashed" \/ (outcome \in {"success", "failure"} /\ ~scratch))
=============================================================================
