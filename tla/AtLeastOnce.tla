----------------------------- MODULE AtLeastOnce -----------------------------
(***************************************************************************)
(* What the job queue promises those who publish: a job is tried before it *)
(* is settled (acknowledged), perhaps more than once, and none is settled  *)
(* that was not published.  Jobs for one row are not told apart.           *)
(***************************************************************************)
EXTENDS Naturals

CONSTANTS Rows

VARIABLES published, tried, settled  \* row -> number of jobs

vars == <<published, tried, settled>>

Init ==
  /\ published = [r \in Rows |-> 0]
  /\ tried = [r \in Rows |-> 0]
  /\ settled = [r \in Rows |-> 0]

Publish(r) ==
  /\ published' = [published EXCEPT ![r] = @ + 1]
  /\ UNCHANGED <<tried, settled>>

\* A job is tried while some job for the row is open.
Try(r) ==
  /\ settled[r] < published[r]
  /\ tried' = [tried EXCEPT ![r] = @ + 1]
  /\ UNCHANGED <<published, settled>>

Settle(r) ==
  /\ settled[r] < published[r] /\ settled[r] < tried[r]
  /\ settled' = [settled EXCEPT ![r] = @ + 1]
  /\ UNCHANGED <<published, tried>>

Next == \E r \in Rows : Publish(r) \/ Try(r) \/ Settle(r)

Spec == Init /\ [][Next]_vars
=============================================================================
