----------------------------- MODULE MCBilling ------------------------------
(* Instances of Billing for TLC: what an event reports.  The charges are    *)
(* half a cent, where rounding is a choice, a fifth of a cent, and four     *)
(* cents; the last body is not valid.                                       *)
EXTENDS Billing

\* Nothing tells two events from one another but what they report.
Interchangeable == Permutations(Events)

SomeBodies == {[category |-> "workflow_run", units |-> 1],
               [category |-> "api_call", units |-> 10],
               [category |-> "analytics_compute", units |-> 5],
               [category |-> "agent_task", units |-> 0]}
=============================================================================
