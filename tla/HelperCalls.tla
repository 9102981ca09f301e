----------------------------- MODULE HelperCalls -----------------------------
(***************************************************************************)
(* What the callers of the native helper are promised, without a word of   *)
(* processes, pipes and restarts: a call ends once; an answered call has    *)
(* been performed, exactly once; a call that was refused is never          *)
(* performed.  A call that failed may have been performed or not.          *)
(***************************************************************************)
CONSTANT Requests

VARIABLES
  outcome,     \* of each call: "open", "answered", "failed" or "refused"
  action       \* the native action: "none", "begun" or "performed"

vars == <<outcome, action>>

Init ==
  /\ outcome = [r \in Requests |-> "open"]
  /\ action  = [r \in Requests |-> "none"]

Begin(r) ==
  /\ action[r] = "none" /\ outcome[r] # "refused"
  /\ action' = [action EXCEPT ![r] = "begun"]
  /\ UNCHANGED outcome

Perform(r) ==
  /\ action[r] = "begun"
  /\ action' = [action EXCEPT ![r] = "performed"]
  /\ UNCHANGED outcome

Answer(r) ==
  /\ outcome[r] = "open" /\ action[r] = "performed"
  /\ outcome' = [outcome EXCEPT ![r] = "answered"]
  /\ UNCHANGED action

\* A call that was never begun may be refused; calls fail in groups, when the
\* process that was to perform them is lost.
End(S) ==
  /\ \A r \in S : outcome[r] = "open"
  /\ outcome' \in [Requests -> {"open", "answered", "failed", "refused"}]
  /\ \A r \in Requests \ S : outcome'[r] = outcome[r]
  /\ \A r \in S : \/ outcome'[r] = "failed"
                  \/ outcome'[r] = "refused" /\ action[r] = "none"
  /\ UNCHANGED action

Next ==
  \/ \E r \in Requests : Begin(r) \/ Perform(r) \/ Answer(r)
  \/ \E S \in SUBSET Requests : End(S)

Spec == Init /\ [][Next]_vars
=============================================================================
