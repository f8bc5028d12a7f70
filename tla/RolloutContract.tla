-------------------------- MODULE RolloutContract --------------------------
(***************************************************************************)
(* What a rollout execution promises its operators: the status moves only  *)
(* along the transition table or by the verdict of the verification        *)
(* engine, a verdict is given only on an execution that is under way, and  *)
(* a verdict and its effect on the status become visible together.         *)
(***************************************************************************)
EXTENDS Sequences, RolloutLifecycle

VARIABLES status, verdicts

ContractInit ==
    /\ status \in {"planned", "awaiting_approval"}
    /\ verdicts = <<>>

\* An operator or the worker takes an action of the table.
Advance ==
    /\ \E action \in Actions, next \in Statuses :
        <<status, action, next>> \in Transition /\ status' = next
    /\ UNCHANGED verdicts

\* The engine decides on an execution that is under way.
Verify ==
    /\ status \in Verifiable
    /\ \E decision \in Decisions :
        /\ status' = DecidedStatus(status, decision)
        /\ verdicts' = Append(verdicts, decision)

ContractNext == Advance \/ Verify

ContractSpec == ContractInit /\ [][ContractNext]_<<status, verdicts>>

=============================================================================
