-------------------------- MODULE MCWorkflowEngine --------------------------
(* Small definitions for WorkflowEngine.                                   *)
EXTENDS WorkflowEngine

CONSTANTS a, b, c, d, e, exec, r1, r2, r3, o1, p1, p2

E(from, to, cond) == [from |-> from, to |-> to, cond |-> cond]

(* Two start nodes, an error branch, a join and a cycle: a -> c on         *)
(* success, a -> b on failure, both and e to d, and d back to c; c may     *)
(* need an approval.                                                       *)
BranchEdges == {E(a, c, "success"), E(a, b, "failure"), E(b, d, "any"),
                E(c, d, "success"), E(d, c, "any"), E(e, d, "success")}
BranchOutcomes ==
    [n \in {a, b, c, d, e} |->
        IF n \in {a, e} THEN {"completed", "failed"}
        ELSE IF n = c THEN {"completed", "failed", "waiting_approval"}
        ELSE {"completed"}]

(* a chain a -> b -> c whose second node needs an approval, or may need    *)
(* one when it fails (require_approval_on_error)                           *)
ChainEdges == {E(a, b, "success"), E(b, c, "success")}
ApprovalOutcomes ==
    [n \in {a, b, c} |-> IF n = b THEN {"waiting_approval"} ELSE {"completed"}]
RetryOutcomes ==
    [n \in {a, b, c} |-> IF n = b THEN {"waiting_approval", "completed"} ELSE {"completed", "failed"}]

\* one worker process runs everything but the second request
TwoWorkers == [x \in Request \cup {Main} \cup Operator |-> IF x = r2 THEN p2 ELSE p1]
=============================================================================
