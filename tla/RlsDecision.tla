---------------------------- MODULE RlsDecision -----------------------------
(***************************************************************************)
(* Decisions and PIPs that fail.  The context of a request holds the       *)
(* attributes of the resource and the enriched subject, in which the alias *)
(* of a PIP that failed is absent (pip.rego).                              *)
(***************************************************************************)
EXTENDS PolicyDecision

CONSTANT PipValues      \* what a PIP may answer

FailedPips(context) == context.aliases \ DOMAIN context.subject[2]

(* The subject, had the failed PIPs of a set answered.                     *)
Resolved(subject, answers) ==
    Object([key \in DOMAIN subject[2] \cup DOMAIN answers |->
              IF key \in DOMAIN answers THEN answers[key] ELSE subject[2][key]])

(***************************************************************************)
(* A PIP that fails opens nothing: what is allowed without its value is    *)
(* allowed with every value it might have had, through negations, both     *)
(* levels of the evaluator and its fast path.  Failed means that the alias *)
(* is absent; the null of ResponseValue (PipDocument) is a value.          *)
(***************************************************************************)
FailedPipNeverGrants ==
    answer # NoAnswer /\ answer # AuthError /\ answer.allow =>
        \A failed \in SUBSET FailedPips(request.context) :
            \A answers \in [failed -> PipValues] :
                Decided([request EXCEPT !.context.subject = Resolved(@, answers)]).allow
=============================================================================
