------------------------- MODULE IntegrationContract -------------------------
(***************************************************************************)
(* What `ajj integrate` promises a caller about one operation id, without    *)
(* processes, locks, journals or detached operations: its payloads land at   *)
(* most once, or it is closed for good without landing, and every definite   *)
(* answer given for it is the one truth about it.                            *)
(***************************************************************************)
CONSTANT Ops

VARIABLES
    outcome,    \* what became of the operation's payloads
    answered    \* the definite answers callers have on hand

vars == <<outcome, answered>>

Outcomes == {"open", "landed", "proved-not-landed"}

Init ==
    /\ outcome = [o \in Ops |-> "open"]
    /\ answered = {}

\* The commit point.
Land(o) ==
    /\ outcome[o] = "open"
    /\ outcome' = [outcome EXCEPT ![o] = "landed"]
    /\ UNCHANGED answered

\* The failed receipt is stored.
Close(o) ==
    /\ outcome[o] = "open"
    /\ outcome' = [outcome EXCEPT ![o] = "proved-not-landed"]
    /\ UNCHANGED answered

\* Answers come and go; each one tells the outcome.
Tell ==
    /\ answered' \in SUBSET {<<o, outcome[o]>> : o \in {q \in Ops : outcome[q] # "open"}}
    /\ UNCHANGED outcome

Next == Tell \/ \E o \in Ops : Land(o) \/ Close(o)

Spec == Init /\ [][Next]_vars
=============================================================================
