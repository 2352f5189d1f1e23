------------------------------- MODULE CaseLedger ------------------------------
(***************************************************************************)
(* What the case engine promises its readers, whatever the interleaving of *)
(* requests, retries and crashed transactions: each case is opened once,   *)
(* then only moves along the transition map or has its confidentiality     *)
(* changed, one write at a time, and each write raises the version by one. *)
(***************************************************************************)
EXTENDS WorkflowMap

CONSTANT Cases

VARIABLES stage,    \* the state of each case, "unopened" before it exists
          revision  \* its optimistic lock version

Init == /\ stage = [c \in Cases |-> "unopened"]
        /\ revision = [c \in Cases |-> 0]

Open(c) == /\ stage[c] = "unopened"
           /\ stage' = [stage EXCEPT ![c] = "report_submitted"]
           /\ UNCHANGED revision

Move(c, cmd) == /\ stage[c] = TransitionMap[cmd].from
                /\ stage' = [stage EXCEPT ![c] = TransitionMap[cmd].to]
                /\ revision' = [revision EXCEPT ![c] = @ + 1]

\* A write that leaves the stage alone: the confidentiality level changed.
Touch(c) == /\ stage[c] \in States
            /\ revision' = [revision EXCEPT ![c] = @ + 1]
            /\ UNCHANGED stage

Next == \E c \in Cases : Open(c) \/ Touch(c) \/ \E cmd \in Commands : Move(c, cmd)

Spec == Init /\ [][Next]_<<stage, revision>>

================================================================================
