-------------------------------- MODULE Ledger --------------------------------
(***************************************************************************)
(* What the block writer promises the rest of Midgard, with no batches,    *)
(* inserters or channels: the database holds a prefix of the chain that    *)
(* only grows, in steps of one or more whole blocks; it also holds the     *)
(* state to resume from, which is exactly the state after that prefix;     *)
(* readers are shown a prefix that is durable and that they never see      *)
(* shrink while the process lives.                                         *)
(***************************************************************************)
EXTENDS Naturals

CONSTANT StateAt(_)   \* the running totals after a block

VARIABLES
    top,        \* last durable block, 0 if there is none
    resume,     \* the state stored with it
    visible,    \* the block readers are shown
    alive       \* the process runs

vars == <<top, resume, visible, alive>>

Init ==
    /\ top = 0
    /\ resume = StateAt(0)
    /\ visible = 0
    /\ alive = FALSE

\* A process starts where the database ends.
Start ==
    /\ ~alive
    /\ alive' = TRUE
    /\ visible' = top
    /\ UNCHANGED <<top, resume>>

\* One or more blocks become durable at once.
Store ==
    /\ alive
    /\ top < top'
    /\ top' \in Nat
    /\ resume' = StateAt(top')
    /\ UNCHANGED <<visible, alive>>

\* The readers are told.
Publish ==
    /\ alive
    /\ visible < top
    /\ visible' = top
    /\ UNCHANGED <<top, resume, alive>>

\* The process ends, for whatever reason.
Stop ==
    /\ alive
    /\ alive' = FALSE
    /\ visible' = 0
    /\ UNCHANGED <<top, resume>>

Next == Start \/ Store \/ Publish \/ Stop

Spec == Init /\ [][Next]_vars

=============================================================================
