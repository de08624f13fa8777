---------------------------- MODULE EventService ----------------------------
(***************************************************************************)
(* What every producer/consumer lab of chapter 23 asks of an interrupt's   *)
(* two halves (lab_one_tasklet_improved.c:23-25: a bottom half that can    *)
(* "catch up"; i.e., consume more than one event when it is called,        *)
(* cleaning up the pending queue): the top half raises events, the bottom  *)
(* half handles each of them once and none is left behind.                 *)
(***************************************************************************)
EXTENDS Naturals

VARIABLES
    raised,     \* events the top half has counted
    handled     \* events the bottom half has counted

vars == <<raised, handled>>

Init == raised = 0 /\ handled = 0

Raise == raised' = raised + 1 /\ UNCHANGED handled

Handle == handled < raised /\ handled' = handled + 1 /\ UNCHANGED raised

Next == Raise \/ Handle

SafeSpec == Init /\ [][Next]_vars

Spec == SafeSpec /\ WF_vars(Handle)

=============================================================================
