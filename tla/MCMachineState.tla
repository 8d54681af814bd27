-------------------------- MODULE MCMachineState --------------------------
(* A thread with a tiny stack and two methods: a leaf without arguments    *)
(* and one that takes its argument from the caller's window.               *)
EXTENDS MachineState, TLC

CONSTANTS leaf, work

MCMethods == {leaf, work}
MCMaxStackSize == leaf :> 1 @@ work :> 2
MCArgSize == leaf :> 0 @@ work :> 1
=============================================================================
