-------------------------- MODULE MCProcessTables --------------------------
(* The two tables a process hands out from and never takes back. They      *)
(* share no state, so runs in which both move are left out.                *)
EXTENDS ImageIndex, ReversePInvoke, TLC

CONSTANTS m1, m2, m3, m4

MCStep == (0 :> 8) @@ (1 :> 4) @@ (2 :> 2) @@ (3 :> 1)

\* one length per class, one for none, one that wraps
MCLengths == {1, 3, 7, 15, 16, 128}

MCShape == (m1 :> "s") @@ (m2 :> "s") @@ (m3 :> "s") @@ (m4 :> "r")
MCStubs == <<<<"cdecl", "s">>, <<"cdecl", "s">>, <<"cdecl", "r">>, <<"std", "s">>>>

Init == ImagesInit /\ WrappersInit

Next ==
  \/ handed = {} /\ exceeded = {} /\ caller = [t \in Callers |-> Idle]
       /\ ImagesNext /\ UNCHANGED wrapperVars
  \/ taken = {} /\ refused = {} /\ WrappersNext /\ UNCHANGED imageVars

Spec == Init /\ [][Next]_<<imageVars, wrapperVars>>
=============================================================================
