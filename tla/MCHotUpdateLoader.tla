------------------------- MODULE MCHotUpdateLoader -------------------------
(* Two versions of a feature assembly, whose name has a placeholder, and a *)
(* library without one; both define a type of the same full name.          *)
EXTENDS HotUpdateLoader, TLC

CONSTANTS feature, library,                 \* assembly names
          feature1, feature2, library1,     \* DLLs
          tEntry, tShared                   \* types

MCNameOf == (feature1 :> feature) @@ (feature2 :> feature) @@ (library1 :> library)
MCTypes == (feature1 :> {tEntry, tShared}) @@ (feature2 :> {tEntry}) @@ (library1 :> {tShared})
MCPlaceholders == <<feature>>
MCBatches == {<<feature1, library1>>, <<feature2>>, <<library1>>}
=============================================================================
