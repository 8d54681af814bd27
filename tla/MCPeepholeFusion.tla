------------------------- MODULE MCPeepholeFusion -------------------------
EXTENDS PeepholeFusion

MCLocals == {-2, -1}
MCStored == {-1}

Tables == CopyRules \o ConstantRules \o TwoCopyRules \o BareCopyRules
            \o FieldRules \o ArithmeticRules

\* the blocks the rules were written for: what each of them merges
Idioms == Range(Tables)
            \cup {FlattenSeq(rule) : rule \in UNION {Range(Rules[p]) : p \in 2..Passes}}

\* the rules that look at operands or rewrite them, with what may follow
Folds == {<<"ldloc", "ldloc", o>> : o \in {"add", "sub", "rem", "and"}}
Folded == Folds \cup {Append(f, g) : f \in Folds, g \in {"ldloc", "ldc", "stfld", "max", "brtrue"}}
Increments == {<<"ldelem", "ldloc", "add", "stelem">>, <<"ldelem", "add", "stelem">>,
               <<"ldelem", "ldloc", "ldloc", "add", "stelem">>}
Redirected == {<<"ldloc", "ldloc", "ldloc", "ldind">>,
               <<"ldloc", "ldloc", "ldloc", "ldind", "ldloc">>}
Fields == {<<"ldlocS", "ldfldv">> \o t :
             t \in {<<>>, <<"ldc">>, <<"ldc", "ble">>, <<"ldc", "div">>, <<"add">>,
                    <<"ldloc", "bne">>, <<"ldlocS", "ldfldv", "add">>, <<"ldloc", "ldc">>}}

\* two short idioms side by side, where a rule also fits across the border
Short == {t \in Range(Tables) : Len(t) <= 2}
Neighbours == {s \o t : s \in {u \in Short : Last(u) \notin Branches},
                      t \in {u \in Short : Head(u) # "ldloca"}}
Contested == {n \in Neighbours : \E r \in Short : SubSeq(n, 2, 3) = r}

MCBlocks == Idioms \cup Folded \cup Increments \cup Redirected \cup Fields \cup Contested
=============================================================================
