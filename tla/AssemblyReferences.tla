------------------------- MODULE AssemblyReferences -------------------------
(***************************************************************************)
(* Which assembly a reference by name means.  The runtime lists the         *)
(* assemblies it registered and hands out a snapshot of that list; every    *)
(* image copies it into a table of its own, _nameToAssemblies, when it is   *)
(* constructed, and scans the snapshot again for a name it lacks.  A        *)
(* placeholder is listed from the start and built in place by its first     *)
(* load, so one entry of the list changes under a snapshot taken earlier.   *)
(***************************************************************************)
EXTENDS Naturals, Sequences, SequencesExt, Lists

CONSTANTS
    Name,           \* simple names of assemblies
    AOTNames,       \* s_AssembliesTable: assemblies compiled ahead of time
    Placeholders,   \* g_placeHolderAssemblies, in order
    MaxObjects      \* bound: Il2CppAssembly objects ever created

ASSUME ReferencesAssumption ==
    /\ AOTNames \in Seq(Name) /\ Placeholders \in Seq(Name)
    /\ MaxObjects \in Nat /\ Len(AOTNames) + Len(Placeholders) <= MaxObjects
\* The build fails when a hot-update assembly is listed twice.
ASSUME PlaceholdersAssumption == IsInjective(Placeholders)

VARIABLES
    objects,        \* every Il2CppAssembly; its index is its identity
    registered,     \* s_Assemblies: identities in registration order
    snapshot,       \* *s_snapshotAssemblies
    stale,          \* s_assemblyVersion # s_snapshotAssemblyVersion
    bindings,       \* _nameToAssemblies of every object's image
    loadOrder       \* history: the identities in the order they became usable

vars == <<objects, registered, snapshot, stale, bindings, loadOrder>>

None == 0
Unbound == <<>>

-----------------------------------------------------------------------------
\* mutant: entries that have no image yet are listed too
Valid_All(os, rs) == rs

\* CopyValidAssemblies: ass->token is set when a load starts to build the assembly.
Valid(os, rs) == Kept(rs, {i \in 1 .. Len(os) : os[i].stage # "placeholder"})

\* What both overloads of GetAllAssemblies answer.
AllAssemblies == IF stale THEN Valid(objects, registered) ELSE snapshot

\* The overload that returns a pointer renews the snapshot first.
TakeSnapshot ==
    /\ snapshot' = AllAssemblies
    /\ stale' = FALSE

\* mutant: the first assembly of a name is kept
Bound_First(list) ==
    [n \in {objects[list[k]].name : k \in 1 .. Len(list)} |->
        list[SelectInSeq(list, LAMBDA i : objects[i].name = n)]]

\* The Image constructor: a later assembly of a name overwrites an earlier one.
Bound(list) ==
    [n \in {objects[list[k]].name : k \in 1 .. Len(list)} |->
        list[SelectLastInSeq(list, LAMBDA i : objects[i].name = n)]]

\* The fallback of Image::GetLoadedAssembly: the first in the list.
FirstNamed(list, n) ==
    LET k == SelectInSeq(list, LAMBDA i : objects[i].name = n)
    IN IF k = 0 THEN None ELSE list[k]

UnusedPlaceholder(n) == {i \in 1 .. Len(objects) :
    objects[i].name = n /\ objects[i].stage = "placeholder"}

\* The object Assembly::Create builds an image into: the unused placeholder or a new one.
Built(n) == IF UnusedPlaceholder(n) # {} THEN CHOOSE i \in UnusedPlaceholder(n) : TRUE
                                         ELSE Len(objects) + 1

PutAt(s, i, x) == IF i > Len(s) THEN Append(s, x) ELSE [s EXCEPT ![i] = x]

\* mutant: a placeholder that was loaded leaves the snapshot as it is
RegisterInterpreterAssembly_NoInvalidate(i) ==
    IF Contains(registered, i)
    THEN UNCHANGED <<registered, snapshot, stale>>
    ELSE /\ registered' = Append(registered, i)
         /\ stale' = TRUE
         /\ UNCHANGED snapshot

\* A placeholder keeps its place; either way the snapshot becomes stale.
RegisterInterpreterAssembly(i) ==
    /\ registered' = IF Contains(registered, i) THEN registered ELSE Append(registered, i)
    /\ stale' = TRUE
    /\ UNCHANGED snapshot

-----------------------------------------------------------------------------
\* The AOT assemblies are registered first, then the placeholders.
Init ==
    /\ objects = [i \in 1 .. Len(AOTNames) |-> [name |-> AOTNames[i], stage |-> "ready"]]
                 \o [i \in 1 .. Len(Placeholders) |->
                        [name |-> Placeholders[i], stage |-> "placeholder"]]
    /\ registered = [i \in 1 .. Len(AOTNames) + Len(Placeholders) |-> i]
    /\ snapshot = <<>>
    /\ stale = TRUE
    /\ bindings = [i \in 1 .. Len(AOTNames) + Len(Placeholders) |-> Unbound]
    /\ loadOrder = [i \in 1 .. Len(AOTNames) |-> i]

\* AppDomain.GetAssemblies, the debugger, the memory profiler.
GetAllAssemblies ==
    /\ TakeSnapshot
    /\ UNCHANGED <<objects, registered, bindings, loadOrder>>

\* Assembly::Create up to the registration: the image and its table of
\* references, then the Il2CppAssembly it is built into.
BuildImage(i, n, stage) ==
    /\ i <= MaxObjects
    /\ objects' = PutAt(objects, i, [name |-> n, stage |-> stage])
    /\ bindings' = PutAt(bindings, i, Bound(AllAssemblies))

LoadFromBytes(n) ==
    LET i == Built(n) IN
    /\ BuildImage(i, n, "ready")
    /\ RegisterInterpreterAssembly(i)
    /\ loadOrder' = Append(loadOrder, i)

\* InitRuntimeMetadatas meets a reference to an assembly or type that is not
\* there and raises; it has scanned the list for a missing name.
LoadRaises(n) ==
    /\ BuildImage(Built(n), n, "half")
    /\ \/ UNCHANGED <<snapshot, stale>>
       \/ /\ snapshot' = IF stale THEN Valid(objects', registered) ELSE snapshot
          /\ stale' = FALSE
    /\ UNCHANGED <<registered, loadOrder>>

Missing(i, n) == n \notin DOMAIN bindings[i]

\* Image::GetLoadedAssembly for a name the image's table lacks: from a method
\* that is transformed, from reflection, from a type that is initialised.
ResolveReference(i, n) ==
    /\ objects[i].stage # "placeholder" /\ i > Len(AOTNames)
    /\ Missing(i, n)
    /\ TakeSnapshot
    /\ LET a == FirstNamed(AllAssemblies, n)
       IN bindings' = IF a = None THEN bindings ELSE [bindings EXCEPT ![i] = Put(@, n, a)]
    /\ UNCHANGED <<objects, registered, loadOrder>>

Next ==
    \/ GetAllAssemblies
    \/ \E n \in Name \ ToSet(AOTNames) : LoadFromBytes(n) \/ LoadRaises(n)
    \/ \E i \in 1 .. Len(objects), n \in Name : ResolveReference(i, n)

Spec == Init /\ [][Next]_vars

-----------------------------------------------------------------------------
Id == 1 .. MaxObjects
Tables == UNION {[names -> Id] : names \in SUBSET Name}

\* The variables hold values of their types, and an image's tables name only
\* assemblies of the name they stand for.
TypeOK ==
    /\ objects \in Seq([name : Name, stage : {"placeholder", "half", "ready"}])
    /\ Len(objects) <= MaxObjects
    /\ registered \in Seq(Id) /\ IsInjective(registered)
    /\ snapshot \in Seq(Id) /\ stale \in BOOLEAN
    /\ loadOrder \in Seq(Id) /\ IsInjective(loadOrder)
    /\ bindings \in Seq(Tables) /\ Len(bindings) = Len(objects)
    /\ \A i \in 1 .. Len(bindings) : \A n \in DOMAIN bindings[i] :
          objects[bindings[i][n]].name = n

\* No reference means an assembly that has no image: a placeholder that was
\* not loaded when the reference was resolved is not bound, then or later.
\* The state stays well-typed.
ReferencesAreBuilt ==
    /\ TypeOK
    /\ \A i \in 1 .. Len(bindings) : \A n \in DOMAIN bindings[i] :
          objects[bindings[i][n]].stage # "placeholder"

Position(i) == SelectInSeq(loadOrder, LAMBDA j : j = i)

\* An image refers to the newest assembly of each name that was usable when it
\* was loaded, or a later one: whatever is loaded after a replacement uses the
\* replacement, and a placeholder whose build failed is never preferred to the
\* assembly a retry has loaded.
LoadedAfterUsesNewest ==
    \A p, q \in 1 .. Len(loadOrder) :
        LET n == objects[loadOrder[p]].name
            table == bindings[loadOrder[q]]
        IN p < q /\ loadOrder[q] > Len(AOTNames) =>
              /\ n \in DOMAIN table
              /\ Position(table[n]) >= p

\* Every assembly that loaded successfully is listed, once, by GetAllAssemblies.
LoadedAreListed ==
    /\ ToSet(loadOrder) \subseteq ToSet(AllAssemblies)
    /\ IsInjective(AllAssemblies)
=============================================================================
