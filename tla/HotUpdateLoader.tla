-------------------------- MODULE HotUpdateLoader --------------------------
(***************************************************************************)
(* Loading and replacing hot-update assemblies: the C# HotUpdateBinaryLoader *)
(* on top of the runtime's Assembly::LoadFromBytes.  The runtime keeps     *)
(* every assembly it ever registered and finds the newest one by name; the *)
(* loader keeps a list it resolves types in, caches of what it resolved,   *)
(* and a table from names to the assembly and the bytes last loaded.       *)
(*                                                                         *)
(* Assembly.Load runs the new assembly's module initializer, hot-update    *)
(* code that may use the same loader: calls nest, and an initializer that  *)
(* raises leaves the runtime with an assembly the loader never heard of.   *)
(***************************************************************************)
EXTENDS Naturals, Sequences, SequencesExt, Lists

CONSTANTS
    Name,           \* simple names of assemblies
    Binary,         \* contents of DLLs after LoadPolicy.Apply; equal iff their SHA-256 is
    NameOf,         \* the assembly name a DLL carries
    TypeName,       \* full names of types
    Types,          \* the types a DLL defines
    Placeholders,   \* g_placeHolderAssemblies, in order
    Batches,        \* the binary lists hosts and initializers pass to Load and Reload
    NoBinary,       \* what a placeholder that was never loaded holds
    MaxObjects,     \* bound: Il2CppAssembly objects ever created
    MaxListed,      \* bound: entries of the loader's assembly list
    MaxNesting      \* bound: loader calls active at once

ASSUME LoaderAssumption ==
    /\ NameOf \in [Binary -> Name]
    /\ Types \in [Binary -> SUBSET TypeName]
    /\ Placeholders \in Seq(Name) /\ Batches \subseteq Seq(Binary)
    /\ MaxObjects \in Nat /\ MaxListed \in Nat /\ MaxNesting \in Nat
    /\ Len(Placeholders) <= MaxObjects
\* The build fails when a hot-update assembly is listed twice.
ASSUME PlaceholdersAssumption == IsInjective(Placeholders)

VARIABLES
    objects,        \* every Il2CppAssembly; its index is its identity
    registered,     \* s_Assemblies: identities in registration order
    assemblies,     \* the loader's list, searched from the front
    loaded,         \* loadedAssemblyByName and loadedAssemblyHashByName
    typeCache,      \* typeCache
    methodCache,    \* staticMethodCache and staticDelegateCache: whose type's method
    calls,          \* active loader calls, innermost last
    hotfix,         \* history: the assembly the last ReplaceHotUpdateAssembly of a name returned
    stray           \* history: names with an assembly registered past the loader

runtimeState == <<objects, registered>>
resolution == <<assemblies, typeCache, methodCache>>
vars == <<runtimeState, resolution, loaded, calls, hotfix, stray>>

None == 0
Empty == <<>>

-----------------------------------------------------------------------------
(* The runtime.                                                            *)

\* vm::Assembly::GetLoadedAssembly, like MetadataCache::GetAssemblyByName, searches
\* from the newest registration back: Assembly.Load(name), type names qualified by
\* an assembly, GetReferencedAssemblies.  The types an image refers to do not come
\* this way: every image keeps bindings of its own.
PlacesOf(rs, os, n) == {i \in 1 .. Len(rs) : os[rs[i]].name = n}
Newest(rs, os, n) ==
    IF PlacesOf(rs, os, n) = {} THEN None
    ELSE rs[CHOOSE i \in PlacesOf(rs, os, n) : \A j \in PlacesOf(rs, os, n) : j <= i]

\* FindPlaceHolderAssembly: the placeholder of that name, if it is still unused.
UnusedPlaceholder(n) ==
    {i \in 1 .. Len(Placeholders) : objects[i].name = n /\ objects[i].stage = "placeholder"}

\* The object Assembly::Create builds an image into: the unused placeholder or a new one.
Built(n) == IF UnusedPlaceholder(n) # {} THEN CHOOSE i \in UnusedPlaceholder(n) : TRUE
                                         ELSE Len(objects) + 1

BuildObject(b, stage) ==
    LET i == Built(NameOf[b])
        o == [name |-> NameOf[b], bytes |-> b, stage |-> stage]
    IN objects' = IF i > Len(objects) THEN Append(objects, o) ELSE [objects EXCEPT ![i] = o]

\* MetadataCache::RegisterInterpreterAssembly: a placeholder keeps its old place.
Registered(i) == IF Contains(registered, i) THEN registered ELSE Append(registered, i)

-----------------------------------------------------------------------------
(* The loader.                                                             *)

Defines(i, t) == t \in Types[objects[i].bytes]

\* ResolveType without its cache: the first listed assembly that has the type.
Resolve(t) ==
    LET k == SelectInSeq(assemblies, LAMBDA i : Defines(i, t))
    IN IF k = 0 THEN None ELSE assemblies[k]

\* mutant: every assembly ever loaded from these bytes can be reused
Reusable_Ever(b) == {i \in 1 .. Len(objects) : objects[i].bytes = b /\ objects[i].stage = "ready"}

\* TryGetLoadedAssemblyByHash
Reusable(b) == {loaded[n].assembly : n \in {n \in DOMAIN loaded : loaded[n].bytes = b}}

Active == calls[Len(calls)]
InitializerRuns == calls # <<>> /\ Active.pending # None
HostRuns == calls = <<>> \/ InitializerRuns
Loads == calls # <<>> /\ Active.pending = None /\ Active.rest # <<>>

WithActive(c) == [calls EXCEPT ![Len(calls)] = c]
Left == SubSeq(calls, 1, Len(calls) - 1)

\* mutant: a loaded assembly goes to the front, as a replacement does
Listed_First(i) == <<i>> \o assemblies

\* assemblies.Add
Listed(i) == Append(assemblies, i)

\* RemoveAll of that name, then Insert at the front.
Replaced(i) ==
    <<i>> \o Kept(assemblies, {j \in 1 .. Len(objects) : objects[j].name # objects[i].name})

\* mutant: only the type cache is cleared
ClearCaches_TypesOnly ==
    /\ typeCache' = Empty
    /\ UNCHANGED methodCache

ClearCaches ==
    /\ typeCache' = Empty
    /\ methodCache' = Empty

\* What LoadHotUpdateAssemblies and ReplaceHotUpdateAssembly do with the
\* assembly they were given: list it, RegisterLoadedAssembly, clear the caches.
Accept(i, b) ==
    LET n == NameOf[b] IN
    /\ IF Active.op = "replace"
       THEN /\ assemblies' = Replaced(i)
            /\ hotfix' = Put(hotfix, n, i)
            /\ calls' = Left
       ELSE /\ assemblies' = Listed(i)
            /\ calls' = WithActive([Active EXCEPT !.rest = Tail(@), !.pending = None])
            /\ UNCHANGED hotfix
    /\ loaded' = Put(loaded, n, [assembly |-> i, bytes |-> b])
    /\ ClearCaches

-----------------------------------------------------------------------------
\* InitializePlaceHolderAssemblies registers every placeholder, still without an image.
Init ==
    /\ objects = [i \in 1 .. Len(Placeholders) |->
                     [name |-> Placeholders[i], bytes |-> NoBinary, stage |-> "placeholder"]]
    /\ registered = [i \in 1 .. Len(Placeholders) |-> i]
    /\ assemblies = <<>>
    /\ loaded = Empty
    /\ typeCache = Empty
    /\ methodCache = Empty
    /\ calls = <<>>
    /\ hotfix = Empty
    /\ stray = {}

Enter(op, bs) ==
    /\ HostRuns
    /\ Len(calls) < MaxNesting
    /\ calls' = Append(calls, [op |-> op, rest |-> bs, pending |-> None])

LoadHotUpdateAssemblies(bs) ==
    /\ Enter("load", bs)
    /\ UNCHANGED <<runtimeState, resolution, loaded, hotfix, stray>>

\* Reload forgets the list and the caches first; the table of loaded bytes stays.
ReloadHotUpdateAssemblies(bs) ==
    /\ Enter("load", bs)
    /\ assemblies' = <<>>
    /\ ClearCaches
    /\ hotfix' = Empty
    /\ UNCHANGED <<runtimeState, loaded, stray>>

ReplaceHotUpdateAssembly(b) ==
    /\ Enter("replace", <<b>>)
    /\ UNCHANGED <<runtimeState, resolution, loaded, hotfix, stray>>

\* An empty binary, one the load policy refuses, or one that is no image:
\* the exception leaves the loader with what it has listed so far.
Refuse ==
    /\ Loads
    /\ calls' = Left
    /\ UNCHANGED <<runtimeState, resolution, loaded, hotfix, stray>>

\* The same bytes are loaded already, under exactly one name.
Reuse ==
    /\ Loads
    /\ Len(assemblies) < MaxListed
    /\ \E i \in Reusable(Head(Active.rest)) : Accept(i, Head(Active.rest))
    /\ UNCHANGED <<runtimeState, stray>>

\* mutant: the assembly is registered before its metadata is initialised
CreateRaises_Registered ==
    /\ Loads
    /\ LET b == Head(Active.rest) IN
       /\ Reusable(b) = {}
       /\ Built(NameOf[b]) <= MaxObjects
       /\ BuildObject(b, "half")
       /\ registered' = Registered(Built(NameOf[b]))
    /\ calls' = Left
    /\ UNCHANGED <<resolution, loaded, hotfix, stray>>

\* Assembly::Create builds the image, but its metadata refers to a missing type
\* or assembly: InitRuntimeMetadatas raises before the registration.
CreateRaises ==
    /\ Loads
    /\ LET b == Head(Active.rest) IN
       /\ Reusable(b) = {}
       /\ Built(NameOf[b]) <= MaxObjects
       /\ BuildObject(b, "half")
    /\ calls' = Left
    /\ UNCHANGED <<registered, resolution, loaded, hotfix, stray>>

\* Assembly::Create; the metadata lock is released before the initializer runs.
\* A nested load of a name that an outer call is loading overtakes it.
Create ==
    /\ Loads
    /\ Len(assemblies) < MaxListed
    /\ LET b == Head(Active.rest)
           i == Built(NameOf[b]) IN
       /\ Reusable(b) = {}
       /\ i <= MaxObjects
       /\ BuildObject(b, "ready")
       /\ registered' = Registered(i)
       /\ calls' = WithActive([Active EXCEPT !.pending = i])
       /\ stray' = stray \cup {n \in {NameOf[b]} :
                     \E k \in 1 .. Len(calls) - 1 : objects[calls[k].pending].name = n}
    /\ UNCHANGED <<resolution, loaded, hotfix>>

\* Assembly.Load returns; the list may meanwhile have been changed by the initializer.
InitializerReturns ==
    /\ InitializerRuns
    /\ Len(assemblies) < MaxListed
    /\ Accept(Active.pending, objects[Active.pending].bytes)
    /\ UNCHANGED <<runtimeState, stray>>

\* The exception leaves Assembly.Load and the loader; the runtime keeps the assembly.
InitializerRaises ==
    /\ InitializerRuns
    /\ calls' = Left
    /\ stray' = stray \cup {objects[Active.pending].name}
    /\ UNCHANGED <<runtimeState, resolution, loaded, hotfix>>

\* The list is exhausted: performance defaults and PreJIT leave the loader's state alone.
LoadReturns ==
    /\ calls # <<>>
    /\ Active.pending = None /\ Active.rest = <<>>
    /\ calls' = Left
    /\ UNCHANGED <<runtimeState, resolution, loaded, hotfix, stray>>

Cached(c, t, i) == IF t \in DOMAIN c THEN c ELSE Put(c, t, i)

\* InvokeStatic and CreateStaticDelegate: the type through its cache, then a
\* method of it through the method cache.
InvokeStatic(t) ==
    /\ HostRuns
    /\ Resolve(t) # None
    /\ typeCache' = Cached(typeCache, t, Resolve(t))
    /\ methodCache' = Cached(methodCache, t, typeCache'[t])
    /\ UNCHANGED <<runtimeState, assemblies, loaded, calls, hotfix, stray>>

Next ==
    \/ \E bs \in Batches : LoadHotUpdateAssemblies(bs) \/ ReloadHotUpdateAssemblies(bs)
    \/ \E b \in Binary : ReplaceHotUpdateAssembly(b)
    \/ Refuse \/ Reuse \/ CreateRaises \/ Create
    \/ InitializerReturns \/ InitializerRaises \/ LoadReturns
    \/ \E t \in TypeName : InvokeStatic(t)

Spec == Init /\ [][Next]_vars

-----------------------------------------------------------------------------
Id == 1 .. MaxObjects
ObjectType ==
    [name : Name, bytes : Binary \cup {NoBinary}, stage : {"placeholder", "half", "ready"}]
CallType == [op : {"load", "replace"}, rest : Seq(Binary), pending : Id \cup {None}]

\* The variables hold values of their types; the loader lists, caches and
\* remembers only assemblies whose construction succeeded.
TypeOK ==
    /\ objects \in Seq(ObjectType) /\ Len(objects) <= MaxObjects
    /\ registered \in Seq(Id) /\ IsInjective(registered)
    /\ assemblies \in Seq(Id)
    /\ DOMAIN loaded \subseteq Name /\ DOMAIN hotfix \subseteq Name
    /\ \A n \in DOMAIN loaded :
          /\ loaded[n] \in [assembly : Id, bytes : Binary]
          /\ objects[loaded[n].assembly] = [name |-> n, bytes |-> loaded[n].bytes, stage |-> "ready"]
    /\ calls \in Seq(CallType)
    /\ stray \subseteq Name
    /\ \A k \in 1 .. Len(assemblies) : objects[assemblies[k]].stage = "ready"

\* What a cached type or method answers is what a search of the current list
\* would answer, after any loads, reloads and replacements, nested ones
\* included: no call goes to an assembly that has been replaced.
CachesAreCurrent ==
    /\ \A t \in DOMAIN typeCache : typeCache[t] = Resolve(t)
    /\ \A t \in DOMAIN methodCache : methodCache[t] = Resolve(t)

\* A hotfix stays in effect until the next Replace or Reload: assemblies of
\* the same name that are loaded later, old or new, rank behind it.
HotfixStays ==
    \A n \in DOMAIN hotfix :
        LET k == SelectInSeq(assemblies, LAMBDA i : objects[i].name = n)
        IN k # 0 /\ assemblies[k] = hotfix[n]

\* Assembly.Load(name) and type names qualified by an assembly find the
\* assembly the loader last loaded under that name, or the one whose
\* initializer is running.  Names are exempt once an initializer has raised, or
\* has loaded its own assembly's name again.
LoaderFollowsRuntime ==
    \A n \in DOMAIN loaded \ stray :
        \/ loaded[n].assembly = Newest(registered, objects, n)
        \/ \E k \in 1 .. Len(calls) : calls[k].pending = Newest(registered, objects, n)

\* The runtime finds no assembly whose construction raised, except for names
\* with a placeholder: that one was registered at start and is built in place.
\* The state stays well-typed.
RuntimeFindsNoHalfBuilt ==
    /\ TypeOK
    /\ \A n \in Name :
          LET i == Newest(registered, objects, n)
          IN i # None /\ i > Len(Placeholders) => objects[i].stage = "ready"
=============================================================================
