----------------------- MODULE MCAssemblyReferences -----------------------
(* One AOT assembly, a feature with a placeholder, a library without one.  *)
EXTENDS AssemblyReferences

CONSTANTS core, feature, library

MCAOTNames == <<core>>
MCPlaceholders == <<feature>>
=============================================================================
