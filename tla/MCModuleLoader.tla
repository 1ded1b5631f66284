---------------------------- MODULE MCModuleLoader ----------------------------
(* A small instance of ModuleLoader: a file with the method, one without it, *)
(* and a name that is no shared object.                                      *)
EXTENDS ModuleLoader, TLC

CONSTANTS a, b, x, f
MCNames == {a, b, x}
MCLoadable == {a, b}
MCMethods == {f}
MCExports == (a :> {f}) @@ (b :> {}) @@ (x :> {})

Symmetry == Permutations(Mods)
==============================================================================
