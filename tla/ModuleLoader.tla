----------------------------- MODULE ModuleLoader -----------------------------
(***************************************************************************)
(* The module loader of src/module.c and the library object of             *)
(* src/kahana.c it hangs on: loaded modules in a hash table by label, each  *)
(* in a memory pool of its own whose cleanup unloads the shared object, and *)
(* with a table of the methods looked up so far.  The keys of the hash      *)
(* table live in the pools of the modules too.  A use of memory that a pool *)
(* has already freed is recorded in `fault'; nothing is defined after it    *)
(* and the model stops.                                                     *)
(***************************************************************************)
EXTENDS Naturals, FiniteSets

CONSTANTS Names,     \* strings used as file names and as labels
          Loadable,  \* the names apr_dso_load can load
          Methods,   \* the symbols a caller may ask for
          Exports,   \* the symbols each loadable file defines
          Mods,      \* bound: the kModule_t objects ever allocated
          Null       \* the NULL pointer

ASSUME NamesAssumption == Loadable \subseteq Names
ASSUME ExportsAssumption == Exports \in [Names -> SUBSET Methods]
ASSUME NullAssumption == Null \notin Mods \cup Names

VARIABLES
  obj,      \* kObj: "null", "live", or "stale" (freed but not NULL)
  table,    \* loader->mods: the module registered under each label
  nmods,    \* loader->nmods
  state,    \* each kModule_t: "unused", "loaded", or "unloaded" (its pool is gone)
  label,    \* mod->label
  file,     \* mod->filename
  methods,  \* the keys of mod->methods
  abuse,    \* history: "some" once the application destroyed a module's pool,
            \* or terminated a library that was not initialized; else "none"
  fault,    \* "none", or "freed" after a use of freed memory
  rc        \* the result of the last call

modVars == <<state, label, file, methods>>
vars == <<obj, table, nmods, modVars, abuse, fault, rc>>

Up == obj = "live" /\ fault = "none"
Loaded == {m \in Mods : state[m] = "loaded"}

(* What kahanaModuleList returns: the modules in the table. *)
List == {table[l] : l \in Names} \ {Null}

(* The entry of l, key and value, is in the pool of a module that is gone.  *)
Dangling(l) == table[l] # Null /\ table[l] \notin Loaded

(* The file name of n is the label of m, a module loaded from another file. *)
Alias(m, n) == m # n /\ label[m] # Null /\ file[n] = label[m] /\ file[m] # label[m]

Init ==
  /\ obj = "null"
  /\ table = [l \in Names |-> Null] /\ nmods = 0
  /\ state = [m \in Mods |-> "unused"]
  /\ label = [m \in Mods |-> Null] /\ file = [m \in Mods |-> Null]
  /\ methods = [m \in Mods |-> {}]
  /\ abuse = "none" /\ fault = "none" /\ rc = "SUCCESS"

-----------------------------------------------------------------------------
(* kahanaInitilize.  A step that fails destroys the pool the object lives   *)
(* in and leaves kObj pointing there; kObj is NULL if the object could not  *)
(* be allocated, and not touched if apr_initialize or the pool failed.      *)
(* A second initialization of a live library is not modelled.               *)
Initilize ==
  /\ obj # "live" /\ fault = "none"
  /\ \/ obj' = "live" /\ rc' = "SUCCESS"
     \/ obj' \in {obj, "null", "stale"} /\ rc' = "EGENERAL"
  /\ table' = [l \in Names |-> Null] /\ nmods' = 0
  /\ UNCHANGED <<modVars, abuse, fault>>

(* Mutant of Cleaned: all entries are removed. *)
MutCleanedAll(ms) == [l \in Names |-> Null]

(* The table after the cleanup of the modules ms: each removes the entry    *)
(* whose key is its file name, whatever module that entry is.               *)
Cleaned(ms) ==
  [l \in Names |-> IF \E m \in ms : file[m] = l THEN Null ELSE table[l]]

(* Mutant of Unloaded: the pool is cleared, and its memory used again. *)
MutCleared(ms) == [m \in Mods |-> IF m \in ms THEN "unused" ELSE state[m]]

Unloaded(ms) == [m \in Mods |-> IF m \in ms THEN "unloaded" ELSE state[m]]

(* The modules _kahanaModuleCleanup and the destruction of the loader's     *)
(* pool take down.                                                          *)
Terminated == List \cup Loaded

(* kahanaTerminate: _kahanaModuleCleanup destroys the pool of every listed  *)
(* module, then the loader's pool and with it the modules that are no       *)
(* longer listed. kObj is left as it is.  A listed module that is gone is   *)
(* destroyed again; and one that goes before a module whose file has its    *)
(* label for a name leaves a key that the latter's cleanup compares with.   *)
Terminate ==
  /\ Up
  /\ \/ /\ List \subseteq Loaded
        /\ state' = Unloaded(Terminated)
        /\ obj' = "stale"
        /\ table' = [l \in Names |-> Null] /\ nmods' = 0
        /\ UNCHANGED fault
     \/ /\ \/ ~(List \subseteq Loaded)
           \/ \E m \in List, n \in Loaded : Alias(m, n)
        /\ fault' = "freed"
        /\ UNCHANGED <<obj, table, nmods, state>>
  /\ UNCHANGED <<label, file, methods, abuse, rc>>

(* kahanaTerminate of a library that was terminated or whose                *)
(* initialization failed.                                                   *)
TerminateStale ==
  /\ obj = "stale" /\ fault = "none"
  /\ fault' = "freed" /\ abuse' = "some"
  /\ UNCHANGED <<obj, table, nmods, modVars, rc>>

-----------------------------------------------------------------------------
(* Mutant of Registered: a module is entered before it is loaded. *)
MutRegisteredEarly(m, l, ok) == [table EXCEPT ![l] = m]

(* The table after the attempt to load module m as l. *)
Registered(m, l, ok) == IF ok THEN [table EXCEPT ![l] = m] ELSE table

(* kahanaModuleLoad of a label that is new: a kModule_t is allocated, and   *)
(* freed again if apr_dso_load fails.  (The bound Mods does not count it.)  *)
LoadNew(f, l) ==
  /\ table[l] = Null
  /\ \E m \in Mods :
       /\ state[m] = "unused"
       /\ \/ /\ f \in Loadable
             /\ state' = [state EXCEPT ![m] = "loaded"]
             /\ label' = [label EXCEPT ![m] = l]
             /\ file' = [file EXCEPT ![m] = f]
             /\ table' = Registered(m, l, TRUE)
             /\ nmods' = nmods + 1
             /\ rc' = "SUCCESS"
          \/ /\ table' = Registered(m, l, FALSE)
             /\ rc' = "EDSOOPEN"
             /\ UNCHANGED <<nmods, state, label, file>>
  /\ UNCHANGED methods

(* kahanaModuleLoad of a label in the table succeeds and loads nothing, of  *)
(* whatever file.                                                           *)
LoadAgain(l) ==
  /\ table[l] # Null
  /\ IF Dangling(l) THEN fault' = "freed" /\ UNCHANGED rc
                    ELSE rc' = "SUCCESS" /\ UNCHANGED fault
  /\ UNCHANGED <<table, nmods, modVars>>

Load(f, l) ==
  /\ Up
  /\ (LoadNew(f, l) /\ UNCHANGED fault) \/ LoadAgain(l)
  /\ UNCHANGED <<obj, abuse>>

(* The application destroys kahanaModulePool( mod ): cbModuleCleanupMod,    *)
(* which leaves loader->nmods alone.                                        *)
DestroyPool(m) ==
  /\ Up
  /\ m \in Loaded
  /\ IF Dangling(file[m])
     THEN fault' = "freed" /\ UNCHANGED <<state, table>>
     ELSE /\ state' = Unloaded({m})
          /\ table' = Cleaned({m})
          /\ UNCHANGED fault
  /\ abuse' = "some"
  /\ UNCHANGED <<obj, nmods, label, file, methods, rc>>

-----------------------------------------------------------------------------
(* _kahanaModuleMethodLoad's verdict on a module: its method table holds    *)
(* the symbol, or the shared object defines it.                             *)
Has(m, sym) == sym \in methods[m] \cup Exports[file[m]]

(* kahanaModuleMethod, and so kahanaModuleMethodInvoke, on a module.        *)
Method(m, sym) ==
  IF Has(m, sym)
  THEN methods' = [methods EXCEPT ![m] = @ \cup {sym}] /\ rc' = "SUCCESS"
  ELSE UNCHANGED methods /\ rc' = "ESYMNOTFOUND"

(* kahanaModuleMethodInvoke with a pointer the caller was given.            *)
MethodInvoke(m, sym) ==
  /\ Up
  /\ m \in Loaded
  /\ Method(m, sym)
  /\ UNCHANGED <<obj, table, nmods, state, label, file, abuse, fault>>

(* kahanaModuleLabelMethodInvoke, and kahanaModuleLabelContext for its      *)
(* lookup: an entry whose module is gone is used like any other.            *)
LabelMethodInvoke(l, sym) ==
  /\ Up
  /\ \/ /\ table[l] = Null
        /\ rc' = "ENOENT"
        /\ UNCHANGED <<methods, fault>>
     \/ /\ table[l] \in Loaded
        /\ Method(table[l], sym)
        /\ UNCHANGED fault
     \/ /\ Dangling(l)
        /\ fault' = "freed"
        /\ UNCHANGED <<methods, rc>>
  /\ UNCHANGED <<obj, table, nmods, state, label, file, abuse>>

(* kahanaModuleMethodPreload walks its labels: what it meets at a label.    *)
Meets(l, sym) ==
  IF table[l] = Null THEN "ENOENT"
  ELSE IF Dangling(l) THEN "freed"
  ELSE IF Has(table[l], sym) THEN "SUCCESS" ELSE "ESYMNOTFOUND"

Stops(breakIfNoImp, found) ==
  \/ found \in {"ENOENT", "freed"}
  \/ found = "ESYMNOTFOUND" /\ breakIfNoImp = "yes"

MethodPreload(breakIfNoImp, sym, labels) ==
  LET stop == {i \in DOMAIN labels : Stops(breakIfNoImp, Meets(labels[i], sym))}
      Before(i) == \A j \in stop : i < j
      walked == {table[labels[i]] : i \in {k \in DOMAIN labels : Before(k)}}
      last == IF stop = {} THEN "SUCCESS"
              ELSE LET i == CHOOSE k \in stop : \A j \in stop : k <= j
                   IN  Meets(labels[i], sym)
  IN
  /\ Up
  /\ methods' = [m \in Mods |-> IF m \in walked /\ Has(m, sym)
                                THEN methods[m] \cup {sym} ELSE methods[m]]
  /\ IF last = "freed" THEN fault' = "freed" /\ UNCHANGED rc
                       ELSE rc' = last /\ UNCHANGED fault
  /\ UNCHANGED <<obj, table, nmods, state, label, file, abuse>>

-----------------------------------------------------------------------------
LabelLists == UNION {[1..n -> Names] : n \in 0..2}

Next ==
  \/ Initilize \/ Terminate \/ TerminateStale
  \/ \E f, l \in Names : Load(f, l)
  \/ \E m \in Mods : DestroyPool(m)
  \/ \E m \in Mods, sym \in Methods : MethodInvoke(m, sym)
  \/ \E l \in Names, sym \in Methods : LabelMethodInvoke(l, sym)
  \/ \E b \in {"yes", "no"}, sym \in Methods, labels \in LabelLists :
        MethodPreload(b, sym, labels)

Spec == Init /\ [][Next]_vars

-----------------------------------------------------------------------------
(* Every variable stays in its range. *)
TypeOK ==
  /\ obj \in {"null", "live", "stale"}
  /\ table \in [Names -> Mods \cup {Null}] /\ nmods \in Nat
  /\ state \in [Mods -> {"unused", "loaded", "unloaded"}]
  /\ label \in [Mods -> Names \cup {Null}] /\ file \in [Mods -> Names \cup {Null}]
  /\ \A m \in Mods : state[m] = "unused" <=> label[m] = Null
  /\ methods \in [Mods -> SUBSET Methods]
  /\ abuse \in {"none", "some"} /\ fault \in {"none", "freed"}
  /\ rc \in {"SUCCESS", "EGENERAL", "EDSOOPEN", "ENOENT", "ESYMNOTFOUND"}

(* As long as the application neither destroys a module's pool itself nor   *)
(* terminates twice, no call touches freed memory, failed loads included -  *)
(* unless a module's label is the name of another module's file.            *)
NoUseAfterFree ==
  fault # "none" => abuse = "some" \/ \E m, n \in Mods : Alias(m, n)

(* The table and the modules disagree only by the mix-up of labels and file *)
(* names: a loaded module is not found under its label any more only because *)
(* one whose FILE has the name of that label was unloaded, and a freed one    *)
(* stays in the table only if it was loaded under another label than its     *)
(* file's name.  The table never has more modules than the array of nmods    *)
(* pointers that _kahanaModuleCleanup lists them in.                         *)
TableAgrees ==
  /\ obj = "live" =>
       \A m \in Loaded : table[label[m]] # m =>
          \E n \in Mods : state[n] = "unloaded" /\ file[n] = label[m]
  /\ \A l \in Names : table[l] # Null =>
       /\ label[table[l]] = l
       /\ table[l] \in Loaded \/ file[table[l]] # l
  /\ Cardinality(List) <= nmods
=============================================================================
