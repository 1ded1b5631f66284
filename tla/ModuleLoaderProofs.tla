-------------------------- MODULE ModuleLoaderProofs --------------------------
(* The module loader, proved for every set of names, labels and modules: what *)
(* the table and the modules can disagree about, and who may free what.       *)
EXTENDS ModuleLoader, FiniteSetTheorems, TLAPS

(* Only a library that is up has modules, and a table.                       *)
DownInv == obj # "live" => Loaded = {}

(* An object has a label and a file name once it was loaded.                 *)
NamedInv == \A m \in Mods : state[m] = "unused" <=> file[m] = Null

(* Until the application takes a module down itself, the table names none    *)
(* that is gone.                                                             *)
ListedInv == abuse = "none" => List \subseteq Loaded

(* The two halves of TableAgrees about one module and about one label, and    *)
(* the bound on the whole table.                                             *)
FoundInv ==
  obj = "live" =>
    \A m \in Loaded : table[label[m]] # m =>
       \E n \in Mods : state[n] = "unloaded" /\ file[n] = label[m]

EntryInv ==
  \A l \in Names : table[l] # Null =>
    /\ label[table[l]] = l
    /\ table[l] \in Loaded \/ file[table[l]] # l

CountInv == IsFiniteSet(List) /\ Cardinality(List) <= nmods

IInv ==
  /\ TypeOK /\ NoUseAfterFree
  /\ DownInv /\ NamedInv /\ ListedInv /\ FoundInv /\ EntryInv /\ CountInv

-----------------------------------------------------------------------------
(* A table without entries is within any count. *)
LEMMA EmptyTable ==
  ASSUME table = [l \in Names |-> Null], nmods = 0
  PROVE  List = {} /\ CountInv
<1>1. List = {}
  BY DEF List
<1> QED BY <1>1, FS_EmptySet DEF CountInv

LEMMA EmptiedTable ==
  ASSUME table' = [l \in Names |-> Null], nmods' = 0
  PROVE  List' = {} /\ CountInv'
<1>1. List' = {}
  BY DEF List
<1> QED BY <1>1, FS_EmptySet DEF CountInv

(* A table with entries taken out stays within the count. *)
LEMMA ShrunkTable ==
  ASSUME CountInv, TypeOK, List' \subseteq List, nmods' = nmods
  PROVE  CountInv'
<1>1. /\ IsFiniteSet(List') /\ Cardinality(List') <= Cardinality(List)
  BY FS_Subset DEF CountInv
<1>2. Cardinality(List) \in Nat /\ Cardinality(List') \in Nat
  BY <1>1, FS_CardinalityType DEF CountInv
<1> QED BY <1>1, <1>2 DEF CountInv, TypeOK

(* And so does one with an entry more, when that is counted. *)
LEMMA GrownTable ==
  ASSUME CountInv, TypeOK, NEW m, List' \subseteq List \cup {m}, nmods' = nmods + 1
  PROVE  CountInv'
<1>1. /\ IsFiniteSet(List \cup {m})
      /\ Cardinality(List \cup {m}) \in {Cardinality(List), Cardinality(List) + 1}
  BY FS_AddElement DEF CountInv
<1>2. IsFiniteSet(List') /\ Cardinality(List') <= Cardinality(List \cup {m})
  BY <1>1, FS_Subset
<1>3. Cardinality(List) \in Nat /\ Cardinality(List') \in Nat
  BY <1>2, FS_CardinalityType DEF CountInv
<1> QED BY <1>1, <1>2, <1>3 DEF CountInv, TypeOK

LEMMA InitHolds == Init => IInv
<1> SUFFICES ASSUME Init PROVE IInv
  OBVIOUS
<1> USE DEF Init
<1>1. TypeOK
  BY DEF TypeOK
<1>2. Loaded = {}
  BY DEF Loaded
<1>3. List = {} /\ CountInv
  BY EmptyTable
<1> QED BY <1>1, <1>2, <1>3 DEF IInv, NoUseAfterFree, DownInv, NamedInv, ListedInv, FoundInv, EntryInv

(* What only reads the table and the modules. *)
LEMMA LookupKeeps ==
  ASSUME IInv, fault = "none",
         UNCHANGED <<obj, table, nmods, state, label, file, abuse>>,
         methods' \in [Mods -> SUBSET Methods],
         rc' \in {"SUCCESS", "EGENERAL", "EDSOOPEN", "ENOENT", "ESYMNOTFOUND"},
         fault' \in {"none", "freed"},
         fault' = "freed" => \E l \in Names : Dangling(l)
  PROVE  IInv'
<1> USE DEF IInv
<1>1. Loaded' = Loaded /\ List' = List
  BY DEF Loaded, List
<1>2. TypeOK'
  BY DEF TypeOK
<1>3. NoUseAfterFree'
  <2>1. ASSUME NEW l \in Names, Dangling(l) PROVE abuse # "none"
    BY <2>1 DEF Dangling, ListedInv, List
  <2> QED BY <2>1 DEF NoUseAfterFree, TypeOK
<1>4. DownInv' /\ NamedInv' /\ ListedInv' /\ CountInv'
  BY <1>1 DEF DownInv, NamedInv, ListedInv, CountInv
<1>5. FoundInv' /\ EntryInv'
  BY <1>1 DEF FoundInv, EntryInv
<1> QED BY <1>2, <1>3, <1>4, <1>5

LEMMA InitilizeKeeps == ASSUME IInv, Initilize PROVE IInv'
<1> USE DEF IInv, Initilize
<1>1. Loaded = {} /\ Loaded' = {}
  BY DEF DownInv, Loaded, modVars
<1>2. List' = {} /\ CountInv'
  BY EmptiedTable
<1>3. TypeOK' /\ NoUseAfterFree' /\ NamedInv'
  BY DEF TypeOK, NoUseAfterFree, NamedInv, modVars
<1>4. DownInv' /\ ListedInv' /\ FoundInv' /\ EntryInv'
  BY <1>1, <1>2 DEF DownInv, ListedInv, FoundInv, EntryInv
<1> QED BY <1>2, <1>3, <1>4

LEMMA TerminateKeeps == ASSUME IInv, Terminate PROVE IInv'
<1> USE DEF IInv, Terminate, Up
<1>1. CASE fault' = "freed"
  <2>0. fault = "none"
    OBVIOUS
  <2>1. \/ ~(List \subseteq Loaded)
        \/ \E m \in List, n \in Loaded : Alias(m, n)
    BY <1>1, <2>0
  <2>2. UNCHANGED <<obj, table, nmods, state, label, file, abuse, methods>>
    BY <1>1, <2>0
  <2>3. Loaded' = Loaded /\ List' = List
    BY <2>2 DEF Loaded, List
  <2>4. NoUseAfterFree'
    <3>1. CASE ~(List \subseteq Loaded)
      BY <3>1, <2>2 DEF ListedInv, TypeOK, NoUseAfterFree
    <3>2. CASE \E m \in List, n \in Loaded : Alias(m, n)
      <4>1. List \subseteq Mods /\ Loaded \subseteq Mods
        BY DEF List, Loaded, TypeOK
      <4>2. \E m, n \in Mods : Alias(m, n)
        BY <3>2, <4>1
      <4>3. \E m, n \in Mods : Alias(m, n)'
        BY <4>2, <2>2 DEF Alias
      <4> QED BY <4>3 DEF NoUseAfterFree
    <3> QED BY <2>1, <3>1, <3>2
  <2>5. TypeOK'
    BY <1>1, <2>2 DEF TypeOK
  <2>6. DownInv' /\ NamedInv' /\ ListedInv' /\ CountInv'
    BY <2>2, <2>3 DEF DownInv, NamedInv, ListedInv, CountInv
  <2>7. FoundInv' /\ EntryInv'
    BY <2>2, <2>3 DEF FoundInv, EntryInv
  <2> QED BY <2>4, <2>5, <2>6, <2>7
<1>2. CASE fault' # "freed"
  <2>1. /\ state' = Unloaded(Terminated) /\ obj' = "stale"
        /\ table' = [l \in Names |-> Null] /\ nmods' = 0 /\ fault' = "none"
        /\ List \subseteq Loaded
        /\ UNCHANGED <<label, file, methods, abuse, rc>>
    BY <1>2
  <2>2. Loaded' = {}
    BY <2>1 DEF Loaded, Unloaded, Terminated
  <2>3. List' = {} /\ CountInv'
    BY <2>1, EmptiedTable
  <2>4. \A m \in Mods : state'[m] = "unused" <=> state[m] = "unused"
    BY <2>1 DEF Unloaded, Terminated, Loaded
  <2>5. TypeOK'
    BY <2>1, <2>4 DEF TypeOK, Unloaded
  <2>6. NoUseAfterFree' /\ NamedInv'
    BY <2>1, <2>4 DEF NoUseAfterFree, NamedInv
  <2>7. DownInv' /\ ListedInv' /\ FoundInv' /\ EntryInv'
    BY <2>1, <2>2, <2>3 DEF DownInv, ListedInv, FoundInv, EntryInv
  <2> QED BY <2>3, <2>5, <2>6, <2>7
<1> QED BY <1>1, <1>2

LEMMA TerminateStaleKeeps == ASSUME IInv, TerminateStale PROVE IInv'
<1> USE DEF IInv, TerminateStale, modVars
<1>1. Loaded' = Loaded /\ List' = List
  BY DEF Loaded, List
<1>2. TypeOK' /\ NoUseAfterFree'
  BY DEF TypeOK, NoUseAfterFree
<1>3. DownInv' /\ NamedInv' /\ ListedInv' /\ CountInv'
  BY <1>1 DEF DownInv, NamedInv, ListedInv, CountInv
<1>4. FoundInv' /\ EntryInv'
  BY <1>1 DEF FoundInv, EntryInv
<1> QED BY <1>2, <1>3, <1>4

-----------------------------------------------------------------------------
(* A module that is loaded takes an entry that was empty: the one that label *)
(* had before must have lost it to a file of that name.                      *)
LEMMA LoadedKeeps ==
  ASSUME IInv, Up, NEW f \in Names, NEW l \in Names, NEW m \in Mods,
         state[m] = "unused", table[l] = Null,
         state' = [state EXCEPT ![m] = "loaded"],
         label' = [label EXCEPT ![m] = l],
         file' = [file EXCEPT ![m] = f],
         table' = [table EXCEPT ![l] = m],
         nmods' = nmods + 1, rc' = "SUCCESS",
         UNCHANGED <<obj, methods, abuse, fault>>
  PROVE  IInv'
<1> USE DEF IInv, Up
<1> USE NullAssumption
<1>1. /\ state \in [Mods -> {"unused", "loaded", "unloaded"}]
      /\ label \in [Mods -> Names \cup {Null}] /\ file \in [Mods -> Names \cup {Null}]
      /\ table \in [Names -> Mods \cup {Null}]
  BY DEF TypeOK
<1>2. Loaded' = Loaded \cup {m} /\ m \notin Loaded
  BY <1>1 DEF Loaded
<1>3. List' \subseteq List \cup {m}
  BY <1>1 DEF List
<1>4. TypeOK'
  BY <1>1 DEF TypeOK
<1>5. NoUseAfterFree' /\ NamedInv'
  BY <1>1 DEF NoUseAfterFree, NamedInv
<1>6. DownInv' /\ ListedInv'
  BY <1>2, <1>3 DEF DownInv, ListedInv
<1>7. FoundInv'
  <2> SUFFICES ASSUME NEW k \in Loaded', table'[label'[k]] # k
               PROVE  \E n \in Mods : state'[n] = "unloaded" /\ file'[n] = label'[k]
    BY DEF FoundInv
  <2>1. k # m /\ k \in Loaded /\ label'[k] = label[k] /\ label[k] \in Names
    BY <1>1, <1>2 DEF TypeOK, Loaded
  <2>2. table[label[k]] # k
    BY <1>1, <2>1 DEF Loaded
  <2>3. PICK n \in Mods : state[n] = "unloaded" /\ file[n] = label[k]
    BY <2>1, <2>2 DEF FoundInv
  <2>4. n # m
    BY <2>3
  <2> QED BY <1>1, <2>1, <2>3, <2>4
<1>8. EntryInv'
  <2> SUFFICES ASSUME NEW k \in Names, table'[k] # Null
               PROVE  /\ label'[table'[k]] = k
                      /\ table'[k] \in Loaded' \/ file'[table'[k]] # k
    BY DEF EntryInv
  <2>1. CASE k = l
    BY <1>1, <1>2, <2>1
  <2>2. CASE k # l
    <3>1. table'[k] = table[k] /\ table[k] \in Mods
      BY <1>1, <2>2
    <3>2. label[table[k]] = k /\ (table[k] \in Loaded \/ file[table[k]] # k)
      BY <3>1 DEF EntryInv
    <3>3. table[k] # m
      BY <3>1, <3>2 DEF TypeOK
    <3> QED BY <1>1, <1>2, <3>1, <3>2, <3>3
  <2> QED BY <2>1, <2>2
<1>9. CountInv'
  BY <1>3, GrownTable
<1> QED BY <1>4, <1>5, <1>6, <1>7, <1>8, <1>9

LEMMA LoadKeeps ==
  ASSUME IInv, NEW f \in Names, NEW l \in Names, Load(f, l)
  PROVE  IInv'
<1> USE DEF Load, modVars
<1>1. CASE LoadNew(f, l) /\ UNCHANGED fault
  <2>1. PICK m \in Mods :
          /\ state[m] = "unused"
          /\ \/ /\ f \in Loadable
                /\ state' = [state EXCEPT ![m] = "loaded"]
                /\ label' = [label EXCEPT ![m] = l]
                /\ file' = [file EXCEPT ![m] = f]
                /\ table' = [table EXCEPT ![l] = m]
                /\ nmods' = nmods + 1
                /\ rc' = "SUCCESS"
             \/ /\ table' = table
                /\ rc' = "EDSOOPEN"
                /\ UNCHANGED <<nmods, state, label, file>>
    BY <1>1 DEF LoadNew, Registered
  <2>2. table[l] = Null /\ UNCHANGED <<obj, methods, abuse, fault>> /\ Up
    BY <1>1 DEF LoadNew
  <2>3. CASE table' = table /\ rc' = "EDSOOPEN" /\ UNCHANGED <<nmods, state, label, file>>
    BY <2>2, <2>3, LookupKeeps DEF IInv, TypeOK, Up
  <2> QED BY <2>1, <2>2, <2>3, LoadedKeeps
<1>2. CASE LoadAgain(l)
  <2>1. UNCHANGED <<obj, table, nmods, state, label, file, methods, abuse>> /\ Up
    BY <1>2 DEF LoadAgain
  <2>2. \/ Dangling(l) /\ fault' = "freed" /\ rc' = rc
        \/ rc' = "SUCCESS" /\ fault' = fault
    BY <1>2 DEF LoadAgain
  <2> QED BY <2>1, <2>2, LookupKeeps DEF IInv, TypeOK, Up
<1> QED BY <1>1, <1>2

(* A module that goes takes the entry of its file's name with it, and with    *)
(* that the module that is loaded under that name.                           *)
LEMMA DestroyPoolKeeps ==
  ASSUME IInv, NEW m \in Mods, DestroyPool(m)
  PROVE  IInv'
<1> USE DEF IInv, DestroyPool, Up
<1>1. CASE Dangling(file[m])
  <2>1. UNCHANGED <<obj, table, nmods, state, label, file, methods, rc>> /\ abuse' = "some"
        /\ fault' = "freed"
    BY <1>1
  <2>2. Loaded' = Loaded /\ List' = List
    BY <2>1 DEF Loaded, List
  <2>3. TypeOK' /\ NoUseAfterFree' /\ NamedInv' /\ ListedInv'
    BY <2>1 DEF TypeOK, NoUseAfterFree, NamedInv, ListedInv
  <2>4. DownInv' /\ FoundInv' /\ EntryInv' /\ CountInv'
    BY <2>1, <2>2 DEF DownInv, FoundInv, EntryInv, CountInv
  <2> QED BY <2>3, <2>4
<1>2. CASE ~Dangling(file[m])
  <2>1. /\ state' = Unloaded({m}) /\ table' = Cleaned({m}) /\ fault' = fault /\ abuse' = "some"
        /\ UNCHANGED <<obj, nmods, label, file, methods, rc>> /\ m \in Loaded
    BY <1>2
  <2>2. /\ \A k \in Mods : state'[k] = IF k = m THEN "unloaded" ELSE state[k]
        /\ \A l \in Names : table'[l] = IF l = file[m] THEN Null ELSE table[l]
    BY <2>1 DEF Unloaded, Cleaned
  <2>3. Loaded' = Loaded \ {m}
    BY <2>1, <2>2 DEF Loaded
  <2>4. List' \subseteq List
    BY <2>2 DEF List
  <2>5. TypeOK'
    BY <2>1, <2>2 DEF TypeOK, Unloaded, Cleaned, Loaded
  <2>6. NoUseAfterFree' /\ NamedInv' /\ ListedInv' /\ DownInv'
    BY <2>1, <2>2, <2>3 DEF NoUseAfterFree, NamedInv, ListedInv, DownInv, Loaded
  <2>7. FoundInv'
    <3> SUFFICES ASSUME obj = "live", NEW k \in Loaded \ {m}, table'[label[k]] # k
                 PROVE  \E n \in Mods : state'[n] = "unloaded" /\ file[n] = label[k]
      BY <2>1, <2>3 DEF FoundInv
    <3>1. label[k] \in Names
      BY DEF TypeOK, Loaded
    <3>2. CASE label[k] = file[m]
      BY <2>2, <3>2
    <3>3. CASE label[k] # file[m]
      BY <2>2, <3>1, <3>3 DEF FoundInv
    <3> QED BY <3>2, <3>3
  <2>8. EntryInv'
    <3> SUFFICES ASSUME NEW l \in Names, table'[l] # Null
                 PROVE  /\ label[table[l]] = l /\ table'[l] = table[l]
                        /\ table[l] \in Loaded \ {m} \/ file[table[l]] # l
      BY <2>1, <2>3 DEF EntryInv
    <3>1. l # file[m] /\ table'[l] = table[l]
      BY <2>2
    <3> QED BY <3>1 DEF EntryInv
  <2>9. CountInv'
    BY <2>1, <2>4, ShrunkTable
  <2> QED BY <2>5, <2>6, <2>7, <2>8, <2>9
<1> QED BY <1>1, <1>2

-----------------------------------------------------------------------------
LEMMA MethodKeeps ==
  ASSUME TypeOK, NEW m \in Mods, NEW sym \in Methods, Method(m, sym)
  PROVE  methods' \in [Mods -> SUBSET Methods] /\ rc' \in {"SUCCESS", "ESYMNOTFOUND"}
BY DEF Method, TypeOK

LEMMA MethodInvokeKeeps ==
  ASSUME IInv, NEW m \in Mods, NEW sym \in Methods, MethodInvoke(m, sym)
  PROVE  IInv'
<1> TypeOK
  BY DEF IInv
<1>1. Method(m, sym) /\ fault = "none" /\ fault' = fault
      /\ UNCHANGED <<obj, table, nmods, state, label, file, abuse>>
  BY DEF MethodInvoke, Up
<1>2. methods' \in [Mods -> SUBSET Methods] /\ rc' \in {"SUCCESS", "ESYMNOTFOUND"}
  BY <1>1, MethodKeeps
<1> QED BY <1>1, <1>2, LookupKeeps

LEMMA LabelMethodInvokeKeeps ==
  ASSUME IInv, NEW l \in Names, NEW sym \in Methods, LabelMethodInvoke(l, sym)
  PROVE  IInv'
<1>0. fault = "none" /\ UNCHANGED <<obj, table, nmods, state, label, file, abuse>>
  BY DEF LabelMethodInvoke, Up
<1>t. TypeOK
  BY DEF IInv
<1>1. CASE table[l] \in Loaded /\ Method(table[l], sym) /\ fault' = fault
  <2>1. table[l] \in Mods
    BY <1>1 DEF Loaded
  <2>2. methods' \in [Mods -> SUBSET Methods] /\ rc' \in {"SUCCESS", "ESYMNOTFOUND"}
    BY <1>t, <1>1, <2>1, MethodKeeps
  <2> QED BY <1>0, <1>1, <2>2, LookupKeeps
<1>2. CASE table[l] = Null /\ rc' = "ENOENT" /\ methods' = methods /\ fault' = fault
  BY <1>t, <1>0, <1>2, LookupKeeps DEF TypeOK
<1>3. CASE Dangling(l) /\ fault' = "freed" /\ methods' = methods /\ rc' = rc
  BY <1>t, <1>0, <1>3, LookupKeeps DEF TypeOK
<1> QED BY <1>1, <1>2, <1>3 DEF LabelMethodInvoke

LEMMA MethodPreloadKeeps ==
  ASSUME IInv, NEW b \in {"yes", "no"}, NEW sym \in Methods, NEW labels \in LabelLists,
         MethodPreload(b, sym, labels)
  PROVE  IInv'
<1> DEFINE stop == {i \in DOMAIN labels : Stops(b, Meets(labels[i], sym))}
           First == CHOOSE k \in stop : \A j \in stop : k <= j
           last == IF stop = {} THEN "SUCCESS" ELSE Meets(labels[First], sym)
<1>t. TypeOK
  BY DEF IInv
<1>1. /\ fault = "none" /\ UNCHANGED <<obj, table, nmods, state, label, file, abuse>>
      /\ methods' \in [Mods -> SUBSET Methods]
  BY <1>t DEF MethodPreload, Up, TypeOK
<1>2. IF last = "freed" THEN fault' = "freed" /\ UNCHANGED rc ELSE rc' = last /\ UNCHANGED fault
  BY DEF MethodPreload
<1>3. \A l : Meets(l, sym) \in {"ENOENT", "freed", "SUCCESS", "ESYMNOTFOUND"}
  BY DEF Meets
<1>4. CASE last = "freed"
  <2>1. stop # {} /\ Meets(labels[First], sym) = "freed"
    BY <1>4
  <2>2. Dangling(labels[First])
    BY <2>1 DEF Meets
  <2>3. First \in DOMAIN labels
    <3>1. PICK n \in 0..2 : labels \in [1..n -> Names]
      BY DEF LabelLists
    <3>2. \E k \in stop : \A j \in stop : k <= j
      <4>1. stop \subseteq 1..n /\ stop # {}
        BY <2>1, <3>1
      <4>2. CASE 1 \in stop
        BY <4>1, <4>2, <3>1
      <4>3. CASE 1 \notin stop
        <5>1. \A j \in stop : j = 2
          BY <4>1, <4>3, <3>1
        <5> QED BY <4>1, <5>1
      <4> QED BY <4>2, <4>3
    <3> QED BY <3>2
  <2>4. labels[First] \in Names
    BY <2>3 DEF LabelLists
  <2>5. \E l \in Names : Dangling(l)
    BY <2>2, <2>4
  <2>6. fault' = "freed" /\ rc' = rc
    BY <1>2, <1>4
  <2> QED BY <1>t, <1>1, <2>5, <2>6, LookupKeeps DEF TypeOK
<1>5. CASE last # "freed"
  <2>1. rc' = last /\ fault' = fault
    BY <1>2, <1>5
  <2>2. last \in {"ENOENT", "SUCCESS", "ESYMNOTFOUND"}
    BY <1>3, <1>5
  <2> QED BY <1>1, <2>1, <2>2, LookupKeeps
<1> QED BY <1>4, <1>5

LEMMA NextKeeps == IInv /\ [Next]_vars => IInv'
<1> SUFFICES ASSUME IInv, [Next]_vars PROVE IInv'
  OBVIOUS
<1>1. CASE Initilize
  BY <1>1, InitilizeKeeps
<1>2. CASE Terminate
  BY <1>2, TerminateKeeps
<1>3. CASE TerminateStale
  BY <1>3, TerminateStaleKeeps
<1>4. CASE \E f, l \in Names : Load(f, l)
  BY <1>4, LoadKeeps
<1>5. CASE \E m \in Mods : DestroyPool(m)
  BY <1>5, DestroyPoolKeeps
<1>6. CASE \E m \in Mods, sym \in Methods : MethodInvoke(m, sym)
  BY <1>6, MethodInvokeKeeps
<1>7. CASE \E l \in Names, sym \in Methods : LabelMethodInvoke(l, sym)
  BY <1>7, LabelMethodInvokeKeeps
<1>8. CASE \E b \in {"yes", "no"}, sym \in Methods, labels \in LabelLists :
             MethodPreload(b, sym, labels)
  BY <1>8, MethodPreloadKeeps
<1>9. CASE UNCHANGED vars
  <2>1. Loaded' = Loaded /\ List' = List
    BY <1>9 DEF vars, modVars, Loaded, List
  <2>2. TypeOK' /\ NoUseAfterFree' /\ NamedInv'
    BY <1>9 DEF IInv, vars, modVars, TypeOK, NoUseAfterFree, NamedInv, Alias
  <2>3. DownInv' /\ ListedInv' /\ FoundInv' /\ EntryInv' /\ CountInv'
    BY <1>9, <2>1 DEF IInv, vars, modVars, DownInv, ListedInv, FoundInv, EntryInv, CountInv
  <2> QED BY <2>2, <2>3 DEF IInv
<1> QED BY <1>1, <1>2, <1>3, <1>4, <1>5, <1>6, <1>7, <1>8, <1>9 DEF Next

(* Every variable of the loader stays in its range. *)
THEOREM TypeCorrect == Spec => []TypeOK
<1>1. IInv => TypeOK
  BY DEF IInv
<1> QED BY <1>1, InitHolds, NextKeeps, PTL DEF Spec

(* No call of a library that is initialized and terminated once touches freed *)
(* memory, failed loads included, unless the application destroys a module's  *)
(* pool or a label is the name of another module's file.                     *)
THEOREM MemorySafe == Spec => []NoUseAfterFree
<1>1. IInv => NoUseAfterFree
  BY DEF IInv
<1> QED BY <1>1, InitHolds, NextKeeps, PTL DEF Spec

(* The table disagrees with the modules only by the mix-up of labels and file *)
(* names, and always fits the array it is listed into.                       *)
THEOREM TableAndModules == Spec => []TableAgrees
<1>1. IInv => TableAgrees
  BY DEF IInv, TableAgrees, FoundInv, EntryInv, CountInv
<1> QED BY <1>1, InitHolds, NextKeeps, PTL DEF Spec
=============================================================================
