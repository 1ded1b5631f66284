----------------------------- MODULE LogListProofs -----------------------------
(* What unlocked logging cannot break, proved for every set of threads and   *)
(* of items: the list never becomes circular, NULL is written through only    *)
(* if calls overlapped before the first item was in its list, no count is too  *)
(* high; and that calls which follow each other list what they put, in order. *)
EXTENDS LogList, FiniteSetTheorems, WellFoundedInduction, TLAPS

Published == {puts[k] : k \in DOMAIN puts}

InFlight(t) == pc[t] \in Pcs \ {"idle", "make", "create"}

(* Each call has an item of its own until it ends, and only items whose call *)
(* has ended are ever log->last.                                             *)
FlightInv ==
  /\ Published \subseteq made
  /\ \A t \in Threads : pc[t] \notin {"idle", "make"} => log[t] \in Logs
  /\ \A t \in Threads : InFlight(t) => item[t] \in made \ Published
  /\ \A t, u \in Threads : InFlight(t) /\ InFlight(u) /\ item[t] = item[u] => t = u
  /\ \A l \in Logs : last[l] # Null => last[l] \in Published
  /\ \A t \in Threads : pc[t] = "link" /\ fault = "none" => loaded[t] \in Published

(* An item is linked to one whose call ended later, or has not ended yet.    *)
ChainInv ==
  /\ \A i \in Items \ Published : next[i] = Null
  /\ \A k, m \in DOMAIN puts : next[puts[k]] = puts[m] => k < m

(* Until the first item is put there is one call at a time; from then on     *)
(* every call finds the one log, with a first and a last item.               *)
EarlyInv ==
  early = "no" =>
    /\ fault # "null"
    /\ \A t \in Threads : pc[t] \notin {"idle", "make"} => log[t] = entry
    /\ \A t \in Threads : pc[t] = "tail" => head[log[t]] # Null
    /\ puts = <<>> =>
         /\ \A t, u \in Threads : pc[t] # "idle" /\ pc[u] # "idle" => t = u
         /\ \A t \in Threads : pc[t] \notin {"prev", "load", "link"}
         /\ \A l \in Logs : /\ last[l] = Null
                            /\ head[l] # Null => \E t \in Threads : pc[t] = "tail" /\ log[t] = l
    /\ puts # <<>> =>
         /\ entry \in Logs /\ head[entry] # Null /\ last[entry] # Null
         /\ \A t \in Threads : pc[t] \notin {"make", "first"}

IInv == Ranges /\ FlightInv /\ ChainInv /\ EarlyInv

LEMMA InitHolds == Init => IInv
<1> SUFFICES ASSUME Init PROVE IInv
  OBVIOUS
<1> USE DEF Init
<1>1. Ranges
  BY DEF Ranges, Pcs
<1>2. Published = {}
  BY DEF Published
<1>3. FlightInv /\ ChainInv /\ EarlyInv
  BY <1>2 DEF FlightInv, ChainInv, EarlyInv, InFlight
<1> QED BY <1>1, <1>3 DEF IInv

(* A call that ends appends its item to what has been put. *)
LEMMA Appended ==
  ASSUME Ranges, NEW i \in Items, puts' = Append(puts, i)
  PROVE  /\ puts' \in Seq(Items) /\ puts' # <<>>
         /\ DOMAIN puts' = DOMAIN puts \cup {Len(puts) + 1}
         /\ Len(puts) \in Nat /\ DOMAIN puts = 1..Len(puts)
         /\ \A k \in DOMAIN puts : puts'[k] = puts[k]
         /\ puts'[Len(puts) + 1] = i
         /\ Published' = Published \cup {i}
<1>1. puts \in Seq(Items)
  BY DEF Ranges
<1>2. /\ puts' \in Seq(Items) /\ puts' # <<>>
      /\ DOMAIN puts' = DOMAIN puts \cup {Len(puts) + 1}
      /\ Len(puts) \in Nat /\ DOMAIN puts = 1..Len(puts)
      /\ \A k \in DOMAIN puts : puts'[k] = puts[k]
      /\ puts'[Len(puts) + 1] = i
  BY <1>1
<1>3. Published' = Published \cup {i}
  BY <1>2 DEF Published
<1> QED BY <1>2, <1>3

LEMMA GetLogKeeps ==
  ASSUME NEW t \in Threads, IInv, GetLog(t)
  PROVE  IInv'
<1> USE DEF GetLog, Goto, listVars
<1>1. Ranges'
  BY DEF IInv, Ranges, Pcs
<1>2. Published' = Published
  BY DEF Published
<1>3. FlightInv' /\ ChainInv'
  <2>1. FlightInv'
    BY <1>2, NullAssumption DEF IInv, Ranges, FlightInv, InFlight, Pcs
  <2>2. ChainInv'
    BY <1>2, NullAssumption DEF IInv, ChainInv
  <2> QED BY <2>1, <2>2
<1>4. EarlyInv'
  <2> SUFFICES ASSUME early' = "no"
               PROVE  EarlyInv'
    BY DEF EarlyInv
  <2>1. early = "no" /\ (Quiet \/ puts # <<>>) /\ fault' # "null"
    OBVIOUS
  <2>2. /\ pc[t] = "idle"
        /\ \A u \in Threads : pc'[u] = IF u # t THEN pc[u]
                                ELSE IF entry = Null THEN "make" ELSE "create"
        /\ \A u \in Threads : log'[u] = IF u = t THEN entry ELSE log[u]
    BY DEF IInv, Ranges
  <2>3. CASE puts = <<>>
    BY <2>1, <2>2, <2>3 DEF IInv, EarlyInv, Quiet
  <2>4. CASE puts # <<>>
    BY <2>1, <2>2, <2>4, NullAssumption DEF IInv, EarlyInv
  <2> QED BY <2>3, <2>4
<1> QED BY <1>1, <1>3, <1>4 DEF IInv

(* A call whose allocation fails returns without a trace. *)
LEMMA GivingUpKeeps ==
  ASSUME NEW t \in Threads, NEW from \in {"make", "create"}, IInv, Goto(t, from, "idle"),
         UNCHANGED <<listVars, pool, log, item, loaded, count, made, historyVars, fault>>
  PROVE  IInv'
<1> USE DEF listVars, historyVars
<1>0. \A u \in Threads : pc'[u] = IF u = t THEN "idle" ELSE pc[u]
  BY DEF IInv, Ranges, Goto
<1>1. Ranges'
  BY DEF IInv, Ranges, Pcs, Goto
<1>2. Published' = Published
  BY DEF Published
<1>3. FlightInv' /\ ChainInv'
  <2>1. FlightInv'
    BY <1>0, <1>2 DEF IInv, FlightInv, InFlight, Pcs
  <2>2. ChainInv'
    BY <1>2 DEF IInv, ChainInv
  <2> QED BY <2>1, <2>2
<1>4. EarlyInv'
  <2> SUFFICES ASSUME early = "no"
               PROVE  EarlyInv'
    BY DEF EarlyInv
  <2>1. pc[t] # "tail"
    BY DEF Goto
  <2> QED BY <1>0, <2>1 DEF IInv, EarlyInv
<1> QED BY <1>1, <1>3, <1>4 DEF IInv

LEMMA SetLogKeeps ==
  ASSUME NEW t \in Threads, IInv, SetLog(t)
  PROVE  IInv'
<1>1. CASE Goto(t, "make", "idle") /\ UNCHANGED <<listVars, pool, log, item, loaded, count, made, historyVars, fault>>
  BY <1>1, GivingUpKeeps
<1>2. ASSUME NEW l \in Logs, NEW p \in {"root", "caller"}, owner[l] = "unused",
             Goto(t, "make", "create"), owner' = [owner EXCEPT ![l] = p],
             log' = [log EXCEPT ![t] = l], entry' = l,
             UNCHANGED <<pool, head, last, nitem, next, prev, item, loaded, count, made, historyVars, fault>>
      PROVE  IInv'
  <2> USE <1>2 DEF Goto, historyVars
  <2>1. Ranges'
    BY DEF IInv, Ranges, Pcs
  <2>2. Published' = Published
    BY DEF Published
  <2>3. /\ pc[t] = "make"
        /\ \A u \in Threads : pc'[u] = IF u = t THEN "create" ELSE pc[u]
        /\ \A u \in Threads : log'[u] = IF u = t THEN l ELSE log[u]
    BY DEF IInv, Ranges
  <2>4. FlightInv'
    BY <2>2, <2>3 DEF IInv, FlightInv, InFlight, Pcs
  <2>5. ChainInv'
    BY <2>2 DEF IInv, ChainInv
  <2>6. EarlyInv'
    <3> SUFFICES ASSUME early = "no"
                 PROVE  EarlyInv'
      BY DEF EarlyInv
    <3>1. puts = <<>> /\ \A u \in Threads \ {t} : pc[u] = "idle"
      BY <2>3 DEF IInv, EarlyInv
    <3> QED BY <2>3, <3>1 DEF IInv, EarlyInv
  <2> QED BY <2>1, <2>4, <2>5, <2>6 DEF IInv
<1> QED BY <1>1, <1>2 DEF SetLog

LEMMA LogItemCreateKeeps ==
  ASSUME NEW t \in Threads, IInv, LogItemCreate(t)
  PROVE  IInv'
<1>1. CASE Goto(t, "create", "idle") /\ UNCHANGED <<listVars, pool, log, item, loaded, count, made, historyVars, fault>>
  BY <1>1, GivingUpKeeps
<1>2. ASSUME NEW i \in Items \ made, Goto(t, "create", "count"),
             item' = [item EXCEPT ![t] = i], made' = made \cup {i},
             UNCHANGED <<listVars, pool, log, loaded, count, historyVars, fault>>
      PROVE  IInv'
  <2> USE <1>2 DEF Goto, listVars, historyVars
  <2>1. Ranges'
    BY DEF IInv, Ranges, Pcs
  <2>2. Published' = Published
    BY DEF Published
  <2>3. /\ pc[t] = "create"
        /\ \A u \in Threads : pc'[u] = IF u = t THEN "count" ELSE pc[u]
        /\ \A u \in Threads : item'[u] = IF u = t THEN i ELSE item[u]
    BY DEF IInv, Ranges
  <2>4. FlightInv'
    BY <2>2, <2>3 DEF IInv, FlightInv, InFlight, Pcs
  <2>5. ChainInv'
    BY <2>2 DEF IInv, ChainInv
  <2>6. EarlyInv'
    BY <2>3 DEF IInv, EarlyInv
  <2> QED BY <2>1, <2>4, <2>5, <2>6 DEF IInv
<1> QED BY <1>1, <1>2 DEF LogItemCreate

LEMMA LoadCountKeeps ==
  ASSUME NEW t \in Threads, IInv, LoadCount(t)
  PROVE  IInv'
<1> USE DEF LoadCount, Goto, listVars, historyVars
<1>1. log[t] \in Logs
  BY DEF IInv, FlightInv
<1>2. Ranges'
  BY <1>1 DEF IInv, Ranges, Pcs
<1>3. Published' = Published
  BY DEF Published
<1>4. FlightInv' /\ ChainInv'
  <2>1. FlightInv'
    BY <1>3 DEF IInv, Ranges, FlightInv, InFlight, Pcs
  <2>2. ChainInv'
    BY <1>3 DEF IInv, ChainInv
  <2> QED BY <2>1, <2>2
<1>5. EarlyInv'
  BY DEF IInv, Ranges, EarlyInv, Pcs
<1> QED BY <1>2, <1>4, <1>5 DEF IInv

LEMMA StoreCountKeeps ==
  ASSUME NEW t \in Threads, IInv, StoreCount(t)
  PROVE  IInv'
<1> USE DEF StoreCount, Goto, listVars, historyVars
<1>1. log[t] \in Logs
  BY DEF IInv, FlightInv
<1>2. Ranges'
  BY <1>1 DEF IInv, Ranges, Pcs, Counted
<1>3. Published' = Published
  BY DEF Published
<1>4. FlightInv' /\ ChainInv'
  <2>1. FlightInv'
    BY <1>3 DEF IInv, Ranges, FlightInv, InFlight, Pcs
  <2>2. ChainInv'
    BY <1>3 DEF IInv, ChainInv
  <2> QED BY <2>1, <2>2
<1>5. EarlyInv'
  BY DEF IInv, Ranges, EarlyInv, Pcs
<1> QED BY <1>2, <1>4, <1>5 DEF IInv

LEMMA TestHeadKeeps ==
  ASSUME NEW t \in Threads, IInv, TestHead(t)
  PROVE  IInv'
<1> USE DEF TestHead, Branch, Goto, listVars, historyVars
<1>1. Ranges'
  BY DEF IInv, Ranges, Pcs
<1>2. Published' = Published
  BY DEF Published
<1>3. FlightInv' /\ ChainInv'
  <2>1. FlightInv'
    BY <1>2 DEF IInv, Ranges, FlightInv, InFlight, Pcs
  <2>2. ChainInv'
    BY <1>2 DEF IInv, ChainInv
  <2> QED BY <2>1, <2>2
<1>4. EarlyInv'
  <2> SUFFICES ASSUME early = "no"
               PROVE  EarlyInv'
    BY DEF EarlyInv
  <2>1. log[t] \in Logs /\ log[t] = entry
    BY DEF IInv, FlightInv, EarlyInv
  <2>2. /\ pc[t] = "test"
        /\ \A u \in Threads : pc'[u] = IF u # t THEN pc[u]
                                ELSE IF head[log[t]] = Null THEN "first" ELSE "prev"
    BY DEF IInv, Ranges
  <2>3. CASE puts = <<>>
    <3>1. head[log[t]] = Null
      BY <2>1, <2>2, <2>3 DEF IInv, EarlyInv
    <3> QED BY <2>1, <2>2, <2>3, <3>1 DEF IInv, EarlyInv
  <2>4. CASE puts # <<>>
    BY <2>1, <2>2, <2>4 DEF IInv, EarlyInv
  <2> QED BY <2>3, <2>4
<1> QED BY <1>1, <1>3, <1>4 DEF IInv

LEMMA SetHeadKeeps ==
  ASSUME NEW t \in Threads, IInv, SetHead(t)
  PROVE  IInv'
<1> USE DEF SetHead, Goto, listVars, historyVars
<1>1. log[t] \in Logs /\ item[t] \in Items /\ item[t] # Null
  BY NullAssumption DEF IInv, Ranges, FlightInv, InFlight, Pcs
<1>2. Ranges'
  BY <1>1 DEF IInv, Ranges, Pcs
<1>3. Published' = Published
  BY DEF Published
<1>4. FlightInv' /\ ChainInv'
  <2>1. FlightInv'
    BY <1>3 DEF IInv, Ranges, FlightInv, InFlight, Pcs
  <2>2. ChainInv'
    BY <1>3 DEF IInv, ChainInv
  <2> QED BY <2>1, <2>2
<1>5. EarlyInv'
  BY <1>1 DEF IInv, Ranges, EarlyInv, Pcs
<1> QED BY <1>2, <1>4, <1>5 DEF IInv

LEMMA SetPrevKeeps ==
  ASSUME NEW t \in Threads, IInv, SetPrev(t)
  PROVE  IInv'
<1> USE DEF SetPrev, Goto, listVars, historyVars
<1>1. log[t] \in Logs
  BY DEF IInv, FlightInv
<1>2. Ranges'
  BY <1>1 DEF IInv, Ranges, Pcs
<1>3. Published' = Published
  BY DEF Published
<1>4. FlightInv' /\ ChainInv'
  <2>1. FlightInv'
    BY <1>3 DEF IInv, Ranges, FlightInv, InFlight, Pcs
  <2>2. ChainInv'
    BY <1>3 DEF IInv, ChainInv
  <2> QED BY <2>1, <2>2
<1>5. EarlyInv'
  BY DEF IInv, Ranges, EarlyInv, Pcs
<1> QED BY <1>2, <1>4, <1>5 DEF IInv

LEMMA LoadLastKeeps ==
  ASSUME NEW t \in Threads, IInv, LoadLast(t)
  PROVE  IInv'
<1> USE DEF LoadLast, Goto, listVars, historyVars
<1>1. log[t] \in Logs
  BY DEF IInv, FlightInv
<1>2. Ranges'
  BY <1>1 DEF IInv, Ranges, Pcs
<1>3. Published' = Published
  BY DEF Published
<1>4. FlightInv' /\ ChainInv'
  <2>1. FlightInv'
    BY <1>1, <1>3 DEF IInv, Ranges, FlightInv, InFlight, Pcs
  <2>2. ChainInv'
    BY <1>1, <1>3 DEF IInv, ChainInv
  <2> QED BY <2>1, <2>2
<1>5. EarlyInv'
  BY DEF IInv, Ranges, EarlyInv, Pcs
<1> QED BY <1>2, <1>4, <1>5 DEF IInv

LEMMA LinkKeeps ==
  ASSUME NEW t \in Threads, IInv, Link(t)
  PROVE  IInv'
<1> USE DEF Link, Linked, Goto, listVars, historyVars
<1>1. loaded[t] \in Published /\ item[t] \in Items \ Published
  BY DEF IInv, Ranges, FlightInv, InFlight, Pcs
<1>2. Ranges'
  BY <1>1 DEF IInv, Ranges, Pcs
<1>3. Published' = Published
  BY DEF Published
<1>4. FlightInv'
  BY <1>3 DEF IInv, Ranges, FlightInv, InFlight, Pcs
<1>5. ChainInv'
  <2>1. \A i \in Items : next'[i] = IF i = loaded[t] THEN item[t] ELSE next[i]
    BY DEF IInv, Ranges
  <2>2. \A k \in DOMAIN puts : puts[k] \in Items /\ puts[k] \in Published
    BY DEF IInv, Ranges, Published
  <2> QED BY <1>1, <1>3, <2>1, <2>2 DEF IInv, ChainInv
<1>6. EarlyInv'
  BY DEF IInv, Ranges, EarlyInv, Pcs
<1> QED BY <1>2, <1>4, <1>5, <1>6 DEF IInv

LEMMA SetLastKeeps ==
  ASSUME NEW t \in Threads, IInv, SetLast(t)
  PROVE  IInv'
<1> USE DEF SetLast, NewLast, Goto
<1>1. log[t] \in Logs /\ item[t] \in Items \ Published /\ item[t] \in made
  BY DEF IInv, Ranges, FlightInv, InFlight, Pcs
<1>2. /\ puts' \in Seq(Items) /\ puts' # <<>>
      /\ DOMAIN puts' = DOMAIN puts \cup {Len(puts) + 1}
      /\ Len(puts) \in Nat /\ DOMAIN puts = 1..Len(puts)
      /\ \A k \in DOMAIN puts : puts'[k] = puts[k]
      /\ puts'[Len(puts) + 1] = item[t]
      /\ Published' = Published \cup {item[t]}
  BY <1>1, Appended DEF IInv
<1>3. Ranges'
  BY <1>1, <1>2 DEF IInv, Ranges, Pcs
<1>4. FlightInv'
  BY <1>1, <1>2 DEF IInv, Ranges, FlightInv, InFlight, Pcs
<1>5. ChainInv'
  <2>1. next[item[t]] = Null
    BY <1>1 DEF IInv, ChainInv
  <2>2. \A m \in DOMAIN puts' : puts'[m] \in Items /\ puts'[m] # Null
    BY <1>2, NullAssumption
  <2>3. \A k \in DOMAIN puts : puts[k] # item[t]
    BY <1>1 DEF Published
  <2>4. ASSUME NEW k \in DOMAIN puts', NEW m \in DOMAIN puts',
               next[puts'[k]] = puts'[m]
        PROVE  k < m
    <3>1. k \in DOMAIN puts
      BY <1>2, <2>1, <2>2, <2>4
    <3>2. CASE m \in DOMAIN puts
      BY <1>2, <2>4, <3>1, <3>2 DEF IInv, ChainInv
    <3>3. CASE m = Len(puts) + 1
      BY <1>2, <3>1, <3>3
    <3> QED BY <1>2, <3>2, <3>3
  <2> QED BY <1>2, <2>4 DEF IInv, ChainInv
<1>6. EarlyInv'
  <2> SUFFICES ASSUME early = "no"
               PROVE  EarlyInv'
    BY DEF EarlyInv
  <2>1. entry = log[t] /\ head[entry] # Null /\ item[t] # Null
    BY <1>1, NullAssumption DEF IInv, EarlyInv
  <2>2. \A u \in Threads \ {t} : pc[u] \notin {"make", "first"}
    BY DEF IInv, Ranges, EarlyInv
  <2>3. last'[entry] = item[t] /\ entry' = entry
    BY <1>1, <2>1 DEF IInv, Ranges
  <2>4. \A u \in Threads : pc'[u] = IF u = t THEN "idle" ELSE pc[u]
    BY DEF IInv, Ranges
  <2> QED BY <1>1, <1>2, <2>1, <2>2, <2>3, <2>4 DEF IInv, EarlyInv
<1> QED BY <1>3, <1>4, <1>5, <1>6 DEF IInv

LEMMA StepKeeps == IInv /\ [Next]_vars => IInv'
<1> SUFFICES ASSUME IInv, [Next]_vars PROVE IInv'
  OBVIOUS
<1>1. CASE DestroyPool
  <2> USE <1>1 DEF DestroyPool, listVars, localVars, historyVars
  <2>1. Published' = Published
    BY DEF Published
  <2>2. Ranges' /\ FlightInv' /\ ChainInv'
    BY <2>1 DEF IInv, Ranges, FlightInv, ChainInv, InFlight
  <2>3. EarlyInv'
    BY DEF IInv, EarlyInv
  <2> QED BY <2>2, <2>3 DEF IInv
<1>2. ASSUME NEW t \in Threads,
             \/ GetLog(t) \/ SetLog(t) \/ LogItemCreate(t)
             \/ LoadCount(t) \/ StoreCount(t)
             \/ TestHead(t) \/ SetHead(t)
             \/ SetPrev(t) \/ LoadLast(t) \/ Link(t) \/ SetLast(t)
      PROVE  IInv'
  BY <1>2, GetLogKeeps, SetLogKeeps, LogItemCreateKeeps, LoadCountKeeps,
     StoreCountKeeps, TestHeadKeeps, SetHeadKeeps, SetPrevKeeps, LoadLastKeeps, LinkKeeps, SetLastKeeps
<1>3. CASE UNCHANGED vars
  <2> USE <1>3 DEF vars, listVars, localVars, historyVars
  <2>1. Published' = Published
    BY DEF Published
  <2>2. Ranges' /\ FlightInv' /\ ChainInv'
    BY <2>1 DEF IInv, Ranges, FlightInv, ChainInv, InFlight
  <2>3. EarlyInv'
    BY DEF IInv, EarlyInv
  <2> QED BY <2>2, <2>3 DEF IInv
<1> QED BY <1>1, <1>2, <1>3 DEF Next

LEMMA Invariant == Spec => []IInv
BY InitHolds, StepKeeps, PTL DEF Spec

-----------------------------------------------------------------------------
(* A set of natural numbers has a least one. *)
LEMMA Least ==
  ASSUME NEW T \in SUBSET Nat, T # {}
  PROVE  \E x \in T : \A y \in T : x <= y
<1>1. \E x \in T : \A y \in T : ~ (<<y, x>> \in OpToRel(<, Nat))
  BY WFMin, NatLessThanWellFounded, Zenon
<1>2. PICK x \in T : \A y \in T : ~ (<<y, x>> \in OpToRel(<, Nat))
  BY <1>1
<1>3. \A y \in T : ~ (y < x)
  BY <1>2, Zenon DEF OpToRel
<1> QED BY <1>3

(* Items whose calls have ended are linked forwards in the order of puts, so  *)
(* that the one of any set that comes last there is linked out of the set.    *)
LEMMA ChainEnds == IInv => OutputEnds
<1> SUFFICES ASSUME IInv, NEW s \in SUBSET Items, s # {}
             PROVE  \E i \in s : next[i] \notin s
  BY DEF OutputEnds
<1>1. CASE ~ (s \subseteq Published)
  BY <1>1, NullAssumption DEF IInv, ChainInv
<1>2. CASE s \subseteq Published
  <2> DEFINE n == Len(puts)
             places == {k \in 1..n : puts[k] \in s}
             T == {n - k : k \in places}
  <2>1. n \in Nat /\ DOMAIN puts = 1..n
    BY DEF IInv, Ranges
  <2>2. T \in SUBSET Nat
    BY <2>1
  <2>3. T # {}
    BY <1>2, <2>1 DEF Published
  <2>4. PICK x \in T : \A y \in T : x <= y
    BY <2>2, <2>3, Least
  <2>5. PICK k \in places : x = n - k
    BY <2>4
  <2>6. ASSUME next[puts[k]] \in s PROVE FALSE
    <3>1. PICK m \in 1..n : puts[m] = next[puts[k]]
      BY <1>2, <2>1, <2>6 DEF Published
    <3>2. k < m
      BY <2>1, <2>5, <3>1 DEF IInv, ChainInv
    <3>3. n - k <= n - m
      BY <2>4, <2>5, <2>6, <3>1
    <3> QED BY <2>1, <2>5, <3>1, <3>2, <3>3
  <2> QED BY <2>5, <2>6
<1> QED BY <1>1, <1>2

(* However many threads race, kahanaLogOutput ends. *)
THEOREM OutputAlwaysEnds == Spec => []OutputEnds
BY Invariant, ChainEnds, PTL

(* Only calls that overlap the very first one can write through NULL. *)
THEOREM CrashNeedsEarlyOverlap == Spec => []CrashOnlyIfEarly
<1>1. IInv => CrashOnlyIfEarly
  BY DEF IInv, Ranges, EarlyInv, CrashOnlyIfEarly
<1> QED BY <1>1, Invariant, PTL

-----------------------------------------------------------------------------
(* What log->nitem++ can count, although threads overwrite each other's       *)
(* result: never more than the items that are past it.                       *)
Tallied == {i \in made : \A t \in Threads : pc[t] \in {"count", "counted"} => item[t] # i}

TallyInv ==
  /\ IsFiniteSet(made)
  /\ \A l \in Logs : nitem[l] <= Cardinality(Tallied)
  /\ \A t \in Threads : pc[t] = "counted" => count[t] <= Cardinality(Tallied)

LEMMA TallyInit == Init => TallyInv
<1> SUFFICES ASSUME Init PROVE TallyInv
  OBVIOUS
<1>1. Tallied = {} /\ made = {}
  BY DEF Init, Tallied
<1>2. IsFiniteSet(made) /\ Cardinality(Tallied) = 0
  BY <1>1, FS_EmptySet
<1> QED BY <1>2 DEF Init, TallyInv

LEMMA TalliedIsFinite ==
  ASSUME TallyInv
  PROVE  /\ IsFiniteSet(Tallied) /\ Cardinality(Tallied) \in Nat
         /\ Cardinality(made) \in Nat /\ Cardinality(Tallied) <= Cardinality(made)
<1>1. Tallied \subseteq made /\ IsFiniteSet(made)
  BY DEF Tallied, TallyInv
<1>2. IsFiniteSet(Tallied) /\ Cardinality(Tallied) <= Cardinality(made)
  BY <1>1, FS_Subset
<1> QED BY <1>1, <1>2, FS_CardinalityType

(* What leaves the counts alone. *)
LEMMA TallyUntouched ==
  ASSUME TallyInv, UNCHANGED <<made, item, nitem, count>>,
         \A t \in Threads : /\ pc'[t] \in {"count", "counted"} <=> pc[t] \in {"count", "counted"}
                            /\ pc'[t] = "counted" => pc[t] = "counted"
  PROVE  TallyInv'
<1>1. Tallied' = Tallied
  BY DEF Tallied
<1> QED BY <1>1 DEF TallyInv

LEMMA LogItemCreateTallies ==
  ASSUME NEW t \in Threads, IInv, TallyInv, LogItemCreate(t)
  PROVE  TallyInv'
<1>0. pc \in [Threads -> Pcs] /\ item \in [Threads -> Items \cup {Null}]
  BY DEF IInv, Ranges
<1>1. CASE Goto(t, "create", "idle") /\ UNCHANGED <<made, item, nitem, count>>
  BY <1>0, <1>1, TallyUntouched DEF Goto
<1>2. ASSUME NEW i \in Items \ made, Goto(t, "create", "count"),
             item' = [item EXCEPT ![t] = i], made' = made \cup {i}, UNCHANGED <<nitem, count>>
      PROVE  TallyInv'
  <2>1. /\ pc[t] = "create"
        /\ \A u \in Threads : pc'[u] = IF u = t THEN "count" ELSE pc[u]
        /\ \A u \in Threads : item'[u] = IF u = t THEN i ELSE item[u]
    BY <1>0, <1>2 DEF Goto
  <2>2. Tallied' = Tallied
    <3>1. ASSUME NEW j \in made PROVE j \in Tallied' <=> j \in Tallied
      BY <1>2, <2>1, <3>1 DEF Tallied
    <3>2. i \notin Tallied' /\ i \notin Tallied
      BY <1>2, <2>1 DEF Tallied
    <3>3. Tallied \subseteq made /\ Tallied' \subseteq made \cup {i}
      BY <1>2 DEF Tallied
    <3> QED BY <3>1, <3>2, <3>3
  <2>3. IsFiniteSet(made')
    BY <1>2, FS_AddElement DEF TallyInv
  <2> QED BY <1>2, <2>1, <2>2, <2>3 DEF TallyInv
<1> QED BY <1>1, <1>2 DEF LogItemCreate, listVars

LEMMA LoadCountTallies ==
  ASSUME NEW t \in Threads, IInv, TallyInv, LoadCount(t)
  PROVE  TallyInv'
<1>1. /\ pc[t] = "count" /\ log[t] \in Logs
      /\ \A u \in Threads : pc'[u] = IF u = t THEN "counted" ELSE pc[u]
      /\ \A u \in Threads : count'[u] = IF u = t THEN nitem[log[t]] ELSE count[u]
  BY DEF LoadCount, Goto, IInv, Ranges, FlightInv
<1>2. UNCHANGED <<made, item, nitem>>
  BY DEF LoadCount, listVars
<1>3. Tallied' = Tallied
  BY <1>1, <1>2 DEF Tallied
<1> QED BY <1>1, <1>2, <1>3 DEF TallyInv

LEMMA StoreCountTallies ==
  ASSUME NEW t \in Threads, IInv, TallyInv, StoreCount(t)
  PROVE  TallyInv'
<1>1. /\ pc[t] = "counted" /\ log[t] \in Logs
      /\ \A u \in Threads : pc'[u] = IF u = t THEN "test" ELSE pc[u]
      /\ \A l \in Logs : nitem'[l] = IF l = log[t] THEN count[t] + 1 ELSE nitem[l]
  BY DEF StoreCount, Counted, Goto, IInv, Ranges, FlightInv
<1>2. UNCHANGED <<made, item, count>>
  BY DEF StoreCount
<1>3. /\ item[t] \in made
      /\ \A u \in Threads : pc[u] \in {"count", "counted"} /\ item[u] = item[t] => u = t
  BY <1>1 DEF IInv, FlightInv, InFlight, Pcs
<1>4. Tallied' = Tallied \cup {item[t]} /\ item[t] \notin Tallied
  <2>1. item[t] \in Tallied' /\ item[t] \notin Tallied
    BY <1>1, <1>2, <1>3 DEF Tallied
  <2>2. ASSUME NEW i \in made, i # item[t] PROVE i \in Tallied' <=> i \in Tallied
    BY <1>1, <1>2, <2>2 DEF Tallied
  <2>3. Tallied \subseteq made /\ Tallied' \subseteq made
    BY <1>2 DEF Tallied
  <2> QED BY <1>3, <2>1, <2>2, <2>3
<1>5. Cardinality(Tallied') = Cardinality(Tallied) + 1
  BY <1>4, TalliedIsFinite, FS_AddElement
<1>6. /\ count \in [Threads -> Nat] /\ nitem \in [Logs -> Nat]
      /\ Cardinality(Tallied) \in Nat
  BY TalliedIsFinite DEF IInv, Ranges
<1>7. \A l \in Logs : nitem'[l] <= Cardinality(Tallied')
  BY <1>1, <1>5, <1>6 DEF TallyInv
<1>8. \A u \in Threads : pc'[u] = "counted" => count'[u] <= Cardinality(Tallied')
  BY <1>1, <1>2, <1>5, <1>6 DEF TallyInv
<1>9. IsFiniteSet(made')
  BY <1>2 DEF TallyInv
<1> QED BY <1>7, <1>8, <1>9 DEF TallyInv

LEMMA TallyKeeps == IInv /\ TallyInv /\ [Next]_vars => TallyInv'
<1> SUFFICES ASSUME IInv, TallyInv, [Next]_vars PROVE TallyInv'
  OBVIOUS
<1>0. pc \in [Threads -> Pcs]
  BY DEF IInv, Ranges
<1>1. CASE DestroyPool \/ UNCHANGED vars
  BY <1>1, TallyUntouched DEF DestroyPool, vars, localVars, listVars
<1>2. ASSUME NEW t \in Threads, GetLog(t) \/ SetLog(t) PROVE TallyInv'
  BY <1>0, <1>2, TallyUntouched DEF GetLog, SetLog, Goto, listVars
<1>3. ASSUME NEW t \in Threads,
             TestHead(t) \/ SetHead(t) \/ SetPrev(t) \/ LoadLast(t) \/ Link(t) \/ SetLast(t)
      PROVE  TallyInv'
  BY <1>0, <1>3, TallyUntouched
     DEF TestHead, Branch, SetHead, SetPrev, LoadLast, Link, SetLast, Goto, listVars
<1> QED BY <1>1, <1>2, <1>3, LogItemCreateTallies, LoadCountTallies, StoreCountTallies DEF Next

(* Every variable stays in its range, and no log counts more items than were   *)
(* ever created: racing threads lose counts but add none.                    *)
THEOREM TypeCorrect == Spec => []TypeOK
<1>1. IInv /\ TallyInv => TypeOK
  BY TalliedIsFinite DEF IInv, Ranges, TallyInv, TypeOK
<1> QED BY <1>1, TallyInit, TallyKeeps, Invariant, PTL DEF Spec
-----------------------------------------------------------------------------
(* What one call at a time has done to the list by the time it is at a place  *)
(* of _kahanaLogPut.                                                         *)
Storing == {"test", "first", "prev", "load", "link", "tail"}

(* One thread is in a call, and works on the log in the table. *)
AloneInv ==
  /\ \A t, u \in Threads : pc[t] # "idle" /\ pc[u] # "idle" => t = u
  /\ \A t \in Threads : /\ pc[t] = "make" => entry = Null
                        /\ pc[t] \notin {"idle", "make"} => entry \in Logs /\ log[t] = entry
  /\ \A l \in Logs : owner[l] = "unused" => head[l] = Null /\ last[l] = Null /\ nitem[l] = 0
  /\ IF entry = Null THEN puts = <<>> ELSE owner[entry] # "unused"

CountedInv ==
  entry # Null =>
    /\ (\A t \in Threads : pc[t] \notin Storing) => nitem[entry] = Len(puts)
    /\ \A t \in Threads : /\ pc[t] \in Storing => nitem[entry] = Len(puts) + 1
                          /\ pc[t] = "counted" => count[t] = Len(puts)

(* The ends of the list. *)
EndsInv ==
  entry # Null =>
    /\ last[entry] = IF puts = <<>> THEN Null ELSE puts[Len(puts)]
    /\ puts # <<>> => head[entry] = puts[1]
    /\ puts = <<>> =>
         \/ head[entry] = Null /\ \A t \in Threads : pc[t] # "tail"
         \/ \E t \in Threads : pc[t] = "tail" /\ head[entry] = item[t]
    /\ \A t \in Threads : /\ pc[t] = "first" => puts = <<>>
                          /\ pc[t] \in {"prev", "load", "link"} => puts # <<>>
                          /\ pc[t] = "link" => loaded[t] = last[entry]

(* The links between items that were put, and those of the one that is being  *)
(* put.                                                                      *)
LinksInv ==
  /\ \A k \in DOMAIN puts : /\ prev[puts[k]] = IF k = 1 THEN Null ELSE puts[k - 1]
                            /\ k # Len(puts) => next[puts[k]] = puts[k + 1]
  /\ puts # <<>> =>
       \/ next[puts[Len(puts)]] = Null /\ \A t \in Threads : pc[t] # "tail"
       \/ \E t \in Threads : pc[t] = "tail" /\ next[puts[Len(puts)]] = item[t]
  /\ \A t \in Threads : pc[t] \in {"load", "link", "tail"} => prev[item[t]] = last[entry]
  /\ \A i \in Items \ Published :
       prev[i] # Null => \E t \in Threads : pc[t] \in {"load", "link", "tail"} /\ item[t] = i

OnceInv == \A k, m \in DOMAIN puts : puts[k] = puts[m] => k = m

SerialInv == overlap = "no" => AloneInv /\ CountedInv /\ EndsInv /\ LinksInv

(* The one call that is under way goes on, and stays the only one. *)
LEMMA Solo ==
  ASSUME NEW t \in Threads, NEW from \in Pcs \ {"idle"}, NEW to \in Pcs,
         IInv, AloneInv, Goto(t, from, to)
  PROVE  /\ \A u \in Threads : pc[u] = IF u = t THEN from ELSE "idle"
         /\ \A u \in Threads : pc'[u] = IF u = t THEN to ELSE "idle"
<1>1. pc[t] = from /\ \A u \in Threads : pc'[u] = IF u = t THEN to ELSE pc[u]
  BY DEF Goto, IInv, Ranges
<1>2. \A u \in Threads : u # t => pc[u] = "idle"
  BY <1>1 DEF AloneInv
<1> QED BY <1>1, <1>2

LEMMA GetLogInTurn ==
  ASSUME NEW t \in Threads, IInv, SerialInv, GetLog(t)
  PROVE  SerialInv'
<1> SUFFICES ASSUME overlap' = "no" PROVE AloneInv' /\ CountedInv' /\ EndsInv' /\ LinksInv'
  BY DEF SerialInv
<1> USE DEF listVars
<1>1. Quiet /\ overlap = "no" /\ AloneInv /\ CountedInv /\ EndsInv /\ LinksInv
  BY DEF GetLog, SerialInv
<1>2. /\ \A u \in Threads : pc'[u] = IF u # t THEN "idle"
                               ELSE IF entry = Null THEN "make" ELSE "create"
      /\ log'[t] = entry
  BY <1>1 DEF GetLog, Goto, Quiet, IInv, Ranges
<1>3. UNCHANGED <<listVars, item, loaded, count, puts>> /\ Published' = Published
  BY DEF GetLog, Published
<1>4. entry \in Logs \cup {Null}
  BY DEF IInv, Ranges
<1>5. AloneInv'
  BY <1>1, <1>2, <1>3, <1>4 DEF AloneInv, Quiet
<1>6. CountedInv' /\ EndsInv'
  BY <1>1, <1>2, <1>3 DEF CountedInv, EndsInv, Quiet, Storing
<1>7. LinksInv'
  BY <1>1, <1>2, <1>3 DEF LinksInv, Quiet
<1> QED BY <1>5, <1>6, <1>7

(* What leaves the lists alone and comes before an item's prev is set, or     *)
(* after its call has ended. *)
LEMMA LinksUntouched ==
  ASSUME LinksInv, UNCHANGED <<last, next, prev, puts, entry>>,
         \A t \in Threads : pc[t] \notin {"load", "link", "tail"},
         \A t \in Threads : pc'[t] \notin {"load", "link", "tail"}
  PROVE  LinksInv'
BY DEF LinksInv, Published

LEMMA SetLogInTurn ==
  ASSUME NEW t \in Threads, IInv, SerialInv, overlap = "no", SetLog(t)
  PROVE  SerialInv'
<1>0. AloneInv /\ CountedInv /\ EndsInv /\ LinksInv
  BY DEF SerialInv
<1>1. ASSUME NEW l \in Logs, NEW p \in {"root", "caller"}, owner[l] = "unused",
             Goto(t, "make", "create"), owner' = [owner EXCEPT ![l] = p],
             log' = [log EXCEPT ![t] = l], entry' = l,
             UNCHANGED <<pool, head, last, nitem, next, prev, item, loaded, count, made, historyVars, fault>>
      PROVE  SerialInv'
  <2>1. /\ \A u \in Threads : pc[u] = IF u = t THEN "make" ELSE "idle"
        /\ \A u \in Threads : pc'[u] = IF u = t THEN "create" ELSE "idle"
    BY <1>0, <1>1, Solo DEF Pcs
  <2>2. /\ entry = Null /\ puts = <<>>
        /\ head[l] = Null /\ last[l] = Null /\ nitem[l] = 0
    BY <1>0, <1>1, <2>1 DEF AloneInv
  <2>3. /\ \A u \in Threads : log'[u] = IF u = t THEN l ELSE log[u]
        /\ \A m \in Logs : owner'[m] = IF m = l THEN p ELSE owner[m]
    BY <1>1 DEF IInv, Ranges
  <2>4. AloneInv'
    BY <1>0, <1>1, <2>1, <2>2, <2>3, NullAssumption DEF AloneInv, historyVars
  <2>5. CountedInv' /\ EndsInv'
    BY <1>1, <2>1, <2>2 DEF CountedInv, EndsInv, Storing, historyVars
  <2>6. LinksInv'
    BY <1>0, <1>1, <2>1, <2>2 DEF LinksInv, Published, historyVars
  <2> QED BY <2>4, <2>5, <2>6 DEF SerialInv
<1>2. CASE Goto(t, "make", "idle") /\ UNCHANGED <<listVars, pool, log, item, loaded, count, made, historyVars, fault>>
  <2>1. /\ \A u \in Threads : pc[u] = IF u = t THEN "make" ELSE "idle"
        /\ \A u \in Threads : pc'[u] = IF u = t THEN "idle" ELSE "idle"
    BY <1>0, <1>2, Solo DEF Pcs
  <2>2. entry = Null
    BY <1>0, <2>1 DEF AloneInv
  <2>3. AloneInv'
    BY <1>0, <1>2, <2>1 DEF AloneInv, listVars, historyVars
  <2>4. CountedInv' /\ EndsInv'
    BY <1>2, <2>2 DEF CountedInv, EndsInv, listVars
  <2>5. LinksInv'
    BY <1>0, <1>2, <2>1, LinksUntouched DEF listVars, historyVars
  <2> QED BY <2>3, <2>4, <2>5 DEF SerialInv
<1> QED BY <1>1, <1>2 DEF SetLog

LEMMA LogItemCreateInTurn ==
  ASSUME NEW t \in Threads, IInv, SerialInv, overlap = "no", LogItemCreate(t)
  PROVE  SerialInv'
<1>0. AloneInv /\ CountedInv /\ EndsInv /\ LinksInv
  BY DEF SerialInv
<1>1. UNCHANGED <<listVars, log, loaded, count, historyVars>>
  BY DEF LogItemCreate, listVars
<1>2. PICK to \in {"count", "idle"} : Goto(t, "create", to)
  BY DEF LogItemCreate
<1>3. /\ \A u \in Threads : pc[u] = IF u = t THEN "create" ELSE "idle"
      /\ \A u \in Threads : pc'[u] = IF u = t THEN to ELSE "idle"
  BY <1>0, <1>2, Solo DEF Pcs
<1>4. AloneInv'
  BY <1>0, <1>1, <1>3 DEF AloneInv, listVars, historyVars
<1>5. CountedInv' /\ EndsInv'
  BY <1>0, <1>1, <1>3 DEF CountedInv, EndsInv, Storing, listVars, historyVars
<1>6. LinksInv'
  BY <1>0, <1>1, <1>3, LinksUntouched DEF listVars, historyVars
<1> QED BY <1>4, <1>5, <1>6 DEF SerialInv

LEMMA LoadCountInTurn ==
  ASSUME NEW t \in Threads, IInv, SerialInv, overlap = "no", LoadCount(t)
  PROVE  SerialInv'
<1>0. AloneInv /\ CountedInv /\ EndsInv /\ LinksInv
  BY DEF SerialInv
<1>1. UNCHANGED <<listVars, log, item, loaded, historyVars>>
  BY DEF LoadCount, listVars
<1>2. /\ \A u \in Threads : pc[u] = IF u = t THEN "count" ELSE "idle"
      /\ \A u \in Threads : pc'[u] = IF u = t THEN "counted" ELSE "idle"
  BY <1>0, Solo DEF LoadCount, Pcs
<1>3. entry \in Logs /\ log[t] = entry /\ nitem[entry] = Len(puts) /\ count'[t] = nitem[entry]
  BY <1>0, <1>2, NullAssumption DEF AloneInv, CountedInv, Storing, LoadCount, IInv, Ranges
<1>4. AloneInv'
  BY <1>0, <1>1, <1>2, <1>3 DEF AloneInv, listVars, historyVars
<1>5. CountedInv' /\ EndsInv'
  BY <1>0, <1>1, <1>2, <1>3 DEF CountedInv, EndsInv, Storing, listVars, historyVars
<1>6. LinksInv'
  BY <1>0, <1>1, <1>2, LinksUntouched DEF listVars, historyVars
<1> QED BY <1>4, <1>5, <1>6 DEF SerialInv

LEMMA StoreCountInTurn ==
  ASSUME NEW t \in Threads, IInv, SerialInv, overlap = "no", StoreCount(t)
  PROVE  SerialInv'
<1>0. AloneInv /\ CountedInv /\ EndsInv /\ LinksInv
  BY DEF SerialInv
<1>1. UNCHANGED <<entry, owner, head, last, next, prev, log, item, loaded, historyVars>>
  BY DEF StoreCount, historyVars
<1>2. /\ \A u \in Threads : pc[u] = IF u = t THEN "counted" ELSE "idle"
      /\ \A u \in Threads : pc'[u] = IF u = t THEN "test" ELSE "idle"
  BY <1>0, Solo DEF StoreCount, Pcs
<1>3. /\ entry \in Logs /\ entry # Null /\ log[t] = entry /\ owner[entry] # "unused"
      /\ count[t] = Len(puts)
      /\ \A l \in Logs : nitem'[l] = IF l = entry THEN Len(puts) + 1 ELSE nitem[l]
  BY <1>0, <1>2, NullAssumption DEF AloneInv, CountedInv, StoreCount, Counted, IInv, Ranges
<1>4. AloneInv'
  BY <1>0, <1>1, <1>2, <1>3 DEF AloneInv, historyVars
<1>5. CountedInv' /\ EndsInv'
  BY <1>0, <1>1, <1>2, <1>3 DEF CountedInv, EndsInv, Storing, historyVars
<1>6. LinksInv'
  BY <1>0, <1>1, <1>2, LinksUntouched DEF historyVars
<1> QED BY <1>4, <1>5, <1>6 DEF SerialInv

LEMMA TestHeadInTurn ==
  ASSUME NEW t \in Threads, IInv, SerialInv, overlap = "no", TestHead(t)
  PROVE  SerialInv'
<1>0. AloneInv /\ CountedInv /\ EndsInv /\ LinksInv
  BY DEF SerialInv
<1>1. UNCHANGED <<listVars, log, item, loaded, count, historyVars>>
  BY DEF TestHead, listVars
<1>2. /\ \A u \in Threads : pc[u] = IF u = t THEN "test" ELSE "idle"
      /\ \A u \in Threads : pc'[u] = IF u = t THEN Branch(log[t]) ELSE "idle"
  BY <1>0, Solo DEF TestHead, Branch, Pcs
<1>3. entry \in Logs /\ log[t] = entry
  BY <1>0, <1>2 DEF AloneInv
<1>4. Branch(log[t]) = IF puts = <<>> THEN "first" ELSE "prev"
  <2>1. puts = <<>> => head[entry] = Null
    BY <1>0, <1>2, <1>3, NullAssumption DEF EndsInv
  <2>2. puts # <<>> => head[entry] # Null
    BY <1>0, <1>3, NullAssumption DEF EndsInv, IInv, Ranges
  <2> QED BY <1>3, <2>1, <2>2 DEF Branch
<1>5. AloneInv'
  BY <1>0, <1>1, <1>2, <1>3, <1>4 DEF AloneInv, listVars, historyVars
<1>6. CountedInv'
  BY <1>0, <1>1, <1>2, <1>4 DEF CountedInv, Storing, listVars, historyVars
<1>7. EndsInv'
  BY <1>0, <1>1, <1>2, <1>4 DEF EndsInv, listVars, historyVars
<1>8. LinksInv'
  BY <1>0, <1>1, <1>2, <1>4, LinksUntouched DEF listVars, historyVars
<1> QED BY <1>5, <1>6, <1>7, <1>8 DEF SerialInv

LEMMA SetHeadInTurn ==
  ASSUME NEW t \in Threads, IInv, SerialInv, overlap = "no", SetHead(t)
  PROVE  SerialInv'
<1>0. AloneInv /\ CountedInv /\ EndsInv /\ LinksInv
  BY DEF SerialInv
<1>1. UNCHANGED <<entry, owner, last, nitem, next, prev, log, item, loaded, count, historyVars>>
  BY DEF SetHead, historyVars
<1>2. /\ \A u \in Threads : pc[u] = IF u = t THEN "first" ELSE "idle"
      /\ \A u \in Threads : pc'[u] = IF u = t THEN "tail" ELSE "idle"
  BY <1>0, Solo DEF SetHead, Pcs
<1>3. /\ entry \in Logs /\ log[t] = entry /\ entry # Null /\ puts = <<>> /\ last[entry] = Null
      /\ \A l \in Logs : head'[l] = IF l = entry THEN item[t] ELSE head[l]
  BY <1>0, <1>2, NullAssumption DEF AloneInv, EndsInv, SetHead, IInv, Ranges
<1>4. item[t] \in Items \ Published /\ prev[item[t]] = Null
  BY <1>0, <1>2 DEF IInv, Ranges, FlightInv, InFlight, LinksInv, Pcs
<1>5. AloneInv'
  BY <1>0, <1>1, <1>2, <1>3 DEF AloneInv, historyVars
<1>6. CountedInv'
  BY <1>0, <1>1, <1>2 DEF CountedInv, Storing, historyVars
<1>7. EndsInv'
  BY <1>0, <1>1, <1>2, <1>3 DEF EndsInv, historyVars
<1>8. LinksInv'
  BY <1>0, <1>1, <1>2, <1>3, <1>4 DEF LinksInv, Published, historyVars
<1> QED BY <1>5, <1>6, <1>7, <1>8 DEF SerialInv

LEMMA SetPrevInTurn ==
  ASSUME NEW t \in Threads, IInv, SerialInv, overlap = "no", SetPrev(t)
  PROVE  SerialInv'
<1>0. AloneInv /\ CountedInv /\ EndsInv /\ LinksInv
  BY DEF SerialInv
<1>1. UNCHANGED <<entry, owner, head, last, nitem, next, log, item, loaded, count, historyVars>>
  BY DEF SetPrev, historyVars
<1>2. /\ \A u \in Threads : pc[u] = IF u = t THEN "prev" ELSE "idle"
      /\ \A u \in Threads : pc'[u] = IF u = t THEN "load" ELSE "idle"
  BY <1>0, Solo DEF SetPrev, Pcs
<1>3. /\ entry \in Logs /\ log[t] = entry /\ entry # Null /\ puts # <<>>
      /\ \A i \in Items : prev'[i] = IF i = item[t] THEN last[entry] ELSE prev[i]
  BY <1>0, <1>2, NullAssumption DEF AloneInv, EndsInv, SetPrev, IInv, Ranges
<1>4. item[t] \in Items \ Published
  BY <1>2 DEF IInv, Ranges, FlightInv, InFlight, Pcs
<1>5. AloneInv'
  BY <1>0, <1>1, <1>2, <1>3 DEF AloneInv, historyVars
<1>6. CountedInv' /\ EndsInv'
  BY <1>0, <1>1, <1>2, <1>3 DEF CountedInv, EndsInv, Storing, historyVars
<1>7. LinksInv'
  <2>1. Published' = Published /\ \A k \in DOMAIN puts : puts[k] \in Items /\ puts[k] # item[t]
    BY <1>1, <1>4 DEF Published, historyVars, IInv, Ranges
  <2>2. \A k \in DOMAIN puts : /\ prev'[puts[k]] = IF k = 1 THEN Null ELSE puts[k - 1]
                               /\ k # Len(puts) => next[puts[k]] = puts[k + 1]
    BY <1>0, <1>3, <2>1 DEF LinksInv
  <2>3. next[puts[Len(puts)]] = Null
    BY <1>0, <1>2, <1>3 DEF LinksInv
  <2>4. \A i \in Items \ Published : i # item[t] => prev'[i] = Null
    BY <1>0, <1>2, <1>3 DEF LinksInv
  <2> QED BY <1>1, <1>2, <1>3, <1>4, <2>1, <2>2, <2>3, <2>4 DEF LinksInv, historyVars
<1> QED BY <1>5, <1>6, <1>7 DEF SerialInv

LEMMA LoadLastInTurn ==
  ASSUME NEW t \in Threads, IInv, SerialInv, overlap = "no", LoadLast(t)
  PROVE  SerialInv'
<1>0. AloneInv /\ CountedInv /\ EndsInv /\ LinksInv
  BY DEF SerialInv
<1>1. UNCHANGED <<listVars, log, item, count, historyVars>>
  BY DEF LoadLast, listVars
<1>2. /\ \A u \in Threads : pc[u] = IF u = t THEN "load" ELSE "idle"
      /\ \A u \in Threads : pc'[u] = IF u = t THEN "link" ELSE "idle"
  BY <1>0, Solo DEF LoadLast, Pcs
<1>3. entry \in Logs /\ log[t] = entry /\ entry # Null /\ puts # <<>> /\ loaded'[t] = last[entry]
  BY <1>0, <1>2, NullAssumption DEF AloneInv, EndsInv, LoadLast, IInv, Ranges
<1>4. AloneInv'
  BY <1>0, <1>1, <1>2, <1>3 DEF AloneInv, listVars, historyVars
<1>5. CountedInv' /\ EndsInv'
  BY <1>0, <1>1, <1>2, <1>3 DEF CountedInv, EndsInv, Storing, listVars, historyVars
<1>6. LinksInv'
  BY <1>0, <1>1, <1>2 DEF LinksInv, Published, listVars, historyVars
<1> QED BY <1>4, <1>5, <1>6 DEF SerialInv

LEMMA LinkInTurn ==
  ASSUME NEW t \in Threads, IInv, OnceInv, SerialInv, overlap = "no", Link(t)
  PROVE  SerialInv'
<1>0. AloneInv /\ CountedInv /\ EndsInv /\ LinksInv
  BY DEF SerialInv
<1>1. UNCHANGED <<entry, owner, head, last, nitem, prev, log, item, loaded, count, historyVars>>
  BY DEF Link, historyVars
<1>2. /\ \A u \in Threads : pc[u] = IF u = t THEN "link" ELSE "idle"
      /\ \A u \in Threads : pc'[u] = IF u = t THEN "tail" ELSE "idle"
  BY <1>0, Solo DEF Link, Pcs
<1>3. /\ entry \in Logs /\ log[t] = entry /\ entry # Null /\ puts # <<>>
      /\ loaded[t] = puts[Len(puts)]
  BY <1>0, <1>2, NullAssumption DEF AloneInv, EndsInv
<1>4. puts \in Seq(Items) /\ Len(puts) \in DOMAIN puts
  BY <1>3 DEF IInv, Ranges
<1>5. \A k \in DOMAIN puts : /\ puts[k] \in Items
                             /\ next'[puts[k]] = IF k = Len(puts) THEN item[t] ELSE next[puts[k]]
  BY <1>3, <1>4 DEF Link, Linked, OnceInv, IInv, Ranges
<1>6. AloneInv'
  BY <1>0, <1>1, <1>2, <1>3 DEF AloneInv, historyVars
<1>7. CountedInv' /\ EndsInv'
  BY <1>0, <1>1, <1>2, <1>3 DEF CountedInv, EndsInv, Storing, historyVars
<1>8. LinksInv'
  BY <1>0, <1>1, <1>2, <1>4, <1>5 DEF LinksInv, Published, historyVars
<1> QED BY <1>6, <1>7, <1>8 DEF SerialInv

LEMMA SetLastInTurn ==
  ASSUME NEW t \in Threads, IInv, SerialInv, overlap = "no", SetLast(t)
  PROVE  SerialInv'
<1>0. AloneInv /\ CountedInv /\ EndsInv /\ LinksInv
  BY DEF SerialInv
<1>1. UNCHANGED <<entry, owner, head, nitem, next, prev, log, item, loaded, count, overlap>>
  BY DEF SetLast
<1>2. /\ \A u \in Threads : pc[u] = IF u = t THEN "tail" ELSE "idle"
      /\ \A u \in Threads : pc'[u] = "idle"
  BY <1>0, Solo DEF SetLast, Pcs
<1>3. item[t] \in Items \ Published /\ item[t] # Null
  BY <1>2, NullAssumption DEF IInv, Ranges, FlightInv, InFlight, Pcs
<1>4. /\ entry \in Logs /\ log[t] = entry /\ entry # Null
      /\ \A l \in Logs : last'[l] = IF l = entry THEN item[t] ELSE last[l]
  BY <1>0, <1>2, NullAssumption DEF AloneInv, SetLast, NewLast, IInv, Ranges
<1>5. /\ puts' \in Seq(Items) /\ puts' # <<>>
      /\ DOMAIN puts' = DOMAIN puts \cup {Len(puts) + 1}
      /\ Len(puts) \in Nat /\ DOMAIN puts = 1..Len(puts)
      /\ \A k \in DOMAIN puts : puts'[k] = puts[k]
      /\ puts'[Len(puts) + 1] = item[t]
      /\ Published' = Published \cup {item[t]}
  BY <1>3, Appended DEF SetLast, IInv
<1>6. Len(puts') = Len(puts) + 1 /\ (puts = <<>> <=> Len(puts) = 0)
  BY <1>5 DEF SetLast, IInv, Ranges
<1>7. AloneInv'
  BY <1>0, <1>1, <1>2, <1>4 DEF AloneInv
<1>8. CountedInv'
  BY <1>0, <1>1, <1>2, <1>4, <1>6 DEF CountedInv, Storing
<1>9. EndsInv'
  <2>1. puts = <<>> => head[entry] = item[t]
    BY <1>0, <1>2, <1>4 DEF EndsInv
  <2>2. puts # <<>> => head[entry] = puts[1] /\ 1 \in DOMAIN puts
    BY <1>0, <1>4, <1>5, <1>6 DEF EndsInv
  <2>3. head[entry] = puts'[1]
    BY <1>5, <1>6, <2>1, <2>2
  <2> QED BY <1>1, <1>2, <1>4, <1>5, <1>6, <2>3 DEF EndsInv
<1>10. LinksInv'
  <2>1. prev[item[t]] = IF puts = <<>> THEN Null ELSE puts[Len(puts)]
    BY <1>0, <1>2, <1>4 DEF LinksInv, EndsInv
  <2>2. puts # <<>> => next[puts[Len(puts)]] = item[t]
    BY <1>0, <1>2 DEF LinksInv
  <2>3. next[item[t]] = Null
    BY <1>3 DEF IInv, ChainInv
  <2>4. ASSUME NEW k \in DOMAIN puts'
        PROVE  /\ prev[puts'[k]] = IF k = 1 THEN Null ELSE puts'[k - 1]
               /\ k # Len(puts') => next[puts'[k]] = puts'[k + 1]
    <3>1. CASE k = Len(puts) + 1
      <4>1. CASE puts = <<>>
        BY <1>5, <1>6, <2>1, <3>1, <4>1
      <4>2. CASE puts # <<>>
        <5>1. Len(puts) \in DOMAIN puts
          BY <1>5, <1>6, <4>2
        <5>2. k # 1 /\ k - 1 = Len(puts) /\ puts'[k - 1] = puts[Len(puts)]
          BY <1>5, <1>6, <3>1, <5>1
        <5> QED BY <1>5, <1>6, <2>1, <3>1, <4>2, <5>2
      <4> QED BY <4>1, <4>2
    <3>2. CASE k \in DOMAIN puts
      <4>1. prev[puts[k]] = IF k = 1 THEN Null ELSE puts[k - 1]
        BY <1>0, <3>2 DEF LinksInv
      <4>2. CASE k = Len(puts)
        <5>1. puts # <<>> /\ puts'[k] = puts[k]
          BY <1>5, <1>6, <3>2
        <5>2. puts'[k + 1] = item[t]
          BY <1>5, <4>2
        <5>3. k # 1 => puts'[k - 1] = puts[k - 1]
          BY <1>5, <3>2
        <5> QED BY <2>2, <4>1, <4>2, <5>1, <5>2, <5>3
      <4>3. CASE k # Len(puts)
        <5>1. next[puts[k]] = puts[k + 1] /\ k + 1 \in DOMAIN puts
          BY <1>0, <1>5, <3>2, <4>3 DEF LinksInv
        <5> QED BY <1>5, <1>6, <3>2, <4>1, <5>1
      <4> QED BY <4>2, <4>3
    <3> QED BY <1>5, <3>1, <3>2
  <2>5. next[puts'[Len(puts')]] = Null
    BY <1>5, <1>6, <2>3
  <2>6. \A i \in Items \ Published' : prev[i] = Null
    BY <1>0, <1>2, <1>5 DEF LinksInv
  <2> QED BY <1>1, <1>2, <2>4, <2>5, <2>6 DEF LinksInv
<1> QED BY <1>7, <1>8, <1>9, <1>10 DEF SerialInv

LEMMA SerialInit == Init => OnceInv /\ SerialInv
<1> SUFFICES ASSUME Init PROVE OnceInv /\ SerialInv
  OBVIOUS
<1>1. OnceInv /\ CountedInv /\ EndsInv /\ LinksInv
  BY DEF Init, OnceInv, CountedInv, EndsInv, LinksInv
<1>2. AloneInv
  BY DEF Init, AloneInv
<1> QED BY <1>1, <1>2 DEF SerialInv

(* Only the end of a call appends to what was put, an item not put before. *)
LEMMA OnceKeeps == IInv /\ OnceInv /\ [Next]_vars => OnceInv'
<1> SUFFICES ASSUME IInv, OnceInv, [Next]_vars PROVE OnceInv'
  OBVIOUS
<1>1. CASE UNCHANGED puts
  BY <1>1 DEF OnceInv
<1>2. ASSUME NEW t \in Threads, SetLast(t) PROVE OnceInv'
  <2>1. item[t] \in Items \ Published
    BY <1>2 DEF SetLast, Goto, IInv, Ranges, FlightInv, InFlight, Pcs
  <2>2. /\ DOMAIN puts' = DOMAIN puts \cup {Len(puts) + 1}
        /\ \A k \in DOMAIN puts : puts'[k] = puts[k]
        /\ puts'[Len(puts) + 1] = item[t]
    BY <1>2, <2>1, Appended DEF SetLast, IInv
  <2>3. \A k \in DOMAIN puts : puts[k] # item[t]
    BY <2>1 DEF Published
  <2> QED BY <2>2, <2>3 DEF OnceInv
<1> QED BY <1>1, <1>2 DEF Next, vars, historyVars, listVars, localVars, DestroyPool, GetLog,
      SetLog, LogItemCreate, LoadCount, StoreCount, TestHead, SetHead, SetPrev, LoadLast, Link

LEMMA SerialKeeps == IInv /\ OnceInv /\ SerialInv /\ [Next]_vars => SerialInv'
<1> SUFFICES ASSUME IInv, OnceInv, SerialInv, [Next]_vars PROVE SerialInv'
  OBVIOUS
<1>1. CASE DestroyPool \/ UNCHANGED vars
  <2>1. UNCHANGED <<listVars, localVars, historyVars>>
    BY <1>1 DEF DestroyPool, vars
  <2> QED BY <2>1 DEF listVars, localVars, historyVars, SerialInv, AloneInv, CountedInv, EndsInv,
            LinksInv, Published
<1>2. ASSUME NEW t \in Threads, GetLog(t) PROVE SerialInv'
  BY <1>2, GetLogInTurn
<1>3. ASSUME NEW t \in Threads,
             \/ SetLog(t) \/ LogItemCreate(t)
             \/ LoadCount(t) \/ StoreCount(t)
             \/ TestHead(t) \/ SetHead(t)
             \/ SetPrev(t) \/ LoadLast(t) \/ Link(t) \/ SetLast(t)
      PROVE  SerialInv'
  <2>1. CASE overlap = "no"
    BY <1>3, <2>1, SetLogInTurn, LogItemCreateInTurn, LoadCountInTurn, StoreCountInTurn,
       TestHeadInTurn, SetHeadInTurn, SetPrevInTurn, LoadLastInTurn, LinkInTurn, SetLastInTurn
  <2>2. CASE overlap # "no"
    <3>1. UNCHANGED overlap
      BY <1>3 DEF SetLog, LogItemCreate, LoadCount, StoreCount, TestHead, SetHead, SetPrev,
         LoadLast, Link, SetLast, historyVars
    <3> QED BY <2>2, <3>1 DEF SerialInv
  <2> QED BY <2>1, <2>2
<1> QED BY <1>1, <1>2, <1>3 DEF Next

(* Calls of kahanaLogPut that follow each other, failed ones included, leave   *)
(* one log, which lists what they put, in their order, both ways and by count. *)
THEOREM OneAtATimeInOrder == Spec => []SerialInOrder
<1>1. IInv /\ SerialInv => SerialInOrder
  <2> SUFFICES ASSUME IInv, SerialInv, overlap = "no", Quiet
               PROVE  IF entry = Null THEN puts = <<>> ELSE IsList(entry, puts)
    BY DEF SerialInOrder
  <2>1. AloneInv /\ CountedInv /\ EndsInv /\ LinksInv
    BY DEF SerialInv
  <2>2. CASE entry = Null
    BY <2>1, <2>2 DEF AloneInv
  <2>3. CASE entry # Null
    <3>1. nitem[entry] = Len(puts)
      BY <2>1, <2>3 DEF CountedInv, Quiet, Storing
    <3>2. /\ head[entry] = IF puts = <<>> THEN Null ELSE puts[1]
          /\ last[entry] = IF puts = <<>> THEN Null ELSE puts[Len(puts)]
      BY <2>1, <2>3 DEF EndsInv, Quiet
    <3>3. ASSUME NEW k \in DOMAIN puts
          PROVE  /\ next[puts[k]] = IF k = Len(puts) THEN Null ELSE puts[k + 1]
                 /\ prev[puts[k]] = IF k = 1 THEN Null ELSE puts[k - 1]
      <4>1. puts # <<>>
        BY <3>3 DEF IInv, Ranges
      <4> QED BY <2>1, <4>1 DEF LinksInv, Quiet
    <3> QED BY <2>3, <3>1, <3>2, <3>3 DEF IsList
  <2> QED BY <2>2, <2>3
<1>2. IInv /\ OnceInv /\ SerialInv /\ [Next]_vars => (OnceInv /\ SerialInv)'
  BY OnceKeeps, SerialKeeps
<1> QED BY <1>1, <1>2, SerialInit, Invariant, PTL DEF Spec

================================================================================
