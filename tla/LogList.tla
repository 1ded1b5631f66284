-------------------------------- MODULE LogList --------------------------------
(***************************************************************************)
(* One label's list of log items in src/log.c.  The worker threads of the   *)
(* socket server report their errors with kahanaLogPut and nothing locks    *)
(* the list, so that every access of _kahanaLogPut to memory the threads    *)
(* share is a step of its own.  An item is what one call puts; the messages  *)
(* are left out.                                                            *)
(***************************************************************************)
EXTENDS Naturals, Sequences, FiniteSets

CONSTANTS Threads,  \* the threads that log
          Items,    \* bound: the items that can be created
          Logs,     \* bound: the kLog_t that can be created
          Null      \* the NULL pointer

ASSUME NullAssumption == Null \notin Items \cup Logs

VARIABLES
  entry,    \* the kLog_t of the label in kObj's hash table
  owner,    \* the pool of each kLog_t: "unused" yet, "root", or the "caller"'s
  pool,     \* the caller's pool: "alive", "destroyed"
  head,     \* log->item
  last,     \* log->last
  nitem,    \* log->nitem
  next,     \* item->next
  prev,     \* item->prev
  pc,       \* where each thread is in _kahanaLogPut
  log,      \* its `log'
  item,     \* its `item'
  loaded,   \* what it has loaded of log->last to write through
  count,    \* what it has loaded of log->nitem
  made,     \* the items created
  puts,     \* history: the items put, in the order in which the calls ended
  overlap,  \* history: "yes" once a call began during another
  early,    \* history: "yes" once one did before any call had put an item
  fault     \* "none", "null" (write through NULL) or "freed" (use after free)

listVars == <<entry, owner, head, last, nitem, next, prev>>
localVars == <<pc, log, item, loaded, count, made>>
historyVars == <<puts, overlap, early>>
vars == <<listVars, pool, localVars, historyVars, fault>>

Init ==
  /\ entry = Null /\ owner = [l \in Logs |-> "unused"] /\ pool = "alive"
  /\ head = [l \in Logs |-> Null] /\ last = [l \in Logs |-> Null]
  /\ nitem = [l \in Logs |-> 0]
  /\ next = [i \in Items |-> Null] /\ prev = [i \in Items |-> Null]
  /\ pc = [t \in Threads |-> "idle"] /\ log = [t \in Threads |-> Null]
  /\ item = [t \in Threads |-> Null] /\ loaded = [t \in Threads |-> Null]
  /\ count = [t \in Threads |-> 0] /\ made = {}
  /\ puts = <<>> /\ overlap = "no" /\ early = "no" /\ fault = "none"

Quiet == \A t \in Threads : pc[t] = "idle"

(* Thread t goes on; with undefined behaviour the model stops. *)
Goto(t, from, to) ==
  /\ fault = "none" /\ pc[t] = from
  /\ pc' = [pc EXCEPT ![t] = to]

-----------------------------------------------------------------------------
(* The call begins and looks for the label's log. The key the table compares *)
(* with lies, like the log, in the pool the log was made in.                 *)
GetLog(t) ==
  /\ Goto(t, "idle", IF entry = Null THEN "make" ELSE "create")
  /\ log' = [log EXCEPT ![t] = entry]
  /\ overlap' = IF Quiet THEN overlap ELSE "yes"
  /\ early' = IF Quiet \/ puts # <<>> THEN early ELSE "yes"
  /\ fault' = IF entry # Null /\ owner[entry] = "caller" /\ pool = "destroyed"
              THEN "freed" ELSE "none"
  /\ UNCHANGED <<listVars, pool, item, loaded, count, made, puts>>

(* A new log, in the caller's pool or in the library's, enters the table in  *)
(* the place of any that is there by now.  The allocation may fail.          *)
SetLog(t) ==
  \/ /\ Goto(t, "make", "create")
     /\ \E l \in Logs, p \in {"root", "caller"} :
          /\ owner[l] = "unused" /\ (p = "caller" => pool = "alive")
          /\ owner' = [owner EXCEPT ![l] = p]
          /\ log' = [log EXCEPT ![t] = l]
          /\ entry' = l
     /\ UNCHANGED <<pool, head, last, nitem, next, prev, item, loaded, count, made, historyVars, fault>>
  \/ /\ Goto(t, "make", "idle")
     /\ UNCHANGED <<listVars, pool, log, item, loaded, count, made, historyVars, fault>>

(* _kahanaLogItemCreate, whose allocation may fail. *)
LogItemCreate(t) ==
  \/ /\ Goto(t, "create", "count")
     /\ \E i \in Items \ made :
          /\ item' = [item EXCEPT ![t] = i]
          /\ made' = made \cup {i}
     /\ UNCHANGED <<listVars, pool, log, loaded, count, historyVars, fault>>
  \/ /\ Goto(t, "create", "idle")
     /\ UNCHANGED <<listVars, pool, log, item, loaded, count, made, historyVars, fault>>

(* Mutant of Counted: the item is counted twice. *)
MutCountedTwice(n) == n + 2

Counted(n) == n + 1

(* log->nitem++, a load and a store. *)
LoadCount(t) ==
  /\ Goto(t, "count", "counted")
  /\ count' = [count EXCEPT ![t] = nitem[log[t]]]
  /\ UNCHANGED <<listVars, pool, log, item, loaded, made, historyVars, fault>>

StoreCount(t) ==
  /\ Goto(t, "counted", "test")
  /\ nitem' = [nitem EXCEPT ![log[t]] = Counted(count[t])]
  /\ UNCHANGED <<entry, owner, head, last, next, prev, pool, log, item, loaded, count, made, historyVars, fault>>

(* Mutant of Branch: log->item is not tested. *)
MutBranchLinks(l) == "prev"

(* Whether the item becomes the first or is linked to the last. *)
Branch(l) == IF head[l] = Null THEN "first" ELSE "prev"

TestHead(t) ==
  /\ Goto(t, "test", Branch(log[t]))
  /\ UNCHANGED <<listVars, pool, log, item, loaded, count, made, historyVars, fault>>

SetHead(t) ==
  /\ Goto(t, "first", "tail")
  /\ head' = [head EXCEPT ![log[t]] = item[t]]
  /\ UNCHANGED <<entry, owner, last, nitem, next, prev, pool, log, item, loaded, count, made, historyVars, fault>>

(* item->prev = log->last *)
SetPrev(t) ==
  /\ Goto(t, "prev", "load")
  /\ prev' = [prev EXCEPT ![item[t]] = last[log[t]]]
  /\ UNCHANGED <<entry, owner, head, last, nitem, next, pool, log, item, loaded, count, made, historyVars, fault>>

(* Mutant of Linked: the new item's next is set where its prev should be. *)
MutLinkedBack(from, i) == [next EXCEPT ![from] = i, ![i] = from]

Linked(from, i) == [next EXCEPT ![from] = i]

(* log->last->next = item: log->last is loaded again, and written through.   *)
LoadLast(t) ==
  /\ Goto(t, "load", "link")
  /\ loaded' = [loaded EXCEPT ![t] = last[log[t]]]
  /\ fault' = IF last[log[t]] = Null THEN "null" ELSE "none"
  /\ UNCHANGED <<listVars, pool, log, item, count, made, historyVars>>

Link(t) ==
  /\ Goto(t, "link", "tail")
  /\ next' = Linked(loaded[t], item[t])
  /\ UNCHANGED <<entry, owner, head, last, nitem, prev, pool, log, item, loaded, count, made, historyVars, fault>>

(* Mutant of NewLast: only the first item becomes log->last. *)
MutNewLastOnce(l, i) == IF last[l] = Null THEN i ELSE last[l]

NewLast(l, i) == i

(* log->last = item, and the call returns. *)
SetLast(t) ==
  /\ Goto(t, "tail", "idle")
  /\ last' = [last EXCEPT ![log[t]] = NewLast(log[t], item[t])]
  /\ puts' = Append(puts, item[t])
  /\ UNCHANGED <<entry, owner, head, nitem, next, prev, pool, log, item, loaded, count, made, overlap, early, fault>>

-----------------------------------------------------------------------------
(* The application destroys its pool, when no thread is logging. *)
DestroyPool ==
  /\ fault = "none" /\ Quiet /\ pool = "alive"
  /\ pool' = "destroyed"
  /\ UNCHANGED <<listVars, localVars, historyVars, fault>>

Next ==
  \/ DestroyPool
  \/ \E t \in Threads :
       \/ GetLog(t) \/ SetLog(t) \/ LogItemCreate(t)
       \/ LoadCount(t) \/ StoreCount(t)
       \/ TestHead(t) \/ SetHead(t)
       \/ SetPrev(t) \/ LoadLast(t) \/ Link(t) \/ SetLast(t)

Spec == Init /\ [][Next]_vars

-----------------------------------------------------------------------------
Pcs == {"idle", "make", "create", "count", "counted", "test", "first", "prev",
        "load", "link", "tail"}

Ranges ==
  /\ entry \in Logs \cup {Null} /\ owner \in [Logs -> {"unused", "root", "caller"}]
  /\ pool \in {"alive", "destroyed"}
  /\ head \in [Logs -> Items \cup {Null}] /\ last \in [Logs -> Items \cup {Null}]
  /\ nitem \in [Logs -> Nat]
  /\ next \in [Items -> Items \cup {Null}] /\ prev \in [Items -> Items \cup {Null}]
  /\ pc \in [Threads -> Pcs] /\ log \in [Threads -> Logs \cup {Null}]
  /\ item \in [Threads -> Items \cup {Null}] /\ loaded \in [Threads -> Items \cup {Null}]
  /\ count \in [Threads -> Nat] /\ made \subseteq Items
  /\ puts \in Seq(Items) /\ overlap \in {"no", "yes"} /\ early \in {"no", "yes"}
  /\ fault \in {"none", "null", "freed"}

(* Every variable stays in its range; no log counts more items than exist.  *)
TypeOK == Ranges /\ \A l \in Logs : nitem[l] <= Cardinality(made)

(* The list of log l is the sequence s, forwards, backwards and by count.   *)
IsList(l, s) ==
  /\ nitem[l] = Len(s)
  /\ head[l] = IF s = <<>> THEN Null ELSE s[1]
  /\ last[l] = IF s = <<>> THEN Null ELSE s[Len(s)]
  /\ \A k \in DOMAIN s : /\ next[s[k]] = IF k = Len(s) THEN Null ELSE s[k + 1]
                         /\ prev[s[k]] = IF k = 1 THEN Null ELSE s[k - 1]

(* As long as no two calls overlap, failed ones included, there is one log   *)
(* and it lists exactly what was put, in that order.                         *)
SerialInOrder ==
  overlap = "no" /\ Quiet =>
     IF entry = Null THEN puts = <<>> ELSE IsList(entry, puts)

(* However the threads race, kahanaLogOutput ends: no list runs in a circle. *)
OutputEnds == \A s \in (SUBSET Items) \ {{}} : \E i \in s : next[i] \notin s

(* Calls that overlap lose items, but they write through NULL only if some   *)
(* overlapped before the very first item was in its list.                    *)
CrashOnlyIfEarly == fault = "null" => early = "yes"
================================================================================
