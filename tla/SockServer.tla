------------------------------ MODULE SockServer ------------------------------
(***************************************************************************)
(* The threaded TCP server of src/socket.c: the thread that calls          *)
(* kahanaSockLoop, kahanaSockUnloop and kahanaSockDestroy, the worker      *)
(* threads of its pool, each with an event base of its own on which either *)
(* the shared listening socket (sock_ev) or its client's socket (req_ev)   *)
(* is pending, the clients, and the one signal by which the workers are    *)
(* stopped.  Payloads are abstracted to "something can be read".           *)
(*                                                                         *)
(* libevent delivers a signal to one event base of the process: the one    *)
(* that last registered a signal event or last entered its loop holding    *)
(* one (sigBase).  The APR thread pool starts no queued task once it is     *)
(* being destroyed and waits there for the tasks that run.                 *)
(***************************************************************************)
EXTENDS Naturals, FiniteSets

CONSTANTS Workers,  \* the nth workers of a kahanaSockLoop
          Conns,    \* the connections clients may open
          Main,     \* the event base of the main thread (sock->loop)
          None,     \* core->fd = 0
          Bad,      \* core->fd = -1
          Inputs,   \* what clients do to a connection, of "data", "fin", "reset"
          Faults    \* the system calls that may fail in this instance

ASSUME WorkersAssumption == Workers # {}
ASSUME InputsAssumption == Inputs \subseteq {"data", "fin", "reset"}
ASSUME NamesAssumption ==
  /\ Main \notin Workers /\ None \notin Workers
  /\ None \notin Conns /\ Bad \notin Conns

VARIABLES
  mpc,      \* where the main thread is
  thp,      \* sock->thp: "null", "live", or "stale" (destroyed but not NULL)
  wst,      \* where each worker is in WorkerThread
  cfd,      \* core->fd of each worker
  pend,     \* the events pending on each worker's base
  cst,      \* the server's side of each connection
  input,    \* what a recv() on each connection would find
  closes,   \* history: how many times each connection was closed here
  ending,   \* history: the callback each connection ended with
  sigBase,  \* the event base signals are delivered to
  disp,     \* the disposition of sock->sigth: "dfl" or libevent's "ev"
  olddisp,  \* the disposition each worker's base saved and will restore
  sigPend,  \* the signal has reached a base and waits for its loop
  mainSig,  \* kahanaSockSetOnSignal has been called
  atRaise   \* history: the workers in their loops when kahanaSockUnloop raised

mainVars == <<mpc, thp, mainSig, atRaise>>
fdVars == <<cfd, pend>>
connVars == <<cst, input, closes, ending>>
sigVars == <<sigBase, disp, olddisp, sigPend>>
vars == <<mainVars, wst, fdVars, connVars, sigVars>>

(* Where the main thread can be.  "undefined": it used a destroyed pool.    *)
MainPcs == {"idle", "push", "unwind", "failjoin", "mloop", "join", "killed",
            "freed", "undefined"}

Serving == {"loop", "accept", "recv"}
Started == {"starting", "ready", "closing"} \cup Serving
Stopped == {"none", "done", "leaked"}
WorkerPcs == Started \cup Stopped \cup {"queued"}

Up == mpc \notin {"killed", "freed", "undefined"}
Joining == mpc \in {"join", "failjoin"}
Backlog == {c \in Conns : cst[c] = "backlog"}

Init ==
  /\ mpc = "idle" /\ thp = "null" /\ mainSig = "no" /\ atRaise = {}
  /\ wst = [w \in Workers |-> "none"]
  /\ cfd = [w \in Workers |-> None]
  /\ pend = [w \in Workers |-> {}]
  /\ cst = [c \in Conns |-> "away"]
  /\ input = [c \in Conns |-> "quiet"]
  /\ closes = [c \in Conns |-> 0]
  /\ ending = [c \in Conns |-> "none"]
  /\ sigBase = None /\ disp = "dfl"
  /\ olddisp = [w \in Workers |-> "dfl"]
  /\ sigPend = [b \in Workers \cup {Main} |-> "no"]

-----------------------------------------------------------------------------
(* The clients. *)

ClientStep(c) ==
  /\ Up
  /\ \/ /\ cst[c] = "away"
        /\ cst' = [cst EXCEPT ![c] = "backlog"]
        /\ UNCHANGED input
     \/ /\ cst[c] \in {"backlog", "open"}
        /\ \E i \in Inputs :
              /\ input[c] = "quiet" \/ (input[c] # "reset" /\ i = "reset")
              /\ input' = [input EXCEPT ![c] = i]
        /\ UNCHANGED cst
  /\ UNCHANGED <<mainVars, wst, fdVars, closes, ending, sigVars>>

-----------------------------------------------------------------------------
(* The worker threads. *)

Goto(w, from, to) == wst[w] = from /\ wst' = [wst EXCEPT ![w] = to]

(* event_add(), whose failure every caller in a worker at most logs. *)
EventAdd(w, events, e) ==
  \/ pend' = [pend EXCEPT ![w] = events \cup {e}]
  \/ "event_add" \in Faults /\ pend' = [pend EXCEPT ![w] = events]

(* The pool's thread takes the queued task and enters WorkerThread. *)
StartWorker(w) ==
  /\ Up /\ ~Joining
  /\ Goto(w, "queued", "starting")
  /\ UNCHANGED <<mainVars, fdVars, connVars, sigVars>>

(* libevent saves the disposition it replaces by its own handler and from   *)
(* then on delivers signals to this base.                                   *)
SetWorkerSignal(w) ==
  /\ Up
  /\ \/ /\ Goto(w, "starting", "ready")
        /\ sigBase' = w /\ disp' = "ev"
        /\ olddisp' = [olddisp EXCEPT ![w] = disp]
        /\ UNCHANGED sigPend
     \/ /\ "event_add" \in Faults
        /\ Goto(w, "starting", "leaked")
        /\ UNCHANGED sigVars
  /\ UNCHANGED <<mainVars, fdVars, connVars>>

(* The first event_add of sock_ev and the entry of event_base_loop. *)
EnterWorkerLoop(w) ==
  /\ Up
  /\ \/ /\ Goto(w, "ready", "loop")
        /\ pend' = [pend EXCEPT ![w] = @ \cup {"sock"}]
        /\ sigBase' = w
     \/ /\ "event_add" \in Faults
        /\ Goto(w, "ready", "closing")
        /\ UNCHANGED <<pend, sigBase>>
  /\ UNCHANGED <<mainVars, cfd, connVars, disp, olddisp, sigPend>>

(* The base finds the listening socket readable: a non-persistent event is  *)
(* no longer pending when its callback runs.                                *)
WakeAccept(w) ==
  /\ Up
  /\ "sock" \in pend[w] /\ Backlog # {}
  /\ Goto(w, "loop", "accept")
  /\ pend' = [pend EXCEPT ![w] = @ \ {"sock"}]
  /\ UNCHANGED <<mainVars, cfd, connVars, sigVars>>

WakeRecv(w) ==
  /\ Up
  /\ "req" \in pend[w] /\ cfd[w] \in Conns
  /\ input[cfd[w]] # "quiet"
  /\ Goto(w, "loop", "recv")
  /\ pend' = [pend EXCEPT ![w] = @ \ {"req"}]
  /\ UNCHANGED <<mainVars, cfd, connVars, sigVars>>

(* close() of a connection, after the callback that ends it. *)
Close(c, callback) ==
  /\ cst' = [cst EXCEPT ![c] = "closed"]
  /\ closes' = [closes EXCEPT ![c] = @ + 1]
  /\ ending' = [ending EXCEPT ![c] = callback]

(* core->fd after the worker has closed its client. *)
FdAfterClose(fd) == None

(* Mutant of Finish: the timeout callback runs in the place of cb_err and cb_send. *)
MutFinishTimeout(w, callback) ==
  /\ Close(cfd[w], "timeout")
  /\ cfd' = [cfd EXCEPT ![w] = FdAfterClose(@)]
  /\ EventAdd(w, pend[w] \ {"req"}, "sock")

(* The two ways SocketRecv ends a connection: cb_err or cb_send, close(),   *)
(* event_del( req_ev ), core->fd = 0, event_add( sock_ev ).                 *)
Finish(w, callback) ==
  /\ Close(cfd[w], callback)
  /\ cfd' = [cfd EXCEPT ![w] = FdAfterClose(@)]
  /\ EventAdd(w, pend[w] \ {"req"}, "sock")

(* Mutant of AcceptFails: the worker that lost the race does not listen again. *)
MutAcceptFailsIdle(w) ==
  /\ Backlog = {} \/ "accept" \in Faults
  /\ cfd' = [cfd EXCEPT ![w] = Bad]
  /\ UNCHANGED pend
  /\ UNCHANGED connVars

(* accept() returned -1: another worker was faster, or it failed. *)
AcceptFails(w) ==
  /\ Backlog = {} \/ "accept" \in Faults
  /\ cfd' = [cfd EXCEPT ![w] = Bad]
  /\ EventAdd(w, pend[w], "sock")
  /\ UNCHANGED connVars

(* Mutant of AcceptServes: the descriptor stays in a local variable. *)
MutAcceptServesLocal(w, c) ==
  /\ cst' = [cst EXCEPT ![c] = "open"]
  /\ UNCHANGED cfd
  /\ EventAdd(w, pend[w], "req")
  /\ UNCHANGED <<input, closes, ending>>

(* The client is accepted and made non-blocking, and req_ev waits for it. *)
AcceptServes(w, c) ==
  /\ cst' = [cst EXCEPT ![c] = "open"]
  /\ cfd' = [cfd EXCEPT ![w] = c]
  /\ EventAdd(w, pend[w], "req")
  /\ UNCHANGED <<input, closes, ending>>

(* Mutant of AcceptRefuses: core->fd keeps the descriptor that was closed. *)
MutAcceptRefusesKeepsFd(w, c) ==
  /\ "fcntl" \in Faults
  /\ Close(c, "err")
  /\ cfd' = [cfd EXCEPT ![w] = c]
  /\ EventAdd(w, pend[w], "sock")
  /\ UNCHANGED input

(* SockOptSetNonBlock fails: cb_err, close(), and back to listening. *)
AcceptRefuses(w, c) ==
  /\ "fcntl" \in Faults
  /\ Close(c, "err")
  /\ cfd' = [cfd EXCEPT ![w] = FdAfterClose(@)]
  /\ EventAdd(w, pend[w], "sock")
  /\ UNCHANGED input

SocketAccept(w) ==
  /\ Up
  /\ Goto(w, "accept", "loop")
  /\ \/ AcceptFails(w)
     \/ \E c \in Backlog : AcceptServes(w, c) \/ AcceptRefuses(w, c)
  /\ UNCHANGED <<mainVars, sigVars>>

(* Mutant of RecvAgain: sock_ev is scheduled again as well. *)
MutRecvAgainListens(w) ==
  /\ "eagain" \in Faults
  /\ EventAdd(w, pend[w] \cup {"sock"}, "req")
  /\ UNCHANGED <<cfd, connVars>>

(* recv() would block: only req_ev is scheduled again. *)
RecvAgain(w) ==
  /\ "eagain" \in Faults
  /\ EventAdd(w, pend[w], "req")
  /\ UNCHANGED <<cfd, connVars>>

RecvError(w) ==
  /\ input[cfd[w]] = "reset"
  /\ Finish(w, "err")
  /\ UNCHANGED input

(* cb_recv returned FALSE for the bytes, or for the end of file. *)
RecvLast(w) ==
  /\ input[cfd[w]] \in {"data", "fin"}
  /\ Finish(w, "send")
  /\ UNCHANGED input

(* cb_recv returned TRUE: the bytes are consumed, an end of file is not. *)
RecvMore(w) ==
  /\ input[cfd[w]] \in {"data", "fin"}
  /\ input' = [input EXCEPT ![cfd[w]] = IF @ = "data" THEN "quiet" ELSE @]
  /\ EventAdd(w, pend[w], "req")
  /\ UNCHANGED <<cfd, cst, closes, ending>>

SocketRecv(w) ==
  /\ Up
  /\ Goto(w, "recv", "loop")
  /\ RecvAgain(w) \/ RecvError(w) \/ RecvLast(w) \/ RecvMore(w)
  /\ UNCHANGED <<mainVars, sigVars>>

(* Mutant of WorkerSignal: event_base_loopbreak() is not called. *)
MutWorkerSignalIgnored(w) ==
  /\ Up
  /\ sigPend[w] = "yes"
  /\ Goto(w, "loop", "loop")
  /\ sigPend' = [sigPend EXCEPT ![w] = "no"]
  /\ UNCHANGED <<mainVars, fdVars, connVars, sigBase, disp, olddisp>>

(* The signal's callback breaks the loop of the one base it reached. *)
WorkerSignal(w) ==
  /\ Up
  /\ sigPend[w] = "yes"
  /\ Goto(w, "loop", "closing")
  /\ sigPend' = [sigPend EXCEPT ![w] = "no"]
  /\ UNCHANGED <<mainVars, fdVars, connVars, sigBase, disp, olddisp>>

(* The end of WorkerThread: close() of the client if there is one,          *)
(* event_del() of both events, event_base_free() - which gives the signal   *)
(* its former disposition back and leaves it without a base.                *)
ExitWorker(w) ==
  /\ Up
  /\ Goto(w, "closing", "done")
  /\ IF cfd[w] \in Conns THEN Close(cfd[w], "cut")
                         ELSE UNCHANGED <<cst, closes, ending>>
  /\ cfd' = [cfd EXCEPT ![w] = None]
  /\ pend' = [pend EXCEPT ![w] = {}]
  /\ disp' = olddisp[w]
  /\ sigBase' = IF sigBase = w THEN None ELSE sigBase
  /\ sigPend' = [sigPend EXCEPT ![w] = "no"]
  /\ UNCHANGED <<mainVars, input, olddisp>>

-----------------------------------------------------------------------------
(* The main thread. *)

(* kahanaSockSetOnSignal, for another signal than the workers'. *)
SetOnSignal ==
  /\ mpc = "idle" /\ mainSig = "no"
  /\ mainSig' = "yes" /\ sigBase' = Main
  /\ UNCHANGED <<mpc, thp, atRaise, wst, fdVars, connVars, disp, olddisp, sigPend>>

(* kahanaSockLoop with no pool yet: new workers are about to be created.    *)
Loop ==
  /\ mpc = "idle" /\ thp = "null"
  /\ mpc' = "push" /\ thp' = "live"
  /\ wst' = [w \in Workers |-> "none"]
  /\ UNCHANGED <<mainSig, atRaise, fdVars, connVars, sigVars>>

PushWorker(w) ==
  /\ mpc = "push"
  /\ Goto(w, "none", "queued")
  /\ UNCHANGED <<mainVars, fdVars, connVars, sigVars>>

(* One of the allocations, event_base_new or apr_thread_pool_push fails.    *)
PushFails ==
  /\ mpc = "push" /\ "push" \in Faults
  /\ \E w \in Workers : wst[w] = "none"
  /\ mpc' = "unwind"
  /\ UNCHANGED <<thp, mainSig, atRaise, wst, fdVars, connVars, sigVars>>

(* Mutant of Raise: a signal is raised that no worker has registered. *)
MutRaiseOther(next) == mpc' = "killed" /\ UNCHANGED sigPend

(* raise( sock->sigth ): the default action of the signal ends the process; *)
(* libevent's handler passes it to sigBase, where it counts only if that    *)
(* base is a worker's.                                                      *)
Raise(next) ==
  \/ /\ disp = "dfl" /\ mpc' = "killed"
     /\ UNCHANGED sigPend
  \/ /\ disp = "ev" /\ mpc' = next
     /\ sigPend' = [b \in Workers \cup {Main} |->
                      IF b = sigBase /\ b # Main THEN "yes" ELSE sigPend[b]]

Unwind ==
  /\ mpc = "unwind"
  /\ Raise("failjoin")
  /\ UNCHANGED <<thp, mainSig, atRaise, wst, fdVars, connVars, sigBase, disp, olddisp>>

(* Mutants of TasksOver: the pool waits for nothing, for one of its tasks    *)
(* only, or for the queued tasks too.                                        *)
MutNoJoin == TRUE
MutJoinOne == \E w \in Workers : wst[w] \notin Started
MutJoinQueued == \A w \in Workers : wst[w] \in Stopped

(* apr_thread_pool_destroy returns: no task runs, the queued ones never do. *)
TasksOver == \A w \in Workers : wst[w] \notin Started
Dropped == [w \in Workers |-> IF wst[w] = "queued" THEN "none" ELSE wst[w]]

(* sock->thp after the pool has been destroyed by a failed kahanaSockLoop   *)
(* and by kahanaSockUnloop.                                                 *)
ThpAfterFailure == "stale"
ThpAfterUnloop == "null"

FailedLoopReturns ==
  /\ mpc = "failjoin" /\ TasksOver
  /\ wst' = Dropped
  /\ mpc' = "idle" /\ thp' = ThpAfterFailure
  /\ UNCHANGED <<mainSig, atRaise, fdVars, connVars, sigVars>>

(* event_base_loop( sock->loop ) blocks if the base has an event, and       *)
(* returns at once if it has none.                                          *)
EnterMainLoop ==
  /\ mpc = "push" /\ \A w \in Workers : wst[w] # "none"
  /\ IF mainSig = "yes" THEN mpc' = "mloop" /\ sigBase' = Main
                        ELSE mpc' = "idle" /\ UNCHANGED sigBase
  /\ UNCHANGED <<thp, mainSig, atRaise, wst, fdVars, connVars, disp, olddisp, sigPend>>

(* The signal the application registered reaches the main base, or is lost. *)
OsSignal ==
  /\ Up /\ mainSig = "yes" /\ sigBase = Main
  /\ sigPend' = [sigPend EXCEPT ![Main] = "yes"]
  /\ UNCHANGED <<mainVars, wst, fdVars, connVars, sigBase, disp, olddisp>>

(* kahanaSockUnloop up to its wait: called by the application's signal      *)
(* callback inside the main loop, or once kahanaSockLoop has returned.      *)
Unloop ==
  /\ thp = "live"
  /\ mpc = "idle" \/ (mpc = "mloop" /\ sigPend[Main] = "yes")
  /\ atRaise' = {w \in Workers : wst[w] \in Serving}
  /\ \/ Raise("join")
     \/ /\ \A w \in Workers : wst[w] \in Stopped   \* apr_thread_pool_threads_count() = 0
        /\ mpc' = "join" /\ UNCHANGED sigPend
  /\ UNCHANGED <<thp, mainSig, wst, fdVars, connVars, sigBase, disp, olddisp>>

UnloopReturns ==
  /\ mpc = "join" /\ TasksOver
  /\ wst' = Dropped
  /\ mpc' = "idle" /\ thp' = ThpAfterUnloop
  /\ UNCHANGED <<mainSig, atRaise, fdVars, connVars, sigVars>>

(* kahanaSockUnloop or kahanaSockDestroy while sock->thp names a destroyed  *)
(* pool, and kahanaSockDestroy while the pool runs, where the worker pools  *)
(* are freed under their threads: nothing is defined from here on.          *)
MisusePool ==
  /\ mpc = "idle" /\ thp # "null"
  /\ mpc' = "undefined"
  /\ UNCHANGED <<thp, mainSig, atRaise, wst, fdVars, connVars, sigVars>>

(* kahanaSockDestroy after kahanaSockUnloop, or without a kahanaSockLoop. *)
Destroy ==
  /\ mpc = "idle" /\ thp = "null"
  /\ mpc' = "freed"
  /\ UNCHANGED <<thp, mainSig, atRaise, wst, fdVars, connVars, sigVars>>

-----------------------------------------------------------------------------
WorkerStep(w) ==
  \/ StartWorker(w) \/ SetWorkerSignal(w) \/ EnterWorkerLoop(w)
  \/ WakeAccept(w) \/ SocketAccept(w) \/ WakeRecv(w) \/ SocketRecv(w)
  \/ WorkerSignal(w) \/ ExitWorker(w)

MainStep ==
  \/ SetOnSignal \/ Loop \/ (\E w \in Workers : PushWorker(w)) \/ PushFails
  \/ Unwind \/ FailedLoopReturns \/ EnterMainLoop \/ Unloop \/ UnloopReturns
  \/ MisusePool \/ Destroy

Next ==
  \/ MainStep \/ OsSignal
  \/ \E w \in Workers : WorkerStep(w)
  \/ \E c \in Conns : ClientStep(c)

Spec == Init /\ [][Next]_vars

(* Threads are scheduled; a base that stays ready is eventually dispatched; *)
(* and since libevent runs every active event before it polls again, a      *)
(* signal that waits is not passed over forever. The application and the    *)
(* clients owe nothing.                                                     *)
Fairness ==
  /\ \A w \in Workers : /\ WF_vars(WorkerStep(w))
                        /\ SF_vars(WorkerSignal(w))
  /\ WF_vars(Unwind) /\ WF_vars(FailedLoopReturns) /\ WF_vars(UnloopReturns)

FairSpec == Spec /\ Fairness

-----------------------------------------------------------------------------
(* Every variable stays in its range. *)
TypeOK ==
  /\ mpc \in MainPcs /\ thp \in {"null", "live", "stale"}
  /\ mainSig \in {"no", "yes"} /\ atRaise \subseteq Workers
  /\ wst \in [Workers -> WorkerPcs]
  /\ cfd \in [Workers -> Conns \cup {None, Bad}]
  /\ pend \in [Workers -> SUBSET {"sock", "req"}]
  /\ cst \in [Conns -> {"away", "backlog", "open", "closed"}]
  /\ input \in [Conns -> {"quiet", "data", "fin", "reset"}]
  /\ closes \in [Conns -> Nat]
  /\ ending \in [Conns -> {"none", "send", "err", "cut"}]
  /\ sigBase \in Workers \cup {Main, None}
  /\ disp \in {"dfl", "ev"} /\ olddisp \in [Workers -> {"dfl", "ev"}]
  /\ sigPend \in [Workers \cup {Main} -> {"no", "yes"}]

(* A worker never listens while it has a client and never waits for a       *)
(* client it does not have: sock_ev and req_ev, rescheduled by hand at the  *)
(* end of every callback, are never both pending, and the one that is says  *)
(* the same as core->fd.                                                    *)
ServeXorListen ==
  \A w \in Workers :
     /\ "req" \in pend[w] => cfd[w] \in Conns /\ "sock" \notin pend[w]
     /\ "sock" \in pend[w] => cfd[w] \notin Conns

(* No two workers serve the same client, a worker's descriptor is open, and *)
(* every open descriptor belongs to a worker that will still close it.      *)
FdOwnership ==
  /\ \A v, w \in Workers : cfd[v] \in Conns /\ cfd[v] = cfd[w] => v = w
  /\ \A w \in Workers : cfd[w] \in Conns => cst[cfd[w]] = "open"
  /\ \A c \in Conns : cst[c] = "open" =>
        \E w \in Workers : cfd[w] = c /\ wst[w] \in Serving \cup {"closing"}

(* A descriptor is closed exactly once on whichever way its connection      *)
(* ends: a second close() could hit a descriptor another worker has got.    *)
ClosedOnce == \A c \in Conns : closes[c] = IF cst[c] = "closed" THEN 1 ELSE 0

(* At most one of cb_send and cb_err ends a connection, nothing happens to  *)
(* it afterwards, and its descriptor has been closed exactly once.          *)
EndsOnce ==
  [][ClosedOnce' /\ \A c \in Conns : ending[c] # "none"
        => ending'[c] = ending[c] /\ cst'[c] = "closed"]_vars

(* With no pool, after kahanaSockUnloop and also after a kahanaSockLoop     *)
(* that failed half-way, no worker runs and no client's descriptor is open: *)
(* kahanaSockDestroy then frees memory no thread uses.                      *)
QuietWithoutPool ==
  thp = "null" \/ (thp = "stale" /\ mpc = "idle") =>
     /\ \A w \in Workers : wst[w] \in Stopped
     /\ \A c \in Conns : cst[c] # "open"

(* Once every worker is in its loop, raise() reaches libevent's handler and *)
(* not the default action that would end the process.                       *)
RaiseIsHandledWhenServing ==
  [][(\A w \in Workers : wst[w] \in Serving) => mpc' # "killed"]_vars

(* One raise() stops one worker: kahanaSockUnloop returns only if at most   *)
(* one worker was in its loop when it raised; with more it waits forever.   *)
UnloopStopsOne ==
  [][mpc = "join" /\ mpc' = "idle" => Cardinality(atRaise) <= 1]_vars

(* A worker its signal has reached leaves its loop and ends, whatever its   *)
(* client and its callbacks do.                                             *)
SignalledStops ==
  \A w \in Workers : sigPend[w] = "yes" ~> (wst[w] \in Stopped \/ ~Up)

(* kahanaSockUnloop returns if its signal has reached the only worker that  *)
(* was started; those still queued are dropped.                             *)
UnloopCompletes ==
  (mpc = "join" /\ \E w \in Workers : /\ sigPend[w] = "yes"
                                      /\ \A v \in Workers \ {w} : wst[v] \notin Started)
     ~> mpc # "join"

(* A connection that waits is accepted unless every worker is busy: the     *)
(* workers that lose the race for another one go back to listening.         *)
WaitingIsAccepted ==
  \A c \in Conns : cst[c] = "backlog" ~>
     \/ cst[c] # "backlog" \/ ~Up
     \/ \A w \in Workers : wst[w] \notin Serving \/ cfd[w] \in Conns
=============================================================================
