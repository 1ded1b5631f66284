--------------------------- MODULE SockServerProofs ---------------------------
(* The safety of SockServer, proved for every set of workers and of          *)
(* connections, every choice of system calls that fail, and every behaviour  *)
(* of the clients.                                                           *)
EXTENDS SockServer, FiniteSetTheorems, TLAPS

(* A worker outside its loop has no client and nothing pending. *)
OutsideInv ==
  \A w \in Workers : wst[w] \in Stopped \cup {"queued", "starting", "ready"}
     => cfd[w] = None /\ pend[w] = {}

(* While a callback runs its event is not pending; SocketAccept runs only   *)
(* without a client, SocketRecv only with one.                              *)
CallbackInv ==
  \A w \in Workers :
     /\ wst[w] = "accept" => cfd[w] \notin Conns /\ "sock" \notin pend[w]
     /\ wst[w] = "recv" => cfd[w] \in Conns

(* A connection whose ending callback is known is closed. *)
EndingInv == \A c \in Conns : ending[c] # "none" => cst[c] = "closed"

(* Workers run only while there is a live pool; the main thread has one     *)
(* from the start of kahanaSockLoop to the end of kahanaSockUnloop.         *)
PoolInv ==
  /\ thp # "live" => \A w \in Workers : wst[w] \in Stopped
  /\ mpc \in {"push", "unwind", "failjoin", "mloop", "join"} => thp = "live"

(* From the first worker that registers the signal to the first that frees  *)
(* its base, the signal's disposition is libevent's handler.                *)
DispInv ==
  (\A w \in Workers : wst[w] \notin {"closing", "done"})
  /\ (\E w \in Workers : wst[w] \in Serving \cup {"ready"}) => disp = "ev"

IInv == /\ TypeOK /\ ServeXorListen /\ FdOwnership /\ ClosedOnce
        /\ OutsideInv /\ CallbackInv /\ EndingInv /\ PoolInv /\ DispInv

LEMMA InitHolds == Init => IInv
<1> SUFFICES ASSUME Init PROVE IInv
  OBVIOUS
<1> USE NamesAssumption DEF Init
<1>1. TypeOK
  BY DEF TypeOK, MainPcs, WorkerPcs, Stopped
<1>2. ServeXorListen /\ FdOwnership /\ ClosedOnce
  BY DEF ServeXorListen, FdOwnership, ClosedOnce
<1>3. OutsideInv /\ CallbackInv /\ EndingInv /\ PoolInv /\ DispInv
  BY DEF OutsideInv, CallbackInv, EndingInv, PoolInv, DispInv, Stopped, Serving
<1> QED BY <1>1, <1>2, <1>3 DEF IInv

LEMMA ClientKeeps ==
  ASSUME NEW c \in Conns, IInv, ClientStep(c)
  PROVE  IInv'
<1> USE DEF ClientStep, mainVars, fdVars, sigVars, IInv, TypeOK
<1>1. TypeOK'
  BY InputsAssumption
<1>2. ServeXorListen'
  BY DEF ServeXorListen
<1>3. FdOwnership'
  BY DEF FdOwnership, Serving
<1>4. ClosedOnce' /\ EndingInv'
  BY DEF ClosedOnce, EndingInv
<1>5. OutsideInv' /\ CallbackInv' /\ PoolInv' /\ DispInv'
  BY DEF OutsideInv, CallbackInv, PoolInv, DispInv, Stopped, Serving
<1> QED BY <1>1, <1>2, <1>3, <1>4, <1>5

LEMMA SocketAcceptKeeps ==
  ASSUME NEW w \in Workers, IInv, SocketAccept(w)
  PROVE  IInv'
<1> USE NamesAssumption DEF IInv, TypeOK, SocketAccept, Goto, mainVars, sigVars
<1>1. CASE AcceptFails(w)
  <2> USE <1>1 DEF AcceptFails, EventAdd, connVars
  <2>1. TypeOK'
    BY DEF WorkerPcs, Started, Serving
  <2>2. ServeXorListen'
    BY DEF ServeXorListen, CallbackInv
  <2>3. FdOwnership'
    BY DEF FdOwnership, Serving, CallbackInv
  <2>4. ClosedOnce' /\ EndingInv'
    BY DEF ClosedOnce, EndingInv
  <2>5. OutsideInv' /\ CallbackInv' /\ PoolInv' /\ DispInv'
    BY DEF OutsideInv, CallbackInv, PoolInv, DispInv, Stopped, Serving
  <2> QED BY <2>1, <2>2, <2>3, <2>4, <2>5
<1>2. ASSUME NEW c \in Backlog, AcceptServes(w, c) PROVE IInv'
  <2> USE <1>2 DEF AcceptServes, EventAdd, Backlog
  <2>1. TypeOK'
    BY DEF WorkerPcs, Started, Serving
  <2>2. ServeXorListen'
    BY DEF ServeXorListen, CallbackInv
  <2>3. FdOwnership'
    BY DEF FdOwnership, Serving, CallbackInv
  <2>4. ClosedOnce' /\ EndingInv'
    BY DEF ClosedOnce, EndingInv
  <2>5. OutsideInv' /\ CallbackInv' /\ PoolInv' /\ DispInv'
    BY DEF OutsideInv, CallbackInv, PoolInv, DispInv, Stopped, Serving
  <2> QED BY <2>1, <2>2, <2>3, <2>4, <2>5
<1>3. ASSUME NEW c \in Backlog, AcceptRefuses(w, c) PROVE IInv'
  <2> USE <1>3 DEF AcceptRefuses, Close, EventAdd, Backlog, FdAfterClose
  <2>1. TypeOK'
    BY DEF WorkerPcs, Started, Serving
  <2>2. ServeXorListen'
    BY DEF ServeXorListen, CallbackInv
  <2>3. FdOwnership'
    BY DEF FdOwnership, Serving, CallbackInv
  <2>4. ClosedOnce' /\ EndingInv'
    BY DEF ClosedOnce, EndingInv
  <2>5. OutsideInv' /\ CallbackInv' /\ PoolInv' /\ DispInv'
    BY DEF OutsideInv, CallbackInv, PoolInv, DispInv, Stopped, Serving
  <2> QED BY <2>1, <2>2, <2>3, <2>4, <2>5
<1> QED BY <1>1, <1>2, <1>3

LEMMA SocketRecvKeeps ==
  ASSUME NEW w \in Workers, IInv, SocketRecv(w)
  PROVE  IInv'
<1> USE NamesAssumption DEF IInv, TypeOK, SocketRecv, Goto, mainVars, sigVars
<1>0. cfd[w] \in Conns /\ cst[cfd[w]] = "open" /\ wst[w] = "recv"
  BY DEF CallbackInv, FdOwnership
<1>1. CASE RecvAgain(w)
  <2> USE <1>0, <1>1 DEF RecvAgain, EventAdd, connVars
  <2>1. TypeOK'
    BY DEF WorkerPcs, Started, Serving
  <2>2. ServeXorListen'
    BY DEF ServeXorListen, CallbackInv
  <2>3. FdOwnership'
    BY DEF FdOwnership, Serving, CallbackInv
  <2>4. ClosedOnce' /\ EndingInv'
    BY DEF ClosedOnce, EndingInv
  <2>5. OutsideInv' /\ CallbackInv' /\ PoolInv' /\ DispInv'
    BY DEF OutsideInv, CallbackInv, PoolInv, DispInv, Stopped, Serving
  <2> QED BY <2>1, <2>2, <2>3, <2>4, <2>5
<1>2. ASSUME NEW callback \in {"err", "send"}, Finish(w, callback), UNCHANGED input
      PROVE  IInv'
  <2> USE <1>0, <1>2 DEF Finish, Close, EventAdd, FdAfterClose
  <2>1. TypeOK'
    BY DEF WorkerPcs, Started, Serving
  <2>2. ServeXorListen'
    BY DEF ServeXorListen, CallbackInv
  <2>3. FdOwnership'
    BY DEF FdOwnership, Serving, CallbackInv
  <2>4. ClosedOnce' /\ EndingInv'
    BY DEF ClosedOnce, EndingInv
  <2>5. OutsideInv' /\ CallbackInv' /\ PoolInv' /\ DispInv'
    BY DEF OutsideInv, CallbackInv, PoolInv, DispInv, Stopped, Serving
  <2> QED BY <2>1, <2>2, <2>3, <2>4, <2>5
<1>3. CASE RecvMore(w)
  <2> USE <1>0, <1>3 DEF RecvMore, EventAdd
  <2>1. TypeOK'
    BY DEF WorkerPcs, Started, Serving
  <2>2. ServeXorListen'
    BY DEF ServeXorListen, CallbackInv
  <2>3. FdOwnership'
    BY DEF FdOwnership, Serving, CallbackInv
  <2>4. ClosedOnce' /\ EndingInv'
    BY DEF ClosedOnce, EndingInv
  <2>5. OutsideInv' /\ CallbackInv' /\ PoolInv' /\ DispInv'
    BY DEF OutsideInv, CallbackInv, PoolInv, DispInv, Stopped, Serving
  <2> QED BY <2>1, <2>2, <2>3, <2>4, <2>5
<1> QED BY <1>1, <1>2, <1>3 DEF RecvError, RecvLast

LEMMA ExitWorkerKeeps ==
  ASSUME NEW w \in Workers, IInv, ExitWorker(w)
  PROVE  IInv'
<1> USE NamesAssumption DEF IInv, TypeOK, ExitWorker, Goto, mainVars
<1>0. cfd[w] \in Conns => cst[cfd[w]] = "open"
  BY DEF FdOwnership
<1>1. CASE cfd[w] \in Conns
  <2> USE <1>0, <1>1 DEF Close
  <2>1. TypeOK'
    BY DEF WorkerPcs, Started, Serving, Stopped
  <2>2. ServeXorListen'
    BY DEF ServeXorListen, CallbackInv, OutsideInv, Stopped
  <2>3. FdOwnership'
    BY DEF FdOwnership, Serving, CallbackInv
  <2>4. ClosedOnce' /\ EndingInv'
    BY DEF ClosedOnce, EndingInv
  <2>5. OutsideInv' /\ CallbackInv' /\ PoolInv' /\ DispInv'
    BY DEF ServeXorListen, OutsideInv, CallbackInv, PoolInv, DispInv, Stopped, Serving
  <2> QED BY <2>1, <2>2, <2>3, <2>4, <2>5
<1>2. CASE cfd[w] \notin Conns
  <2> USE <1>2
  <2>1. TypeOK'
    BY DEF WorkerPcs, Started, Serving, Stopped
  <2>2. ServeXorListen'
    BY DEF ServeXorListen, CallbackInv, OutsideInv, Stopped
  <2>3. FdOwnership'
    BY DEF FdOwnership, Serving, CallbackInv
  <2>4. ClosedOnce' /\ EndingInv'
    BY DEF ClosedOnce, EndingInv
  <2>5. OutsideInv' /\ CallbackInv' /\ PoolInv' /\ DispInv'
    BY DEF ServeXorListen, OutsideInv, CallbackInv, PoolInv, DispInv, Stopped, Serving
  <2> QED BY <2>1, <2>2, <2>3, <2>4, <2>5
<1> QED BY <1>1, <1>2

(* The steps of a worker that touch no connection. *)
LEMMA WorkerMovesKeep ==
  ASSUME NEW w \in Workers, IInv,
         \/ StartWorker(w) \/ SetWorkerSignal(w) \/ EnterWorkerLoop(w)
         \/ WakeAccept(w) \/ WakeRecv(w) \/ WorkerSignal(w)
  PROVE  IInv'
<1> USE NamesAssumption DEF IInv, TypeOK, Goto, mainVars, fdVars, connVars, sigVars
<1>1. CASE StartWorker(w)
  <2> USE <1>1 DEF StartWorker
  <2>1. TypeOK'
    BY DEF WorkerPcs, Started, Serving, Stopped
  <2>2. ServeXorListen'
    BY DEF ServeXorListen, CallbackInv, OutsideInv, Stopped
  <2>3. FdOwnership'
    BY DEF FdOwnership, Serving, CallbackInv
  <2>4. ClosedOnce' /\ EndingInv'
    BY DEF ClosedOnce, EndingInv
  <2>5. OutsideInv' /\ CallbackInv' /\ PoolInv' /\ DispInv'
    BY DEF ServeXorListen, OutsideInv, CallbackInv, PoolInv, DispInv, Stopped, Serving
  <2> QED BY <2>1, <2>2, <2>3, <2>4, <2>5
<1>2. CASE SetWorkerSignal(w)
  <2> USE <1>2 DEF SetWorkerSignal
  <2>1. TypeOK'
    BY DEF WorkerPcs, Started, Serving, Stopped
  <2>2. ServeXorListen'
    BY DEF ServeXorListen, CallbackInv, OutsideInv, Stopped
  <2>3. FdOwnership'
    BY DEF FdOwnership, Serving, CallbackInv
  <2>4. ClosedOnce' /\ EndingInv'
    BY DEF ClosedOnce, EndingInv
  <2>5. OutsideInv' /\ CallbackInv' /\ PoolInv' /\ DispInv'
    BY DEF ServeXorListen, OutsideInv, CallbackInv, PoolInv, DispInv, Stopped, Serving
  <2> QED BY <2>1, <2>2, <2>3, <2>4, <2>5
<1>3. CASE EnterWorkerLoop(w)
  <2> USE <1>3 DEF EnterWorkerLoop
  <2>1. TypeOK'
    BY DEF WorkerPcs, Started, Serving, Stopped
  <2>2. ServeXorListen'
    BY DEF ServeXorListen, CallbackInv, OutsideInv, Stopped
  <2>3. FdOwnership'
    BY DEF FdOwnership, Serving, CallbackInv
  <2>4. ClosedOnce' /\ EndingInv'
    BY DEF ClosedOnce, EndingInv
  <2>5. OutsideInv' /\ CallbackInv' /\ PoolInv' /\ DispInv'
    BY DEF ServeXorListen, OutsideInv, CallbackInv, PoolInv, DispInv, Stopped, Serving
  <2> QED BY <2>1, <2>2, <2>3, <2>4, <2>5
<1>4. CASE WakeAccept(w)
  <2> USE <1>4 DEF WakeAccept
  <2>1. TypeOK'
    BY DEF WorkerPcs, Started, Serving, Stopped
  <2>2. ServeXorListen'
    BY DEF ServeXorListen, CallbackInv, OutsideInv, Stopped
  <2>3. FdOwnership'
    BY DEF FdOwnership, Serving, CallbackInv
  <2>4. ClosedOnce' /\ EndingInv'
    BY DEF ClosedOnce, EndingInv
  <2>5. OutsideInv' /\ CallbackInv' /\ PoolInv' /\ DispInv'
    BY DEF ServeXorListen, OutsideInv, CallbackInv, PoolInv, DispInv, Stopped, Serving
  <2> QED BY <2>1, <2>2, <2>3, <2>4, <2>5
<1>5. CASE WakeRecv(w)
  <2> USE <1>5 DEF WakeRecv
  <2>1. TypeOK'
    BY DEF WorkerPcs, Started, Serving, Stopped
  <2>2. ServeXorListen'
    BY DEF ServeXorListen, CallbackInv, OutsideInv, Stopped
  <2>3. FdOwnership'
    BY DEF FdOwnership, Serving, CallbackInv
  <2>4. ClosedOnce' /\ EndingInv'
    BY DEF ClosedOnce, EndingInv
  <2>5. OutsideInv' /\ CallbackInv' /\ PoolInv' /\ DispInv'
    BY DEF ServeXorListen, OutsideInv, CallbackInv, PoolInv, DispInv, Stopped, Serving
  <2> QED BY <2>1, <2>2, <2>3, <2>4, <2>5
<1>6. CASE WorkerSignal(w)
  <2> USE <1>6 DEF WorkerSignal
  <2>1. TypeOK'
    BY DEF WorkerPcs, Started, Serving, Stopped
  <2>2. ServeXorListen'
    BY DEF ServeXorListen, CallbackInv, OutsideInv, Stopped
  <2>3. FdOwnership'
    BY DEF FdOwnership, Serving, CallbackInv
  <2>4. ClosedOnce' /\ EndingInv'
    BY DEF ClosedOnce, EndingInv
  <2>5. OutsideInv' /\ CallbackInv' /\ PoolInv' /\ DispInv'
    BY DEF ServeXorListen, OutsideInv, CallbackInv, PoolInv, DispInv, Stopped, Serving
  <2> QED BY <2>1, <2>2, <2>3, <2>4, <2>5
<1> QED BY <1>1, <1>2, <1>3, <1>4, <1>5, <1>6

(* The steps of the main thread, and the application's own signal. *)
LEMMA MainKeeps ==
  ASSUME IInv, MainStep \/ OsSignal
  PROVE  IInv'
<1> USE NamesAssumption DEF IInv, TypeOK, Goto, mainVars, fdVars, connVars, sigVars
<1>1. CASE SetOnSignal
  <2> USE <1>1 DEF SetOnSignal
  <2>1. TypeOK'
    BY DEF MainPcs, WorkerPcs, Started, Serving, Stopped
  <2>2. ServeXorListen' /\ FdOwnership' /\ ClosedOnce' /\ EndingInv'
    BY DEF ServeXorListen, FdOwnership, ClosedOnce, EndingInv, PoolInv, Stopped, Serving
  <2>3. OutsideInv' /\ CallbackInv'
    BY DEF OutsideInv, CallbackInv, PoolInv, Stopped
  <2>4. PoolInv' /\ DispInv'
    BY DEF PoolInv, DispInv, Stopped, Started, Serving
  <2> QED BY <2>1, <2>2, <2>3, <2>4
<1>2. CASE Loop
  <2> USE <1>2 DEF Loop
  <2>1. TypeOK'
    BY DEF MainPcs, WorkerPcs, Started, Serving, Stopped
  <2>2. ServeXorListen' /\ FdOwnership' /\ ClosedOnce' /\ EndingInv'
    BY DEF ServeXorListen, FdOwnership, ClosedOnce, EndingInv, PoolInv, Stopped, Serving
  <2>3. OutsideInv' /\ CallbackInv'
    BY DEF OutsideInv, CallbackInv, PoolInv, Stopped
  <2>4. PoolInv' /\ DispInv'
    BY DEF PoolInv, DispInv, Stopped, Started, Serving
  <2> QED BY <2>1, <2>2, <2>3, <2>4
<1>3. ASSUME NEW w \in Workers, PushWorker(w) PROVE IInv'
  <2> USE <1>3 DEF PushWorker
  <2>1. TypeOK'
    BY DEF MainPcs, WorkerPcs, Started, Serving, Stopped
  <2>2. ServeXorListen' /\ FdOwnership' /\ ClosedOnce' /\ EndingInv'
    BY DEF ServeXorListen, FdOwnership, ClosedOnce, EndingInv, PoolInv, Stopped, Serving
  <2>3. OutsideInv' /\ CallbackInv'
    BY DEF OutsideInv, CallbackInv, PoolInv, Stopped
  <2>4. PoolInv' /\ DispInv'
    BY DEF PoolInv, DispInv, Stopped, Started, Serving
  <2> QED BY <2>1, <2>2, <2>3, <2>4
<1>4. CASE PushFails
  <2> USE <1>4 DEF PushFails
  <2>1. TypeOK'
    BY DEF MainPcs, WorkerPcs, Started, Serving, Stopped
  <2>2. ServeXorListen' /\ FdOwnership' /\ ClosedOnce' /\ EndingInv'
    BY DEF ServeXorListen, FdOwnership, ClosedOnce, EndingInv, PoolInv, Stopped, Serving
  <2>3. OutsideInv' /\ CallbackInv'
    BY DEF OutsideInv, CallbackInv, PoolInv, Stopped
  <2>4. PoolInv' /\ DispInv'
    BY DEF PoolInv, DispInv, Stopped, Started, Serving
  <2> QED BY <2>1, <2>2, <2>3, <2>4
<1>5. CASE Unwind
  <2> USE <1>5 DEF Unwind, Raise
  <2>1. TypeOK'
    BY DEF MainPcs, WorkerPcs, Started, Serving, Stopped
  <2>2. ServeXorListen' /\ FdOwnership' /\ ClosedOnce' /\ EndingInv'
    BY DEF ServeXorListen, FdOwnership, ClosedOnce, EndingInv, PoolInv, Stopped, Serving
  <2>3. OutsideInv' /\ CallbackInv'
    BY DEF OutsideInv, CallbackInv, PoolInv, Stopped
  <2>4. PoolInv' /\ DispInv'
    BY DEF PoolInv, DispInv, Stopped, Started, Serving
  <2> QED BY <2>1, <2>2, <2>3, <2>4
<1>6. CASE FailedLoopReturns
  <2> USE <1>6 DEF FailedLoopReturns, TasksOver, Dropped, ThpAfterFailure
  <2>1. TypeOK'
    BY DEF MainPcs, WorkerPcs, Started, Serving, Stopped
  <2>2. ServeXorListen' /\ FdOwnership' /\ ClosedOnce' /\ EndingInv'
    BY DEF ServeXorListen, FdOwnership, ClosedOnce, EndingInv, PoolInv, Stopped, Serving
  <2>3. OutsideInv' /\ CallbackInv'
    BY DEF OutsideInv, CallbackInv, PoolInv, Stopped
  <2>4. PoolInv'
    <3>1. \A w \in Workers : wst'[w] \in Stopped
      BY DEF WorkerPcs, Stopped, Started, Serving
    <3> QED BY <3>1 DEF PoolInv
  <2>5. \A w \in Workers : wst'[w] \notin Serving \cup {"ready"}
    BY DEF Started, Serving
  <2>6. DispInv'
    BY <2>5 DEF DispInv
  <2> QED BY <2>1, <2>2, <2>3, <2>4, <2>6
<1>7. CASE EnterMainLoop
  <2> USE <1>7 DEF EnterMainLoop
  <2>1. TypeOK'
    BY DEF MainPcs, WorkerPcs, Started, Serving, Stopped
  <2>2. ServeXorListen' /\ FdOwnership' /\ ClosedOnce' /\ EndingInv'
    BY DEF ServeXorListen, FdOwnership, ClosedOnce, EndingInv, PoolInv, Stopped, Serving
  <2>3. OutsideInv' /\ CallbackInv'
    BY DEF OutsideInv, CallbackInv, PoolInv, Stopped
  <2>4. PoolInv' /\ DispInv'
    BY DEF PoolInv, DispInv, Stopped, Started, Serving
  <2> QED BY <2>1, <2>2, <2>3, <2>4
<1>8. CASE Unloop
  <2> USE <1>8 DEF Unloop, Raise
  <2>1. TypeOK'
    BY DEF MainPcs, WorkerPcs, Started, Serving, Stopped
  <2>2. ServeXorListen' /\ FdOwnership' /\ ClosedOnce' /\ EndingInv'
    BY DEF ServeXorListen, FdOwnership, ClosedOnce, EndingInv, PoolInv, Stopped, Serving
  <2>3. OutsideInv' /\ CallbackInv'
    BY DEF OutsideInv, CallbackInv, PoolInv, Stopped
  <2>4. PoolInv' /\ DispInv'
    BY DEF PoolInv, DispInv, Stopped, Started, Serving
  <2> QED BY <2>1, <2>2, <2>3, <2>4
<1>9. CASE UnloopReturns
  <2> USE <1>9 DEF UnloopReturns, TasksOver, Dropped, ThpAfterUnloop
  <2>1. TypeOK'
    BY DEF MainPcs, WorkerPcs, Started, Serving, Stopped
  <2>2. ServeXorListen' /\ FdOwnership' /\ ClosedOnce' /\ EndingInv'
    BY DEF ServeXorListen, FdOwnership, ClosedOnce, EndingInv, PoolInv, Stopped, Serving
  <2>3. OutsideInv' /\ CallbackInv'
    BY DEF OutsideInv, CallbackInv, PoolInv, Stopped
  <2>4. PoolInv'
    <3>1. \A w \in Workers : wst'[w] \in Stopped
      BY DEF WorkerPcs, Stopped, Started, Serving
    <3> QED BY <3>1 DEF PoolInv
  <2>5. \A w \in Workers : wst'[w] \notin Serving \cup {"ready"}
    BY DEF Started, Serving
  <2>6. DispInv'
    BY <2>5 DEF DispInv
  <2> QED BY <2>1, <2>2, <2>3, <2>4, <2>6
<1>10. CASE MisusePool
  <2> USE <1>10 DEF MisusePool
  <2>1. TypeOK'
    BY DEF MainPcs, WorkerPcs, Started, Serving, Stopped
  <2>2. ServeXorListen' /\ FdOwnership' /\ ClosedOnce' /\ EndingInv'
    BY DEF ServeXorListen, FdOwnership, ClosedOnce, EndingInv, PoolInv, Stopped, Serving
  <2>3. OutsideInv' /\ CallbackInv'
    BY DEF OutsideInv, CallbackInv, PoolInv, Stopped
  <2>4. PoolInv' /\ DispInv'
    BY DEF PoolInv, DispInv, Stopped, Started, Serving
  <2> QED BY <2>1, <2>2, <2>3, <2>4
<1>11. CASE Destroy
  <2> USE <1>11 DEF Destroy
  <2>1. TypeOK'
    BY DEF MainPcs, WorkerPcs, Started, Serving, Stopped
  <2>2. ServeXorListen' /\ FdOwnership' /\ ClosedOnce' /\ EndingInv'
    BY DEF ServeXorListen, FdOwnership, ClosedOnce, EndingInv, PoolInv, Stopped, Serving
  <2>3. OutsideInv' /\ CallbackInv'
    BY DEF OutsideInv, CallbackInv, PoolInv, Stopped
  <2>4. PoolInv' /\ DispInv'
    BY DEF PoolInv, DispInv, Stopped, Started, Serving
  <2> QED BY <2>1, <2>2, <2>3, <2>4
<1>12. CASE OsSignal
  <2> USE <1>12 DEF OsSignal
  <2>1. TypeOK'
    BY DEF MainPcs, WorkerPcs, Started, Serving, Stopped
  <2>2. ServeXorListen' /\ FdOwnership' /\ ClosedOnce' /\ EndingInv'
    BY DEF ServeXorListen, FdOwnership, ClosedOnce, EndingInv, PoolInv, Stopped, Serving
  <2>3. OutsideInv' /\ CallbackInv'
    BY DEF OutsideInv, CallbackInv, PoolInv, Stopped
  <2>4. PoolInv' /\ DispInv'
    BY DEF PoolInv, DispInv, Stopped, Started, Serving
  <2> QED BY <2>1, <2>2, <2>3, <2>4
<1> QED BY <1>1, <1>2, <1>3, <1>4, <1>5, <1>6, <1>7, <1>8, <1>9, <1>10,
           <1>11, <1>12 DEF MainStep

LEMMA NextKeeps == IInv /\ [Next]_vars => IInv'
<1> SUFFICES ASSUME IInv, [Next]_vars PROVE IInv'
  OBVIOUS
<1>1. CASE MainStep \/ OsSignal
  BY <1>1, MainKeeps
<1>2. ASSUME NEW w \in Workers, WorkerStep(w) PROVE IInv'
  BY <1>2, WorkerMovesKeep, SocketAcceptKeeps, SocketRecvKeeps, ExitWorkerKeeps
     DEF WorkerStep
<1>3. ASSUME NEW c \in Conns, ClientStep(c) PROVE IInv'
  BY <1>3, ClientKeeps
<1>4. CASE UNCHANGED vars
  <2> USE <1>4 DEF vars, mainVars, fdVars, connVars, sigVars
  <2>1. TypeOK'
    BY DEF IInv, TypeOK
  <2>2. ServeXorListen' /\ FdOwnership' /\ ClosedOnce' /\ EndingInv'
    BY DEF IInv, ServeXorListen, FdOwnership, ClosedOnce, EndingInv
  <2>3. OutsideInv' /\ CallbackInv' /\ PoolInv' /\ DispInv'
    BY DEF IInv, OutsideInv, CallbackInv, PoolInv, DispInv
  <2> QED BY <2>1, <2>2, <2>3 DEF IInv
<1> QED BY <1>1, <1>2, <1>3, <1>4 DEF Next

-----------------------------------------------------------------------------
(* The inductive invariant of every behaviour of the server. *)
THEOREM Invariant == Spec => []IInv
BY InitHolds, NextKeeps, PTL DEF Spec

(* Every variable of the server stays in its range. *)
THEOREM TypeCorrect == Spec => []TypeOK
<1>1. IInv => TypeOK
  BY DEF IInv
<1> QED BY <1>1, Invariant, PTL

(* Listening and serving exclude each other in every worker, and core->fd   *)
(* always agrees with the event that is pending.                            *)
THEOREM ServingXorListening == Spec => []ServeXorListen
<1>1. IInv => ServeXorListen
  BY DEF IInv
<1> QED BY <1>1, Invariant, PTL

(* Every open client descriptor has exactly one worker, which will close it. *)
THEOREM Ownership == Spec => []FdOwnership
<1>1. IInv => FdOwnership
  BY DEF IInv
<1> QED BY <1>1, Invariant, PTL

(* No descriptor is closed twice, however its connection ends. *)
THEOREM NoDoubleClose == Spec => []ClosedOnce
<1>1. IInv => ClosedOnce
  BY DEF IInv
<1> QED BY <1>1, Invariant, PTL

(* After kahanaSockUnloop, or a kahanaSockLoop that failed, nothing runs    *)
(* and no client is left open, so that kahanaSockDestroy is safe.           *)
THEOREM DestroyIsSafe == Spec => []QuietWithoutPool
<1>1. IInv => QuietWithoutPool
  BY DEF IInv, FdOwnership, OutsideInv, PoolInv, QuietWithoutPool, Stopped, Serving
<1> QED BY <1>1, Invariant, PTL

(* A connection ends once, by one callback, and is closed once. *)
THEOREM OneEnding == Spec => EndsOnce
<1>1. IInv /\ [Next]_vars => [\A c \in Conns : ending[c] # "none"
         => ending'[c] = ending[c] /\ cst'[c] = "closed"]_vars
  <2> SUFFICES ASSUME IInv, Next, NEW c \in Conns, ending[c] # "none"
               PROVE  ending'[c] = ending[c] /\ cst'[c] = "closed"
    OBVIOUS
  <2>1. cst[c] = "closed" /\ \A w \in Workers : cfd[w] # c
    BY NamesAssumption DEF IInv, EndingInv, FdOwnership
  <2>2. /\ ending \in [Conns -> {"none", "send", "err", "cut"}]
        /\ cst \in [Conns -> {"away", "backlog", "open", "closed"}]
        /\ cfd \in [Workers -> Conns \cup {None, Bad}]
    BY DEF IInv, TypeOK
  <2>3. CASE MainStep \/ OsSignal
    BY <2>1, <2>3 DEF MainStep, SetOnSignal, Loop, PushWorker, PushFails, Unwind,
       FailedLoopReturns, EnterMainLoop, Unloop, UnloopReturns, MisusePool,
       Destroy, OsSignal, connVars
  <2>4. ASSUME NEW d \in Conns, ClientStep(d)
        PROVE  ending'[c] = ending[c] /\ cst'[c] = "closed"
    BY <2>1, <2>2, <2>4 DEF ClientStep
  <2>5. ASSUME NEW w \in Workers, WorkerStep(w)
        PROVE  ending'[c] = ending[c] /\ cst'[c] = "closed"
    <3>1. CASE StartWorker(w) \/ SetWorkerSignal(w) \/ EnterWorkerLoop(w)
               \/ WakeAccept(w) \/ WakeRecv(w) \/ WorkerSignal(w)
      BY <2>1, <3>1 DEF StartWorker, SetWorkerSignal, EnterWorkerLoop,
         WakeAccept, WakeRecv, WorkerSignal, connVars
    <3>2. CASE SocketAccept(w)
      BY <2>1, <2>2, <3>2 DEF SocketAccept, AcceptFails, AcceptServes,
         AcceptRefuses, Close, Backlog, connVars
    <3>3. CASE SocketRecv(w)
      BY <2>1, <2>2, <3>3 DEF SocketRecv, RecvAgain, RecvError, RecvLast,
         RecvMore, Finish, Close, connVars
    <3>4. CASE ExitWorker(w)
      BY <2>1, <2>2, <3>4 DEF ExitWorker, Close
    <3> QED BY <2>5, <3>1, <3>2, <3>3, <3>4 DEF WorkerStep
  <2> QED BY <2>3, <2>4, <2>5 DEF Next
<1>2. IInv /\ [Next]_vars => ClosedOnce'
  BY NextKeeps DEF IInv
<1>3. IInv /\ [Next]_vars => [ClosedOnce' /\ \A c \in Conns : ending[c] # "none"
         => ending'[c] = ending[c] /\ cst'[c] = "closed"]_vars
  BY <1>1, <1>2
<1> QED BY <1>3, Invariant, PTL DEF Spec, EndsOnce

(* Once every worker is in its loop the process survives its own signal.    *)
THEOREM RaiseIsHandled == Spec => RaiseIsHandledWhenServing
<1>1. IInv /\ [Next]_vars
        => [(\A w \in Workers : wst[w] \in Serving) => mpc' # "killed"]_vars
  <2> SUFFICES ASSUME IInv, Next, \A w \in Workers : wst[w] \in Serving
               PROVE  mpc' # "killed"
    OBVIOUS
  <2>1. disp # "dfl"
    <3>1. PICK w \in Workers : TRUE
      BY WorkersAssumption
    <3>2. wst[w] \in Serving
      BY <3>1
    <3> QED BY <3>2 DEF IInv, DispInv, Serving
  <2>2. CASE MainStep
    <3>1. CASE Unwind
      BY <2>1, <3>1 DEF Unwind, Raise
    <3>2. CASE Unloop
      BY <2>1, <3>2 DEF Unloop, Raise
    <3>3. CASE \E w \in Workers : PushWorker(w)
      BY <3>3 DEF PushWorker, mainVars
    <3>4. CASE EnterMainLoop
      BY <3>4 DEF EnterMainLoop
    <3> QED BY <2>2, <3>1, <3>2, <3>3, <3>4 DEF MainStep, SetOnSignal, Loop,
               PushFails, FailedLoopReturns, UnloopReturns, MisusePool, Destroy
  <2>3. CASE OsSignal
    BY <2>3 DEF OsSignal, Up, mainVars
  <2>4. ASSUME NEW w \in Workers, WorkerStep(w) PROVE mpc' # "killed"
    BY <2>4 DEF WorkerStep, StartWorker, SetWorkerSignal, EnterWorkerLoop,
       WakeAccept, SocketAccept, WakeRecv, SocketRecv, WorkerSignal, ExitWorker,
       Up, mainVars
  <2>5. ASSUME NEW c \in Conns, ClientStep(c) PROVE mpc' # "killed"
    BY <2>5 DEF ClientStep, Up, mainVars
  <2> QED BY <2>2, <2>3, <2>4, <2>5 DEF Next
<1> QED BY <1>1, Invariant, PTL DEF Spec, RaiseIsHandledWhenServing

-----------------------------------------------------------------------------
(* How kahanaSockUnloop's one signal is spent.  A base that takes signals is   *)
(* that of a worker between its registration and its end.                    *)
Registered == {"ready", "closing"} \cup Serving

BaseInv ==
  /\ sigBase \in Workers => wst[sigBase] \in Registered
  /\ \A w \in Workers : sigPend[w] = "yes" => wst[w] \in Registered

(* Outside the two joins nothing has been raised. *)
UnraisedInv ==
  mpc \in {"idle", "push", "unwind", "mloop"} => \A w \in Workers : sigPend[w] = "no"

(* A worker in its loop that no signal has reached: it stays there. *)
Stuck(w) == wst[w] \in Serving /\ sigPend[w] = "no"

(* Of two workers that served when kahanaSockUnloop raised, one is stuck. *)
StuckInv ==
  mpc = "join" => \A v, w \in atRaise : v = w \/ Stuck(v) \/ Stuck(w)

SigInv == BaseInv /\ UnraisedInv /\ StuckInv

LEMMA SigInit == Init => SigInv
BY NamesAssumption DEF Init, SigInv, BaseInv, UnraisedInv, StuckInv

(* What neither the main thread nor a registered worker does to the signals.  *)
LEMMA SigUntouched ==
  ASSUME TypeOK, SigInv, UNCHANGED <<sigBase, sigPend, atRaise>>,
         mpc' = mpc \/ (mpc' # "join" /\ (mpc \in {"idle", "push", "unwind", "mloop"}
                                         \/ mpc' \in {"killed", "freed", "undefined"})),
         \A w \in Workers : /\ wst[w] \in Registered => wst'[w] \in Registered
                            /\ wst[w] \in Serving /\ sigPend[w] = "no" => wst'[w] \in Serving
  PROVE  SigInv'
<1>1. BaseInv'
  BY DEF SigInv, BaseInv
<1>2. UnraisedInv'
  BY DEF SigInv, UnraisedInv
<1>3. StuckInv'
  BY DEF SigInv, StuckInv, Stuck, TypeOK
<1> QED BY <1>1, <1>2, <1>3 DEF SigInv

LEMMA SigWorker ==
  ASSUME NEW w \in Workers, IInv, SigInv, WorkerStep(w)
  PROVE  SigInv'
<1> USE DEF Goto, mainVars, fdVars, connVars, sigVars
<1>0. TypeOK
  BY DEF IInv
<1>1. CASE StartWorker(w) \/ WakeAccept(w) \/ WakeRecv(w)
  BY <1>0, <1>1, SigUntouched DEF StartWorker, WakeAccept, WakeRecv, TypeOK, Registered, Serving
<1>2. CASE SocketAccept(w) \/ SocketRecv(w)
  BY <1>0, <1>2, SigUntouched DEF SocketAccept, SocketRecv, TypeOK, Registered, Serving
<1>3. CASE SetWorkerSignal(w) \/ EnterWorkerLoop(w)
  <2>1. /\ \A v \in Workers \ {w} : wst'[v] = wst[v]
        /\ wst[w] \in {"starting", "ready"} /\ UNCHANGED <<mpc, atRaise, sigPend>>
    BY <1>0, <1>3 DEF SetWorkerSignal, EnterWorkerLoop, TypeOK
  <2>2. wst[w] = "starting" => sigBase # w /\ sigPend[w] = "no"
    BY <1>0 DEF SigInv, BaseInv, TypeOK, Registered, Serving
  <2>3. \/ sigBase' \in {sigBase, w} /\ wst'[w] \in Registered
        \/ sigBase' = sigBase /\ wst[w] = "starting"
    BY <1>0, <1>3 DEF SetWorkerSignal, EnterWorkerLoop, TypeOK, Registered, Serving
  <2>4. BaseInv'
    BY <2>1, <2>2, <2>3 DEF SigInv, BaseInv, Registered, Serving
  <2>5. UnraisedInv' /\ StuckInv'
    BY <2>1, <1>0 DEF SigInv, UnraisedInv, StuckInv, Stuck, Serving, TypeOK
  <2> QED BY <2>4, <2>5 DEF SigInv
<1>4. CASE WorkerSignal(w)
  <2>1. /\ \A v \in Workers \ {w} : wst'[v] = wst[v] /\ sigPend'[v] = sigPend[v]
        /\ wst[w] = "loop" /\ wst'[w] = "closing" /\ UNCHANGED <<mpc, atRaise, sigBase>>
        /\ sigPend[w] = "yes" /\ sigPend'[w] = "no"
    BY <1>0, <1>4 DEF WorkerSignal, TypeOK
  <2>2. BaseInv' /\ UnraisedInv'
    BY <2>1 DEF SigInv, BaseInv, UnraisedInv, Registered
  <2>3. StuckInv'
    BY <2>1, <1>0 DEF SigInv, StuckInv, Stuck, TypeOK
  <2> QED BY <2>2, <2>3 DEF SigInv
<1>5. CASE ExitWorker(w)
  BY <1>0, <1>5, NamesAssumption DEF ExitWorker, TypeOK, SigInv, BaseInv, UnraisedInv, StuckInv,
                    Stuck, Registered, Serving
<1> QED BY <1>1, <1>2, <1>3, <1>4, <1>5 DEF WorkerStep

LEMMA SigMain ==
  ASSUME IInv, SigInv, MainStep
  PROVE  SigInv'
<1> USE DEF Goto, mainVars, fdVars, connVars, sigVars
<1>0. TypeOK
  BY DEF IInv
<1>1. CASE SetOnSignal \/ EnterMainLoop
  BY <1>0, <1>1, NamesAssumption DEF SetOnSignal, EnterMainLoop, SigInv, BaseInv, UnraisedInv, StuckInv
<1>2. CASE Loop
  <2>1. \A w \in Workers : wst[w] \notin Registered
    BY <1>2 DEF Loop, IInv, PoolInv, Stopped, Registered, Serving
  <2> QED BY <1>0, <1>2, <2>1 DEF Loop, SigInv, BaseInv, UnraisedInv, StuckInv
<1>3. ASSUME NEW w \in Workers, PushWorker(w) PROVE SigInv'
  BY <1>0, <1>3, SigUntouched DEF PushWorker, TypeOK, Registered, Serving
<1>4. CASE PushFails \/ MisusePool \/ Destroy
  BY <1>0, <1>4, SigUntouched DEF PushFails, MisusePool, Destroy
<1>5. CASE Unwind
  BY <1>0, <1>5, NamesAssumption DEF Unwind, Raise, TypeOK, SigInv, BaseInv, UnraisedInv, StuckInv
<1>6. CASE Unloop
  <2>1. \A w \in Workers : sigPend[w] = "no"
    BY <1>6 DEF Unloop, SigInv, UnraisedInv
  <2>2. UNCHANGED <<wst, sigBase>> /\ atRaise' = {w \in Workers : wst[w] \in Serving}
        /\ mpc' \in {"join", "killed"}
    BY <1>6 DEF Unloop, Raise
  <2>3. \A w \in Workers : sigPend'[w] = "yes" => w = sigBase
    BY <1>0, <1>6, <2>1 DEF Unloop, Raise, TypeOK
  <2>4. sigPend' \in [Workers \cup {Main} -> {"no", "yes"}]
    BY <1>0, <1>6 DEF Unloop, Raise, TypeOK
  <2>5. BaseInv' /\ UnraisedInv'
    BY <2>2, <2>3 DEF SigInv, BaseInv, UnraisedInv
  <2>6. StuckInv'
    BY <2>2, <2>3, <2>4 DEF StuckInv, Stuck
  <2> QED BY <2>5, <2>6 DEF SigInv
<1>7. CASE FailedLoopReturns \/ UnloopReturns
  <2>1. /\ \A w \in Workers : wst[w] \notin Registered
        /\ mpc' = "idle" /\ UNCHANGED sigVars
    BY <1>7 DEF FailedLoopReturns, UnloopReturns, TasksOver, Started, Registered, Serving
  <2>2. sigBase \notin Workers /\ \A w \in Workers : sigPend[w] = "no"
    BY <1>0, <2>1 DEF SigInv, BaseInv, TypeOK
  <2> QED BY <2>1, <2>2 DEF SigInv, BaseInv, UnraisedInv, StuckInv
<1> QED BY <1>1, <1>2, <1>3, <1>4, <1>5, <1>6, <1>7 DEF MainStep

LEMMA SigKeeps == IInv /\ SigInv /\ [Next]_vars => SigInv'
<1> SUFFICES ASSUME IInv, SigInv, [Next]_vars PROVE SigInv'
  OBVIOUS
<1>0. TypeOK
  BY DEF IInv
<1>1. CASE OsSignal
  BY <1>0, <1>1, NamesAssumption
     DEF OsSignal, mainVars, TypeOK, SigInv, BaseInv, UnraisedInv, StuckInv, Stuck
<1>2. ASSUME NEW c \in Conns, ClientStep(c) PROVE SigInv'
  BY <1>0, <1>2, SigUntouched DEF ClientStep, mainVars, sigVars, Serving, Registered
<1>3. CASE UNCHANGED vars
  BY <1>0, <1>3, SigUntouched DEF vars, mainVars, sigVars
<1> QED BY <1>1, <1>2, <1>3, SigMain, SigWorker DEF Next

(* kahanaSockUnloop returns only if at most one worker was in its loop when it *)
(* raised: the others, which its signal does not reach, are waited for.       *)
THEOREM OneRaiseStopsOne == Spec => UnloopStopsOne
<1>1. IInv /\ SigInv /\ [Next]_vars
        => [mpc = "join" /\ mpc' = "idle" => Cardinality(atRaise) <= 1]_vars
  <2> SUFFICES ASSUME IInv, SigInv, Next, mpc = "join", mpc' = "idle"
               PROVE  Cardinality(atRaise) <= 1
    OBVIOUS
  <2>1. UnloopReturns
    <3>1. mpc' = mpc \/ MainStep
      BY DEF Next, OsSignal, ClientStep, WorkerStep, StartWorker, SetWorkerSignal,
             EnterWorkerLoop, WakeAccept, SocketAccept, WakeRecv, SocketRecv, WorkerSignal,
             ExitWorker, mainVars
    <3> QED BY <3>1 DEF MainStep, SetOnSignal, Loop, PushWorker, PushFails, Unwind,
                        FailedLoopReturns, EnterMainLoop, Unloop, MisusePool, Destroy
  <2>2. \A w \in Workers : ~ Stuck(w)
    BY <2>1 DEF UnloopReturns, TasksOver, Stuck, Started
  <2>3. \A v, w \in atRaise : v = w
    BY <2>2 DEF SigInv, StuckInv, IInv, TypeOK
  <2>4. CASE atRaise = {}
    BY <2>4, FS_EmptySet
  <2>5. ASSUME NEW w \in atRaise PROVE Cardinality(atRaise) <= 1
    <3>1. atRaise = {w}
      BY <2>3
    <3>2. Cardinality({w}) = 1
      BY FS_Singleton
    <3> QED BY <3>1, <3>2
  <2> QED BY <2>4, <2>5
<1> QED BY <1>1, SigInit, SigKeeps, Invariant, PTL DEF Spec, UnloopStopsOne
=============================================================================
