------------------------------- MODULE SockSetup -------------------------------
(***************************************************************************)
(* How a kSocket_t of src/socket.c comes to be and is configured:          *)
(* kahanaSockCreate with every step that can fail, the options the socket   *)
(* keeps a copy of beside the kernel's, the signal events, and              *)
(* kahanaSockDestroy.  The threads are SockServer's; here none runs.        *)
(***************************************************************************)
EXTENDS Naturals

CONSTANTS Sizes,     \* buffer sizes and timeouts, the kernel's default included
          Default,   \* what a new socket has for each option
          Signals    \* the signals an application registers

Options == {"rcvbuf", "sndbuf", "rcvtimeo", "sndtimeo"}

VARIABLES
  phase,  \* the step kahanaSockCreate is at, "failed", "live", or "gone"
  fd,     \* sock->fd: "none", "minus" (-1), "zero" (descriptor 0), or "some" other
  held,   \* what is allocated or open: of "pool", "base", "addrinfo" and "fd"
  kern,   \* the options in force in the kernel
  copy,   \* sock->buf_rcv, buf_snd, tval_rcv and tval_snd, 0 when not read
  ev,     \* each sig_ev: "idle" or "added" to the base
  cb,     \* each cb_signal: "null" or "set"
  fault   \* "none", or "event" after event_set() of a pending event

settings == <<kern, copy, ev, cb, fault>>
vars == <<phase, fd, held, settings>>

Init ==
  /\ phase = "none" /\ fd = "none" /\ held = {}
  /\ kern = [o \in Options |-> Default] /\ copy = [o \in Options |-> 0]
  /\ ev = [s \in Signals |-> "idle"] /\ cb = [s \in Signals |-> "null"]
  /\ fault = "none"

Live == phase = "live" /\ fault = "none"

-----------------------------------------------------------------------------
(* kahanaSockCreate, each of whose steps may fail.  The pool goes at once     *)
(* when one of the first fails; DestroySocket is not registered yet.         *)
Malloc ==
  /\ phase = "none"
  /\ \/ phase' = "event_base_new" /\ held' = {"pool"}
     \/ phase' = "failed" /\ UNCHANGED held
  /\ UNCHANGED <<fd, settings>>

EventBaseNew ==
  /\ phase = "event_base_new"
  /\ \/ phase' = "getaddrinfo" /\ held' = held \cup {"base"}
     \/ phase' = "failed" /\ held' = held \ {"pool"}
  /\ UNCHANGED <<fd, settings>>

Getaddrinfo ==
  /\ phase = "getaddrinfo"
  /\ \/ phase' = "socket" /\ held' = held \cup {"addrinfo"}
     \/ phase' = "failed" /\ held' = held \ {"pool"}
  /\ UNCHANGED <<fd, settings>>

(* Mutant of CleanUp: the descriptor is forgotten. *)
MutCleanUp(things, number) == things \ {"pool"}

(* close( sock->fd ), which does nothing for -1, and apr_pool_destroy().       *)
CleanUp(things, number) == things \ (IF number = "minus" THEN {"pool"} ELSE {"fd", "pool"})

(* The addresses are tried until one gives a socket, and then freed. *)
Socket ==
  /\ phase = "socket"
  /\ \/ /\ fd' \in {"zero", "some"} /\ phase' = "setsockopt"
        /\ held' = (held \ {"addrinfo"}) \cup {"fd"}
     \/ /\ fd' = "minus" /\ phase' = "failed"
        /\ held' = CleanUp(held \ {"addrinfo"}, "minus")
  /\ UNCHANGED settings

(* setsockopt(), bind() (which refuses every address but an inet one, because *)
(* sock->addr is a sockaddr_in), fcntl() and listen().                       *)
Configure(step, next) ==
  /\ phase = step
  /\ \/ phase' = next /\ UNCHANGED held
     \/ phase' = "failed" /\ held' = CleanUp(held, fd)
  /\ UNCHANGED <<fd, settings>>

(* The defaults are read one after the other until a getsockopt() fails,    *)
(* which is only logged.                                                    *)
ReadOrder == <<"rcvbuf", "sndbuf", "rcvtimeo", "sndtimeo">>
Copied(n) == [o \in Options |->
                IF \E i \in 1..n : ReadOrder[i] = o THEN kern[o] ELSE 0]

ReadDefaults ==
  /\ phase = "getsockopt" /\ phase' = "live"
  /\ \E n \in 0..4 : copy' = Copied(n)
  /\ UNCHANGED <<fd, held, kern, ev, cb, fault>>

Create ==
  \/ Malloc \/ EventBaseNew \/ Getaddrinfo \/ Socket
  \/ Configure("setsockopt", "bind") \/ Configure("bind", "fcntl")
  \/ Configure("fcntl", "listen") \/ Configure("listen", "getsockopt")
  \/ ReadDefaults

-----------------------------------------------------------------------------
(* Mutant of SetOpt: the kernel's doubled size is what is kept. *)
MutSetOptDoubled(opt, field, value) ==
  /\ Live
  /\ kern' = [kern EXCEPT ![opt] = value]
  /\ copy' = [copy EXCEPT ![field] = 2 * value]
  /\ UNCHANGED <<phase, fd, held, ev, cb, fault>>

(* setsockopt() of opt, whose value the socket keeps as its field: if the   *)
(* call fails neither changes.                                              *)
SetOpt(opt, field, value) ==
  /\ Live
  /\ kern' = [kern EXCEPT ![opt] = value]
  /\ copy' = [copy EXCEPT ![field] = value]
  /\ UNCHANGED <<phase, fd, held, ev, cb, fault>>

OptSetRcvBuf(bytes) == bytes > 0 /\ SetOpt("rcvbuf", "rcvbuf", bytes)

OptSetRcvTimeout(value) == SetOpt("rcvtimeo", "rcvtimeo", value)

(* The option set is SO_RCVTIMEO here too. *)
OptSetSndTimeout(value) == SetOpt("rcvtimeo", "sndtimeo", value)

(* kahanaSockSetOnSignal: event_set(), event_base_set(), event_add(), and   *)
(* only then the callback.  event_set() of an event that is already added   *)
(* is undefined in libevent.                                                *)
SetOnSignal(s) ==
  /\ Live
  /\ \/ /\ ev[s] = "added" /\ fault' = "event"
        /\ UNCHANGED <<ev, cb>>
     \/ /\ ev[s] = "idle"
        /\ \/ /\ ev' = [ev EXCEPT ![s] = "added"]
              /\ cb' = [cb EXCEPT ![s] = "set"]
           \/ UNCHANGED <<ev, cb>>
        /\ UNCHANGED fault
  /\ UNCHANGED <<phase, fd, held, kern, copy>>

(* if( sock->fd ): descriptor 0 counts as none. *)
Closable == fd # "zero"

(* kahanaSockDestroy: the cleanup DestroySocket, with no thread pool. *)
Destroy ==
  /\ Live
  /\ phase' = "gone"
  /\ held' = held \ (IF Closable THEN {"fd", "base", "pool"} ELSE {"base", "pool"})
  /\ ev' = [s \in Signals |-> "idle"]
  /\ UNCHANGED <<fd, kern, copy, cb, fault>>

-----------------------------------------------------------------------------
Next ==
  \/ Create
  \/ \E v \in Sizes : OptSetRcvBuf(v) \/ OptSetRcvTimeout(v) \/ OptSetSndTimeout(v)
  \/ \E s \in Signals : SetOnSignal(s)
  \/ Destroy

Spec == Init /\ [][Next]_vars

-----------------------------------------------------------------------------
(* Every variable stays in its range. *)
TypeOK ==
  /\ phase \in {"none", "event_base_new", "getaddrinfo", "socket", "setsockopt", "bind",
               "fcntl", "listen", "getsockopt", "failed", "live", "gone"}
  /\ fd \in {"none", "minus", "zero", "some"}
  /\ held \subseteq {"pool", "base", "addrinfo", "fd"}
  /\ kern \in [Options -> Sizes] /\ copy \in [Options -> Sizes \cup {0}]
  /\ ev \in [Signals -> {"idle", "added"}] /\ cb \in [Signals -> {"null", "set"}]
  /\ fault \in {"none", "event"}

(* Wherever kahanaSockCreate fails, what it had acquired by then is released, *)
(* all but the event base; and after kahanaSockDestroy nothing is left but a  *)
(* listening descriptor 0.                                                   *)
NothingLeftOpen ==
  /\ phase = "failed" => held \subseteq {"base"}
  /\ phase = "gone" => held \subseteq (IF fd = "zero" THEN {"fd"} ELSE {})

(* What kahanaSockOptGetSndTimeout returns is the send timeout in force.    *)
SndTimeoutInForce ==
  phase = "live" /\ copy["sndtimeo"] # 0 => copy["sndtimeo"] = kern["sndtimeo"]
================================================================================
