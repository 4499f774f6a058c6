-------------------------- MODULE SignalingSocket --------------------------
(***************************************************************************)
(* The WebSocket of VdoSignaling: which socket is active, which ones are   *)
(* retired, which callback is admitted, and how connect, disconnect and    *)
(* the sends move them.  The threads that call these operations are in     *)
(* SignalingRecovery; they hold signalingOpsMutex_, so one call is in      *)
(* progress at a time, and `call` is where it has got to.                  *)
(*                                                                         *)
(* The socket itself is libdatachannel's: it opens, fails, drops and       *)
(* receives messages on its own, and calls back later, one callback of a   *)
(* socket at a time.  `pending` holds the callbacks still to be delivered. *)
(***************************************************************************)
EXTENDS Integers, Sequences, FiniteSets

CONSTANTS
  Sockets,       \* identities of rtc::WebSocket objects
  NoSocket,      \* activeSocket is null
  NoCallback     \* no callback holds a lease

ASSUME SocketsAssumption ==
  IsFiniteSet(Sockets) /\ NoSocket \notin Sockets /\ NoCallback \notin Sockets

VARIABLES
  active,            \* SocketCallbackLifecycle.activeSocket
  retired,           \* SocketCallbackLifecycle.retiredSockets
  callback,          \* the socket whose callback holds the one lease
  wire,              \* what each socket has come to
  pending,           \* per socket, callbacks it has still to deliver
  connected, connectionFailed, published,
  call               \* the VdoSignaling operation in progress

socketVars == <<active, retired, callback, wire, pending,
                connected, connectionFailed, published, call>>

Kinds == {"open", "closed", "error", "alert"}

\* "seeded" is an open socket on which the server has heard a seed request.
Wires == {"connecting", "open", "seeded", "closed"}

CallSteps == {"idle", "begin", "detach", "clear", "activate", "wait", "check",
              "opened", "succeeded", "failed"}

SocketTypeOK ==
  /\ active \in Sockets \cup {NoSocket}
  /\ retired \subseteq Sockets
  /\ callback \in Sockets \cup {NoCallback}
  /\ wire \in [Sockets -> Wires]
  /\ pending \in [Sockets -> Seq(Kinds)]
  /\ connected \in BOOLEAN /\ connectionFailed \in BOOLEAN /\ published \in BOOLEAN
  /\ call \in [step : CallSteps, next : CallSteps]

SocketInit ==
  /\ active = NoSocket /\ retired = {} /\ callback = NoCallback
  /\ wire = [s \in Sockets |-> "closed"]
  /\ pending = [s \in Sockets |-> <<>>]
  /\ connected = FALSE /\ connectionFailed = FALSE /\ published = FALSE
  /\ call = [step |-> "idle", next |-> "idle"]

---------------------------------------------------------------------------
(* The calls.  A step is a critical section of the lifecycle mutex, or the *)
(* accesses to the atomic flags between two of them.                       *)

At(step) == call.step = step
Goto(step) == call' = [step |-> step, next |-> "idle"]
DetachThen(step) == call' = [step |-> "detach", next |-> step]

\* activeCallbacks # 0
CallbackAdmitted == callback # NoCallback

\* Nothing refers to the socket any more: not even a callback that has
\* locked its weak pointer and not yet asked for admission.
Fresh == {s \in Sockets \ (retired \cup {active, callback}) : pending[s] = <<>>}

\* Of a destroyed socket only a callback under way can still arrive.
UnderWay(s) == IF pending[s] = <<>> THEN <<>> ELSE <<Head(pending[s])>>

\* connect refuses to start while a callback is admitted, and first drops
\* the socket it has.
ConnectBegin ==
  /\ At("begin")
  /\ IF CallbackAdmitted THEN Goto("failed")
     ELSE IF active # NoSocket THEN DetachThen("activate")
     ELSE Goto("activate")
  /\ UNCHANGED <<active, retired, callback, wire, pending,
                 connected, connectionFailed, published>>

\* What disconnect puts aside while a callback is admitted: its socket, if
\* there is one.
Retiring == {active} \ {NoSocket}

\* The first half of disconnect: the socket is active no more, and it is
\* destroyed now unless a callback is admitted.  Closing it calls back once
\* more.
Detach ==
  /\ At("detach")
  /\ active' = NoSocket
  /\ retired' = IF CallbackAdmitted THEN retired \cup Retiring ELSE {}
  /\ wire' = [s \in Sockets |-> IF s = active THEN "closed" ELSE wire[s]]
  /\ pending' = [s \in Sockets |->
       IF ~CallbackAdmitted /\ s \in retired \cup {active}
       THEN UnderWay(s)
       ELSE IF s = active /\ wire[s] \in {"open", "seeded"}
       THEN Append(pending[s], "closed")
       ELSE pending[s]]
  /\ call' = [call EXCEPT !.step = "clear"]
  /\ UNCHANGED <<callback, connected, connectionFailed, published>>

\* Mutants of Clear: a flag is not reset.
ClearButConnected ==
  /\ At("clear")
  /\ connectionFailed' = FALSE /\ published' = FALSE
  /\ Goto(call.next)
  /\ UNCHANGED <<active, retired, callback, wire, pending, connected>>

ClearButPublished ==
  /\ At("clear")
  /\ connected' = FALSE /\ connectionFailed' = FALSE
  /\ Goto(call.next)
  /\ UNCHANGED <<active, retired, callback, wire, pending, published>>

\* The second half of disconnect: the flags, after the mutex is released.
Clear ==
  /\ At("clear")
  /\ connected' = FALSE /\ connectionFailed' = FALSE /\ published' = FALSE
  /\ Goto(call.next)
  /\ UNCHANGED <<active, retired, callback, wire, pending>>

\* connect drops the retired sockets, makes a socket, activates and opens it.
Activate ==
  /\ At("activate")
  /\ \/ /\ CallbackAdmitted \/ active # NoSocket
        /\ Goto("failed")
        /\ UNCHANGED <<active, retired, wire, pending, connectionFailed>>
     \/ /\ ~CallbackAdmitted /\ active = NoSocket
        /\ \E s \in Fresh :
             /\ active' = s
             /\ wire' = [wire EXCEPT ![s] = "connecting"]
        /\ retired' = {}
        /\ pending' = [s \in Sockets |->
             IF s \in retired THEN UnderWay(s) ELSE pending[s]]
        /\ connectionFailed' = FALSE
        /\ Goto("wait")
  /\ UNCHANGED <<callback, connected, published>>

\* The loop of connect: look for the flag onOpen sets, ...
Wait ==
  /\ At("wait")
  /\ Goto(IF connected THEN "opened" ELSE "check")
  /\ UNCHANGED <<active, retired, callback, wire, pending,
                 connected, connectionFailed, published>>

\* Mutant of GiveUp: no limit of ten seconds.
GiveUpOnFailure ==
  /\ At("check") /\ connectionFailed
  /\ DetachThen("failed")
  /\ UNCHANGED <<active, retired, callback, wire, pending,
                 connected, connectionFailed, published>>

\* ... then give up, told to, because the socket failed or because ten
\* seconds have passed, which may be at any time; ...
GiveUp ==
  /\ At("check")
  /\ DetachThen("failed")
  /\ UNCHANGED <<active, retired, callback, wire, pending,
                 connected, connectionFailed, published>>

\* ... or look again.
KeepWaiting(cancelled) ==
  /\ At("check")
  /\ ~cancelled /\ ~connectionFailed
  /\ Goto("wait")
  /\ UNCHANGED <<active, retired, callback, wire, pending,
                 connected, connectionFailed, published>>

\* After the loop connect asks once more whether it is still wanted.
Opened(cancelled) ==
  /\ At("opened")
  /\ IF cancelled THEN DetachThen("failed") ELSE Goto("succeeded")
  /\ UNCHANGED <<active, retired, callback, wire, pending,
                 connected, connectionFailed, published>>

\* One step of the call in progress.
CallStep(cancelled) ==
  \/ ConnectBegin \/ Detach \/ Clear \/ Activate
  \/ Wait \/ KeepWaiting(cancelled) \/ Opened(cancelled)

\* sendMessage writes to the active socket if both the flag and the socket
\* say it is open; the transport may still refuse.
CanSend == active # NoSocket /\ connected /\ wire[active] \in {"open", "seeded"}

---------------------------------------------------------------------------
(* The socket and its server.                                              *)

SocketOpens(s) ==
  /\ s = active /\ wire[s] = "connecting"
  /\ wire' = [wire EXCEPT ![s] = "open"]
  /\ pending' = [pending EXCEPT ![s] = Append(@, "open")]

\* A failure is reported by onClosed, preceded by onError or not.
SocketCloses(s) ==
  /\ s = active /\ wire[s] \in {"connecting", "open", "seeded"}
  /\ wire' = [wire EXCEPT ![s] = "closed"]
  /\ \E report \in {<<"closed">>, <<"error", "closed">>} :
       pending' = [pending EXCEPT ![s] = @ \o report]

\* The server answers a seed with "stream id is already in use".
ServerRefusesStream(s) ==
  /\ s = active /\ wire[s] = "seeded"
  /\ wire' = [wire EXCEPT ![s] = "open"]
  /\ pending' = [pending EXCEPT ![s] = Append(@, "alert")]

NetworkStep ==
  /\ \E s \in Sockets : SocketOpens(s) \/ SocketCloses(s) \/ ServerRefusesStream(s)
  /\ UNCHANGED <<active, retired, callback,
                 connected, connectionFailed, published, call>>

\* Mutant of Admissible: the socket's identity is not compared.
AdmitAny(s) == s \in Sockets

\* ActiveSocketCallbackLease::acquire: only the active socket is admitted.
Admissible(s) == s = active

\* The lease; what the callback then does is up to its kind.
Admit(s) ==
  /\ ~CallbackAdmitted /\ pending[s] # <<>>
  /\ Admissible(s)
  /\ callback' = s
  /\ pending' = [pending EXCEPT ![s] = Tail(@)]
  /\ UNCHANGED <<active, retired, wire>>

\* A callback of another socket returns without any effect.
Refuse(s) ==
  /\ s # callback /\ pending[s] # <<>>
  /\ ~Admissible(s)
  /\ pending' = [pending EXCEPT ![s] = Tail(@)]
  /\ UNCHANGED <<active, retired, callback, wire,
                 connected, connectionFailed, published, call>>

===========================================================================
