--------------------------- MODULE SerialExecutor ---------------------------
(***************************************************************************)
(* What GenerationTaggedPeerOperationExecutor promises its users, without  *)
(* queues, priorities, threads or stop(): a submission is answered once,   *)
(* and at most one operation runs at any time.  A submission may be        *)
(* answered without having run (superseded, evicted, rejected, stale,      *)
(* dropped), but not while it runs and not a second time.                  *)
(***************************************************************************)
CONSTANTS Ops, NoOp

VARIABLES
    owed,      \* submissions whose completion has not been invoked
    active     \* the submission whose operation is running, or NoOp

vars == <<owed, active>>

Init == owed = {} /\ active = NoOp

Submit(o) == o \notin owed /\ owed' = owed \cup {o} /\ UNCHANGED active

Answer(o) ==
    /\ o \in owed /\ o # active
    /\ owed' = owed \ {o}
    /\ UNCHANGED active

Begin(o) == o \in owed /\ active = NoOp /\ active' = o /\ UNCHANGED owed

End == active # NoOp /\ active' = NoOp /\ UNCHANGED owed

Next == End \/ \E o \in Ops : Submit(o) \/ Answer(o) \/ Begin(o)

Spec == Init /\ [][Next]_vars

=============================================================================
