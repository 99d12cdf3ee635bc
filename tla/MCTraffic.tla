------------------------------ MODULE MCTraffic ------------------------------
(***************************************************************************)
(* Two instances of Scheduler in one run: a stream that is frozen and      *)
(* thawed by a push, with a lock per queue; and one that is closed, with a *)
(* lock per pair.  They share the variables; part tells which of them a    *)
(* behaviour is of.                                                        *)
(***************************************************************************)
EXTENDS MCScheduler

VARIABLE part

C == INSTANCE Scheduler WITH HasSrvp <- HeadAndDown, Program <- CloseProgram,
                             q_qsp <- LockPerPair

Push == part = "push"
Shut == part = "close"

MCInit == \/ part = "push" /\ Init
          \/ part = "close" /\ C!Init

MCNext == /\ UNCHANGED part
          /\ \/ Push /\ Next
             \/ Shut /\ C!Next

\* The fairness of Scheduler, for the stream that must get on.
PushFairness ==
    /\ \A r \in Runner : /\ WF_vars(Push /\ RunnerStep(r))
                         /\ SF_vars(Push /\ Drain(r)) /\ SF_vars(Push /\ EnterService(r))
    /\ \A t \in Caller : WF_vars(Push /\ QenableStep(t))
    /\ \A c \in Closer : /\ WF_vars(Push /\ CloserStep(c))
                         /\ SF_vars(Push /\ ProcsOff(c)) /\ SF_vars(Push /\ FreeQ(c))

MCSpec == MCInit /\ [][MCNext]_<<part, vars>> /\ PushFairness

\* The work of a queue that is frozen is served once it has thawed, and the push
\* does not wait for ever: lis_await_qsched misses no wakeup.
PushGoesOn == Push => WorkServed /\ CloserFinishes
=============================================================================
