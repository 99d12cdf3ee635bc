------------------------------- MODULE MCCalls -------------------------------
(***************************************************************************)
(* Instances for TLC of the calls that wait for each other, side by side:  *)
(* a behaviour is one of opens and closes, or of put procedures while a    *)
(* module is pushed or popped, and what the other speaks of stays as it is.*)
(***************************************************************************)
EXTENDS OpenClose

CONSTANTS Changer, NoTask, PerPutter, Options, Changes, Width

VARIABLES part,
    \* PutSync
    change, option, q_next, q_flag, q_defer, q_count, qs_sem, qs_nest, qs_taskp, stack,
    consumed, cpc, todo, sent, delivered, flushed, clogged, late

pvars == <<change, option, q_next, q_flag, q_defer, q_count, qs_sem, qs_nest, qs_taskp,
           stack, consumed, cpc, todo, sent, delivered, flushed, clogged, late>>
all   == <<part, vars, pvars>>

P == INSTANCE PutSync WITH Putter <- Proc

ASSUME Assumptions == P!TasksAssumption /\ P!PutSyncBounds

\* A part that rests starts in one state.
MCInit == /\ part \in {"opens", "puts"} /\ Init /\ P!Init
          /\ part # "puts" => /\ change = CHOOSE x \in Changes : TRUE
                              /\ option = CHOOSE x \in Options : TRUE

MCNext == /\ UNCHANGED part
          /\ \/ part = "opens" /\ Next   /\ UNCHANGED pvars
             \/ part = "puts"  /\ P!Next /\ UNCHANGED vars

\* The fairness of both.  The first is a condition on each process: of the two
\* parts of the disjunction only one is ever enabled.
Turn(p) == /\ \/ part = "opens" /\ (Steps(p) \/ Close(p)) /\ UNCHANGED pvars
              \/ part = "puts"  /\ ~late /\ P!PutSteps(p) /\ UNCHANGED vars
           /\ UNCHANGED part
Change(A) == part = "puts" /\ ~late /\ A /\ UNCHANGED <<part, vars>>

MCSpec == /\ MCInit /\ [][MCNext]_all
          /\ \A p \in Proc : SF_all(Turn(p))
          /\ SF_all(Change(P!PutSteps(Changer)))
          /\ WF_all(Change(P!ChangeSteps))
          /\ SF_all(Change(P!LockOff \/ P!LockClosed))

\* What PutSync states, of its own behaviours: in the others it rests.
PutsTakeTurns == part = "puts" => P!PutsTakeTurns

\* Time and again every open, close, call and put procedure has come to its end, and no
\* message stays deferred.
AllReturn == []<>(Resting /\ P!Resting)
=============================================================================
