------------------------------- MODULE PutSync -------------------------------
(***************************************************************************)
(* Calls of put procedures: lis_safe_do_putmsg (head/safe.c), the deferred  *)
(* messages of a queue and its lock (head/queue.c), while the stream is     *)
(* frozen to push or to pop a module (push_mod, lis_qdetach, lis_freezestr  *)
(* and lis_unfreezestr in head/head.c).                                     *)
(*                                                                         *)
(* The stream is the head, a module, and a driver; messages go down from    *)
(* tasks above the module, and the module's put procedure passes on what it *)
(* gets while it holds the lock of its queue.  One more task, the changer,  *)
(* pushes the module or pops it.                                            *)
(***************************************************************************)
EXTENDS Integers, Sequences, FiniteSets

CONSTANTS
  Putter,      \* tasks that put messages
  Changer,     \* the task that changes the stream
  NoTask,
  PerPutter,   \* how many messages each of them sends
  Options,     \* LIS_QLOCK_ options to choose from: "none", "queue", "global"
  Changes,     \* "push", "pop" or both
  Width        \* q_count is a number modulo Width

TasksAssumption == Changer \notin Putter /\ NoTask \notin Putter \cup {Changer}
PutSyncBounds == PerPutter \in Nat /\ Width \in Nat \ {0}
                        /\ Options \subseteq {"none", "queue", "global"}
                        /\ Changes \subseteq {"push", "pop"}

Task == Putter \cup {Changer}
Queue == {"mod", "drv"}
Sync == Queue \cup {"lis_queue_sync"}
Msg == Putter \X (1..PerPutter)

VARIABLES
  change, option,        \* chosen at the start
  q_next,                \* of the head's write queue and of the queues
  q_flag, q_defer, q_count,  \* of each queue; every message has size 1
  qs_sem, qs_nest, qs_taskp, \* of each lis_q_sync_t
  stack,                 \* of each task: the calls it is in, innermost first
  consumed,              \* the result of the call that returned last, for each task
  cpc, todo,             \* the changer: where it is, and the queues it has yet to visit
  sent,                  \* messages each putter has begun to send
  delivered,             \* what the driver's put procedure got, in order
  flushed,               \* what went with the queue of the module
  clogged,               \* history: a message met another one that was deferred
  late                   \* history: somebody was on the way into a queue that was freed

sync == <<qs_sem, qs_nest, qs_taskp>>
queues == <<q_next, q_flag, q_defer, q_count>>
changer == <<cpc, todo>>
ghost == <<delivered, flushed, clogged, late>>
vars == <<change, option, queues, sync, stack, consumed, changer, sent, ghost>>

Init ==
  /\ change \in Changes /\ option \in Options
  /\ q_next = [q \in Queue \cup {"head"} |->
                 CASE q = "head" -> IF change = "pop" THEN "mod" ELSE "drv"
                   [] q = "mod" -> "drv"
                   [] q = "drv" -> "none"]
  /\ q_flag = [q \in Queue |-> {}]
  /\ q_defer = [q \in Queue |-> <<>>] /\ q_count = [q \in Queue |-> 0]
  /\ qs_sem = [s \in Sync |-> 1] /\ qs_nest = [s \in Sync |-> 0]
  /\ qs_taskp = [s \in Sync |-> NoTask]
  /\ stack = [t \in Task |-> <<>>] /\ consumed = [t \in Task |-> TRUE]
  /\ cpc = "start" /\ todo = <<>>
  /\ sent = [t \in Putter |-> 0]
  /\ delivered = <<>> /\ flushed = {}
  /\ clogged = FALSE /\ late = FALSE

SyncOf(q) == IF option = "global" THEN "lis_queue_sync" ELSE q

Top(t) == stack[t][1]
In(t, l) == stack[t] # <<>> /\ Top(t).at = l
Call(q, m, deferring) == [at |-> "test", q |-> q, m |-> m, deferring |-> deferring]
Goto(t, l) == stack' = [stack EXCEPT ![t][1].at = l]
Returns(t, c) == /\ stack' = [stack EXCEPT ![t] = Tail(@)]
                 /\ consumed' = [consumed EXCEPT ![t] = c]

---------------------------------------------------------------------------
(* lis_safe_do_putmsg *)

\* lis_putnext by somebody above the module
Put(t) ==
  /\ stack[t] = <<>> /\ sent[t] < PerPutter
  /\ sent' = [sent EXCEPT ![t] = @ + 1]
  /\ stack' = [stack EXCEPT ![t] = <<Call(q_next["head"], <<t, sent[t] + 1>>, FALSE)>>]
  /\ UNCHANGED <<change, option, queues, sync, consumed, changer, ghost>>

\* Procedures are off, and there is a next queue: it is the one to put to.
PassOn(t) ==
  /\ In(t, "test")
  /\ "QPROCSOFF" \in q_flag[Top(t).q] /\ q_next[Top(t).q] # "none"
  /\ stack' = [stack EXCEPT ![t][1].q = q_next[@]]
  /\ UNCHANGED <<change, option, queues, sync, consumed, changer, sent, ghost>>

DeferOver(q, m, retry) ==                               \* mutant
  q_defer' = [q_defer EXCEPT ![q] = <<m>>] /\ q_count' = [q_count EXCEPT ![q] = 1]

\* lis_defer_msg: a retry goes back to the front, and is not counted.
DeferMsg(q, m, retry) ==
  IF retry
    THEN q_defer' = [q_defer EXCEPT ![q] = <<m>> \o @] /\ UNCHANGED q_count
    ELSE q_defer' = [q_defer EXCEPT ![q] = Append(@, m)]
         /\ q_count' = [q_count EXCEPT ![q] = (@ + 1) % Width]

\* What a message has to wait for: that the stream is thawed and opened, and that
\* the messages before it are gone.  lis_do_deferred_puts does not wait for itself.
Obstacles(c) == {"QFROZEN", "QOPENING"} \cup (IF c.deferring THEN {} ELSE {"QDEFERRING"})
MustWait(c) == q_flag[c.q] \cap Obstacles(c) # {} \/ q_defer[c.q] # <<>>

Defer(t) ==
  /\ In(t, "test")
  /\ "QPROCSOFF" \notin q_flag[Top(t).q]
  /\ MustWait(Top(t))
  /\ DeferMsg(Top(t).q, Top(t).m, Top(t).deferring)
  /\ clogged' = (clogged \/ (Top(t).deferring /\ q_defer[Top(t).q] # <<>>))
  /\ Returns(t, FALSE)
  /\ UNCHANGED <<change, option, q_next, q_flag, sync, changer, sent, delivered, flushed, late>>

\* The isr lock has been given up when the queue is locked.
Pass(t) ==
  /\ In(t, "test")
  /\ "QPROCSOFF" \notin q_flag[Top(t).q]
  /\ ~MustWait(Top(t))
  /\ Goto(t, "lock")
  /\ UNCHANGED <<change, option, queues, sync, consumed, changer, sent, ghost>>

---------------------------------------------------------------------------
(* lis_lockq and lis_unlockq: the owner of the lock may take it again. *)

LockNotOwned(t, s) ==                                    \* mutant
  IF option = "none" THEN UNCHANGED sync
  ELSE /\ qs_sem[s] > 0
       /\ qs_nest' = [qs_nest EXCEPT ![s] = @ + 1]
       /\ qs_taskp' = [qs_taskp EXCEPT ![s] = t]
       /\ qs_sem' = [qs_sem EXCEPT ![s] = @ - 1]
LockSync(t, s) ==
  IF option = "none" THEN UNCHANGED sync
  ELSE /\ qs_taskp[s] = t \/ qs_sem[s] > 0
       /\ qs_nest' = [qs_nest EXCEPT ![s] = @ + 1]
       /\ qs_taskp' = [qs_taskp EXCEPT ![s] = t]
       /\ qs_sem' = IF qs_taskp[s] = t THEN qs_sem ELSE [qs_sem EXCEPT ![s] = @ - 1]

\* Of a queue that is being opened nothing is taken; lis_unlockq does not ask.
LockQ(t, q) ==
  IF "QOPENING" \in q_flag[q] THEN UNCHANGED sync ELSE LockSync(t, SyncOf(q))

UnlockQ(t, s) ==
  IF option = "none" THEN UNCHANGED sync
  ELSE LET n == IF qs_taskp[s] = t THEN qs_nest[s] - 1 ELSE qs_nest[s]
       IN /\ qs_nest' = [qs_nest EXCEPT ![s] = n]
          /\ qs_taskp' = IF n = 0 THEN [qs_taskp EXCEPT ![s] = NoTask] ELSE qs_taskp
          /\ qs_sem' = IF n = 0 THEN [qs_sem EXCEPT ![s] = @ + 1] ELSE qs_sem

Lock(t) ==
  /\ In(t, "lock")
  /\ LockQ(t, Top(t).q)
  /\ Goto(t, "put")
  /\ UNCHANGED <<change, option, queues, consumed, changer, sent, ghost>>

\* The put procedure of the module passes the message on, that of the driver has
\* it delivered.
PutProc(t) ==
  /\ In(t, "put")
  /\ \/ /\ q_next[Top(t).q] # "none"
        /\ stack' = [stack EXCEPT ![t] =
                       <<Call(q_next[Top(t).q], Top(t).m, FALSE),
                         [Top(t) EXCEPT !.at = "unlock"]>> \o Tail(@)]
        /\ UNCHANGED delivered
     \/ /\ q_next[Top(t).q] = "none"
        /\ delivered' = Append(delivered, Top(t).m)
        /\ Goto(t, "unlock")
  /\ UNCHANGED <<change, option, queues, sync, consumed, changer, sent, flushed, clogged, late>>

Unlock(t) ==
  /\ In(t, "unlock")
  /\ UnlockQ(t, SyncOf(Top(t).q))
  /\ Returns(t, TRUE)
  /\ UNCHANGED <<change, option, queues, changer, sent, ghost>>

---------------------------------------------------------------------------
(* The changer: lis_freezestr, the change, lis_unfreezestr *)

C(l) == cpc = l /\ stack[Changer] = <<>>
Then(l) == cpc' = l

ChainFrom(q) == CASE q = "mod" -> <<"mod", "drv">> [] q = "drv" -> <<"drv">>

\* lis_freezestr starts, or lis_unfreezestr does.
Begin == /\ C("start")
         /\ todo' = ChainFrom(q_next["head"])
         /\ Then("freeze")
         /\ UNCHANGED <<change, option, queues, sync, stack, consumed, sent, ghost>>

Freeze ==
  /\ C("freeze") /\ todo # <<>>
  /\ q_flag' = [q_flag EXCEPT ![Head(todo)] = @ \cup {"QFROZEN"}]
  /\ todo' = Tail(todo)
  /\ Then(IF Tail(todo) # <<>> THEN "freeze" ELSE IF change = "push" THEN "attach" ELSE "off")
  /\ UNCHANGED <<change, option, q_next, q_defer, q_count, sync, stack, consumed, sent, ghost>>

\* lis_qattach inserts the queue, and its open routine runs.
Attach ==
  /\ C("attach")
  /\ q_flag' = [q_flag EXCEPT !["mod"] = {"QOPENING"}]
  /\ q_next' = [q_next EXCEPT !["head"] = "mod"]
  /\ todo' = ChainFrom("mod")
  /\ Then("thaw")
  /\ UNCHANGED <<change, option, q_defer, q_count, sync, stack, consumed, sent, ghost>>

\* lis_qdetach locks the queue to turn its procedures off, and lets go of it again.
LockOff == /\ C("off")
           /\ LockQ(Changer, "mod")
           /\ Then("procsoff")
           /\ UNCHANGED <<change, option, queues, stack, consumed, todo, sent, ghost>>

ProcsOff ==
  /\ C("procsoff")
  /\ q_flag' = [q_flag EXCEPT !["mod"] = @ \cup {"QPROCSOFF"}]
  /\ UnlockQ(Changer, SyncOf("mod"))
  /\ Then("closed")
  /\ UNCHANGED <<change, option, q_next, q_defer, q_count, stack, consumed, todo, sent, ghost>>

\* After the close routine: the queue is locked, linked around, and unlocked.
LockClosed == /\ C("closed")
              /\ LockQ(Changer, "mod")
              /\ Then("unlink")
              /\ UNCHANGED <<change, option, queues, stack, consumed, todo, sent, ghost>>

Unlink ==
  /\ C("unlink")
  /\ q_next' = [q_next EXCEPT !["head"] = "drv"]
  /\ UnlockQ(Changer, SyncOf("mod"))
  /\ Then("free")
  /\ UNCHANGED <<change, option, q_flag, q_defer, q_count, stack, consumed, todo, sent, ghost>>

\* "Nobody can see the queues anymore but us": lis_freeq, and then lis_unfreezestr.
Free ==
  /\ C("free")
  /\ late' = \E t \in Putter : \E i \in DOMAIN stack[t] : stack[t][i].q = "mod"
  /\ flushed' = flushed \cup {q_defer["mod"][i] : i \in DOMAIN q_defer["mod"]}
  /\ q_defer' = [q_defer EXCEPT !["mod"] = <<>>]
  /\ q_count' = [q_count EXCEPT !["mod"] = 0]
  /\ todo' = ChainFrom("drv")
  /\ Then("thaw")
  /\ UNCHANGED <<change, option, q_next, q_flag, sync, stack, consumed, sent, delivered, clogged>>

\* check_for_wantenable clears the flags of a queue, and then delivers what had to wait.
Thaw ==
  /\ C("thaw") /\ todo # <<>>
  /\ q_flag' = [q_flag EXCEPT ![Head(todo)] = @ \ {"QOPENING", "QFROZEN"}]
  /\ Then("deferred")
  /\ UNCHANGED <<change, option, q_next, q_defer, q_count, sync, stack, consumed, todo, sent, ghost>>

Done == Then(IF Tail(todo) = <<>> THEN "end" ELSE "thaw") /\ todo' = Tail(todo)

\* lis_do_deferred_puts
NothingDeferred ==
  /\ C("deferred")
  /\ q_defer[Head(todo)] = <<>>
  /\ Done
  /\ UNCHANGED <<change, option, queues, sync, stack, consumed, sent, ghost>>

StartDeferred ==
  /\ C("deferred")
  /\ q_defer[Head(todo)] # <<>>
  /\ q_flag' = [q_flag EXCEPT ![Head(todo)] = @ \cup {"QDEFERRING"}]
  /\ consumed' = [consumed EXCEPT ![Changer] = TRUE]
  /\ Then("deferring")
  /\ UNCHANGED <<change, option, q_next, q_defer, q_count, sync, stack, todo, sent, ghost>>

\* One message, and the next if it was consumed.
TakeDeferred ==
  /\ C("deferring") /\ consumed[Changer]
  /\ LET q == Head(todo)
     IN /\ q_defer[q] # <<>>
        /\ q_defer' = [q_defer EXCEPT ![q] = Tail(@)]
        /\ q_count' = [q_count EXCEPT ![q] = (@ - 1) % Width]
        /\ stack' = [stack EXCEPT ![Changer] = <<Call(q, Head(q_defer[q]), TRUE)>>]
  /\ UNCHANGED <<change, option, q_next, q_flag, sync, consumed, changer, sent, ghost>>

EndDeferred ==
  /\ C("deferring")
  /\ ~consumed[Changer] \/ q_defer[Head(todo)] = <<>>
  /\ q_flag' = [q_flag EXCEPT ![Head(todo)] = @ \ {"QDEFERRING"}]
  /\ Done
  /\ UNCHANGED <<change, option, q_next, q_defer, q_count, sync, stack, consumed, sent, ghost>>

---------------------------------------------------------------------------
PutSteps(t) == PassOn(t) \/ Defer(t) \/ Pass(t) \/ Lock(t) \/ PutProc(t) \/ Unlock(t)
ChangeSteps == \/ Freeze \/ Attach \/ LockOff \/ ProcsOff \/ LockClosed \/ Unlink \/ Free
               \/ Thaw \/ NothingDeferred \/ StartDeferred \/ TakeDeferred \/ EndDeferred

\* What follows on the use of a queue that has been freed is not described.
Next ==
  /\ ~late
  /\ \/ \E t \in Putter : Put(t)
     \/ \E t \in Task : PutSteps(t)
     \/ Begin \/ ChangeSteps

\* Put procedures return, and semaphores queue their waiters.
Fairness == /\ \A t \in Task : SF_vars(~late /\ PutSteps(t))
            /\ WF_vars(~late /\ ChangeSteps)
            /\ SF_vars(~late /\ (LockOff \/ LockClosed))

Spec == Init /\ [][Next]_vars /\ Fairness

---------------------------------------------------------------------------
(* Properties *)

Frames(t) == {stack[t][i] : i \in DOMAIN stack[t]}
Inside(s) == {t \in Task : \E f \in Frames(t) : f.at \in {"put", "unlock"} /\ SyncOf(f.q) = s}

\* Only one task at a time is in the put procedures that share a lock, and the lock
\* counts how often its owner has taken it (lis_lockq, lis_unlockq), though lis_unlockq
\* would give back what lis_lockq did not take of a queue that is being opened.
OneAtATime ==
  option # "none" =>
    \A s \in Sync :
      /\ Cardinality(Inside(s)) <= 1
      /\ \A t \in Inside(s) : qs_taskp[s] = t
      /\ qs_sem[s] = IF qs_nest[s] = 0 THEN 1 ELSE 0
      /\ qs_nest[s] = 0 <=> qs_taskp[s] = NoTask

Deferred(q) == {q_defer[q][i] : i \in DOMAIN q_defer[q]}
InHand == {f.m : f \in {g \in UNION {Frames(t) : t \in Task} : g.at # "unlock"}}
Got == {delivered[i] : i \in DOMAIN delivered}

\* Every message that was sent is in one place: in the hands of one task, deferred on
\* one queue, delivered, or gone with the queue of the popped module; and q_count says
\* how many are deferred, modulo Width, until a message is deferred once more (the retry
\* in lis_defer_msg, which counts nothing).
NoneLostOrDoubled ==
  /\ {m \in Msg : m[2] <= sent[m[1]]} =
       InHand \cup Deferred("mod") \cup Deferred("drv") \cup Got \cup flushed
  /\ Cardinality(InHand) + Len(q_defer["mod"]) + Len(q_defer["drv"])
       + Len(delivered) + Cardinality(flushed) = Cardinality({m \in Msg : m[2] <= sent[m[1]]})
  /\ ~clogged => \A q \in Queue : q_count[q] = Len(q_defer[q]) % Width

\* What one task sends is delivered in the order it was sent, though some of it is
\* deferred and delivered by another task.
InOrder ==
  \A i, j \in DOMAIN delivered :
    i < j /\ delivered[i][1] = delivered[j][1] => delivered[i][2] < delivered[j][2]

\* Tasks take turns, and their messages get through.
PutsTakeTurns == OneAtATime /\ NoneLostOrDoubled /\ InOrder

\* Nothing keeps a message for ever, in a task or on a list: time and again every call
\* has returned and the deferred messages have been delivered, unless a second message
\* was deferred behind one.
Resting == \/ /\ \A t \in Task : stack[t] = <<>>
              /\ \A q \in Queue : q_defer[q] = <<>> \/ clogged
           \/ late
PutsGoOn == []<>Resting

\* The same without the exception: "there will be a call to check_for_wantenable() to
\* follow shortly which will [...] perform the deferred puts".
DeferredPutsPerformed ==
  \A q \in Queue : (cpc = "thaw" /\ q_defer[q] # <<>>) ~> (q_defer[q] = <<>> \/ late)
=============================================================================
