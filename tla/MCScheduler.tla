----------------------------- MODULE MCScheduler -----------------------------
(* Instances of Scheduler for TLC.                                          *)
EXTENDS Scheduler

HeadDriver    == <<"head", "drv">>
HeadModDriver == <<"head", "mod", "drv">>

\* No plumbing is under way.
NoProgram == <<>>
\* The module is popped, and then a close begins: mark_closing of both pairs.
PopAndMark == PopProgram \o Do("mark_closing", "head") \o Do("deschedule", "head")
                         \o Do("mark_closing", "drv") \o Do("deschedule", "drv")

DriverQueues == {<<"drv", "rq">>, <<"drv", "wq">>}
ModQueues    == {<<"mod", "rq">>, <<"mod", "wq">>}
UpQueues     == {<<"head", "wq">>, <<"drv", "rq">>}
HeadAndDown  == {<<"head", "wq">>, <<"drv", "wq">>}

\* LIS_QLOCK_QUEUE: a lock for each queue.
LockPerQueue == [q \in Queue |-> q]
\* LIS_QLOCK_QUEUE_PAIR: a lock for each pair.
LockPerPair  == [q \in Queue |-> q[1]]
\* LIS_QLOCK_NONE for the driver.
NoDriverLock == [q \in Queue |-> IF q[1] = "drv" THEN NoLock ELSE q]

\* The programs that detach a module do it in order, as the proofs suppose.
ASSUME PopIsOrderly == Len(Stream) = 3 => Orderly
=============================================================================
