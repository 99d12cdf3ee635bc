-------------------------------- MODULE Pipes --------------------------------
(***************************************************************************)
(* FIFOs and pipes: the units of the driver fifo (drivers/str/fifo.c), the *)
(* making of a pipe out of two of them (head/linux-mdep.c) and the close   *)
(* of its ends (close_action and lis_qdetach, head/head.c).                *)
(*                                                                         *)
(* A stream head stays allocated as long as it is referenced: by its open  *)
(* file, by the pipe, and by whoever has frozen it.  An action is a piece  *)
(* of an open or a close between two looks at what is shared: the list of  *)
(* units, which fifo_sem should protect, and the peer of a stream head.    *)
(* Queues, messages and the count of opens of one head are elsewhere.      *)
(***************************************************************************)
EXTENDS Integers, Sequences, FiniteSets

CONSTANTS
    Stream, End0, End1,   \* stream heads; the two that may become a pipe
    Units,              \* how many units can be opened; unit 0 is the clonable one
    None,
    MaxOpen,            \* how many opens are begun
    MaxInterrupt        \* how many waits for fifo_sem a signal interrupts

Unit == 1 .. Units

VARIABLES
    free_fifos, num_free_fifos, allocated, fifo_sem,
    q_ptr,              \* head -> its unit
    pc, want, fdp,      \* head -> what its open or close does, asks for, has chosen
    sd_refcnt, sd_peer, STRHUP, STRCLOSE, STRFROZEN,
    q_next,             \* head -> the head its write queue leads to
    hd_peer, unfreeze,  \* head -> what lis_qdetach has read
    pipe,               \* how far lis_get_pipe is
    opens,
    interrupts,         \* how many waits for fifo_sem were interrupted
    raced               \* a head was looked at while its peer was at work on it

units == <<free_fifos, num_free_fifos, allocated, fifo_sem, q_ptr, fdp, interrupts>>
heads == <<sd_refcnt, sd_peer, STRHUP, STRCLOSE, STRFROZEN, q_next, hd_peer, unfreeze>>
vars  == <<units, heads, pc, want, pipe, opens, raced>>

Init ==
    /\ free_fifos = [i \in Unit |-> i] /\ num_free_fifos = Units /\ allocated = {}
    /\ fifo_sem = 1 /\ q_ptr = [h \in Stream |-> None] /\ fdp = [h \in Stream |-> None]
    /\ interrupts = 0
    /\ sd_refcnt = [h \in Stream |-> 0] /\ sd_peer = [h \in Stream |-> h]
    /\ STRHUP = {} /\ STRCLOSE = {} /\ STRFROZEN = {}
    /\ q_next = [h \in Stream |-> None] /\ hd_peer = [h \in Stream |-> None]
    /\ unfreeze = [h \in Stream |-> None]
    /\ pc = [h \in Stream |-> "closed"] /\ want = [h \in Stream |-> 0]
    /\ pipe = "none" /\ opens = 0 /\ raced = FALSE

At(h, l)   == pc[h] = l
Goto(h, l) == pc' = [pc EXCEPT ![h] = l]
Remove(s, u) == SelectSeq(s, LAMBDA v : v # u)

----------------------------------------------------------------------------
(* Opens.  lis_open_fifo makes the new head its own peer.                  *)

Begin(h, u) ==
    /\ opens < MaxOpen /\ opens' = opens + 1
    /\ Goto(h, "opening") /\ want' = [want EXCEPT ![h] = u]
    /\ sd_refcnt' = [sd_refcnt EXCEPT ![h] = 1] /\ sd_peer' = [sd_peer EXCEPT ![h] = h]
    /\ STRHUP' = STRHUP \ {h} /\ STRCLOSE' = STRCLOSE \ {h}
    /\ STRFROZEN' = STRFROZEN \ {h}
    /\ UNCHANGED <<q_next, hd_peer, unfreeze, units, raced>>

InPipe(h) == h \in {End0, End1} /\ pipe # "none"

\* A new head, for the clonable unit or for one that no open head has.
OpenFifo(h, u) ==
    /\ At(h, "closed") /\ sd_refcnt[h] = 0 /\ ~InPipe(h)
    /\ \A g \in Stream \ STRCLOSE : q_ptr[g] # u
    /\ Begin(h, u) /\ UNCHANGED pipe

\* A second file of the head: the driver is asked again.
Reopen(h) ==
    /\ At(h, "open") /\ opens < MaxOpen /\ opens' = opens + 1
    /\ Goto(h, "opening") /\ want' = [want EXCEPT ![h] = q_ptr[h]]
    /\ UNCHANGED <<units, heads, pipe, raced>>

\* lis_down, whose result is not looked at.
Down(h, from, to, interrupted) ==
    /\ At(h, from) /\ Goto(h, to)
    /\ \/ fifo_sem > 0 /\ fifo_sem' = fifo_sem - 1 /\ UNCHANGED interrupts
       \/ /\ interrupted /\ interrupts < MaxInterrupt
          /\ interrupts' = interrupts + 1 /\ UNCHANGED fifo_sem
    /\ UNCHANGED <<free_fifos, num_free_fifos, allocated, q_ptr, fdp, heads, want, pipe,
                   opens, raced>>

\* fifo_open and fifo_alloc: which unit, and is it to be had?
Listed(u)  == Len(free_fifos) > 0                 \* any unit is, for a unit asked for
Choice(u)  == IF u = 0 THEN free_fifos[1] ELSE u
NotAsked(u) == Listed(u)
CanHave(u) == Listed(u) /\ Choice(u) \notin allocated
FifoChoose(h) ==
    /\ At(h, "choose")
    /\ IF q_ptr[h] # None THEN Goto(h, "opened") /\ UNCHANGED fdp
       ELSE IF CanHave(want[h])
       THEN Goto(h, "take") /\ fdp' = [fdp EXCEPT ![h] = Choice(want[h])]
       ELSE Goto(h, "failed") /\ UNCHANGED fdp
    /\ want' = [want EXCEPT ![h] = 0]
    /\ UNCHANGED <<free_fifos, num_free_fifos, allocated, fifo_sem, q_ptr, interrupts, heads,
                   pipe, opens, raced>>

FifoTake(h) ==
    /\ At(h, "take") /\ Goto(h, "opened")
    /\ allocated' = allocated \cup {fdp[h]}
    /\ free_fifos' = Remove(free_fifos, fdp[h])
    /\ num_free_fifos' = num_free_fifos - 1
    /\ q_ptr' = [q_ptr EXCEPT ![h] = fdp[h]] /\ fdp' = [fdp EXCEPT ![h] = None]
    /\ q_next' = [q_next EXCEPT ![h] = h]
    /\ UNCHANGED <<fifo_sem, interrupts, sd_refcnt, sd_peer, STRHUP, STRCLOSE, STRFROZEN,
                   hd_peer, unfreeze, want, pipe, opens, raced>>

\* The open ends, well or with an error that gives the new head up.
Opened(h) ==
    /\ At(h, "opened") /\ Goto(h, "open") /\ fifo_sem' = fifo_sem + 1
    /\ UNCHANGED <<free_fifos, num_free_fifos, allocated, q_ptr, fdp, interrupts, heads, want,
                   pipe, opens, raced>>
Failed(h) ==
    /\ At(h, "failed") /\ Goto(h, "closed") /\ fifo_sem' = fifo_sem + 1
    /\ sd_refcnt' = [sd_refcnt EXCEPT ![h] = 0]
    /\ UNCHANGED <<free_fifos, num_free_fifos, allocated, q_ptr, fdp, interrupts, sd_peer,
                   STRHUP, STRCLOSE, STRFROZEN, q_next, hd_peer, unfreeze, want, pipe,
                   opens, raced>>

----------------------------------------------------------------------------
(* lis_get_pipe: two clone opens of the FIFO driver, and the twist.        *)

PipeFirst == /\ pipe = "none" /\ opens < MaxOpen - 1
             /\ \A h \in {End0, End1} : At(h, "closed") /\ sd_refcnt[h] = 0
             /\ Begin(End0, 0) /\ pipe' = "first"
PipeSecond == /\ pipe = "first" /\ At(End0, "open")
              /\ Begin(End1, 0) /\ pipe' = "second"

PipeTwist ==
    /\ pipe = "second" /\ At(End1, "open")
    /\ pipe' = "up"
    /\ sd_peer' = [sd_peer EXCEPT ![End0] = End1, ![End1] = End0]
    /\ sd_refcnt' = [sd_refcnt EXCEPT ![End0] = @ + 1, ![End1] = @ + 1]
    /\ q_next' = [q_next EXCEPT ![End0] = End1, ![End1] = End0]
    /\ UNCHANGED <<units, STRHUP, STRCLOSE, STRFROZEN, hd_peer, unfreeze, pc, want, opens,
                   raced>>

\* An end could not be opened; the first is closed again.
PipeFails ==
    /\ \/ pipe = "first" /\ At(End0, "closed") /\ UNCHANGED <<pc, STRCLOSE>>
       \/ /\ pipe = "second" /\ At(End1, "closed") /\ At(End0, "open")
          /\ Goto(End0, "closing") /\ STRCLOSE' = STRCLOSE \cup {End0}
    /\ pipe' = "none"
    /\ UNCHANGED <<units, sd_refcnt, sd_peer, STRHUP, STRFROZEN, q_next, hd_peer, unfreeze,
                   want, opens, raced>>

----------------------------------------------------------------------------
(* The last close of a head.                                               *)

Gets(r, h)  == [r EXCEPT ![h] = @ + 1]
Puts(r, h)  == [r EXCEPT ![h] = @ - 1]
PutIf(r, h, frozen)    == IF frozen THEN Puts(r, h) ELSE r

DoClose(h) ==
    /\ At(h, "open") /\ (InPipe(h) => pipe = "up")
    /\ Goto(h, "closing") /\ STRCLOSE' = STRCLOSE \cup {h}
    /\ UNCHANGED <<units, sd_refcnt, sd_peer, STRHUP, STRFROZEN, q_next, hd_peer, unfreeze,
                   want, pipe, opens, raced>>

\* close_action: the peer of a pipe is hung up and let go, unless it closes too.
HangsPeer(h) == sd_peer[h] # h /\ sd_peer[h] \notin STRHUP \cup STRCLOSE
CloseAction(h) ==
    /\ At(h, "closing")
    /\ Goto(h, IF HangsPeer(h) THEN "hang" ELSE "freeze")
    /\ hd_peer' = [hd_peer EXCEPT ![h] = sd_peer[h]]
    /\ UNCHANGED <<units, sd_refcnt, sd_peer, STRHUP, STRCLOSE, STRFROZEN, q_next, unfreeze,
                   want, pipe, opens, raced>>
HangUp(h) ==
    LET p == hd_peer[h]
    IN /\ At(h, "hang") /\ Goto(h, "freeze")
       /\ STRHUP' = STRHUP \cup {p}
       /\ sd_peer' = [sd_peer EXCEPT ![p] = p]
       /\ STRFROZEN' = STRFROZEN \ {p}
       /\ sd_refcnt' = PutIf(sd_refcnt, p, p \in STRFROZEN)
       /\ UNCHANGED <<units, STRCLOSE, q_next, hd_peer, unfreeze, want, pipe, opens, raced>>

\* The ends of a pipe are taken apart at the same time.
Detaching == {"hang", "down", "free", "freed", "unlink", "thaw", "part"}
BothDetach(h) == h \in {End0, End1} /\ \E g \in {End0, End1} \ {h} : pc[g] \in Detaching

\* lis_qdetach: lis_freezestr, and what will have to be undone.
FreezesOwn(h)  == h \notin STRFROZEN
FreezesPeer(h) == FreezesOwn(h) /\ sd_peer[h] # h /\ sd_peer[h] \notin STRFROZEN
Freeze(h) ==
    /\ At(h, "freeze") /\ Goto(h, IF q_ptr[h] = None THEN "unlink" ELSE "down")
    /\ STRFROZEN' = STRFROZEN \cup (IF FreezesOwn(h) THEN {h} ELSE {})
                              \cup (IF FreezesPeer(h) THEN {sd_peer[h]} ELSE {})
    /\ sd_refcnt' = LET r == IF FreezesOwn(h) THEN Gets(sd_refcnt, h) ELSE sd_refcnt
                    IN IF FreezesPeer(h) THEN Gets(r, sd_peer[h]) ELSE r
    /\ unfreeze' = [unfreeze EXCEPT ![h] = IF q_next[h] \in {h, None} THEN None
                                           ELSE q_next[h]]
    /\ hd_peer' = [hd_peer EXCEPT ![h] = IF sd_peer[h] = h THEN None ELSE sd_peer[h]]
    /\ raced' = (raced \/ BothDetach(h))
    /\ UNCHANGED <<units, sd_peer, STRHUP, STRCLOSE, q_next, want, pipe, opens>>

\* fifo_close, and fifo_free, which gives back what is allocated.
AtTail(s, u) == Append(s, u)
FifoFree(h) ==
    /\ At(h, "free") /\ Goto(h, "freed")
    /\ IF q_ptr[h] \in allocated
       THEN /\ allocated' = allocated \ {q_ptr[h]}
            /\ free_fifos' = AtTail(free_fifos, q_ptr[h])
            /\ num_free_fifos' = num_free_fifos + 1
       ELSE UNCHANGED <<allocated, free_fifos, num_free_fifos>>
    /\ q_ptr' = [q_ptr EXCEPT ![h] = None]
    /\ UNCHANGED <<fifo_sem, fdp, interrupts, heads, want, pipe, opens, raced>>
FifoClosed(h) ==
    /\ At(h, "freed") /\ Goto(h, "unlink") /\ fifo_sem' = fifo_sem + 1
    /\ UNCHANGED <<free_fifos, num_free_fifos, allocated, q_ptr, fdp, interrupts, heads, want,
                   pipe, opens, raced>>

\* The queues are linked around: the other end leads nowhere from now on.
Unlink(h) ==
    /\ At(h, "unlink") /\ Goto(h, "thaw")
    /\ q_next' = [g \in Stream |-> IF g = h \/ (q_next[h] = g /\ g # h) THEN None ELSE q_next[g]]
    /\ UNCHANGED <<units, sd_refcnt, sd_peer, STRHUP, STRCLOSE, STRFROZEN, hd_peer,
                   unfreeze, want, pipe, opens, raced>>

\* lis_unfreezestr of the other end, if there is one; then the own head.
Thaw(h) ==
    LET p       == unfreeze[h]
        thaws   == p # None /\ p \in STRFROZEN
        back    == IF thaws THEN sd_peer[p] ELSE None
        both    == thaws /\ back # p /\ back \in STRFROZEN
        after   == STRFROZEN \ ((IF thaws THEN {p} ELSE {}) \cup (IF both THEN {back} ELSE {}))
        others  == PutIf(IF both THEN Puts(sd_refcnt, back) ELSE sd_refcnt, p, thaws)
    IN /\ At(h, "thaw") /\ Goto(h, "part")
       /\ sd_refcnt' = PutIf(others, h, p = None \/ h \in after)
       /\ STRFROZEN' = IF p = None THEN STRFROZEN ELSE after \ {h}
       /\ UNCHANGED <<units, sd_peer, STRHUP, STRCLOSE, q_next, hd_peer, unfreeze, want,
                      pipe, opens, raced>>

\* The references of the pipe are given back by the end that still knew it.
GivesOwn(r, h, p)  == Puts(r, h)                  \* mutant
GivesBoth(r, h, p) == Puts(Puts(r, p), h)
Part(h) ==
    LET p == hd_peer[h]
    IN /\ At(h, "part") /\ Goto(h, "put")
       /\ IF p = None THEN UNCHANGED <<sd_peer, STRFROZEN, sd_refcnt>>
          ELSE /\ sd_peer' = [sd_peer EXCEPT ![p] = p, ![h] = h]
               /\ STRFROZEN' = STRFROZEN \ {p}
               /\ sd_refcnt' = PutIf(GivesBoth(sd_refcnt, h, p), p, p \in STRFROZEN)
       /\ UNCHANGED <<units, STRHUP, STRCLOSE, q_next, hd_peer, unfreeze, want, pipe,
                      opens, raced>>

\* lis_doclose gives the reference of the open back.
HeadPut(h) ==
    /\ At(h, "put") /\ Goto(h, "closed")
    /\ sd_refcnt' = Puts(sd_refcnt, h)
    /\ pipe' = IF InPipe(h) /\ \A g \in {End0, End1} \ {h} : At(g, "closed")
               THEN "none" ELSE pipe
    /\ hd_peer' = [hd_peer EXCEPT ![h] = None] /\ unfreeze' = [unfreeze EXCEPT ![h] = None]
    /\ UNCHANGED <<units, sd_peer, STRHUP, STRCLOSE, STRFROZEN, q_next, want, opens, raced>>

----------------------------------------------------------------------------
Next ==
    \/ PipeFirst \/ PipeSecond \/ PipeTwist \/ PipeFails
    \/ \E h \in Stream :
        \/ Reopen(h) \/ \E u \in Unit \cup {0} : OpenFifo(h, u)
        \/ \E i \in BOOLEAN : Down(h, "opening", "choose", i) \/ Down(h, "down", "free", i)
        \/ FifoChoose(h) \/ FifoTake(h) \/ Opened(h) \/ Failed(h)
        \/ DoClose(h) \/ CloseAction(h) \/ HangUp(h) \/ Freeze(h) \/ FifoFree(h) \/ FifoClosed(h)
        \/ Unlink(h) \/ Thaw(h) \/ Part(h) \/ HeadPut(h)

Spec == Init /\ [][Next]_vars

----------------------------------------------------------------------------
(* Properties                                                              *)

Has(h) == q_ptr[h] # None
broken == interrupts > 0

\* Unless a wait for fifo_sem was interrupted, every unit is free or belongs to one
\* stream head, whoever opens and closes at the same time, and num_free_fifos counts
\* the free ones: a unit that is closed can be had again.
UnitsSound ==
    broken \/ /\ \A g, h \in Stream : Has(g) /\ q_ptr[g] = q_ptr[h] => g = h
              /\ allocated = {q_ptr[h] : h \in {g \in Stream : Has(g)}}
              /\ {free_fifos[i] : i \in DOMAIN free_fifos} = Unit \ allocated
              /\ num_free_fifos = Len(free_fifos)
              /\ Len(free_fifos) = Units - Cardinality(allocated)

InUse(h) == pc[h] # "closed"

\* Unless both ends of a pipe close at the same time, a stream head outlives whoever
\* is at work on it, the pipe as long as its other end is there, and is freed when
\* both are gone; and no end stays frozen.
PipesSound ==
    raced \/ \A h \in Stream :
                 /\ InUse(h) => sd_refcnt[h] > 0
                 /\ sd_peer[h] # h => sd_refcnt[sd_peer[h]] > 0
                 /\ (\A g \in Stream : ~InUse(g)) => sd_refcnt[h] = 0 /\ sd_peer[h] = h
                 /\ h \in STRFROZEN /\ At(h, "open") =>
                        \E g \in Stream : pc[g] \in Detaching

\* Two ends may close at the same time.
EndsPart == \A h \in Stream : InUse(h) => sd_refcnt[h] > 0
=============================================================================
