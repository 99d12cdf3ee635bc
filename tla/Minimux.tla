------------------------------- MODULE Minimux -------------------------------
(***************************************************************************)
(* The multiplexor driver of the tests (drivers/str/minimux.c): a table of *)
(* entries, one for each open upper stream and each linked lower, that     *)
(* says where the messages of a stream are forwarded to.  The entries are  *)
(* threaded on one list, which no lock protects: new_mux reads its head    *)
(* and writes it later.                                                    *)
(*                                                                         *)
(* The stream head is external: it sends I_UNLINK for the lowers of an     *)
(* upper that closes, but not for those that were linked by I_PLINK, and   *)
(* I_PUNLINK on whichever stream it is asked on.                           *)
(***************************************************************************)
EXTENDS Integers, Sequences, FiniteSets, SequencesExt

CONSTANTS Upper, Lower, Entry, None, MaxLink

VARIABLES
    alloc,       \* entries that are allocated
    mux_head,    \* the list, newest first
    outq,        \* entry -> the stream whose queue it sends to
    othermux,    \* entry -> the entry it forwards to
    ctl_strm,    \* entry -> the entry of the control stream, of a lower
    q_ptr,       \* stream -> its entry
    pc, cur, seen, target,   \* of the process that works on an upper
    persistent,  \* lowers that were linked by I_PLINK
    lost,        \* entries that a simultaneous new_mux took off the list
    links, amiss

table == <<alloc, mux_head, outq, othermux, ctl_strm>>
procs == <<pc, cur, seen, target>>
vars  == <<table, q_ptr, procs, persistent, lost, links, amiss>>

Queue == Upper \cup Lower
On    == Range(mux_head)

Init == /\ alloc = {} /\ mux_head = <<>>
        /\ outq = [e \in Entry |-> None] /\ othermux = [e \in Entry |-> None]
        /\ ctl_strm = [e \in Entry |-> None]
        /\ q_ptr = [s \in Queue |-> None]
        /\ pc = [u \in Upper |-> "closed"] /\ cur = [u \in Upper |-> None]
        /\ seen = [u \in Upper |-> None] /\ target = [u \in Upper |-> None]
        /\ persistent = {} /\ lost = {} /\ links = 0 /\ amiss = {}

Idle(u) == pc[u] = "open" /\ amiss = {}
Muxp(u) == q_ptr[u]

----------------------------------------------------------------------------
(* new_mux: the entry points to the head of the list it has seen; then it  *)
(* becomes the head.                                                       *)
Freed == Entry \ alloc
NewMux(u) == LET e == CHOOSE x \in Freed : \A y \in Freed : x <= y IN
    /\ Freed # {}
    /\ alloc' = alloc \cup {e}
    /\ outq' = [outq EXCEPT ![e] = None] /\ othermux' = [othermux EXCEPT ![e] = None]
    /\ ctl_strm' = [ctl_strm EXCEPT ![e] = None]
    /\ cur' = [cur EXCEPT ![u] = e]
    /\ seen' = [seen EXCEPT ![u] = IF mux_head = <<>> THEN None ELSE Head(mux_head)]

\* What follows the head that was seen; what has come in front of it is lost.
From(h) == IF h = None THEN <<>>
           ELSE LET i == SelectInSeq(mux_head, LAMBDA e : e = h)
                IN SubSeq(mux_head, i, Len(mux_head))
Threaded(u) ==
    LET h == seen[u]
    IN IF h = None \/ h \in On
       THEN /\ mux_head' = <<cur[u]>> \o From(h)
            /\ lost' = lost \cup (On \ Range(From(h)))
            /\ amiss' = {}
       ELSE /\ mux_head' = <<cur[u]>>              \* the entry seen has been freed
            /\ amiss' = {"freed"}
            /\ UNCHANGED lost

Finished(u) == /\ pc' = [pc EXCEPT ![u] = "open"]
               /\ cur' = [cur EXCEPT ![u] = None] /\ seen' = [seen EXCEPT ![u] = None]
               /\ target' = [target EXCEPT ![u] = None]

\* mux_open of a stream that was not open.
mux_open(u) ==
    /\ pc[u] = "closed" /\ amiss = {}
    /\ NewMux(u)
    /\ pc' = [pc EXCEPT ![u] = "opening"]
    /\ UNCHANGED <<mux_head, q_ptr, target, persistent, lost, links, amiss>>

OpenEnds(u) ==
    /\ pc[u] = "opening" /\ amiss = {}
    /\ Threaded(u)
    /\ outq' = [outq EXCEPT ![cur[u]] = u]
    /\ q_ptr' = [q_ptr EXCEPT ![u] = cur[u]]
    /\ Finished(u)
    /\ UNCHANGED <<alloc, othermux, ctl_strm, persistent, links>>

----------------------------------------------------------------------------
(* mux_ioctl: I_LINK and I_PLINK of a stream that is not linked.           *)
Linking(l) == \E u \in Upper : pc[u] = "linking" /\ target[u] = l
Linked(l)  == q_ptr[l] # None
link(u, l, p) ==
    /\ Idle(u) /\ links < MaxLink
    /\ ~Linked(l) /\ ~Linking(l)
    /\ NewMux(u)
    /\ pc' = [pc EXCEPT ![u] = "linking"]
    /\ target' = [target EXCEPT ![u] = l]
    /\ persistent' = IF p THEN persistent \cup {l} ELSE persistent \ {l}
    /\ links' = links + 1
    /\ UNCHANGED <<mux_head, q_ptr, lost, amiss>>

LinkEnds(u) ==
    LET e == cur[u]
        l == target[u]
    IN  /\ pc[u] = "linking" /\ amiss = {}
        /\ Threaded(u)
        /\ ctl_strm' = [ctl_strm EXCEPT ![e] = Muxp(u)]
        /\ othermux' = [othermux EXCEPT ![e] = Muxp(u), ![Muxp(u)] = e]
        /\ outq' = [outq EXCEPT ![e] = l]
        /\ q_ptr' = [q_ptr EXCEPT ![l] = e]
        /\ Finished(u)
        /\ UNCHANGED <<alloc, persistent, links>>

\* The entry of a lower is looked for on the list, for the control stream.
Find(u, l) == {e \in On : ctl_strm[e] = Muxp(u) /\ outq[e] = l}

Without(e) == SelectSeq(mux_head, LAMBDA x : x # e)

\* What points to an entry that is freed: the entry it points to itself, and the
\* control stream.
StillPointing(e, muxp) == othermux                        \* mutant
Detached(e, muxp) ==
    [x \in Entry |->
        IF othermux[x] = e /\ (x = othermux[e] \/ x = muxp) THEN None ELSE othermux[x]]

\* I_UNLINK and I_PUNLINK.  An entry that is not found is refused with EINVAL,
\* which the stream head ignores for I_PUNLINK.
unlink(u, l) ==
    /\ Idle(u) /\ Linked(l)
    /\ \E e \in Find(u, l) :
         /\ mux_head' = Without(e)
         /\ othermux' = Detached(e, Muxp(u))
         /\ alloc' = alloc \ {e}
         /\ q_ptr' = [q_ptr EXCEPT ![l] = None]
    /\ UNCHANGED <<outq, ctl_strm, procs, persistent, lost, links, amiss>>

\* MINIMUX_UP and MINIMUX_DOWN.
minimux_up(u, l) ==
    /\ Idle(u)
    /\ \E e \in Find(u, l) : othermux' = [othermux EXCEPT ![e] = Muxp(u)]
    /\ UNCHANGED <<alloc, mux_head, outq, ctl_strm, q_ptr, procs, persistent, lost,
                   links, amiss>>
minimux_down(u, l) ==
    /\ Idle(u)
    /\ \E e \in Find(u, l) : othermux' = [othermux EXCEPT ![Muxp(u)] = e]
    /\ UNCHANGED <<alloc, mux_head, outq, ctl_strm, q_ptr, procs, persistent, lost,
                   links, amiss>>

----------------------------------------------------------------------------
(* mux_close.  Of the entries that point to this one only the one it       *)
(* points to is looked at.                                                 *)
LinkedHere(u) == {l \in Lower \ persistent : Linked(l) /\ ctl_strm[q_ptr[l]] = Muxp(u)}
Orphaned(e) == [x \in Entry |->
                   IF othermux[x] = e /\ x = othermux[e] THEN None ELSE othermux[x]]
mux_close(u) ==
    /\ Idle(u) /\ LinkedHere(u) = {}
    /\ LET e == Muxp(u)
       IN IF e \in On
          THEN /\ mux_head' = Without(e)
               /\ othermux' = Orphaned(e)
               /\ alloc' = alloc \ {e}
          ELSE UNCHANGED <<mux_head, othermux, alloc>>
    /\ q_ptr' = [q_ptr EXCEPT ![u] = None]
    /\ pc' = [pc EXCEPT ![u] = "closed"]
    /\ UNCHANGED <<outq, ctl_strm, cur, seen, target, persistent, lost, links, amiss>>

----------------------------------------------------------------------------
(* mux_wput, mux_lrput: data, and M_FLUSH, go to the queue of the other    *)
(* entry, or turn round.                                                   *)
forward(s) ==
    /\ amiss = {} /\ q_ptr[s] # None
    /\ LET e == othermux[q_ptr[s]]
       IN amiss' = IF e # None /\ e \notin alloc THEN {"stale"} ELSE {}
    /\ UNCHANGED <<table, q_ptr, procs, persistent, lost, links>>

Next == \/ \E u \in Upper :
             \/ mux_open(u) \/ OpenEnds(u) \/ mux_close(u) \/ LinkEnds(u)
             \/ \E l \in Lower : \/ \E p \in BOOLEAN : link(u, l, p)
                                 \/ unlink(u, l)
                                 \/ minimux_up(u, l) \/ minimux_down(u, l)
        \/ \E s \in Queue : forward(s)

Spec == Init /\ [][Next]_vars

----------------------------------------------------------------------------
\* Lowers that stay when the stream they were linked under is gone.
Left == {l \in Lower : Linked(l) /\ \A u \in Upper : Muxp(u) # ctl_strm[q_ptr[l]]}

\* Each stream forwards to one that is there, and each open or linked stream is
\* found by its ioctls and its close, as long as new_mux overlaps no other change
\* of the list and no persistent link outlasts its control stream.
RoutesSound ==
    lost = {} /\ Left = {} /\ "freed" \notin amiss =>
        /\ amiss = {}
        /\ \A s \in Queue : q_ptr[s] # None =>
              /\ q_ptr[s] \in On /\ outq[q_ptr[s]] = s
              /\ othermux[q_ptr[s]] # None => othermux[q_ptr[s]] \in alloc
        /\ On \subseteq alloc /\ Cardinality(On) = Len(mux_head)
=============================================================================
