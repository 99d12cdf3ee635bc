------------------------------ MODULE Messages ------------------------------
(***************************************************************************)
(* Message blocks, data blocks and buffers (head/msg.c, head/msgutl.c): a  *)
(* block is a header (mblk_t) and a data block (dblk_t) in one piece of    *)
(* memory; the data block describes a buffer: inside the header, allocated *)
(* apart, or the user's (esballoc).  b_datap of a header points at its own *)
(* data block or, after dupb or pullupmsg, at the one of another header,   *)
(* which then stays for as long as that data block is used.  db_ref counts *)
(* the users of a data block.                                              *)
(*                                                                         *)
(* Tasks on different CPUs duplicate, pull up and free the blocks of one   *)
(* pool.  A block is worked on by one task at a time: one that has been    *)
(* sent on is its receiver's alone.  A header is named by its memory, and  *)
(* so is the data block in it.                                             *)
(***************************************************************************)
EXTENDS Integers, FiniteSets

CONSTANTS
    Hdr,              \* the memory of the msgb cache
    Task,
    NoHdr, NoOne,
    Width,            \* db_ref is an unsigned char: 256
    SharedPullup      \* whether pullupmsg is used on a block that was dup'ed

VARIABLES
    used,             \* headers that are allocated
    b_datap, db_ref,
    buffer,           \* of each data block, see Buffers
    pool,             \* blocks nobody is working on
    pc, loc,          \* of each task: where it is, and its local variables
    lis_msg_lock,     \* the task that holds it
    twice             \* something was freed that was free

vars == <<used, b_datap, db_ref, buffer, pool, pc, loc, lis_msg_lock, twice>>

Given   == {"internal", "external", "user"}
NoLoc   == [bp |-> NoHdr, dp |-> NoHdr, newbp |-> NoHdr,
            free_hdr |-> FALSE, locked |-> FALSE, ref |-> 0]

Init ==
    /\ used = {} /\ pool = {}
    /\ b_datap = [h \in Hdr |-> NoHdr]
    /\ db_ref = [h \in Hdr |-> 0]
    /\ buffer = [h \in Hdr |-> "none"]
    /\ pc = [t \in Task |-> "idle"] /\ loc = [t \in Task |-> NoLoc]
    /\ lis_msg_lock = NoOne /\ twice = FALSE

-----------------------------------------------------------------------------
(* Helpers                                                                 *)

Go(t, where, r) == pc' = [pc EXCEPT ![t] = where] /\ loc' = [loc EXCEPT ![t] = r]

\* allocb or esballoc with a header the cache has: initb sets the fields, d is
\* what b_datap is then made to point at.
Initb(h, kind, d) ==
    /\ used' = used \cup {h}
    /\ b_datap' = [b_datap EXCEPT ![h] = d]
    /\ db_ref' = [db_ref EXCEPT ![h] = 1]
    /\ buffer' = [buffer EXCEPT ![h] = kind]

\* freehdr gives the headers hs back to the cache.
Freehdr(hs) ==
    /\ used' = used \ hs
    /\ twice' = (twice \/ ~(hs \subseteq used))

Unlock(t) == lis_msg_lock' = IF loc[t].locked THEN NoOne ELSE lis_msg_lock

\* lis_freedb returns: to lis_freeb, whose block is gone, or to lis_pullupmsg,
\* which lets mp use newbp's data block and cuts newbp off from it.
Datap(t, datap) ==
    IF loc[t].newbp = NoHdr THEN datap
    ELSE [datap EXCEPT ![loc[t].bp] = loc[t].newbp, ![loc[t].newbp] = NoHdr]
FreedbReturn(t, datap) ==
    /\ b_datap' = Datap(t, datap)
    /\ pool' = IF loc[t].newbp = NoHdr THEN pool ELSE pool \cup {loc[t].bp}
    /\ Go(t, "idle", NoLoc)

-----------------------------------------------------------------------------
(* Blocks come and go                                                      *)

\* lis_allocb, lis_esballoc; without memory they return NULL.
Allocb(t, kind) ==
    /\ pc[t] = "idle"
    /\ \E h \in Hdr \ used : Initb(h, kind, h) /\ pool' = pool \cup {h}
    /\ UNCHANGED <<pc, loc, lis_msg_lock, twice>>

\* lis_dupb copies the header into a new one, ...
Dupb(t) ==
    /\ pc[t] = "idle"
    /\ \E mp \in pool, h \in Hdr \ used :
         /\ Initb(h, "internal", b_datap[mp])
         /\ pool' = pool \ {mp}
         /\ Go(t, "dup", [NoLoc EXCEPT !.bp = mp, !.newbp = h])
    /\ UNCHANGED <<lis_msg_lock, twice>>

\* ... then counts it with the lock held.
CountedNew(t) == loc[t].newbp
CountedIn(t)  == b_datap[loc[t].bp]
DupbRef(t) ==
    /\ pc[t] = "dup" /\ lis_msg_lock = NoOne
    /\ db_ref' = [db_ref EXCEPT ![CountedIn(t)] = (@ + 1) % Width]
    /\ pool' = pool \cup {loc[t].bp, loc[t].newbp}
    /\ Go(t, "idle", NoLoc)
    /\ UNCHANGED <<used, b_datap, buffer, lis_msg_lock, twice>>

Freeb(t) ==
    /\ pc[t] = "idle"
    /\ \E mp \in pool :
         /\ pool' = pool \ {mp}
         /\ Go(t, "freedb", [NoLoc EXCEPT !.bp = mp, !.dp = b_datap[mp], !.free_hdr = TRUE])
    /\ UNCHANGED <<used, b_datap, db_ref, buffer, lis_msg_lock, twice>>

\* lis_pullupmsg copies the data into a new block with a buffer of its own and
\* frees the data block of mp but not mp itself.
Unshared(mp) == b_datap[mp] = mp => db_ref[mp] = 1
Pullupmsg(t) ==
    /\ pc[t] = "idle"
    /\ \E mp \in pool, h \in Hdr \ used :
         /\ SharedPullup \/ Unshared(mp)
         /\ Initb(h, "external", h)
         /\ pool' = pool \ {mp}
         /\ Go(t, "freedb", [NoLoc EXCEPT !.bp = mp, !.dp = b_datap[mp], !.newbp = h])
    /\ UNCHANGED <<lis_msg_lock, twice>>

-----------------------------------------------------------------------------
(* lis_freedb(bp, free_hdr); dp is the data block bp uses, bp itself stands *)
(* for mydp                                                                *)

\* The lock is taken unless this is the only user.
LockedNever(t) == FALSE
Locked(t)      == db_ref[loc[t].dp] # 1
FreedbTest(t) ==
    /\ pc[t] = "freedb"
    /\ Go(t, IF Locked(t) THEN "lock" ELSE "read", [loc[t] EXCEPT !.locked = Locked(t)])
    /\ UNCHANGED <<used, b_datap, db_ref, buffer, pool, lis_msg_lock, twice>>

FreedbLock(t) ==
    /\ pc[t] = "lock" /\ lis_msg_lock = NoOne
    /\ lis_msg_lock' = t
    /\ Go(t, "read", loc[t])
    /\ UNCHANGED <<used, b_datap, db_ref, buffer, pool, twice>>

\* --dp->db_ref, in two steps as it is not an atomic operation.
FreedbRead(t) ==
    /\ pc[t] = "read"
    /\ IF db_ref[loc[t].dp] = 0 THEN FreedbReturn(t, b_datap) /\ Unlock(t)
       ELSE /\ Go(t, "write", [loc[t] EXCEPT !.ref = db_ref[loc[t].dp] - 1])
            /\ UNCHANGED <<b_datap, pool, lis_msg_lock>>
    /\ UNCHANGED <<used, db_ref, buffer, twice>>

FreedbLast(t) ==
    /\ pc[t] = "write" /\ loc[t].ref = 0
    /\ db_ref' = [db_ref EXCEPT ![loc[t].dp] = 0]
    /\ Unlock(t)
    /\ Go(t, "zero", loc[t])
    /\ UNCHANGED <<used, b_datap, buffer, pool, twice>>

\* Others use dp: a header with another's data block may go, if its own data
\* block is not used either; one that stays with its own counts again.
Uncounts(t)   == loc[t].free_hdr /\ loc[t].dp # loc[t].bp
FreedbShared(t) ==
    LET less == [db_ref EXCEPT ![loc[t].dp] = loc[t].ref]
        mine == less[loc[t].bp]
    IN  /\ pc[t] = "write" /\ loc[t].ref > 0
        /\ db_ref' = IF Uncounts(t) /\ mine > 0
                     THEN [less EXCEPT ![loc[t].bp] = mine - 1]
                     ELSE IF ~loc[t].free_hdr /\ loc[t].dp = loc[t].bp
                     THEN [less EXCEPT ![loc[t].bp] = (mine + 1) % Width] ELSE less
        /\ Freehdr(IF Uncounts(t) /\ mine = 1 THEN {loc[t].bp} ELSE {})
        /\ Unlock(t)
        /\ FreedbReturn(t, b_datap)
        /\ UNCHANGED buffer

\* Nobody does: its buffer is freed, and the header it is in unless that is bp.
Emptied(kind) == CASE kind = "external" -> "none"
                   [] kind \in {"user", "returned"} -> "returned"
                   [] OTHER -> kind
FreedbZero(t) ==
    LET d == loc[t].dp
        b == loc[t].bp
    IN  /\ pc[t] = "zero"
        /\ buffer' = [buffer EXCEPT ![d] = Emptied(@)]
        /\ twice' = (twice \/ buffer[d] = "returned" \/ (d # b /\ d \notin used))
        /\ used' = IF d = b THEN used ELSE used \ {d}
        /\ b_datap' = [b_datap EXCEPT ![b] = b]
        /\ db_ref' = IF d = b /\ ~loc[t].free_hdr
                     THEN [db_ref EXCEPT ![b] = (@ + 1) % Width] ELSE db_ref
        /\ Go(t, IF d # b /\ loc[t].free_hdr THEN "mine" ELSE "last", loc[t])
        /\ UNCHANGED <<pool, lis_msg_lock>>

\* --mydp->db_ref without the lock: read, ...
FreedbMine(t) ==
    /\ pc[t] = "mine"
    /\ Go(t, IF db_ref[loc[t].bp] > 0 THEN "less" ELSE "last",
          [loc[t] EXCEPT !.ref = db_ref[loc[t].bp]])
    /\ UNCHANGED <<used, b_datap, db_ref, buffer, pool, lis_msg_lock, twice>>

\* ... and written.
FreedbLess(t) ==
    /\ pc[t] = "less"
    /\ db_ref' = [db_ref EXCEPT ![loc[t].bp] = loc[t].ref - 1]
    /\ Go(t, "last", loc[t])
    /\ UNCHANGED <<used, b_datap, buffer, pool, lis_msg_lock, twice>>

FreedbEnd(t) ==
    /\ pc[t] = "last"
    /\ Freehdr(IF loc[t].free_hdr /\ db_ref[loc[t].bp] = 0 THEN {loc[t].bp} ELSE {})
    /\ FreedbReturn(t, b_datap)
    /\ UNCHANGED <<db_ref, buffer, lis_msg_lock>>

-----------------------------------------------------------------------------
Next == \E t \in Task :
    \/ \E kind \in Given : Allocb(t, kind)
    \/ Dupb(t) \/ DupbRef(t) \/ Freeb(t) \/ Pullupmsg(t)
    \/ FreedbTest(t) \/ FreedbLock(t) \/ FreedbRead(t) \/ FreedbLast(t)
    \/ FreedbShared(t) \/ FreedbZero(t) \/ FreedbMine(t)
    \/ FreedbLess(t) \/ FreedbEnd(t)

Spec == Init /\ [][Next]_vars

-----------------------------------------------------------------------------
(* Properties                                                              *)

\* Whoever holds a block can use its data, whatever others do with duplicates
\* of it: the data block, the buffer and both headers are allocated.
Whole(m) == /\ {m, b_datap[m]} \subseteq used
            /\ db_ref[b_datap[m]] > 0
            /\ buffer[b_datap[m]] \in Given
MessagesWhole == ~twice /\ \A m \in pool : Whole(m)

\* When no block is left every header is back in the cache, and a header goes
\* back only after its buffer.
NothingLeaked ==
    /\ pool = {} /\ (\A t \in Task : pc[t] = "idle") => used = {}
    /\ \A h \in Hdr \ used : buffer[h] \notin {"external", "user"}

\* Nothing is freed twice, too early or never.
FreedExactly == MessagesWhole /\ NothingLeaked
=============================================================================
