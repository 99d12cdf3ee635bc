------------------------------- MODULE BufCall -------------------------------
(***************************************************************************)
(* bufcall and unbufcall (head/buffcall.c): a driver that could not        *)
(* allocate a message leaves a callback in a hash table of lists; a timer  *)
(* asks the queue runners to make the callbacks; a callback may ask again. *)
(*                                                                         *)
(* An entry lives at a node, which is on a list, on the free list or not   *)
(* allocated.  A list is the sequence of its nodes; the pointers an        *)
(* unlinked node still holds are not followed.  A step is a critical       *)
(* section of lis_bc_lock, which lis_dobufcall keeps from one callback to  *)
(* the next.                                                               *)
(***************************************************************************)
EXTENDS Integers, Sequences, FiniteSets, SequencesExt

CONSTANTS
    N_BCHASH,          \* the number of lists
    Node,              \* the memory for entries
    Caller, Runner,    \* driver contexts, queue-runner threads
    MaxId,             \* how many bufcalls are made
    NoNode,
    Racing             \* unbufcall may be called while another thread is in
                       \* unbufcall or lis_dobufcall

BufCallAssumption ==
    /\ N_BCHASH \in Nat \ {0} /\ MaxId \in Nat
    /\ IsFiniteSet(Node) /\ NoNode \notin Node
    /\ Caller \cap Runner = {} /\ Racing \in BOOLEAN

Ctx    == Caller \cup Runner
Bucket == 0 .. N_BCHASH - 1

VARIABLES
    lis_bchash, n_elts,    \* the lists and their counts
    lis_bc_cnt, lis_bcfreel,
    fresh,                 \* nodes not yet allocated
    id, state, usr_f,      \* fields of the nodes
    id_num,
    lis_strbcflag, lis_strbctimer,
    armed,                 \* the kernel timer will call bc_timeout
    pc, hand, new_id,      \* per context: where it is, its node, its new id
    list_i,                \* the loop index of lis_dobufcall
    called, cancelled      \* the calls made of each bufcall, those unbufcall
                           \* has returned for

nodes  == <<lis_bchash, n_elts, lis_bc_cnt, lis_bcfreel, id, state, usr_f>>
timer  == <<lis_strbcflag, lis_strbctimer, armed>>
thread == <<pc, hand, new_id, list_i>>
vars   == <<nodes, fresh, id_num, timer, thread, called, cancelled>>

Init ==
    /\ lis_bchash = [h \in Bucket |-> <<>>] /\ n_elts = [h \in Bucket |-> 0]
    /\ lis_bc_cnt = 0 /\ lis_bcfreel = <<>> /\ fresh = Node
    /\ id = [n \in Node |-> 0] /\ state = [n \in Node |-> "unused"]
    /\ usr_f = [n \in Node |-> FALSE]
    /\ id_num = 0
    /\ lis_strbcflag = FALSE /\ lis_strbctimer = FALSE /\ armed = FALSE
    /\ pc = [x \in Ctx |-> "idle"] /\ hand = [x \in Ctx |-> NoNode]
    /\ new_id = [x \in Ctx |-> 0] /\ list_i = [x \in Ctx |-> 0]
    /\ called = [b \in 1 .. MaxId |-> 0] /\ cancelled = {}

\* lis_dobufcall holds lis_bc_lock between callbacks.
LockFree == \A r \in Runner : pc[r] # "loop"

Goto(x, l) == pc' = [pc EXCEPT ![x] = l]

-----------------------------------------------------------------------------
(* bc_link                                                                 *)

NeverStarts == FALSE
StartsTimer == ~lis_strbctimer

NotCounted(h) == n_elts
Counted(h)    == [n_elts EXCEPT ![h] = @ + 1]

\* Node n is filled in for bufcall b and linked at the end of its list; the
\* timer is started if it is not running.
Link(n, b) ==
    LET h == b % N_BCHASH IN
    /\ id' = [id EXCEPT ![n] = b]
    /\ state' = [state EXCEPT ![n] = "active"]
    /\ usr_f' = [usr_f EXCEPT ![n] = TRUE]
    /\ lis_bchash' = [lis_bchash EXCEPT ![h] = Append(@, n)]
    /\ n_elts' = Counted(h)
    /\ lis_bc_cnt' = lis_bc_cnt + 1
    /\ lis_strbctimer' = (lis_strbctimer \/ StartsTimer)
    /\ armed' = (armed \/ StartsTimer)
    /\ UNCHANGED lis_strbcflag

MayCall(x) == /\ LockFree /\ id_num < MaxId
              /\ pc[x] = (IF x \in Caller THEN "idle" ELSE "callout")

\* A saved-up structure is taken and linked in one critical section.
BufcallReuse(x) ==
    /\ MayCall(x) /\ lis_bcfreel # <<>>
    /\ lis_bcfreel' = Tail(lis_bcfreel)
    /\ id_num' = id_num + 1
    /\ Link(Head(lis_bcfreel), id_num + 1)
    /\ UNCHANGED <<fresh, thread, called, cancelled>>

\* Else the id is taken, the lock released and a structure allocated, ...
BufcallAlloc(x) ==
    /\ MayCall(x) /\ lis_bcfreel = <<>>
    /\ id_num' = id_num + 1
    /\ new_id' = [new_id EXCEPT ![x] = id_num + 1]
    /\ Goto(x, IF x \in Caller THEN "alloc" ELSE "alloc_in_callout")
    /\ UNCHANGED <<nodes, fresh, timer, hand, list_i, called, cancelled>>

Allocating(x) == pc[x] \in {"alloc", "alloc_in_callout"}
Allocated(x)  == /\ new_id' = [new_id EXCEPT ![x] = 0]
                 /\ Goto(x, IF x \in Caller THEN "idle" ELSE "callout")

\* ... and linked, under the lock again, ...
BufcallLink(x) ==
    /\ Allocating(x) /\ LockFree
    /\ \E n \in fresh : fresh' = fresh \ {n} /\ Link(n, new_id[x])
    /\ Allocated(x)
    /\ UNCHANGED <<lis_bcfreel, id_num, hand, list_i, called, cancelled>>

\* ... or there is no memory, and bufcall returns 0.
BufcallFails(x) ==
    /\ Allocating(x) /\ fresh = {}
    /\ cancelled' = cancelled \cup {new_id[x]}
    /\ Allocated(x)
    /\ UNCHANGED <<nodes, fresh, id_num, timer, hand, list_i, called>>

-----------------------------------------------------------------------------
(* bc_ulink                                                                *)

StaysCounted(n) == n_elts
Uncounted(n)    == [n_elts EXCEPT ![id[n] % N_BCHASH] = @ - 1]

LinkAround(n) == lis_bchash' = [lis_bchash EXCEPT ![id[n] % N_BCHASH] = RemoveFirst(@, n)]

bc_ulink(n) ==
    /\ LinkAround(n)
    /\ n_elts' = Uncounted(n)
    /\ lis_bc_cnt' = lis_bc_cnt - 1
    /\ lis_bcfreel' = <<n>> \o lis_bcfreel
    /\ id' = [id EXCEPT ![n] = 0]
    /\ usr_f' = [usr_f EXCEPT ![n] = FALSE]
    /\ state' = [state EXCEPT ![n] = "unused"]

-----------------------------------------------------------------------------
(* lis_unbufcall: find the entry; wait, without the lock, until its        *)
(* callback is not being made; unlink it                                   *)

Alone(c) == /\ \A r \in Runner : pc[r] = "idle"
            /\ \A d \in Caller \ {c} : pc[d] \notin {"spin", "unlink"}

Found(b)      == {n \in Range(lis_bchash[b % N_BCHASH]) : id[n] = b}

UnbufcallFind(c, b) ==
    /\ c \in Caller /\ pc[c] = "idle" /\ LockFree
    /\ b \in 1 .. id_num \ cancelled /\ \A x \in Ctx : new_id[x] # b
    /\ Racing \/ Alone(c)
    /\ IF Found(b) = {}
       THEN cancelled' = cancelled \cup {b} /\ UNCHANGED thread
       ELSE /\ hand' = [hand EXCEPT ![c] = CHOOSE n \in Found(b) : TRUE]
            /\ new_id' = [new_id EXCEPT ![c] = b]
            /\ Goto(c, "spin")
            /\ UNCHANGED <<list_i, cancelled>>
    /\ UNCHANGED <<nodes, fresh, id_num, timer, called>>

UnbufcallSpin(c) ==
    /\ pc[c] = "spin" /\ state[hand[c]] # "callout"
    /\ Goto(c, "unlink")
    /\ UNCHANGED <<nodes, fresh, id_num, timer, hand, new_id, list_i, called,
                   cancelled>>

UnbufcallUnlink(c) ==
    /\ pc[c] = "unlink" /\ LockFree
    /\ bc_ulink(hand[c])
    /\ cancelled' = cancelled \cup {new_id[c]}
    /\ hand' = [hand EXCEPT ![c] = NoNode]
    /\ new_id' = [new_id EXCEPT ![c] = 0]
    /\ Goto(c, "idle")
    /\ UNCHANGED <<fresh, id_num, timer, list_i, called>>

-----------------------------------------------------------------------------
(* bc_timeout and lis_dobufcall                                            *)

BcTimeout ==
    /\ armed /\ LockFree
    /\ armed' = FALSE /\ lis_strbcflag' = TRUE
    /\ UNCHANGED <<nodes, fresh, id_num, lis_strbctimer, thread, called,
                   cancelled>>

Cleared  == FALSE

DoBufcall(r) ==
    /\ r \in Runner /\ pc[r] = "idle" /\ LockFree /\ lis_strbcflag
    /\ Racing \/ \A c \in Caller : pc[c] \notin {"spin", "unlink"}
    /\ lis_strbcflag' = Cleared
    /\ list_i' = [list_i EXCEPT ![r] = 0]
    /\ Goto(r, "loop")
    /\ UNCHANGED <<nodes, fresh, id_num, lis_strbctimer, armed, hand, new_id,
                   called, cancelled>>

Waits(h) == n_elts[h] # 0 /\ lis_bchash[h] # <<>>

\* The list the loop goes to next: the one it is on as long as that has
\* entries, then, if there are any bufcalls left, one further on.
Ahead(r)      == {h \in list_i[r] .. N_BCHASH - 1 :
                     Waits(h) /\ (h = list_i[r] \/ lis_bc_cnt # 0)}

\* The first entry of a list is called.
Callout(r) ==
    /\ pc[r] = "loop" /\ Ahead(r) # {}
    /\ LET h == CHOOSE h \in Ahead(r) : \A g \in Ahead(r) : h <= g
           n == Head(lis_bchash[h])
       IN  /\ list_i' = [list_i EXCEPT ![r] = h]
           /\ hand' = [hand EXCEPT ![r] = n]
           /\ state' = [state EXCEPT ![n] = "callout"]
           /\ called' = IF usr_f[n] THEN [called EXCEPT ![id[n]] = @ + 1]
                        ELSE called
    /\ Goto(r, "callout")
    /\ UNCHANGED <<lis_bchash, n_elts, lis_bc_cnt, lis_bcfreel, id, usr_f, fresh,
                   id_num, timer, new_id, cancelled>>

\* The function has returned.
CalloutReturn(r) ==
    /\ pc[r] = "callout" /\ LockFree
    /\ bc_ulink(hand[r])
    /\ hand' = [hand EXCEPT ![r] = NoNode]
    /\ Goto(r, "loop")
    /\ UNCHANGED <<fresh, id_num, timer, new_id, list_i, called, cancelled>>

Restarts      == lis_bc_cnt # 0

DoBufcallEnd(r) ==
    /\ pc[r] = "loop" /\ Ahead(r) = {}
    /\ lis_strbctimer' = Restarts /\ armed' = (armed \/ Restarts)
    /\ Goto(r, "idle")
    /\ UNCHANGED <<nodes, fresh, id_num, lis_strbcflag, hand, new_id, list_i,
                   called, cancelled>>

-----------------------------------------------------------------------------
CallStep(x)   == BufcallLink(x) \/ BufcallFails(x)
UnlinkStep(c) == UnbufcallSpin(c) \/ UnbufcallUnlink(c)
RunStep(r)    == DoBufcall(r) \/ Callout(r) \/ CalloutReturn(r) \/ DoBufcallEnd(r)

Next ==
    \/ \E x \in Ctx : BufcallReuse(x) \/ BufcallAlloc(x) \/ CallStep(x)
    \/ \E c \in Caller : UnlinkStep(c) \/ \E b \in 1 .. MaxId : UnbufcallFind(c, b)
    \/ BcTimeout
    \/ \E r \in Runner : RunStep(r)

Spec == Init /\ [][Next]_vars

\* The timer fires, the queues are run, a callback returns, and a thread inside
\* bufcall or unbufcall goes on.
Fairness == /\ WF_vars(BcTimeout)
            /\ \A x \in Ctx : WF_vars(CallStep(x))
            /\ \A c \in Caller : WF_vars(UnlinkStep(c))
            /\ WF_vars(\E r \in Runner : RunStep(r))

FairSpec == Spec /\ Fairness

-----------------------------------------------------------------------------
(* Properties                                                              *)

TypeOK ==
    /\ lis_bchash \in [Bucket -> Seq(Node)] /\ n_elts \in [Bucket -> Nat]
    /\ lis_bc_cnt \in Nat /\ lis_bcfreel \in Seq(Node) /\ fresh \in SUBSET Node
    /\ id \in [Node -> 0 .. MaxId] /\ usr_f \in [Node -> BOOLEAN]
    /\ state \in [Node -> {"unused", "active", "callout"}]
    /\ id_num \in 0 .. MaxId
    /\ lis_strbcflag \in BOOLEAN /\ lis_strbctimer \in BOOLEAN
    /\ armed \in BOOLEAN
    /\ pc \in [Ctx -> {"idle", "alloc", "alloc_in_callout", "spin", "unlink",
                       "loop", "callout"}]
    /\ hand \in [Ctx -> Node \cup {NoNode}] /\ new_id \in [Ctx -> 0 .. MaxId]
    /\ list_i \in [Ctx -> Bucket]
    /\ called \in [1 .. MaxId -> Nat] /\ cancelled \in SUBSET (1 .. MaxId)

\* The table holds together: a node is on the list of its id, once, or on the
\* free list, once, or unallocated; the counts are the lengths; the entry of a
\* callback that is being made is still on its list.
ListIntegrity ==
    /\ IsInjective(lis_bcfreel) /\ \A h \in Bucket : IsInjective(lis_bchash[h])
    /\ \A n \in Node :
         /\ id[n] = 0 <=> n \in fresh \cup Range(lis_bcfreel)
         /\ n \in fresh => n \notin Range(lis_bcfreel)
         /\ \A h \in Bucket : n \in Range(lis_bchash[h]) <=> id[n] # 0 /\ id[n] % N_BCHASH = h
    /\ \A h \in Bucket : n_elts[h] = Len(lis_bchash[h])
    /\ lis_bc_cnt = Cardinality({n \in Node : id[n] # 0})
    /\ \A r \in Runner : pc[r] = "callout" => id[hand[r]] # 0

\* A callback is made at most once, and not after unbufcall has returned.
CalledOnce == \A b \in 1 .. MaxId : called[b] <= 1
NotAfterCancel == [][\A b \in cancelled : called'[b] = called[b]]_vars

\* Whoever waits for a callback is not forgotten: the timer will fire, or has
\* fired, or lis_dobufcall is under way, which happens in one thread at a time.
TimerCovers ==
    /\ lis_bc_cnt > 0 => \/ armed \/ lis_strbcflag
                         \/ \E r \in Runner : pc[r] # "idle"
    /\ Cardinality({r \in Runner : pc[r] # "idle"}) <= 1

\* What the table promises whatever comes in between.
TableSound == TypeOK /\ ListIntegrity /\ CalledOnce /\ TimerCovers

\* Every bufcall that was accepted is called back, or cancelled.
Waiting(b) == \E n \in Node : id[n] = b
NoneWaits  == \A b \in 1 .. MaxId : Waiting(b) => called[b] > 0 \/ b \in cancelled
CalledBack == []<>NoneWaits
=============================================================================
