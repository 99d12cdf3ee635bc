------------------------------- MODULE Fattach -------------------------------
(***************************************************************************)
(* fattach and fdetach (head/linux-mdep.c): a stream is mounted on a path  *)
(* of another file system, and an instance of lis_fattach_t per mount      *)
(* remembers which.  Every mount is an open of the stream.  A stream that  *)
(* is hung up is detached from its paths when it is closed, before anybody *)
(* gets a lock, and detaching closes it: the calls are nested.             *)
(*                                                                         *)
(* A process has a stack of frames, [at, d, s, path, n]: where it is in    *)
(* umount2, lis_doclose or lis_fdetach_stream, and what these have read.   *)
(* The kernel keeps, per path, the mounts on top of each other; it asks    *)
(* the file system first, then takes the mount away, and gives up the      *)
(* superblock when no file is open through it.                             *)
(***************************************************************************)
EXTENDS Integers, Sequences, FiniteSets

CONSTANTS
    Process, Stream, Path, Data,   \* Data: the instances
    None,
    MaxFattach, MaxCall            \* calls of fattach, and of anything

VARIABLES
    data,            \* instance -> its contents, with at = "free" if it is not allocated
    lis_fattaches,   \* the instances on the list
    mounts,          \* path -> what is mounted on it, the latest first
    via,             \* instance -> the stream that a file has open through its mount
    sd_fattachcnt, sd_opencnt, STRATTACH, STRHUP,
    sd_rfdcnt,       \* streams with an M_PASSFP in their queue
    open,            \* streams whose own file is open
    stack,           \* process -> frames
    fattaches, calls,
    amiss            \* what the code does not expect has happened

inst  == <<data, lis_fattaches, mounts, via>>
heads == <<sd_fattachcnt, sd_opencnt, STRATTACH, STRHUP, sd_rfdcnt, open>>
vars  == <<inst, heads, stack, fattaches, calls, amiss>>

Free == [at |-> "free", head |-> None, path |-> None]

Init == /\ data = [d \in Data |-> Free] /\ lis_fattaches = <<>>
        /\ mounts = [x \in Path |-> <<>>] /\ via = [d \in Data |-> None]
        /\ sd_fattachcnt = [s \in Stream |-> 0] /\ sd_opencnt = [s \in Stream |-> 1]
        /\ STRATTACH = {} /\ STRHUP = {} /\ sd_rfdcnt = {} /\ open = Stream
        /\ stack = [p \in Process |-> <<>>] /\ fattaches = 0 /\ calls = 0 /\ amiss = {}

Frame(at, d, s, x, n) == [at |-> at, d |-> d, s |-> s, path |-> x, n |-> n]
top(p)       == stack[p][1]
In(p, at)    == stack[p] # <<>> /\ top(p).at = at
Idle(p)      == stack[p] = <<>>
Push(p, f)   == stack' = [stack EXCEPT ![p] = <<f>> \o @]
Replace(p, f) == stack' = [stack EXCEPT ![p] = <<f>> \o Tail(@)]
\* A call above a frame that goes on at another place afterwards.
Calls(p, at, f) == stack' = [stack EXCEPT ![p] = <<f, [@[1] EXCEPT !.at = at]>> \o Tail(@)]
Pop(p)       == stack' = [stack EXCEPT ![p] = Tail(@)]
Goto(p, at)  == Replace(p, [top(p) EXCEPT !.at = at])
Call         == calls < MaxCall /\ calls' = calls + 1 /\ UNCHANGED fattaches
Quiet        == UNCHANGED <<fattaches, calls>>
Blames(w, b) == amiss' = IF b THEN amiss \cup {w} ELSE amiss
Without(q, d) == SelectSeq(q, LAMBDA e : e # d)

----------------------------------------------------------------------------
(* lis_fattach: the instance, the mount, the list.                         *)

\* lis_fattach_new.  The call needs a file that is open.
FattachNew(p, d, s, x) ==
    /\ Idle(p) /\ s \in open /\ data[d].at = "free" /\ fattaches < MaxFattach
    /\ fattaches' = fattaches + 1
    /\ data' = [data EXCEPT ![d] = [at |-> "new", head |-> s, path |-> x]]
    /\ Push(p, Frame("mount", d, s, x, 0))
    /\ UNCHANGED <<lis_fattaches, mounts, via, heads, calls, amiss>>

\* lis_fs_fattach_sb: the stream is opened once more and marked.
Attached(s) == /\ sd_opencnt' = [sd_opencnt EXCEPT ![s] = @ + 1]
               /\ sd_fattachcnt' = [sd_fattachcnt EXCEPT ![s] = @ + 1]
               /\ STRATTACH' = STRATTACH \cup {s}

Mount(p) ==
    /\ In(p, "mount") /\ Goto(p, "insert")
    /\ Attached(top(p).s)
    /\ data' = [data EXCEPT ![top(p).d].at = "mounted"]
    /\ mounts' = [mounts EXCEPT ![top(p).path] = <<top(p).d>> \o @]
    /\ UNCHANGED <<lis_fattaches, via, STRHUP, sd_rfdcnt, open, amiss>> /\ Quiet

\* The mount fails, before the file system knows of it or for want of a dentry:
\* the instance is freed.
MountFails(p) ==
    /\ In(p, "mount") /\ Pop(p)
    /\ data' = [data EXCEPT ![top(p).d] = Free]
    /\ UNCHANGED <<lis_fattaches, mounts, via, heads, amiss>> /\ Quiet

\* The mount is visible by now.
Insert(p) ==
    /\ In(p, "insert") /\ Pop(p)
    /\ lis_fattaches' = <<top(p).d>> \o lis_fattaches
    /\ UNCHANGED <<data, mounts, via, heads, amiss>> /\ Quiet

----------------------------------------------------------------------------
(* umount2 with MNT_FORCE and MNT_DETACH, by lis_fdetach or by anybody.    *)

Top(x) == mounts[x][1]
Umount(p, x) ==
    /\ Idle(p) /\ Call /\ mounts[x] # <<>>
    /\ Push(p, Frame("begin", Top(x), None, x, 0))
    /\ UNCHANGED <<inst, heads, amiss>>

\* umount without MNT_FORCE: nothing is begun, and a busy mount is refused.
PlainUmount(p, x) ==
    /\ Idle(p) /\ Call /\ mounts[x] # <<>> /\ via[Top(x)] = None
    /\ Push(p, Frame("detach", Top(x), None, x, 0))
    /\ UNCHANGED <<inst, heads, amiss>>

Begun(d) == \E p \in Process : \E i \in DOMAIN stack[p] :
                stack[p][i].d = d /\ stack[p][i].at = "clear"

\* lis_super_umount_begin: one attachment less; then the stream is closed.  An
\* instance without a head has been here before.
StillAttached(s) ==
    /\ sd_fattachcnt' = [sd_fattachcnt EXCEPT ![s] = @ - 1]
    /\ STRATTACH' = IF sd_fattachcnt[s] < 1 THEN STRATTACH \ {s} ELSE STRATTACH
Detached(s) ==
    /\ sd_fattachcnt' = [sd_fattachcnt EXCEPT ![s] = @ - 1]
    /\ STRATTACH' = IF sd_fattachcnt[s] <= 1 THEN STRATTACH \ {s} ELSE STRATTACH

\* lis_super_put_super calls it for a mount that was not begun: n = 1.
AfterBegin(p) == IF top(p).n = 1 THEN "put_super" ELSE "detach"

UmountBegin(p) ==
    LET d == top(p).d  s == data[d].head
    IN /\ In(p, "begin")
       /\ IF s = None
          THEN Goto(p, AfterBegin(p)) /\ UNCHANGED <<sd_fattachcnt, STRATTACH, amiss>>
          ELSE /\ Detached(s)
               /\ Calls(p, "clear", Frame("doclose", None, s, None, 0))
               /\ Blames("twice", Begun(d))
       /\ UNCHANGED <<inst, sd_opencnt, STRHUP, sd_rfdcnt, open>> /\ Quiet

UmountClear(p) ==
    /\ In(p, "clear") /\ Goto(p, AfterBegin(p))
    /\ data' = [data EXCEPT ![top(p).d].head = None]
    /\ Blames("freed", data[top(p).d].at = "free")
    /\ UNCHANGED <<lis_fattaches, mounts, via, heads>> /\ Quiet

\* The kernel takes the mount away, unless somebody else has; a call holds the
\* mount it works on, and so does a file, and the last of them gives it up.
UnmountedBy(q, d) == \E i \in DOMAIN stack[q] :
    /\ stack[q][i].d = d /\ stack[q][i].n # 1
    /\ stack[q][i].at \in {"begin", "clear", "detach"}
Mounted(d) == \E x \in Path : \E i \in DOMAIN mounts[x] : mounts[x][i] = d

Held(p, d) == \/ via[d] # None
              \/ \E q \in Process \ {p} : UnmountedBy(q, d)
              \/ \E i \in 2..Len(stack[p]) : stack[p][i].d = d
Detach(p) ==
    LET d == top(p).d  x == top(p).path
    IN /\ In(p, "detach")
       /\ mounts' = [mounts EXCEPT ![x] = Without(@, d)]
       /\ IF Held(p, d) THEN Pop(p) ELSE Goto(p, "put_super")
       /\ UNCHANGED <<data, lis_fattaches, via, heads, amiss>> /\ Quiet

\* lis_super_put_super: off the list, which it may not be on yet, and freed.
Removed(d) == lis_fattaches' = Without(lis_fattaches, d)
Listed(d)  == \E i \in DOMAIN lis_fattaches : lis_fattaches[i] = d
PutSuper(p) ==
    LET d == top(p).d
    IN /\ In(p, "put_super")
       /\ IF data[d].head # None
          THEN Replace(p, [top(p) EXCEPT !.at = "begin", !.n = 1])
               /\ UNCHANGED <<data, lis_fattaches, amiss>>
          ELSE /\ Pop(p) /\ Removed(d) /\ data' = [data EXCEPT ![d] = Free]
               /\ Blames("early", ~Listed(d))
       /\ UNCHANGED <<mounts, via, heads>> /\ Quiet

----------------------------------------------------------------------------
(* lis_doclose                                                             *)

Hung(s) == s \in STRHUP \cap STRATTACH /\ s \notin sd_rfdcnt
DoClose(p) ==
    LET s == top(p).s
    IN /\ In(p, "doclose")
       /\ IF Hung(s) THEN Calls(p, "close", Frame("fdetach_stream", None, s, None, -1))
          ELSE Goto(p, "close")
       /\ UNCHANGED <<inst, heads, amiss>> /\ Quiet

CountClose(p) ==
    /\ In(p, "close") /\ Pop(p)
    /\ sd_opencnt' = [sd_opencnt EXCEPT ![top(p).s] = IF @ > 0 THEN @ - 1 ELSE 0]
    /\ UNCHANGED <<inst, sd_fattachcnt, STRATTACH, STRHUP, sd_rfdcnt, open, amiss>> /\ Quiet

(* lis_fdetach_stream: n tries, each with the first instance of the list.  *)
\* Another instance of the list is not looked at; what is unmounted is what is on
\* top of the path.
FdetachStream(p) ==
    LET f == top(p)  s == f.s
        n == IF f.n = -1 THEN Len(lis_fattaches) ELSE f.n
        d == lis_fattaches[1]
        x == data[d].path
    IN /\ In(p, "fdetach_stream")
       /\ IF sd_fattachcnt[s] = 0 \/ n = 0 \/ lis_fattaches = <<>>
          THEN Pop(p) /\ UNCHANGED amiss
          ELSE IF data[d].head # s
          THEN Replace(p, [f EXCEPT !.n = n - 1]) /\ Blames("not first", TRUE)
          ELSE IF mounts[x] = <<>>
          THEN Replace(p, [f EXCEPT !.n = n - 1]) /\ UNCHANGED amiss
          ELSE /\ stack' = [stack EXCEPT ![p] = <<Frame("begin", Top(x), None, x, 0),
                                                  [f EXCEPT !.n = n - 1]>> \o Tail(@)]
               /\ Blames("not on top", Top(x) # d)
       /\ UNCHANGED <<inst, heads>> /\ Quiet

----------------------------------------------------------------------------
(* What else happens to the streams.                                       *)

\* The file of the stream is closed, ...
CloseFile(p, s) ==
    /\ Idle(p) /\ Call /\ s \in open /\ open' = open \ {s}
    /\ \A q \in Process : \A i \in DOMAIN stack[q] :
           stack[q][i].at = "mount" => stack[q][i].s # s
    /\ Push(p, Frame("doclose", None, s, None, 0))
    /\ UNCHANGED <<inst, sd_fattachcnt, sd_opencnt, STRATTACH, STRHUP, sd_rfdcnt, amiss>>

\* ... it is opened through a path and that file closed, which may be what a
\* detached mount waits for, ...
OpenPath(x) ==
    LET d == Top(x)
    IN /\ mounts[x] # <<>> /\ via[d] = None /\ data[d].head # None /\ Call
       /\ via' = [via EXCEPT ![d] = data[d].head]
       /\ sd_opencnt' = [sd_opencnt EXCEPT ![data[d].head] = @ + 1]
       /\ UNCHANGED <<data, lis_fattaches, mounts, sd_fattachcnt, STRATTACH, STRHUP,
                      sd_rfdcnt, open, stack, amiss>>

ClosePath(p, d) ==
    /\ Idle(p) /\ via[d] # None /\ via' = [via EXCEPT ![d] = None]
    /\ stack' = [stack EXCEPT ![p] =
           <<Frame("doclose", None, via[d], None, 0)>>
           \o IF Mounted(d) \/ \E q \in Process : UnmountedBy(q, d) THEN <<>> ELSE <<Frame("put_super", d, None, None, 0)>>]
    /\ UNCHANGED <<data, lis_fattaches, mounts, heads, amiss>> /\ Quiet

\* ... an M_HANGUP reaches the stream head, ...
Hangup(p, s) ==
    /\ Idle(p) /\ Call /\ s \notin STRHUP /\ sd_opencnt[s] > 0
    /\ STRHUP' = STRHUP \cup {s}
    /\ IF s \in STRATTACH \ sd_rfdcnt
       THEN Push(p, Frame("fdetach_stream", None, s, None, -1))
       ELSE UNCHANGED stack
    /\ UNCHANGED <<inst, sd_fattachcnt, sd_opencnt, STRATTACH, sd_rfdcnt, open, amiss>>

\* ... and files are passed to it and received.
PassFp(s) ==
    /\ Call /\ sd_opencnt[s] > 0 /\ s \notin STRHUP
    /\ sd_rfdcnt' = IF s \in sd_rfdcnt THEN sd_rfdcnt \ {s} ELSE sd_rfdcnt \cup {s}
    /\ UNCHANGED <<inst, sd_fattachcnt, sd_opencnt, STRATTACH, STRHUP, open, stack, amiss>>

----------------------------------------------------------------------------
Next ==
    \/ \E p \in Process :
          \/ \E d \in Data, s \in Stream, x \in Path : FattachNew(p, d, s, x)
          \/ Mount(p) \/ MountFails(p) \/ Insert(p)
          \/ \E x \in Path : Umount(p, x) \/ PlainUmount(p, x)
          \/ UmountBegin(p) \/ UmountClear(p) \/ Detach(p) \/ PutSuper(p)
          \/ DoClose(p) \/ CountClose(p) \/ FdetachStream(p)
          \/ \E s \in Stream : CloseFile(p, s) \/ Hangup(p, s)
          \/ \E d \in Data : ClosePath(p, d)
    \/ \E x \in Path : OpenPath(x)
    \/ \E s \in Stream : PassFp(s)

Spec == Init /\ [][Next]_vars

----------------------------------------------------------------------------
Frames == {<<p, i>> : p \in Process, i \in 1..8}
Under(at, s) == Cardinality({f \in Frames : /\ f[2] \in DOMAIN stack[f[1]]
                                            /\ stack[f[1]][f[2]].at \in at
                                            /\ stack[f[1]][f[2]].s = s})
Attachments(s) == {d \in Data : data[d].at = "mounted" /\ data[d].head = s /\ ~Begun(d)}

\* A stream is marked as attached, and counts its attachments, exactly as it is
\* mounted: what lis_doclose and the M_HANGUP go by.  And it counts as open once
\* for its file, once for every mount and every file opened through one, until
\* the close of each of these has come to its end: no attachment outlives the
\* stream head, and none keeps it.
AttachCounted ==
    amiss \cap {"twice", "freed"} = {} =>
        \A s \in Stream :
            /\ sd_fattachcnt[s] = Cardinality(Attachments(s))
            /\ s \in STRATTACH <=> Attachments(s) # {}
            /\ sd_opencnt[s] = (IF s \in open THEN 1 ELSE 0) + sd_fattachcnt[s]
                               + Cardinality({d \in Data : via[d] = s})
                               + Under({"doclose", "close"}, s)

\* The list holds instances that are allocated, each once, and once every call
\* has returned just those that are mounted or held by an open file.
ListHoldsAttached ==
    amiss \cap {"early", "twice", "freed"} = {} =>
        /\ \A i, j \in DOMAIN lis_fattaches :
               lis_fattaches[i] = lis_fattaches[j] => i = j
        /\ \A d \in Data : Listed(d) => data[d].at = "mounted"
        /\ (\A p \in Process : Idle(p)) =>
               \A d \in Data : Listed(d) <=> Mounted(d) \/ via[d] # None

AttachSound == AttachCounted /\ ListHoldsAttached
=============================================================================
