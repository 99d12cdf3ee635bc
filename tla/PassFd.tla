-------------------------------- MODULE PassFd --------------------------------
(***************************************************************************)
(* Files that are passed through a pipe (head/linux-mdep.c: lis_sendfd,    *)
(* lis_recvfd, lis_free_passfp) by I_SENDFD and I_RECVFD, or by the module *)
(* connld, which passes a new pipe to the server for each client.          *)
(*                                                                         *)
(* One end of the pipe receives.  An M_PASSFP in its read queue holds a    *)
(* file, which stays referenced.  A file of the receiving end itself is    *)
(* passed as a copy that the head does not know of, lest the end can never *)
(* be closed.  Messages that nobody receives are closed by a tasklet.      *)
(***************************************************************************)
EXTENDS Integers, Sequences, FiniteSets

CONSTANTS
    Own,         \* files of the receiving end
    Other,       \* files of other streams
    Copy,        \* struct files for copies
    Fresh,       \* files for the pipes that connld makes
    None,
    MaxFds,      \* how many descriptors a file may get
    MaxSend      \* how many messages are sent

File == Own \cup Other \cup Copy \cup Fresh

VARIABLES
    f_count, fds,     \* file -> references; descriptors
    rq,               \* read queue of the receiving end
    sd_rfdcnt, sd_opencnt,
    pipe_count,       \* readers and writers of the end
    free_passfp,      \* messages that nobody received
    tasklet,          \* it is scheduled
    gone,             \* the receiving end is closed
    connld,           \* clients of connld: the new pipes they got
    sends,
    lost,             \* file -> references nobody will give back
    amiss             \* what went wrong

files == <<f_count, fds, lost>>
end   == <<rq, sd_rfdcnt, sd_opencnt, pipe_count, gone>>
vars  == <<files, end, free_passfp, tasklet, connld, sends, amiss>>

Init == /\ f_count = [f \in File |-> IF f \in Own \cup Other THEN 1 ELSE 0]
        /\ fds = f_count
        /\ lost = [f \in File |-> 0]
        /\ rq = <<>> /\ sd_rfdcnt = 0 /\ sd_opencnt = Cardinality(Own)
        /\ pipe_count = Cardinality(Own)
        /\ free_passfp = <<>> /\ tasklet = FALSE /\ gone = FALSE
        /\ connld = {} /\ sends = 0 /\ amiss = {}

Sends == sends < MaxSend /\ sends' = sends + 1

Passes(f, r) == [type |-> "M_PASSFP", fp |-> f, rfp |-> r]
Data         == [type |-> "M_DATA", fp |-> None, rfp |-> None]
IsPass(m)    == m.type = "M_PASSFP"
Passed(s)    == SelectSeq(s, IsPass)

Add(c, f, n) == [c EXCEPT ![f] = @ + n]

----------------------------------------------------------------------------
(* lis_free_passfp and its tasklet                                         *)

\* The messages go on the list; the tasklet is scheduled for the first.
Frees(s) ==
    /\ free_passfp' = free_passfp \o s
    /\ tasklet' = (tasklet \/ (free_passfp = <<>> /\ s # <<>>))

\* The last reference of a file of the end closes the end.
Releases(f)  == f_count[f] = 1 /\ f \in Own \cup Copy

\* The last close of the end: what is queued is flushed.
EndCloses ==
    /\ sd_opencnt' = sd_opencnt - 1
    /\ pipe_count' = pipe_count - 1
    /\ gone' = (sd_opencnt = 1)
    /\ rq' = IF sd_opencnt = 1 THEN <<>> ELSE rq
    /\ sd_rfdcnt' = IF sd_opencnt = 1 THEN sd_rfdcnt - Len(Passed(rq)) ELSE sd_rfdcnt

IsCopy(m)  == m.rfp # None
Discards(s) == IF \E i \in DOMAIN s : IsCopy(s[i]) THEN {"copy discarded"} ELSE {}

\* lis_tq_free_passfp: one message.  A copy is put without closing the stream.
Tasklet ==
    /\ tasklet /\ free_passfp # <<>>
    /\ f_count' = Add(f_count, free_passfp[1].fp, -1)
    /\ free_passfp' = Tail(free_passfp)
    /\ UNCHANGED <<fds, lost, end, connld, tasklet, amiss, sends>>

TaskletEnds == /\ tasklet /\ free_passfp = <<>>
               /\ tasklet' = FALSE
               /\ UNCHANGED <<files, end, free_passfp, connld, amiss, sends>>

----------------------------------------------------------------------------
(* lis_sendfd.  The queue of the receiver may be impossible to lock: the   *)
(* message is freed then, but not what it holds.                           *)

\* The message reaches the read queue, or a head that is being closed.
Delivered(f, r) == /\ rq' = Append(rq, Passes(f, r))
                   /\ sd_rfdcnt' = sd_rfdcnt + 1
                   /\ UNCHANGED <<lost, amiss>>
Undelivered(f)  == /\ "not locked" \notin amiss
                   /\ lost' = Add(lost, f, 1)
                   /\ sd_rfdcnt' = sd_rfdcnt + 1
                   /\ amiss' = amiss \cup {"not locked"}
                   /\ UNCHANGED rq

NotReferenced(f) == UNCHANGED f_count
Referenced(f) == f_count' = Add(f_count, f, 1)
SendFd(f) ==
    /\ Sends /\ ~gone /\ fds[f] > 0 /\ f \notin Own \cup Copy
    /\ Referenced(f)
    /\ Delivered(f, None) \/ Undelivered(f)
    /\ UNCHANGED <<fds, sd_opencnt, pipe_count, gone, free_passfp, tasklet, connld>>

\* A file of the receiving end: a copy with the same stream head is passed, which
\* counts as a reader and a writer, but not as an open of the head.
SendCopy(f, c) ==
    /\ Sends /\ ~gone /\ fds[f] > 0 /\ f \in Own \cup Copy
    /\ c \in Copy /\ f_count[c] = 0
    /\ f_count' = [f_count EXCEPT ![c] = 1]
    /\ pipe_count' = pipe_count + 1
    /\ Delivered(c, f) \/ Undelivered(c)
    /\ UNCHANGED <<fds, sd_opencnt, gone, free_passfp, tasklet, connld>>

----------------------------------------------------------------------------
(* lis_recvfd, by I_RECVFD on a file of the receiving end, and what else   *)
(* takes an M_PASSFP from the queue.                                       *)

May(r) == ~gone /\ fds[r] > 0 /\ r \in Own \cup Copy

\* There is no descriptor left: the message is put back, uncounted.
RecvNoFds(r) ==
    /\ May(r) /\ rq # <<>> /\ IsPass(rq[1]) /\ "no fds" \notin amiss
    /\ sd_rfdcnt' = sd_rfdcnt - 1
    /\ amiss' = amiss \cup {"no fds"}
    /\ UNCHANGED <<files, rq, sd_opencnt, pipe_count, gone, free_passfp, tasklet, connld, sends>>

Received == rq' = Tail(rq) /\ sd_rfdcnt' = sd_rfdcnt - 1

\* The copy comes back to the file it was made of: the file is used itself.
RecvBack(r) ==
    /\ May(r) /\ rq # <<>> /\ IsPass(rq[1]) /\ rq[1].rfp = r /\ fds[r] < MaxFds
    /\ Received
    /\ f_count' = [f_count EXCEPT ![r] = @ + 1, ![rq[1].fp] = 0]
    /\ fds' = Add(fds, r, 1)
    /\ pipe_count' = pipe_count - 1
    /\ UNCHANGED <<lost, sd_opencnt, gone, free_passfp, tasklet, connld, amiss, sends>>

RecvFd(r) ==
    /\ May(r) /\ rq # <<>> /\ IsPass(rq[1]) /\ rq[1].rfp # r
    /\ fds[rq[1].fp] < MaxFds
    /\ Received
    /\ fds' = Add(fds, rq[1].fp, 1)
    /\ amiss' = amiss \cup IF IsCopy(rq[1]) THEN {"copy opened"} ELSE {}
    /\ UNCHANGED <<f_count, lost, sd_opencnt, pipe_count, gone, free_passfp, tasklet,
                   connld, sends>>

\* read and getmsg discard it; so does a flush of the queue.
Taken(r, n) == SubSeq(r, 1, n)
Discard(r) ==
    /\ May(r)
    /\ \E n \in {1, Len(rq)} :
          /\ n > 0 /\ n <= Len(rq)
          /\ LET taken == Passed(Taken(rq, n)) IN
             /\ Frees(taken) /\ amiss' = amiss \cup Discards(taken)
             /\ sd_rfdcnt' = sd_rfdcnt - Len(taken)
          /\ rq' = SubSeq(rq, n + 1, Len(rq))
    /\ UNCHANGED <<files, sd_opencnt, pipe_count, gone, connld, sends>>

Write == /\ Sends /\ ~gone /\ rq' = Append(rq, Data)
         /\ UNCHANGED <<files, sd_rfdcnt, sd_opencnt, pipe_count, gone, free_passfp, tasklet,
                        connld, amiss>>

\* A descriptor is closed, by a process that may be gone already.
Close(f) ==
    /\ fds[f] > 0
    /\ fds' = Add(fds, f, -1) /\ f_count' = Add(f_count, f, -1)
    /\ IF Releases(f) /\ ~gone
       THEN /\ EndCloses
            /\ IF gone' THEN /\ Frees(Passed(rq)) /\ amiss' = amiss \cup Discards(rq)
               ELSE UNCHANGED <<free_passfp, tasklet, amiss>>
       ELSE UNCHANGED <<end, free_passfp, tasklet, amiss>>
    /\ UNCHANGED <<lost, connld, sends>>

----------------------------------------------------------------------------
(* connld_open: a client that opens the other end gets one end of a new    *)
(* pipe, whose other end is passed.  The new file is not referenced again. *)

Connect(f) ==
    /\ Sends /\ ~gone /\ f \in Fresh /\ f_count[f] = 0 /\ f \notin connld
    /\ connld' = connld \cup {f}
    /\ f_count' = [f_count EXCEPT ![f] = 1]
    /\ Delivered(f, None) \/ Undelivered(f)
    /\ UNCHANGED <<fds, sd_opencnt, pipe_count, gone, free_passfp, tasklet>>

----------------------------------------------------------------------------
Next == \/ Tasklet \/ TaskletEnds \/ Write
        \/ \E f \in File : \/ SendFd(f) \/ Close(f) \/ Connect(f)
                           \/ \E c \in Copy : SendCopy(f, c)
        \/ \E r \in Own \cup Copy : RecvNoFds(r) \/ RecvBack(r) \/ RecvFd(r) \/ Discard(r)

Spec == Init /\ [][Next]_vars

----------------------------------------------------------------------------
(* Properties                                                              *)

Holding(s, f) == Cardinality({i \in DOMAIN s : s[i].fp = f})

\* A file has as many references as there are descriptors of it, messages that hold
\* it, on whatever queue or list, and references that a failed I_SENDFD has lost: a
\* passed file is neither closed in flight nor kept open by a message that is gone.
FilesCounted ==
    \A f \in File : f_count[f] = fds[f] + Holding(rq, f) + Holding(free_passfp, f) + lost[f]

\* What nobody received is closed: the tasklet is there as long as its list is.
NoneForgotten == free_passfp # <<>> => tasklet

\* The count by which lis_doclose decides on detaching the end is that of the
\* messages, unless a lock or a descriptor could not be had.
PassesCounted ==
    amiss \cap {"not locked", "no fds"} = {} => sd_rfdcnt = Len(Passed(rq))

\* Nobody has a descriptor of an end that is closed, unless a copy was received
\* through another file.
EndOutlives ==
    "copy opened" \notin amiss =>
        /\ gone => \A f \in Own \cup Copy : fds[f] = 0
        /\ amiss \cap {"copy discarded", "not locked"} = {} /\ ~gone =>
               pipe_count = sd_opencnt + Cardinality({i \in DOMAIN rq : IsCopy(rq[i])})

PassesSound == FilesCounted /\ NoneForgotten /\ PassesCounted /\ EndOutlives
=============================================================================
