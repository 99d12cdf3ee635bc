------------------------------ MODULE FifoSync ------------------------------
(***************************************************************************)
(* Opening and closing a FIFO: lis_fifo_open_sync and lis_fifo_close_sync  *)
(* (head/linux-mdep.c) as lis_stropen and lis_doclose (head/head.c) call   *)
(* them.  An open for reading or for writing alone waits for its partner.  *)
(*                                                                         *)
(* A step is a critical section of the pipe mutex of the inode, which a    *)
(* process that waits gives up.  What else lis_stropen and lis_doclose do  *)
(* is in OpenClose; here only sd_opening, the semaphore that a whole open  *)
(* holds and the first half of a close, is kept.                           *)
(***************************************************************************)
EXTENDS Integers, FiniteSets

CONSTANTS
    File,              \* open calls, each with its struct file
    MaxWCounter        \* how often the files are opened

FifoAssumption == MaxWCounter \in Nat

Modes == {{"r"}, {"w"}, {"r", "w"}}

VARIABLES
    sd_opening,        \* the semaphore of the stream head is up
    i_pipe,            \* the counters are allocated
    readers, writers, r_counter, w_counter,
    pc,
    f_mode, nonblock,  \* per file
    cur,               \* the counter as the waiting open read it
    opens

pipe == <<i_pipe, readers, writers, r_counter, w_counter>>
file == <<f_mode, nonblock>>
vars == <<sd_opening, pipe, pc, file, cur, opens>>

Init ==
    /\ sd_opening = TRUE
    /\ i_pipe = FALSE /\ readers = 0 /\ writers = 0 /\ r_counter = 0 /\ w_counter = 0
    /\ pc = [f \in File |-> "closed"]
    /\ f_mode = [f \in File |-> {"r"}] /\ nonblock = [f \in File |-> FALSE]
    /\ cur = [f \in File |-> 0] /\ opens = 0

Goto(f, l) == pc' = [pc EXCEPT ![f] = l]
Reads(f)   == IF "r" \in f_mode[f] THEN 1 ELSE 0
Writes(f)  == IF "w" \in f_mode[f] THEN 1 ELSE 0

-----------------------------------------------------------------------------
(* lis_stropen                                                             *)

Call(f) ==
    /\ pc[f] = "closed" /\ opens < MaxWCounter
    /\ opens' = opens + 1
    /\ \E m \in Modes, n \in BOOLEAN :
           f_mode' = [f_mode EXCEPT ![f] = m] /\ nonblock' = [nonblock EXCEPT ![f] = n]
    /\ Goto(f, "opening")
    /\ UNCHANGED <<sd_opening, pipe, cur>>

GetOpeningSem(f) ==
    /\ pc[f] = "opening" /\ sd_opening
    /\ sd_opening' = FALSE
    /\ Goto(f, "sync")
    /\ UNCHANGED <<pipe, file, cur, opens>>

OpeningSemSignal(f) ==
    /\ pc[f] = "opening" /\ ~sd_opening
    /\ Goto(f, "closed")
    /\ UNCHANGED <<sd_opening, pipe, file, cur, opens>>

\* The open ends, well or not; only an open that ends well is closed.
ReleaseOpeningSem(f) ==
    /\ pc[f] \in {"opened", "failed"}
    /\ sd_opening' = TRUE
    /\ Goto(f, IF pc[f] = "opened" THEN "open" ELSE "closed")
    /\ UNCHANGED <<pipe, file, cur, opens>>

-----------------------------------------------------------------------------
(* lis_fifo_open_sync                                                      *)

\* lis_fifo_info_new: the counters start at 1, and at nobody.
Counter(c) == IF i_pipe THEN c ELSE 1

Refused(f)  == f_mode[f] = {"w"} /\ nonblock[f] /\ readers = 0
\* Whether the file has to wait for its partner, all counted.
Unpaired(f) == \/ f_mode[f] = {"r"} /\ ~nonblock[f] /\ writers = 0
               \/ f_mode[f] = {"w"} /\ readers = 0

Count(f) ==
    /\ i_pipe' = TRUE
    /\ readers' = readers + Reads(f) /\ writers' = writers + Writes(f)
    /\ r_counter' = Counter(r_counter) + Reads(f)
    /\ w_counter' = Counter(w_counter) + Writes(f)

OpenSync(f) ==
    /\ pc[f] = "sync" /\ ~Refused(f)
    /\ Count(f)
    /\ Goto(f, IF Unpaired(f) THEN "waiting" ELSE "opened")
    /\ cur' = [cur EXCEPT ![f] = IF ~Unpaired(f) THEN 0
                                 ELSE IF f_mode[f] = {"r"} THEN Counter(w_counter)
                                 ELSE Counter(r_counter)]
    /\ UNCHANGED <<sd_opening, file, opens>>

\* What becomes of the counters when the last file is gone.
Allocated(r, w)      == r + w > 0

Freed(r, w) ==
    /\ i_pipe' = Allocated(r, w)
    /\ r_counter' = (IF Allocated(r, w) THEN r_counter ELSE 0)
    /\ w_counter' = (IF Allocated(r, w) THEN w_counter ELSE 0)

OpenRefused(f) ==
    /\ pc[f] = "sync" /\ Refused(f)
    /\ Freed(readers, writers)
    /\ Goto(f, "failed")
    /\ UNCHANGED <<sd_opening, readers, writers, file, cur, opens>>

\* lis_fifo_wait_for_partner: until the counter has changed, or a signal.
PartnerCame(f) == cur[f] # IF f_mode[f] = {"r"} THEN w_counter ELSE r_counter

StillCounted(n, k) == n
Uncounted(n, k)    == n - k

\* A signal that is pending then makes the open fail.
WaitEnds(f, signal) ==
    /\ pc[f] = "waiting" /\ (signal \/ PartnerCame(f))
    /\ IF signal
       THEN /\ readers' = Uncounted(readers, Reads(f))
            /\ writers' = Uncounted(writers, Writes(f))
            /\ Freed(readers', writers')
       ELSE UNCHANGED pipe
    /\ Goto(f, IF signal THEN "failed" ELSE "opened")
    /\ cur' = [cur EXCEPT ![f] = 0]
    /\ UNCHANGED <<sd_opening, file, opens>>

-----------------------------------------------------------------------------
(* lis_doclose                                                             *)

\* lis_fifo_close_sync comes before everything else, ...
CloseSync(f) ==
    /\ pc[f] = "open"
    /\ readers' = readers - Reads(f) /\ writers' = writers - Writes(f)
    /\ Freed(readers - Reads(f), writers - Writes(f))
    /\ Goto(f, "closing")
    /\ UNCHANGED <<sd_opening, file, cur, opens>>

\* ... and no signal ends the wait for sd_opening, which is given back when it
\* is clear whether this is the last close.
CloseRest(f) ==
    /\ pc[f] = "closing" /\ sd_opening
    /\ Goto(f, "closed")
    /\ UNCHANGED <<sd_opening, pipe, file, cur, opens>>

-----------------------------------------------------------------------------
OpenStep(f) == \/ GetOpeningSem(f) \/ ReleaseOpeningSem(f)
               \/ OpenSync(f) \/ OpenRefused(f)

Next == \E f \in File : \/ Call(f) \/ OpenStep(f)
                        \/ OpeningSemSignal(f) \/ \E s \in BOOLEAN : WaitEnds(f, s)
                        \/ CloseSync(f) \/ CloseRest(f)

Spec == Init /\ [][Next]_vars

\* Opens and closes go on, the semaphores are fair; nobody sends a signal.
Fairness == \A f \in File : /\ SF_vars(OpenStep(f)) /\ WF_vars(WaitEnds(f, FALSE))
                            /\ SF_vars(CloseRest(f))

FairSpec == Spec /\ Fairness

-----------------------------------------------------------------------------
(* Properties                                                              *)

Has(f) == pc[f] \in {"waiting", "opened", "open"}

\* The counts of readers and writers are those of the files that are open or
\* wait in open, whoever is interrupted, refused or closed; the counters exist
\* as long as somebody counts; whoever waits has counted itself, and has no
\* partner, or has been told so.
CountsAreFiles ==
    /\ readers = Cardinality({f \in File : Has(f) /\ "r" \in f_mode[f]})
    /\ writers = Cardinality({f \in File : Has(f) /\ "w" \in f_mode[f]})
    /\ i_pipe = (readers + writers > 0)
    /\ \A f \in File : pc[f] = "waiting" /\ ~PartnerCame(f) =>
           IF f_mode[f] = {"r"} THEN writers = 0 ELSE readers = 0

\* lis_fifo_open_sync implements "conventional FIFO synchronization at
\* open/close time": two processes that open the FIFO for reading and for
\* writing both get it open.
PartnersMeet ==
    \A f, g \in File :
        (pc[f] = "waiting" /\ f_mode[f] = {"r"}) /\ (pc[g] = "opening" /\ f_mode[g] = {"w"})
            ~> pc[f] # "waiting"
=============================================================================
