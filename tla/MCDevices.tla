---------------------------- MODULE MCDevices ----------------------------
(***************************************************************************)
(* Instances for TLC of drivers, of what a stream head does by itself and  *)
(* of what stands between a stream and its files, side by side: a          *)
(* behaviour is one of the loop-around driver, of the small multiplexor,   *)
(* of the administrative driver, of signals and polls, of the ioctls a     *)
(* stream head answers, of the ends of a pipe and a FIFO with their units, *)
(* of files passed through a pipe, or of streams attached to paths; the    *)
(* others stay as they are.                                                *)
(***************************************************************************)
EXTENDS Integers, Sequences, FiniteSets

CONSTANTS
    LoopStream, LoopMinor, None, Level, Hiwat, MaxWrite, LoopMaxCall, Upper, Lower,
    Entry, MaxLink, SadMinor, SadProcess, SadMaxOpen, Pid, Poller, Wants, AsksFor,
    Arrival, MaxQueue, MaxArrival, MaxAsk, Proc, Name, Cmds, MaxPush,
    HeadIoctlMaxCall, MaxSet, PipesStream, End0, End1, Units, PipesMaxOpen,
    MaxInterrupt, Own, Other, Copy, Fresh, MaxFds, MaxSend, FattachProcess, FattachStream, Path,
    FattachData, MaxFattach, FattachMaxCall

VARIABLES
    part,
    \* Loop
    lq_ptr, qptr, oqptr, opt, msgcnt, timr_hndl, timers, saved_msg, bufcalls, wq,
    noenb, enabled, renabled, act, up, wantw, writes, lcalls, orphaned, excused,
    lamiss,
    \* Minimux
    alloc, mux_head, outq, othermux, ctl_strm, mq_ptr, mpc, mcur, seen, target,
    persistent, mlost, links, mamiss,
    \* Sad
    srq, ioc_state, users, head, scmd, result, abandoned, disturbed, sopens,
    \* Events
    sd_siglist, sd_sigflags, q, sd_flag, full, noted, wsrv, ecur, evs, rest, told,
    changed, epc, ewant, arrivals, asks, covered, astray,
    \* HeadIoctl
    wioc, hpc, hcmd, found, mods, sd_pushcnt, miscounted, rdopt, setting, asked,
    overlapped, ihd, hsd_refcnt, leaked, strays, hcalls, sets,
    \* Pipes
    free_fifos, num_free_fifos, allocated, fifo_sem, pq_ptr, ppc, pwant, fdp,
    psd_refcnt, sd_peer, pSTRHUP, STRCLOSE, STRFROZEN, q_next, hd_peer, unfreeze,
    pipe, popens, interrupts, raced,
    \* PassFd
    f_count, fds, drq, dsd_rfdcnt, dsd_opencnt, pipe_count, free_passfp, tasklet,
    gone, connld, sends, dlost, damiss,
    \* Fattach
    data, lis_fattaches, mounts, via, sd_fattachcnt, fsd_opencnt, STRATTACH,
    fSTRHUP, fsd_rfdcnt, open, stack, fattaches, fcalls, famiss

lvars == <<lq_ptr, qptr, oqptr, opt, msgcnt, timr_hndl, timers, saved_msg, bufcalls,
           wq, noenb, enabled, renabled, act, up, wantw, writes, lcalls, orphaned,
           excused, lamiss>>
mvars == <<alloc, mux_head, outq, othermux, ctl_strm, mq_ptr, mpc, mcur, seen,
           target, persistent, mlost, links, mamiss>>
svars == <<srq, ioc_state, users, head, scmd, result, abandoned, disturbed, sopens>>
evars == <<sd_siglist, sd_sigflags, q, sd_flag, full, noted, wsrv, ecur, evs, rest,
           told, changed, epc, ewant, arrivals, asks, covered, astray>>
hvars == <<wioc, hpc, hcmd, found, mods, sd_pushcnt, miscounted, rdopt, setting,
           asked, overlapped, ihd, hsd_refcnt, leaked, strays, hcalls, sets>>
pvars == <<free_fifos, num_free_fifos, allocated, fifo_sem, pq_ptr, ppc, pwant, fdp,
           psd_refcnt, sd_peer, pSTRHUP, STRCLOSE, STRFROZEN, q_next, hd_peer,
           unfreeze, pipe, popens, interrupts, raced>>
dvars == <<f_count, fds, drq, dsd_rfdcnt, dsd_opencnt, pipe_count, free_passfp,
           tasklet, gone, connld, sends, dlost, damiss>>
fvars == <<data, lis_fattaches, mounts, via, sd_fattachcnt, fsd_opencnt, STRATTACH,
           fSTRHUP, fsd_rfdcnt, open, stack, fattaches, fcalls, famiss>>

L == INSTANCE Loop WITH Stream <- LoopStream, Minor <- LoopMinor, MaxCall <-
              LoopMaxCall, q_ptr <- lq_ptr, calls <- lcalls, amiss <- lamiss
M == INSTANCE Minimux WITH q_ptr <- mq_ptr, pc <- mpc, cur <- mcur, lost <- mlost,
              amiss <- mamiss
S == INSTANCE Sad WITH Minor <- SadMinor, Process <- SadProcess, MaxOpen <-
              SadMaxOpen, rq <- srq, cmd <- scmd, opens <- sopens
E == INSTANCE Events WITH Asks <- AsksFor, cur <- ecur, pc <- epc, want <- ewant
H == INSTANCE HeadIoctl WITH MaxCall <- HeadIoctlMaxCall, pc <- hpc, cmd <- hcmd,
              sd_refcnt <- hsd_refcnt, calls <- hcalls
P == INSTANCE Pipes WITH Stream <- PipesStream, MaxOpen <- PipesMaxOpen, q_ptr <-
              pq_ptr, pc <- ppc, want <- pwant, sd_refcnt <- psd_refcnt, STRHUP <-
              pSTRHUP, opens <- popens
D == INSTANCE PassFd WITH rq <- drq, sd_rfdcnt <- dsd_rfdcnt, sd_opencnt <-
              dsd_opencnt, lost <- dlost, amiss <- damiss
F == INSTANCE Fattach WITH Process <- FattachProcess, Stream <- FattachStream, Data
              <- FattachData, MaxCall <- FattachMaxCall, sd_opencnt <- fsd_opencnt,
              STRHUP <- fSTRHUP, sd_rfdcnt <- fsd_rfdcnt, calls <- fcalls, amiss <-
              famiss

ASSUME Assumptions == L!SlotAssumption /\ E!PidAssumption

\* A part that rests starts in one state.
MCInit == /\ part \in {"loop", "minimux", "sad", "events", "ioctls", "pipes",
                           "passfd", "fattach"}
          /\ L!Init /\ M!Init /\ S!Init /\ E!Init /\ H!Init /\ P!Init /\ D!Init /\ F!Init

MCNext ==
    /\ UNCHANGED part
    /\ \/ part = "loop"    /\ L!Next /\ UNCHANGED <<mvars, svars, evars, hvars, pvars, dvars, fvars>>
       \/ part = "minimux" /\ M!Next /\ UNCHANGED <<lvars, svars, evars, hvars, pvars, dvars, fvars>>
       \/ part = "sad"     /\ S!Next /\ UNCHANGED <<lvars, mvars, evars, hvars, pvars, dvars, fvars>>
       \/ part = "events"  /\ E!Next /\ UNCHANGED <<lvars, mvars, svars, hvars, pvars, dvars, fvars>>
       \/ part = "ioctls"  /\ H!Next /\ UNCHANGED <<lvars, mvars, svars, evars, pvars, dvars, fvars>>
       \/ part = "pipes"   /\ P!Next /\ UNCHANGED <<lvars, mvars, svars, evars, hvars, dvars, fvars>>
       \/ part = "passfd"  /\ D!Next /\ UNCHANGED <<lvars, mvars, svars, evars, hvars, pvars, fvars>>
       \/ part = "fattach" /\ F!Next /\ UNCHANGED <<lvars, mvars, svars, evars, hvars, pvars, dvars>>

MCSpec == MCInit /\ [][MCNext]_<<part, lvars, mvars, svars, evars, hvars, pvars, dvars, fvars>>

\* What the modules state, each of its own behaviours: in those of the others it is
\* at rest in its initial state.
LoopSound ==
    part = "loop" => L!CoupledByTwos /\ L!SharedByOrphansOnly /\ L!NothingHeldBack
RoutesSound    == part = "minimux" => M!RoutesSound
DialogueInStep == part = "sad" => S!DialogueInStep
EventsTold     == part = "events" => E!WhoAskedIsTold /\ E!NoPollerForgotten
HeadSound      == part = "ioctls" => H!HeadSound
PipesSound     == part = "pipes" => P!UnitsSound /\ P!PipesSound
PassesSound    == part = "passfd" => D!PassesSound
AttachSound    == part = "fattach" => F!AttachSound
=============================================================================
