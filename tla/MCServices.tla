----------------------------- MODULE MCServices -----------------------------
(***************************************************************************)
(* Instances for TLC of the parts that are checked for safety alone, side  *)
(* by side: a behaviour is one of a spin lock, of the data blocks of a     *)
(* pool, of the message utilities, of the opens of a FIFO, of the links    *)
(* between three streams, of the module table or of the autopush           *)
(* configuration, and what the other modules speak of stays as it is.      *)
(***************************************************************************)
EXTENDS SpinLocks

CONSTANTS
    Hdr, Task, NoHdr, NoOne, Width, SharedPullup,
    Type, MaxBlocks, MaxBytes, MaxUtilities,
    File, MaxWCounter,
    Proc, p1, p2, Null, s1, s2, s3, Stream, Cmds, MaxNaks, MaxLinks, MaxUnlinks,
    Name, m1, m2, NoName, MAX_STRMOD, Signals, MaxCalls, MaxLoads,
    Entry, LastMinor, MaxList, MaxSets, MaxGone

\* s1 may be linked above s2 and s3, s2 above s3.
MayLink == {<<s1, s2>>, <<s1, s3>>, <<s2, s3>>}
Does == [p \in {p1, p2} |-> IF p = p1 THEN {"link", "unlink"} ELSE {"link", "close"}]
Pushes == {<<m1, m2>>}

VARIABLES
    part,
    \* Messages
    used, b_datap, db_ref, buffer, pool, mpc, loc, lis_msg_lock, twice,
    \* MsgUtil
    mp, was, utility, result, utilities,
    \* FifoSync
    sd_opening, i_pipe, readers, writers, r_counter, w_counter, fpc, f_mode, nonblock,
    cur, opens,
    \* Multiplexor
    files, sd_opencnt, sd_linkcnt, STPLEX, STRCLOSE, mx_hd, mx_next, mx_index, mx_cmd,
    muxid, wioc, xstack, links, unlinks, naks, mishaps,
    \* Modules
    lis_mod_reg, lis_fmodcnt, f_name, f_str, f_state, f_count, f_sem, inited, stack,
    object, unreg, lpc, name, id, st, calls, loads, lostSem, stale, mistaken,
    \* Autopush
    apush, ent, apush_nref, registered, driver, lis_apush_lock, apc, entry, mods, gone,
    at, rest, sets, removals, unseen, freedUnder

mvars == <<used, b_datap, db_ref, buffer, pool, mpc, loc, lis_msg_lock, twice>>
uvars == <<mp, was, utility, result, utilities>>
fvars == <<sd_opening, i_pipe, readers, writers, r_counter, w_counter, fpc, f_mode,
           nonblock, cur, opens>>
xvars == <<files, sd_opencnt, sd_linkcnt, STPLEX, STRCLOSE, mx_hd, mx_next, mx_index,
           mx_cmd, muxid, wioc, xstack, links, unlinks, naks, mishaps>>
lvars == <<lis_mod_reg, lis_fmodcnt, f_name, f_str, f_state, f_count, f_sem, inited,
           stack, object, unreg, lpc, name, id, st, calls, loads, lostSem, stale, mistaken>>
avars == <<apush, ent, apush_nref, registered, driver, lis_apush_lock, apc, entry, mods,
           gone, at, rest, sets, removals, unseen, freedUnder>>

M == INSTANCE Messages WITH pc <- mpc
U == INSTANCE MsgUtil WITH call <- utility, calls <- utilities, MaxCalls <- MaxUtilities
F == INSTANCE FifoSync WITH pc <- fpc
X == INSTANCE Multiplexor WITH stack <- xstack
L == INSTANCE Modules WITH pc <- lpc
A == INSTANCE Autopush WITH Mod <- {m1, m2}, pc <- apc, a <- entry, lock <- lis_apush_lock

ASSUME Assumptions ==
    /\ F!FifoAssumption /\ X!LinkAssumption
    /\ L!NameAssumption /\ L!TableAssumption /\ L!ModulesBounds
    /\ A!MinorAssumption /\ A!NullAssumption /\ A!PushesAssumption /\ A!AutopushBounds

\* A part that rests starts in one state.
MCInit == /\ part \in {"locks", "messages", "utilities", "fifo", "links", "modules",
                       "autopush"}
          /\ Init /\ M!Init /\ U!Init /\ F!Init /\ X!Init /\ L!Init /\ A!Init
          /\ part # "locks" => uses["isr"] = {}
          /\ part # "utilities" => mp = CHOOSE m \in U!Message : TRUE

Rest(others) == UNCHANGED others

MCNext ==
    /\ UNCHANGED part
    /\ \/ part = "locks" /\ Next /\ Rest(<<mvars, uvars, fvars, xvars, lvars, avars>>)
       \/ part = "messages" /\ M!Next /\ Rest(<<vars, uvars, fvars, xvars, lvars, avars>>)
       \/ part = "utilities" /\ U!Next /\ Rest(<<vars, mvars, fvars, xvars, lvars, avars>>)
       \/ part = "fifo" /\ F!Next /\ Rest(<<vars, mvars, uvars, xvars, lvars, avars>>)
       \/ part = "links" /\ X!Next /\ Rest(<<vars, mvars, uvars, fvars, lvars, avars>>)
       \/ part = "modules" /\ L!Next /\ Rest(<<vars, mvars, uvars, fvars, xvars, avars>>)
       \/ part = "autopush" /\ A!Next /\ Rest(<<vars, mvars, uvars, fvars, xvars, lvars>>)

MCSpec == MCInit /\ [][MCNext]_<<part, vars, mvars, uvars, fvars, xvars, lvars, avars>>

\* What the modules state, each of its own behaviours: in those of the others it is
\* at rest in one of its initial states.
BlocksSound    == /\ part = "messages" => M!FreedExactly
                  /\ part = "utilities" => U!MessageIntact
CountsAreFiles == part = "fifo" => F!CountsAreFiles
LinksSound     == part = "links" => X!ListsHoldLinked /\ X!OpensCounted /\ X!DriverAgrees
SomeCallGoesOn == /\ part = "links" => X!SomeCallGoesOn
                  /\ part = "modules" => L!SomeCallGoesOn
TablesSound    == /\ part = "modules" => L!InUseIsCounted
                  /\ part = "autopush" =>
                         A!ChainKept /\ A!ListedIsRegistered /\ A!NoNameMadeUp
ConfiguresMinors == A!ConfiguresMinors
=============================================================================
