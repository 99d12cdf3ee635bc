------------------------------- MODULE HeadIoctl -------------------------------
(***************************************************************************)
(* The ioctls that the stream head answers itself (lis_unlocked_ioctl):    *)
(* the modules of the stream (I_PUSH, I_POP, I_LOOK, I_FIND, I_LIST), its  *)
(* read options (I_SRDOPT, and M_SETOPTS from below) and I_FDINSERT, which *)
(* looks into another stream.                                              *)
(*                                                                         *)
(* The ioctls of a stream come one at a time.  What comes from below, and  *)
(* what happens to the other stream, goes on meanwhile.  How a module is   *)
(* attached and detached, and the wait for room, are in other modules.     *)
(***************************************************************************)
EXTENDS Integers, Sequences, FiniteSets

CONSTANTS
    Proc, None,
    Name,              \* names of modules
    Cmds,              \* the commands that are used
    MaxPush, MaxCall, MaxSet

VARIABLES
    wioc,              \* the process whose ioctl is under way
    pc, cmd,           \* process -> where it is; its command
    found,             \* process -> names seen on the way down
    mods, sd_pushcnt,  \* modules between the head and the driver, top first
    miscounted,        \* modules attached but not counted, less those counted but gone
    rdopt, setting,    \* read options; setter -> its steps left to do, and what to go back to
    asked,             \* the so_readopt of the last M_SETOPTS
    overlapped,        \* two have set the read options at once
    ihd,               \* the other stream: "open", "linked", "freed"
    sd_refcnt,         \* its references: one as long as it is open
    leaked,            \* references that nobody will give back
    strays,            \* it was freed when a process had found it
    calls, sets

who    == <<wioc, pc, cmd>>
stack  == <<mods, sd_pushcnt, miscounted, found>>
opts   == <<rdopt, setting, asked, overlapped>>
other  == <<ihd, sd_refcnt, leaked, strays>>
vars   == <<who, stack, opts, other, calls, sets>>

Mode == {"RNORM", "RMSGD", "RMSGN"}
Prot == {"RPROTNORM", "RPROTDAT", "RPROTDIS"}
Opts(m, p) == [mode |-> m, prot |-> p]
Setter == Proc \cup {"M_SETOPTS"}

Init == /\ wioc = None /\ pc = [p \in Proc |-> "idle"] /\ cmd = [p \in Proc |-> None]
        /\ found = [p \in Proc |-> <<>>] /\ mods = <<>> /\ sd_pushcnt = 0 /\ miscounted = 0
        /\ rdopt = Opts("RNORM", "RPROTNORM") /\ setting = [s \in Setter |-> <<>>]
        /\ asked = None /\ overlapped = FALSE
        /\ ihd = "open" /\ sd_refcnt = 1 /\ leaked = 0 /\ strays = {}
        /\ calls = 0 /\ sets = 0

Goto(p, at) == pc' = [pc EXCEPT ![p] = at]
At(p, at)   == pc[p] = at

\* The ioctl begins and waits for its turn; a signal may end it.
Call(p, c) == /\ At(p, "idle") /\ calls < MaxCall /\ calls' = calls + 1
              /\ cmd' = [cmd EXCEPT ![p] = c] /\ Goto(p, "lock")
              /\ UNCHANGED <<wioc, stack, opts, other, sets>>
Signalled(p) == /\ At(p, "lock") /\ wioc # None /\ Goto(p, "idle")
                /\ cmd' = [cmd EXCEPT ![p] = None]
                /\ UNCHANGED <<wioc, stack, opts, other, calls, sets>>
Unlocked == TRUE
Locks    == wioc = None
Lock(p) == /\ At(p, "lock") /\ Locks /\ wioc' = p /\ Goto(p, cmd[p])
           /\ UNCHANGED <<cmd, stack, opts, other,
                          calls, sets>>
Returns(p) == wioc' = None /\ Goto(p, "idle") /\ cmd' = [cmd EXCEPT ![p] = None]

----------------------------------------------------------------------------
(* The modules                                                             *)

\* push_mod: the module is below the head before it is counted, and stays there
\* when the synchronisation of its queues cannot be set up.
Push(p, n) ==
    /\ At(p, "I_PUSH") /\ Len(mods) < MaxPush
    /\ \/ /\ mods' = <<n>> \o mods /\ sd_pushcnt' = sd_pushcnt + 1
          /\ Returns(p) /\ UNCHANGED miscounted
       \/ /\ mods' = <<n>> \o mods /\ miscounted' = miscounted + 1
          /\ Returns(p) /\ UNCHANGED sd_pushcnt
       \/ Returns(p) /\ UNCHANGED <<mods, sd_pushcnt, miscounted>>
    /\ UNCHANGED <<found, opts, other, calls, sets>>

\* pop_mod: it is counted off first, and stays when the wait for its services is
\* interrupted.
PopCount(p) ==
    /\ At(p, "I_POP")
    /\ IF sd_pushcnt = 0 THEN Returns(p) /\ UNCHANGED sd_pushcnt
       ELSE sd_pushcnt' = sd_pushcnt - 1 /\ Goto(p, "detach") /\ UNCHANGED <<wioc, cmd>>
    /\ UNCHANGED <<mods, miscounted, found, opts, other, calls, sets>>
PopDetach(p) ==
    /\ At(p, "detach") /\ Returns(p)
    /\ \/ mods # <<>> /\ mods' = Tail(mods) /\ UNCHANGED miscounted
       \/ miscounted' = miscounted + 1 /\ UNCHANGED mods
    /\ UNCHANGED <<sd_pushcnt, found, opts, other, calls, sets>>

\* I_LOOK, I_FIND and I_LIST: down the write queues, name by name; I_FIND no further
\* than the count, I_LIST through the driver.
NamesBelow == mods \o <<"driver">>
NextName(p) == NamesBelow[Len(found[p]) + 1]
Least(n) == IF n < Len(NamesBelow) THEN n ELSE Len(NamesBelow)
Limit(p) == CASE cmd[p] = "I_LOOK" -> Least(IF sd_pushcnt > 0 THEN 1 ELSE 0)
              [] cmd[p] = "I_FIND" -> Least(sd_pushcnt)
              [] cmd[p] = "I_LIST" -> Len(NamesBelow)
Looking == {"I_LOOK", "I_FIND", "I_LIST"}
Find(p) ==
    /\ pc[p] \in Looking /\ Len(found[p]) < Limit(p)
    /\ found' = [found EXCEPT ![p] = Append(@, NextName(p))]
    /\ UNCHANGED <<who, mods, sd_pushcnt, miscounted, opts, other, calls, sets>>
Found(p) ==
    /\ pc[p] \in Looking /\ Len(found[p]) >= Limit(p) /\ Returns(p)
    /\ found' = [found EXCEPT ![p] = <<>>]
    /\ UNCHANGED <<mods, sd_pushcnt, miscounted, opts, other, calls, sets>>

----------------------------------------------------------------------------
(* The read options: set_readopt in its steps, by I_SRDOPT or M_SETOPTS.   *)

\* The mode is cleared and set, then the protocol bits, if any are asked for; what
\* is wrong brings back what was there when the call began.
Steps(m, r) == <<"clear mode", m, "clear prot", r>>
Starts(s, m, r) ==
    /\ setting' = [setting EXCEPT ![s] = <<rdopt>> \o Steps(m, r)]
    /\ overlapped' = (overlapped \/ \E t \in Setter : setting[t] # <<>>)

SetRdopt(p, m, r) ==
    /\ At(p, "I_SRDOPT") /\ setting[p] = <<>> /\ Starts(p, m, r) /\ Goto(p, "setting")
    /\ asked' = None
    /\ UNCHANGED <<wioc, cmd, stack, rdopt, other, calls, sets>>
\* What M_SETOPTS hands to set_readopt is not so_readopt but so_flags: SO_READOPT
\* there is the bit of RMSGD, SO_WROFF makes that no mode at all, and SO_MINPSZ,
\* SO_MAXPSZ and SO_HIWAT are the bits of RPROTDAT, RPROTDIS and RPROTNORM.
Flags == {{}, {"SO_WROFF"}, {"SO_MINPSZ"}, {"SO_MINPSZ", "SO_MAXPSZ"}}
ModeIn(flags) == IF "SO_WROFF" \in flags THEN "bad" ELSE "RMSGD"
ProtIn(flags) == CASE flags = {"SO_MINPSZ"} -> "RPROTDAT"
                   [] flags = {"SO_MINPSZ", "SO_MAXPSZ"} -> "bad"
                   [] OTHER -> "none"
SetOpts(so_readopt, flags) ==
    /\ setting["M_SETOPTS"] = <<>> /\ sets < MaxSet /\ sets' = sets + 1
    /\ Starts("M_SETOPTS", ModeIn(flags), ProtIn(flags)) /\ asked' = so_readopt
    /\ UNCHANGED <<who, stack, rdopt, other, calls>>

\* setting[s] is what to restore, followed by the steps that are left.
Stepped(s) == [setting EXCEPT ![s] = IF Len(@) = 2 THEN <<>> ELSE <<@[1]>> \o SubSeq(@, 3, Len(@))]
SetStep(s) ==
    /\ setting[s] # <<>>
    /\ LET step == setting[s][2]  old == setting[s][1]
       IN CASE step = "clear mode" ->
               IF setting[s][3] \in Mode
               THEN rdopt' = [rdopt EXCEPT !.mode = "RNORM"] /\ setting' = Stepped(s)
               ELSE rdopt' = old /\ setting' = [setting EXCEPT ![s] = <<>>]
            [] step \in Mode -> rdopt' = [rdopt EXCEPT !.mode = step] /\ setting' = Stepped(s)
            [] step = "clear prot" ->
               IF setting[s][3] \in Prot
               THEN rdopt' = [rdopt EXCEPT !.prot = "none"] /\ setting' = Stepped(s)
               ELSE /\ rdopt' = IF setting[s][3] = "none" THEN rdopt ELSE old
                    /\ setting' = [setting EXCEPT ![s] = <<>>]
            [] step \in Prot -> rdopt' = [rdopt EXCEPT !.prot = step] /\ setting' = Stepped(s)
    /\ UNCHANGED <<asked, overlapped, who, stack, other, calls, sets>>
SetDone(p) ==
    /\ At(p, "setting") /\ setting[p] = <<>> /\ Returns(p)
    /\ UNCHANGED <<stack, opts, other, calls, sets>>

----------------------------------------------------------------------------
(* I_FDINSERT                                                              *)

\* lis_fd2str takes no reference; ...
FdFind(p) ==
    /\ At(p, "I_FDINSERT")
    /\ IF ihd = "freed" THEN Returns(p) ELSE Goto(p, "get") /\ UNCHANGED <<wioc, cmd>>
    /\ UNCHANGED <<stack, opts, other, calls, sets>>
FdGet(p) ==
    /\ At(p, "get") /\ Goto(p, "check") /\ sd_refcnt' = sd_refcnt + 1
    /\ UNCHANGED <<wioc, cmd, stack, opts, ihd, leaked, strays, calls, sets>>
\* ... and a stream that is linked keeps the one it got here.  The size of the data
\* may be wrong as well.
FdCheck(p) ==
    /\ At(p, "check")
    /\ IF ihd = "linked"
       THEN leaked' = leaked + 1 /\ UNCHANGED sd_refcnt /\ Returns(p)
       ELSE /\ sd_refcnt' = sd_refcnt - 1 /\ UNCHANGED leaked
            /\ \/ Returns(p)
               \/ Goto(p, "copyin") /\ UNCHANGED <<wioc, cmd>>
    /\ UNCHANGED <<stack, opts, ihd, strays, calls, sets>>
\* The message is copied in, and waits for room as one of putmsg does; a signal
\* while the write queue is being locked leaves it behind.
FdSend(p) ==
    /\ At(p, "copyin") /\ Returns(p)
    /\ UNCHANGED <<stack, opts, other, calls, sets>>

\* What else happens to the other stream.
LinkOther == /\ ihd = "open" /\ ihd' = "linked"
             /\ UNCHANGED <<who, stack, opts, sd_refcnt, leaked, strays, calls, sets>>
CloseOther ==
    /\ ihd = "open" /\ ihd' = "closed" /\ sd_refcnt' = sd_refcnt - 1
    /\ UNCHANGED <<who, stack, opts, leaked, strays, calls, sets>>
FreeOther ==
    /\ ihd = "closed" /\ sd_refcnt = 0 /\ ihd' = "freed"
    /\ strays' = {p \in Proc : At(p, "get")}
    /\ UNCHANGED <<who, stack, opts, sd_refcnt, leaked, calls, sets>>

----------------------------------------------------------------------------
Options == {<<"RMSGD", "bad">>, <<"bad", "RPROTDAT">>, <<"RMSGN", "RPROTDIS">>,
            <<"RMSGD", "none">>}
Next == \/ \E p \in Proc :
              \/ \E c \in Cmds : Call(p, c)
              \/ Signalled(p) \/ Lock(p)
              \/ \E n \in Name : Push(p, n)
              \/ PopCount(p) \/ PopDetach(p) \/ Find(p) \/ Found(p)
              \/ \E o \in Options : SetRdopt(p, o[1], o[2])
              \/ SetDone(p)
              \/ FdFind(p) \/ FdGet(p) \/ FdCheck(p) \/ FdSend(p)
        \/ \E f \in Flags : SetOpts("RMSGN", f)
        \/ \E s \in Setter : SetStep(s)
        \/ LinkOther \/ CloseOther \/ FreeOther

Spec == Init /\ [][Next]_vars

----------------------------------------------------------------------------
\* I_FIND and I_LIST give the names of the modules that are there, though they go
\* from queue to queue without any lock of the queues and copy names to the user in
\* between: as long as they are under way nobody else pushes or pops.  And the count
\* by which I_LOOK, I_POP and I_FIND go is the number of modules, but for what
\* a push or pop that failed halfway has left.
NamesTrue ==
    /\ \A p \in Proc : pc[p] \in Looking =>
           /\ Len(found[p]) <= Len(NamesBelow)
           /\ found[p] = SubSeq(NamesBelow, 1, Len(found[p]))
    /\ Len(mods) = sd_pushcnt + miscounted
                   + Cardinality({p \in Proc : At(p, "detach")})

\* When nobody is setting them the read options are a mode and a way with M_PROTO that
\* strread knows: a call that fails leaves what was there.  (Unless two set them at
\* once: an ioctl and an M_SETOPTS exclude each other no more than strread and either.)
OptionsSettle ==
    ~overlapped /\ (\A s \in Setter : setting[s] = <<>>) =>
        rdopt.mode \in Mode /\ rdopt.prot \in Prot

\* An M_SETOPTS that was not refused leaves the mode it has in so_readopt.
ReadoptAsAsked ==
    asked # None /\ ~overlapped /\ (\A s \in Setter : setting[s] = <<>>) =>
        rdopt.mode = asked

\* I_FDINSERT holds the other stream while it looks into it, and gives back each
\* reference, but for the path that forgets it.
InsertBalanced ==
    /\ strays = {} => sd_refcnt = (IF ihd \in {"open", "linked"} THEN 1 ELSE 0) + leaked
                                  + Cardinality({p \in Proc : At(p, "check")})
    /\ leaked > 0 => ihd = "linked"
    /\ strays = {} => \A p \in Proc : At(p, "check") => ihd # "freed"

HeadSound == NamesTrue /\ OptionsSettle /\ InsertBalanced
=============================================================================
