------------------------------ MODULE Modules ------------------------------
(***************************************************************************)
(* The table of STREAMS modules (head/mod.c) and its users: registering    *)
(* and unregistering, loading on demand (lis_loadmod), and pushing, popping *)
(* and autopushing modules (push_mod, pop_mod, lis_stropen in head/head.c). *)
(*                                                                         *)
(* lis_mod_reg guards the table, f_sem of an entry its state; lis_loadmod  *)
(* waits for f_sem while it holds lis_mod_reg, and lis_stropen holds f_sem *)
(* across the open routine of the module that it pushes.                   *)
(*                                                                         *)
(* The kernel's loader is external: request_module runs the initialisation *)
(* of the object that contains the module, and somebody may load or remove *)
(* the object at any time that its use count allows.                       *)
(***************************************************************************)
EXTENDS Integers, Sequences, FiniteSets

CONSTANTS
  Proc,          \* processes, each with a stream of its own
  Name,          \* names of modules; each stands for its streamtab, too
  NoName,        \* an empty f_name, and a f_str that is NULL
  MAX_STRMOD,    \* size of the table; entry 0 is LIS_NULL_MID
  Signals,       \* may lis_down be interrupted?
  MaxCalls,      \* bound on pushes and pops
  MaxLoads       \* bound on loading and removing by hand

NameAssumption == NoName \notin Name
TableAssumption == MAX_STRMOD \in Nat \ {0, 1}
ModulesBounds == Signals \in BOOLEAN /\ MaxCalls \in Nat /\ MaxLoads \in Nat

Slot == 1 .. MAX_STRMOD - 1
NullMid == 0

VARIABLES
  lis_mod_reg,   \* 1: free
  lis_fmodcnt,   \* one more than the largest entry in use
  f_name, f_str, f_state, f_count, f_sem,   \* of each entry
  inited,        \* entries with LIS_MODSTATE_INITED
  stack,         \* stack[p]: the modules on the stream of p, topmost first
  object,        \* object[n]: where the object of n is: "out", "init", "registering",
                 \*   "in", "exit" or "waiting", which is exit asleep on f_sem
  unreg,         \* unreg[n]: the entry the exit of n is to unregister
  pc, name, id, st, \* of each process: the call, and its local variables
  calls, loads,
  lostSem,       \* history: a semaphore has been left down
  stale,         \* history: what lis_findmod said was not so any more when it was used
  mistaken       \* history: a push has put another module on its stream

table == <<lis_fmodcnt, f_name, f_str, f_state, f_count, inited>>
kernel == <<object, unreg>>
history == <<stale, mistaken>>
vars == <<lis_mod_reg, table, f_sem, stack, kernel, pc, name, id, st, calls, loads,
          lostSem, history>>

Init ==
  /\ lis_mod_reg = 1
  /\ lis_fmodcnt = 1
  /\ f_name = [s \in Slot |-> NoName] /\ f_str = [s \in Slot |-> NoName]
  /\ f_state = [s \in Slot |-> "linked"] /\ f_count = [s \in Slot |-> 0]
  /\ f_sem = [s \in Slot |-> 0] /\ inited = {}
  /\ stack = [p \in Proc |-> <<>>]
  /\ object = [n \in Name |-> "out"] /\ unreg = [n \in Name |-> NullMid]
  /\ pc = [p \in Proc |-> "idle"]
  /\ name = [p \in Proc |-> NoName] /\ id = [p \in Proc |-> NullMid]
  /\ st = [p \in Proc |-> NoName]
  /\ calls = 0 /\ loads = 0
  /\ lostSem = FALSE /\ stale = FALSE /\ mistaken = FALSE

At(p, l) == pc[p] = l
Goto(p, l) == pc' = [pc EXCEPT ![p] = l]

\* A call returns: its local variables are gone.
Return(p) == /\ Goto(p, "idle")
             /\ name' = [name EXCEPT ![p] = NoName]
             /\ id' = [id EXCEPT ![p] = NullMid]
             /\ st' = [st EXCEPT ![p] = NoName]

MaxOf(S) == CHOOSE s \in S : \A t \in S : s >= t
MinOf(S) == CHOOSE s \in S : \A t \in S : s <= t
Named(n) == {s \in Slot : f_name[s] = n}

\* lis_findmod looks from the end of the table, find_mod from its start.
LisFindmod(n) == IF Named(n) = {} THEN NullMid ELSE MaxOf(Named(n))
FindMod(n) == IF Named(n) = {} THEN NullMid ELSE MinOf(Named(n))

\* lis_up(&lis_mod_reg)
KeepModReg == UNCHANGED lis_mod_reg                      \* mutant
UpModReg == lis_mod_reg' = lis_mod_reg + 1

\* find_empty_mod_index
Empty == {s \in Slot : s < lis_fmodcnt /\ f_name[s] = NoName}
EmptyIndex == CASE Empty # {}                    -> MinOf(Empty)
                [] Empty = {} /\ lis_fmodcnt < MAX_STRMOD -> lis_fmodcnt
                [] OTHER                         -> NullMid

\* initialize_module: the flag that guards the rest has just been overwritten, so
\* that the rest is done every time.
InitializeModule(s, n, state, str) ==
  /\ f_state' = [f_state EXCEPT ![s] = state]
  /\ f_count' = [f_count EXCEPT ![s] = 0]
  /\ f_name' = [f_name EXCEPT ![s] = n]
  /\ f_sem' = [f_sem EXCEPT ![s] = 1]
  /\ f_str' = [f_str EXCEPT ![s] = str]
  /\ inited' = inited \cup {s}
  /\ lis_fmodcnt' = IF s = lis_fmodcnt THEN lis_fmodcnt + 1 ELSE lis_fmodcnt

\* deinitialize_module, called by p if that is a process, leaves f_str alone.
DeinitializeModule(s, str, p) ==
  /\ stale' = (stale \/ \E q \in Proc \ {p} : id[q] = s)
  /\ f_state' = [f_state EXCEPT ![s] = "unknown"]
  /\ f_count' = [f_count EXCEPT ![s] = 0]
  /\ f_name' = [f_name EXCEPT ![s] = NoName]
  /\ f_str' = [f_str EXCEPT ![s] = str]
  /\ inited' = inited \ {s}
  /\ UNCHANGED lis_fmodcnt

---------------------------------------------------------------------------
(* The object of a module is loaded: its init_module calls                 *)
(* lis_register_strmod.                                                     *)

\* By hand, or by request_module.
LoadByHand(n) ==
  /\ object[n] = "out" /\ loads < MaxLoads
  /\ loads' = loads + 1
  /\ object' = [object EXCEPT ![n] = "init"]
  /\ UNCHANGED <<lis_mod_reg, table, f_sem, stack, unreg, pc, name, id, st, calls, lostSem, history>>

\* lis_findmod_strtab: an entry with this streamtab will do as it is.
FindStrtab(n) ==
  /\ object[n] = "init"
  /\ lis_mod_reg > 0
  /\ object' = [object EXCEPT ![n] =
                  IF \E s \in Slot : s < lis_fmodcnt /\ f_str[s] = n
                    THEN "in" ELSE "registering"]
  /\ UNCHANGED <<lis_mod_reg, table, f_sem, stack, unreg, pc, name, id, st, calls, loads,
                 lostSem, history>>

\* Entry 0 is written, to no effect, when the table is full.
Register(n) ==
  /\ object[n] = "registering"
  /\ lis_mod_reg > 0
  /\ LET known == FindMod(n)
         s == IF known # NullMid THEN known ELSE EmptyIndex
     IN IF s = NullMid
          THEN UNCHANGED <<table, f_sem>>
          ELSE InitializeModule(s, n, IF known # NullMid THEN "linked" ELSE "loaded", n)
  /\ object' = [object EXCEPT ![n] = "in"]
  /\ UNCHANGED <<lis_mod_reg, stack, unreg, pc, name, id, st, calls, loads, lostSem, history>>

\* lis_unregister_strmod looks for the last entry with the streamtab.
WithStr(n) == {s \in Slot : f_str[s] = n}

\* The object is removed when it does not count a use of its own, which its open
\* routine does: unregister_module turns down a module that is in use.
RemoveByHand(n) ==
  /\ object[n] = "in" /\ loads < MaxLoads
  /\ \A p \in Proc : n \notin {stack[p][i] : i \in DOMAIN stack[p]}
  /\ lis_mod_reg > 0
  /\ loads' = loads + 1
  /\ LET s == IF WithStr(n) = {} THEN NullMid ELSE MaxOf(WithStr(n))
     IN \/ /\ s = NullMid \/ s \notin inited
           /\ object' = [object EXCEPT ![n] = "out"]
           /\ UNCHANGED <<lis_mod_reg, unreg, stale>>
        \/ /\ s \in inited /\ f_count[s] = 0
           /\ lis_mod_reg' = 0
           /\ unreg' = [unreg EXCEPT ![n] = s]
           /\ object' = [object EXCEPT ![n] = "exit"]
           /\ stale' = (stale \/ \E p \in Proc : id[p] = s)
  /\ UNCHANGED <<table, f_sem, stack, pc, name, id, st, calls, lostSem, mistaken>>

\* unregister_module after lis_down(f_sem): an entry that is "linked" keeps f_str.
Unregister(n) ==
  /\ object[n] = "exit"
  /\ f_sem[unreg[n]] > 0
  /\ LET s == unreg[n]
     IN IF f_state[s] = "loading"
          THEN UNCHANGED <<table, f_sem, stale>>
          ELSE /\ DeinitializeModule(s, IF f_state[s] = "linked" THEN f_str[s] ELSE NoName, n)
               /\ f_sem' = [f_sem EXCEPT ![s] = IF f_state[s] = "linked" THEN @ ELSE @ - 1]
  /\ UpModReg
  /\ object' = [object EXCEPT ![n] = "out"]
  /\ unreg' = [unreg EXCEPT ![n] = NullMid]
  /\ UNCHANGED <<stack, pc, name, id, st, calls, loads, lostSem, mistaken>>

---------------------------------------------------------------------------
(* lis_loadmod *)

\* I_PUSH, or an open of a device with an autopush list; both call lis_loadmod,
\* which looks for the name before it takes lis_mod_reg.
Start(p, n, l) ==
  /\ At(p, "idle") /\ calls < MaxCalls
  /\ calls' = calls + 1
  /\ name' = [name EXCEPT ![p] = n]
  /\ id' = [id EXCEPT ![p] = LisFindmod(n)]
  /\ Goto(p, l)
  /\ UNCHANGED <<lis_mod_reg, table, f_sem, stack, kernel, st, loads, lostSem, history>>

Push(p, n) == Start(p, n, "load")
AutopushOpen(p, n) == Start(p, n, "auto_load")

Auto(p) == pc[p] \in {"auto_load", "auto_state", "auto_request", "auto_wait",
                       "auto_loaded"}
Either(p, l) == pc[p] \in {l, "auto_" \o l}
ThenTo(p, l) == Goto(p, IF Auto(p) THEN "auto_" \o l ELSE l)

\* lis_mod_reg is taken, and kept.
Load(p) ==
  /\ Either(p, "load")
  /\ lis_mod_reg > 0
  /\ LET s == IF id[p] # NullMid THEN id[p] ELSE EmptyIndex
     IN IF s = NullMid
             THEN Return(p) /\ UNCHANGED <<lis_mod_reg, table, f_sem>>
             ELSE /\ lis_mod_reg' = 0
                  /\ id' = [id EXCEPT ![p] = s]
                  /\ ThenTo(p, "state")
                  /\ UNCHANGED <<name, st>>
                  /\ IF id[p] = NullMid
                       THEN InitializeModule(s, name[p], "unknown", f_str[s])
                       ELSE UNCHANGED <<table, f_sem>>
  /\ stale' = (stale \/ (id[p] = NullMid /\ Named(name[p]) # {}))
  /\ UNCHANGED <<stack, kernel, calls, loads, lostSem, mistaken>>

\* f_sem of the entry: what there is to do depends on its state.
LoadState(p) ==
  /\ Either(p, "state")
  /\ f_sem[id[p]] > 0
  /\ UpModReg
  /\ \/ /\ f_state[id[p]] \in {"linked", "loaded"}
        /\ ThenTo(p, "loaded")
        /\ UNCHANGED <<name, id, st, f_state>>
     \/ /\ f_state[id[p]] \in {"unloaded", "unknown"}
        /\ f_state' = [f_state EXCEPT ![id[p]] = "loading"]
        /\ ThenTo(p, "request")
        /\ UNCHANGED <<name, id, st>>
     \/ /\ f_state[id[p]] = "loading"
        /\ Return(p)
        /\ UNCHANGED f_state
  /\ UNCHANGED <<lis_fmodcnt, f_name, f_str, f_count, inited, f_sem, stack, kernel, calls,
                 loads, lostSem, history>>

\* The two calls of lis_down in lis_loadmod: the second one leaves lis_mod_reg down.
LoadInterrupted(p) ==
  /\ Signals
  /\ \/ Either(p, "load") /\ lis_mod_reg = 0 /\ UNCHANGED lostSem
     \/ Either(p, "state") /\ f_sem[id[p]] = 0 /\ lostSem' = TRUE
  /\ Return(p)
  /\ UNCHANGED <<lis_mod_reg, table, f_sem, stack, kernel, calls, loads, history>>

\* request_module starts what is out, and returns when it is not on its way any more.
Request(p) ==
  /\ Either(p, "request")
  /\ object' = IF object[name[p]] = "out" THEN [object EXCEPT ![name[p]] = "init"] ELSE object
  /\ ThenTo(p, "wait")
  /\ UNCHANGED <<lis_mod_reg, table, f_sem, stack, unreg, name, id, st, calls, loads,
                 lostSem, history>>

\* lis_wait_for_module: did the object fill in the entry?  The state is set without
\* either semaphore.
Requested(p) ==
  /\ Either(p, "wait")
  /\ object[name[p]] \notin {"init", "registering"}
  /\ IF f_str[id[p]] # NoName
       THEN /\ f_state' = [f_state EXCEPT ![id[p]] = "loaded"]
            /\ ThenTo(p, "loaded")
            /\ UNCHANGED <<lis_fmodcnt, f_name, f_str, f_count, inited, name, id, st, stale>>
       ELSE DeinitializeModule(id[p], f_str[id[p]], p) /\ Return(p)
  /\ UNCHANGED <<lis_mod_reg, f_sem, stack, kernel, calls, loads, lostSem, mistaken>>

\* There is no such object, or it does not load.
RequestFails(p) ==
  /\ Either(p, "request")
  /\ object[name[p]] = "out"
  /\ DeinitializeModule(id[p], f_str[id[p]], p)
  /\ Return(p)
  /\ UNCHANGED <<lis_mod_reg, f_sem, stack, kernel, calls, loads, lostSem, mistaken>>

---------------------------------------------------------------------------
(* push_mod and pop_mod *)

\* Without a streamtab there is nothing to push.  I_PUSH goes on with push_mod at
\* once, an open takes f_sem first.
Loaded(p) ==
  /\ Either(p, "loaded")
  /\ IF f_str[id[p]] = NoName
       THEN Return(p)
       ELSE /\ Goto(p, IF Auto(p) THEN "auto_sem" ELSE "push")
            /\ st' = [st EXCEPT ![p] = f_str[id[p]]]
            /\ UNCHANGED <<name, id>>
  /\ UNCHANGED <<lis_mod_reg, table, f_sem, stack, kernel, calls, loads, lostSem, history>>

AutoDown(p) ==
  /\ At(p, "auto_sem")
  /\ \/ /\ f_sem[id[p]] > 0
        /\ f_sem' = [f_sem EXCEPT ![id[p]] = @ - 1]
        /\ Goto(p, "auto_push")
        /\ UNCHANGED <<name, id, st>>
     \/ /\ Signals /\ f_sem[id[p]] = 0
        /\ Return(p)
        /\ UNCHANGED f_sem
  /\ UNCHANGED <<lis_mod_reg, table, stack, kernel, calls, loads, lostSem, history>>

PushedUncounted(p) ==                                   \* mutant
  /\ stack' = [stack EXCEPT ![p] = <<st[p]>> \o @]
  /\ mistaken' = (mistaken \/ st[p] # name[p])
  /\ f_count' = f_count

\* What the entry held is put on the stream and counted.
Pushed(p) ==
  /\ stack' = [stack EXCEPT ![p] = <<st[p]>> \o @]
  /\ mistaken' = (mistaken \/ st[p] # name[p])
  /\ f_count' = [f_count EXCEPT ![id[p]] = (@ + 1) % 65536]

PushMod(p) ==
  /\ pc[p] \in {"push", "auto_push"}
  /\ Pushed(p)
  /\ IF At(p, "auto_push")
       THEN f_sem' = [f_sem EXCEPT ![id[p]] = @ + 1] ELSE UNCHANGED f_sem
  /\ Return(p)
  /\ UNCHANGED <<lis_mod_reg, lis_fmodcnt, f_name, f_str, f_state, inited, kernel, calls,
                 loads, lostSem, stale>>

\* The open routine of the module fails: lis_stropen does not give f_sem back.
PushFails(p) ==
  /\ pc[p] \in {"push", "auto_push"}
  /\ lostSem' = (lostSem \/ At(p, "auto_push"))
  /\ Return(p)
  /\ UNCHANGED <<lis_mod_reg, table, f_sem, stack, kernel, calls, loads, history>>

\* f_count is an unsigned short.
Uncount(s) == IF s = NullMid THEN f_count
                             ELSE [f_count EXCEPT ![s] = (@ - 1) % 65536]

Pop(p) ==
  /\ At(p, "idle") /\ stack[p] # <<>>
  /\ f_count' = Uncount(LisFindmod(Head(stack[p])))
  /\ stack' = [stack EXCEPT ![p] = Tail(@)]
  /\ UNCHANGED <<lis_mod_reg, lis_fmodcnt, f_name, f_str, f_state, inited, f_sem, kernel, pc,
                 name, id, st, calls, loads, lostSem, history>>

---------------------------------------------------------------------------
Steps(p) == \/ Load(p) \/ LoadState(p) \/ Request(p) \/ Requested(p)
            \/ Loaded(p) \/ AutoDown(p) \/ PushMod(p) \/ PushFails(p)
Loader(n) == FindStrtab(n) \/ Register(n) \/ Unregister(n)

Next ==
  \/ \E p \in Proc :
       \/ \E n \in Name : Push(p, n) \/ AutopushOpen(p, n)
       \/ Steps(p) \/ LoadInterrupted(p) \/ RequestFails(p) \/ Pop(p)
  \/ \E n \in Name : LoadByHand(n) \/ RemoveByHand(n) \/ Loader(n)

Spec == Init /\ [][Next]_vars

---------------------------------------------------------------------------
(* Properties *)

TypeOK ==
  /\ lis_mod_reg \in 0..1
  /\ lis_fmodcnt \in 1..MAX_STRMOD
  /\ f_name \in [Slot -> Name \cup {NoName}] /\ f_str \in [Slot -> Name \cup {NoName}]
  /\ f_state \in [Slot -> {"linked", "loaded", "loading", "unknown"}]
  /\ f_count \in [Slot -> 0..65535] /\ f_sem \in [Slot -> Nat]
  /\ inited \subseteq Slot
  /\ stack \in [Proc -> Seq(Name)]
  /\ object \in [Name -> {"out", "init", "registering", "in", "exit"}]
  /\ unreg \in [Name -> {NullMid} \cup Slot]
  /\ name \in [Proc -> Name \cup {NoName}] /\ id \in [Proc -> {NullMid} \cup Slot]
  /\ st \in [Proc -> Name \cup {NoName}]

\* Where n is on a stream.
OnStreams(n) == UNION {{<<p, i>> : i \in {j \in DOMAIN stack[p] : stack[p][j] = n}} : p \in Proc}

\* A module that is on some stream stays registered and its f_count says on how many,
\* and a push puts the module on the stream that it was asked for; unless an entry was
\* cleared or made while lis_loadmod or push_mod relied on an earlier lis_findmod
\* (which looks without lis_mod_reg; I_PUSH does without f_sem, too).
InUseIsCounted ==
  ~stale =>
    /\ \A n \in Name : OnStreams(n) # {} =>
         \E s \in Slot : f_name[s] = n /\ f_str[s] = n /\ f_count[s] = Cardinality(OnStreams(n))
    /\ ~mistaken

\* The same without the exception: lis_loadmod loads a "module by name".
PushedAsNamed == ~mistaken

\* lis_loadmod waits for f_sem with lis_mod_reg held, and lis_stropen holds f_sem
\* across an open: calls do not wait for each other in a circle, one of them or of
\* the loader's can go on, unless a semaphore has been left down or was taken away
\* with its entry.
SomeCallGoesOn ==
  (\E p \in Proc : pc[p] # "idle") /\ ~lostSem /\ ~stale =>
    ENABLED (\/ \E p \in Proc : Steps(p)
             \/ \E n \in Name : Loader(n))
=============================================================================
