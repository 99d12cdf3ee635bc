------------------------------- MODULE Autopush -------------------------------
(***************************************************************************)
(* The autopush configuration of one driver (head/mod.c): the chain of     *)
(* entries apush[major], the references apush_nref that its lists hold on   *)
(* the modules, and their users: the sad driver (lis_apush_set), the open   *)
(* of a minor device (lis_apushm), and the two that do not take             *)
(* lis_apush_lock, unregister_module (apush_drop_mod) and                   *)
(* lis_unregister_strdev (apush_free_major).  Those two hold lis_mod_reg,   *)
(* so that there is never more than one of them.                            *)
(*                                                                         *)
(* A name stands for the index of its module; Modules.tla has the table.    *)
(***************************************************************************)
EXTENDS Integers, Sequences, FiniteSets

CONSTANTS
  Proc,        \* callers of the sad driver, and openers
  Mod,         \* modules
  Entry,       \* addresses that ALLOC hands out for entries
  Null,        \* no process, no address
  LastMinor,   \* minor devices are 0..LastMinor
  Pushes,      \* lists of modules that the sad driver is given
  MaxList,     \* bound on their length (MAXAPUSH is 8)
  MaxSets,     \* bound on the calls of lis_apush_set and lis_apushm
  MaxGone      \* bound on what is unregistered

MinorAssumption == LastMinor \in Nat
NullAssumption == Null \notin Proc \cup Entry
PushesAssumption == Pushes \subseteq UNION {[1..k -> Mod] : k \in 1..MaxList}
AutopushBounds == {MaxList, MaxSets, MaxGone} \subseteq Nat

Minor == 0 .. LastMinor
Lists == UNION {[1..k -> Mod] : k \in 0..MaxList}
Command == {"SAP_CLEAR", "SAP_ONE", "SAP_RANGE", "SAP_ALL"}
Content == [cmd : Command, minor : Minor, lastminor : Minor, push : Lists]
Freed == [cmd |-> "freed", minor |-> 0, lastminor |-> 0, push |-> <<>>]

VARIABLES
  apush,       \* the chain, as the sequence of its entries
  ent,         \* what is at each address
  apush_nref,  \* per module
  registered,  \* modules with LIS_MODSTATE_INITED
  driver,      \* lis_fstr_sw[major].f_str # NULL
  lock,        \* holder of lis_apush_lock
  pc, a, mods, \* of each process: the call, its entry and the names it has copied
  gone,        \* who holds lis_mod_reg to unregister: nobody, a module, or the driver
  at, rest,    \* the entry that apush_drop_mod is at; what apush_free_major has left
  sets, removals,
  unseen,      \* history: a module was unregistered between apush_validate of its list and
               \*   the end of apush_conf
  freedUnder   \* history: an entry was freed while somebody used it

chain == <<apush, ent, apush_nref>>
call == <<pc, a, mods>>
remover == <<gone, at, rest>>
counts == <<sets, removals>>
vars == <<chain, registered, driver, lock, call, remover, counts, unseen, freedUnder>>

Init ==
  /\ apush = <<>> /\ ent = [e \in Entry |-> Freed]
  /\ apush_nref = [m \in Mod |-> 0]
  /\ registered = {} /\ driver = TRUE /\ lock = Null
  /\ pc = [p \in Proc |-> "idle"] /\ a = [p \in Proc |-> Null]
  /\ mods = [p \in Proc |-> <<>>]
  /\ gone = "nobody" /\ at = Null /\ rest = <<>>
  /\ sets = 0 /\ removals = 0
  /\ unseen = FALSE /\ freedUnder = FALSE

At(p, l) == pc[p] = l
Return(p) == /\ pc' = [pc EXCEPT ![p] = "idle"]
             /\ a' = [a EXCEPT ![p] = Null]
             /\ mods' = [mods EXCEPT ![p] = <<>>]

Times(l, m) == Cardinality({i \in DOMAIN l : l[i] = m})
WithoutRest(l, m) == SubSeq(l, 1, CHOOSE i \in 0..Len(l) :   \* mutant
                             /\ i # Len(l) => l[i + 1] = m
                             /\ \A j \in 1..i : l[j] # m)
Without(l, m) == SelectSeq(l, LAMBDA x : x # m)
RemoveAt(s, i) == SubSeq(s, 1, i - 1) \o SubSeq(s, i + 1, Len(s))
InsertBefore(s, i, e) == SubSeq(s, 1, i - 1) \o <<e>> \o SubSeq(s, i, Len(s))

\* Somebody else has a pointer to e.
Used(e) == e = at \/ \E p \in Proc : a[p] = e /\ pc[p] \in {"copy", "count"}

\* apush_free: the references of the list are given back.
ApushFree(e) ==
  /\ ent' = [ent EXCEPT ![e] = Freed]
  /\ apush_nref' = [m \in Mod |-> apush_nref[m] - Times(ent[e].push, m)]
  /\ freedUnder' = (freedUnder \/ Used(e))

---------------------------------------------------------------------------
(* lis_apush_set, for the sad driver *)

\* An entry is allocated, at any address that is free, and the modules are loaded,
\* which takes lis_mod_reg.
Set(p, c) ==
  /\ At(p, "idle") /\ sets < MaxSets
  /\ driver /\ gone = "nobody"
  /\ sets' = sets + 1
  /\ \E e \in Entry : ent[e] = Freed
  /\ LET e == CHOOSE x \in Entry : ent[x] = Freed
     IN /\ ent' = [ent EXCEPT ![e] = c]
        /\ a' = [a EXCEPT ![p] = e]
  /\ registered' = registered \cup {c.push[i] : i \in DOMAIN c.push}
  /\ pc' = [pc EXCEPT ![p] = "validate"]
  /\ UNCHANGED <<apush, apush_nref, driver, lock, mods, remover, removals, unseen,
                 freedUnder>>

\* FREE of an entry that was never installed.
GiveUp(p) == /\ ent' = [ent EXCEPT ![a[p]] = Freed]
             /\ Return(p)
             /\ UNCHANGED <<apush, apush_nref, freedUnder>>

\* apush_validate: all of them are registered.
ApushValidate(l) == {l[i] : i \in DOMAIN l} \subseteq registered

Validate(p) ==
  /\ At(p, "validate") /\ lock = Null
  /\ IF ApushValidate(ent[a[p]].push)
       THEN /\ lock' = p
            /\ pc' = [pc EXCEPT ![p] = "conf"]
            /\ UNCHANGED <<chain, a, mods, freedUnder>>
       ELSE GiveUp(p) /\ UNCHANGED lock
  /\ UNCHANGED <<registered, driver, remover, counts, unseen>>

Chained(i) == ent[apush[i]]
SapAll == apush # <<>> /\ Chained(1).cmd = "SAP_ALL"

\* Where the entry of a SAP_CLEAR is: SAP_ALL answers to minor 0, too; the search
\* ends at a larger minor.
Cleared(minor) ==
  IF SapAll /\ minor = 0 THEN {1} ELSE {i \in DOMAIN apush : Chained(i).minor = minor}

\* The entries that the loops of SAP_ONE and SAP_RANGE stop at to insert: those
\* above the new one, or none.
Beyond(minor) == {i \in DOMAIN apush : Chained(i).minor > minor}
Place(minor) == IF Beyond(minor) = {} THEN Len(apush) + 1
                ELSE CHOOSE i \in Beyond(minor) : \A j \in Beyond(minor) : i <= j

InTheWayOfSame(c) ==                                    \* mutant
  {i \in 1 .. Place(IF c.cmd = "SAP_RANGE" THEN c.lastminor ELSE c.minor) - 1 :
     \/ SapAll
     \/ Chained(i).minor = c.minor}

\* What is in the way of a new entry, of those that come before its place.  The test
\* of SAP_RANGE against a range that begins below it is always true.
InTheWay(c) ==
  {i \in 1 .. Place(IF c.cmd = "SAP_RANGE" THEN c.lastminor ELSE c.minor) - 1 :
     \/ SapAll
     \/ c.cmd = "SAP_ONE" /\ Chained(i).cmd = "SAP_ONE" /\ Chained(i).minor = c.minor
     \/ c.cmd = "SAP_ONE" /\ Chained(i).cmd = "SAP_RANGE" /\ c.minor <= Chained(i).lastminor
     \/ c.cmd = "SAP_RANGE" /\ Chained(i).minor >= c.minor
     \/ c.cmd = "SAP_RANGE" /\ Chained(i).cmd = "SAP_RANGE"
          /\ (Chained(i).lastminor <= c.lastminor \/ Chained(i).lastminor >= c.minor)}

Fits(c) ==
  \/ c.cmd = "SAP_ALL" /\ apush = <<>>
  \/ c.cmd = "SAP_ONE" /\ ~SapAll /\ InTheWay(c) = {}
  \/ c.cmd = "SAP_RANGE" /\ c.minor < c.lastminor /\ ~SapAll /\ InTheWay(c) = {}

\* SAP_RANGE stops at what lies beyond the last of its minors.
Install(p, c) ==
  LET i == CASE c.cmd = "SAP_ALL"   -> 1
             [] c.cmd = "SAP_ONE"   -> Place(c.minor)
             [] c.cmd = "SAP_RANGE" -> Place(c.lastminor)
  IN /\ apush' = InsertBefore(apush, i, a[p])
     /\ apush_nref' = [m \in Mod |-> apush_nref[m] + Times(c.push, m)]
     /\ UNCHANGED <<ent, freedUnder>>

\* apush_conf
Conf(p) ==
  /\ At(p, "conf")
  /\ lock' = Null
  /\ LET c == ent[a[p]]
     IN \/ /\ driver /\ c.cmd = "SAP_CLEAR" /\ Cleared(c.minor) # {}
           /\ LET i == CHOOSE j \in Cleared(c.minor) : TRUE
              IN /\ apush' = RemoveAt(apush, i)
                 /\ ent' = [ent EXCEPT ![a[p]] = Freed, ![apush[i]] = Freed]
                 /\ apush_nref' = [m \in Mod |-> apush_nref[m] - Times(Chained(i).push, m)]
                 /\ freedUnder' = (freedUnder \/ Used(apush[i]))
           /\ Return(p)
        \/ /\ driver /\ Fits(c)
           /\ Install(p, c)
           /\ Return(p)
        \/ /\ ~driver \/ (IF c.cmd = "SAP_CLEAR" THEN Cleared(c.minor) = {} ELSE ~Fits(c))
           /\ GiveUp(p)
  /\ UNCHANGED <<registered, driver, remover, counts, unseen>>

---------------------------------------------------------------------------
(* lis_apushm, for the open of a minor device *)

\* find_apush_entry: the first entry that begins at the minor, or is SAP_ALL, or is
\* a range that ENDS at or below it; the search ends at a larger minor.
Matches(i, minor) == \/ Chained(i).cmd = "SAP_ALL"
                     \/ Chained(i).minor = minor
                     \/ Chained(i).cmd = "SAP_RANGE" /\ Chained(i).lastminor <= minor
FindApushEntry(minor) ==
  LET S == {i \in DOMAIN apush :
              /\ Matches(i, minor)
              /\ \A j \in 1..i - 1 : ~Matches(j, minor)
              /\ \A j \in 1..i : ~SapAll => Chained(j).minor <= minor}
  IN IF S = {} THEN Null ELSE apush[CHOOSE i \in S : TRUE]

Find(p, minor) ==
  /\ At(p, "idle") /\ sets < MaxSets
  /\ driver /\ lock = Null
  /\ FindApushEntry(minor) # Null
  /\ sets' = sets + 1
  /\ lock' = p
  /\ a' = [a EXCEPT ![p] = FindApushEntry(minor)]
  /\ pc' = [pc EXCEPT ![p] = "copy"]
  /\ UNCHANGED <<chain, registered, driver, mods, remover, removals, unseen, freedUnder>>

NamesOf(e) == ent[e].push

Copy(p) ==
  /\ At(p, "copy")
  /\ mods' = [mods EXCEPT ![p] = NamesOf(a[p])]
  /\ lock' = Null
  /\ pc' = [pc EXCEPT ![p] = "count"]
  /\ UNCHANGED <<chain, registered, driver, a, remover, counts, unseen, freedUnder>>

\* The number of modules is read after the lock has been given up.
Count(p) ==
  /\ At(p, "count")
  /\ Return(p)
  /\ UNCHANGED <<chain, registered, driver, lock, remover, counts, unseen, freedUnder>>

---------------------------------------------------------------------------
(* Those who hold lis_mod_reg, and not lis_apush_lock *)

Next1(e) == LET S == {i \in DOMAIN apush : apush[i] = e}
            IN IF S = {} THEN Null
               ELSE LET i == CHOOSE j \in S : TRUE
                    IN IF i = Len(apush) THEN Null ELSE apush[i + 1]
First == IF apush = <<>> THEN Null ELSE apush[1]

\* unregister_module, with the beginning of apush_drop_mod
Unregister(m) ==
  /\ gone = "nobody" /\ removals < MaxGone
  /\ m \in registered
  /\ removals' = removals + 1
  /\ registered' = registered \ {m}
  /\ IF apush_nref[m] = 0 \/ apush = <<>>
       THEN UNCHANGED <<gone, at>>
       ELSE gone' = m /\ at' = First
  /\ unseen' = (unseen \/ \E p \in Proc : At(p, "conf") /\ Times(ent[a[p]].push, m) # 0)
  /\ UNCHANGED <<chain, driver, lock, call, rest, sets, freedUnder>>

\* One entry, and on to the next; it ends when there are no references left.
Drop(m) ==
  /\ gone = m
  /\ ent' = [ent EXCEPT ![at].push = Without(@, m)]
  /\ apush_nref' = [apush_nref EXCEPT ![m] = @ - Times(ent[at].push, m)]
  /\ IF Next1(at) = Null \/ (apush_nref'[m] = 0 /\ Times(ent[at].push, m) # 0)
       THEN gone' = "nobody" /\ at' = Null
       ELSE at' = Next1(at) /\ UNCHANGED gone
  /\ UNCHANGED <<apush, registered, driver, lock, call, rest, counts, unseen, freedUnder>>

\* lis_unregister_strdev: nobody has the device open when it looks.
UnregisterDev ==
  /\ driver /\ gone = "nobody" /\ removals < MaxGone
  /\ \A p \in Proc : pc[p] \notin {"copy", "count"}
  /\ removals' = removals + 1
  /\ gone' = "driver"
  /\ UNCHANGED <<chain, registered, driver, lock, call, at, rest, sets, unseen,
                 freedUnder>>

\* apush_free_major: the whole chain is taken off, then its entries are freed.
FreeMajor ==
  /\ gone = "driver"
  /\ gone' = "freeing"
  /\ rest' = apush /\ apush' = <<>>
  /\ UNCHANGED <<ent, apush_nref, registered, driver, lock, call, at, counts, unseen,
                 freedUnder>>

FreeNext ==
  /\ gone = "freeing"
  /\ IF rest = <<>>
       THEN /\ gone' = "nobody" /\ driver' = FALSE
            /\ UNCHANGED <<ent, apush_nref, freedUnder, rest>>
       ELSE /\ ApushFree(Head(rest)) /\ rest' = Tail(rest)
            /\ UNCHANGED <<gone, driver>>
  /\ UNCHANGED <<apush, registered, lock, call, at, counts, unseen>>

\* lis_register_strdev
RegisterDev ==
  /\ ~driver
  /\ driver' = TRUE
  /\ UNCHANGED <<chain, registered, lock, call, remover, counts, unseen, freedUnder>>

---------------------------------------------------------------------------
Given == {c \in Content : /\ c.cmd = "SAP_CLEAR" => c.push = <<>>
                          /\ c.cmd # "SAP_CLEAR" => c.push \in Pushes
                          /\ c.cmd # "SAP_RANGE" => c.lastminor = c.minor
                          /\ c.cmd = "SAP_RANGE" => c.minor < c.lastminor \/ c.lastminor = 0
                          /\ c.cmd = "SAP_ALL" => c.minor = 0}

\* What follows on the use of freed memory is not described.
Next ==
  /\ ~freedUnder
  /\ \/ \E p \in Proc : \/ \E c \in Given : Set(p, c)
                        \/ \E n \in Minor : Find(p, n)
                        \/ Validate(p) \/ Conf(p) \/ Copy(p) \/ Count(p)
     \/ \E m \in Mod : Unregister(m) \/ Drop(m)
     \/ UnregisterDev \/ FreeMajor \/ FreeNext \/ RegisterDev

Spec == Init /\ [][Next]_vars

---------------------------------------------------------------------------
(* Properties *)

Installed == {apush[i] : i \in DOMAIN apush}
Leaving == {rest[i] : i \in DOMAIN rest}

Covered(c) == CASE c.cmd = "SAP_ALL"   -> Minor
                [] c.cmd = "SAP_ONE"   -> {c.minor}
                [] c.cmd = "SAP_RANGE" -> c.minor .. c.lastminor

TimesIn(S, m) ==
  Cardinality({x \in S \X (1..MaxList) : x[2] \in DOMAIN ent[x[1]].push
                                            /\ ent[x[1]].push[x[2]] = m})

\* The chain is sorted and no minor device is configured twice (apush_conf), and
\* apush_nref counts how often the lists name a module, through removals that hold
\* no lock against the changes of the chain.
ChainKept ==
  ~freedUnder =>
    /\ \A i, j \in DOMAIN apush : i < j =>
         /\ Chained(i).minor < Chained(j).minor
         /\ Covered(Chained(i)) \cap Covered(Chained(j)) = {}
    /\ \A m \in Mod : apush_nref[m] = TimesIn(Installed \cup Leaving, m)
    /\ \A e \in Installed \cup Leaving : ent[e] \in Content

\* lis_apushm asserts that the modules of a list are registered: so they are, unless
\* one is being dropped, or was unregistered after apush_validate and before the list
\* was installed.
ListedIsRegistered ==
  ~freedUnder /\ ~unseen =>
    \A e \in Installed : \A i \in DOMAIN ent[e].push :
      ent[e].push[i] \in registered \cup {gone}

\* An open is never told of more modules than lis_apushm has given it the names of.
NoNameMadeUp ==
  ~freedUnder =>
    \A p \in Proc : At(p, "count") => Len(ent[a[p]].push) <= Len(mods[p])

\* Entries and ranges come to a table of minor devices.
Config == [n \in Minor |->
             LET S == {i \in DOMAIN apush : n \in Covered(Chained(i))}
             IN IF S = {} THEN Null ELSE Chained(CHOOSE i \in S : TRUE).push]
Table == INSTANCE AutopushTable WITH NoList <- Null, config <- Config
ConfiguresMinors == Table!Spec

\* The minor devices of a range are found, and no others are (find_apush_entry).
RangeIsFound ==
  \A n \in Minor :
    FindApushEntry(n) = Null <=> \A i \in DOMAIN apush : n \notin Covered(Chained(i))
=============================================================================
