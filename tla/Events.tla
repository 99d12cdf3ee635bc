-------------------------------- MODULE Events --------------------------------
(***************************************************************************)
(* Who is told of what happens at a stream head: the processes that asked  *)
(* for a signal (I_SETSIG; head/events.c, kill_procs), and those that poll *)
(* (lis_poll_2_1, lis_poll_bits, lis_wake_up_poll).                        *)
(*                                                                         *)
(* A walker goes through the list of processes node by node, and no lock   *)
(* keeps the list as it is meanwhile: one walker is the stream head's read *)
(* queue (lis_process_rput), the other its write queue (lis_strwsrv).  The *)
(* order inside a signal's handler, and other processes' polls, are not    *)
(* modelled.                                                               *)
(***************************************************************************)
EXTENDS Integers, Sequences, FiniteSets

CONSTANTS
    Pid,                  \* processes, numbers: the list is sorted
    Poller, Wants,        \* pollers, and what poll is asked for
    Asks,                 \* arguments of I_SETSIG
    Arrival,              \* what arrives: types of messages
    MaxQueue, MaxArrival, MaxAsk

PidAssumption == Pid \subseteq Nat \ {0}

Null == <<>>                  \* sd_siglist before the first I_SETSIG; its head is 0
Walker == {"rput", "wsrv"}

VARIABLES
    sd_siglist,      \* process -> the events it asked for; or Null
    sd_sigflags,     \* what anybody has asked for
    q,               \* the types of the messages in the read queue
    sd_flag,         \* STRDERR, STRHUP
    full, noted,     \* downstream is full; and will enable the write queue
    wsrv,            \* it is enabled
    cur, evs, rest,  \* walker -> its node, what for, and what follows
    told,            \* walker -> signals sent on this walk
    changed,         \* walker -> processes whose node changed since it has begun
    pc, want,        \* poller -> what it does and wants
    arrivals, asks,
    covered,         \* a message is or was behind another one, which is still there
    astray           \* a walker is at a node that has been freed, or has no list

lists   == <<sd_siglist, sd_sigflags, asks>>
walks   == <<cur, evs, rest, told, changed, astray>>
stream  == <<q, sd_flag, full, noted, wsrv, arrivals, covered>>
pollers == <<pc, want>>
vars    == <<lists, walks, stream, pollers>>

Idle == 0
Init == /\ sd_siglist = Null /\ sd_sigflags = {} /\ asks = 0
        /\ cur = [w \in Walker |-> Idle] /\ evs = [w \in Walker |-> {}]
        /\ rest = [w \in Walker |-> <<>>] /\ told = [w \in Walker |-> {}]
        /\ changed = [w \in Walker |-> {}] /\ astray = FALSE
        /\ q = <<>> /\ sd_flag = {} /\ full = FALSE /\ noted = FALSE /\ wsrv = FALSE
        /\ arrivals = 0 /\ covered = FALSE
        /\ pc = [p \in Poller |-> "idle"] /\ want = [p \in Poller |-> {}]

----------------------------------------------------------------------------
(* The list.  A process has one node, by its number.                       *)

Listed == DOMAIN sd_siglist \ {0}
\* lis_get_elist_ent
Asked(p) == IF p \in Listed THEN sd_siglist[p] ELSE {}
Changes(p) == changed' = [w \in Walker |-> changed[w] \cup {p}]
Ask == asks < MaxAsk /\ asks' = asks + 1

\* I_SETSIG with events: lis_add_to_elist, and the events are noted for all.
SetSig(p, events) ==
    /\ Ask /\ sd_sigflags' = sd_sigflags \cup events
    /\ sd_siglist' = [r \in Listed \cup {0, p} |->
                        IF r = p THEN Asked(p) \cup events ELSE Asked(r)]
    /\ Changes(p) /\ UNCHANGED <<cur, evs, rest, told, astray, stream, pollers>>

\* I_SETSIG with 0, and lis_doclose: lis_del_from_elist.  The head of the list stays,
\* so sd_sigflags does.
DroppedFlags(p) == sd_siglist' = [r \in DOMAIN sd_siglist \ {p} |-> sd_siglist[r]]
                   /\ sd_sigflags' = {}
Dropped(p) == sd_siglist' = [r \in DOMAIN sd_siglist \ {p} |-> sd_siglist[r]]
              /\ UNCHANGED sd_sigflags
Unset(p) ==
    /\ p \in Listed /\ Dropped(p)
    /\ astray' = (astray \/ \E w \in Walker : cur[w] = p)
    /\ Changes(p) /\ UNCHANGED <<asks, cur, evs, rest, told, stream, pollers>>

----------------------------------------------------------------------------
(* kill_procs                                                              *)

After(n) == {p \in Listed : p > n}
Least(S) == CHOOSE p \in S : \A r \in S : p <= r
NextOf(n) == IF After(n) = {} THEN Idle ELSE Least(After(n))

StartsAt(w, n, e) ==
    /\ cur' = [cur EXCEPT ![w] = n] /\ evs' = [evs EXCEPT ![w] = e]
    /\ rest' = [rest EXCEPT ![w] = <<"poll">>]
    /\ told' = [told EXCEPT ![w] = {}] /\ changed' = [changed EXCEPT ![w] = {}]

\* Its callers walk only for what somebody has asked for, ...
Starts(w, e) ==
    /\ StartsAt(w, IF e \cap sd_sigflags = {} THEN Idle ELSE NextOf(0), e \cap sd_sigflags)
    /\ UNCHANGED astray

\* ... but for signalusr, which does not test sd_sigflags, and follows se_next of the
\* head of the list though there may be none.  SIGPOLL as a set of events: it is 29.
SIGPOLL == {"S_INPUT", "S_OUTPUT", "S_MSG", "S_ERROR"}
AtNull  == -1
Signalusr ==
    /\ StartsAt("rput", IF sd_siglist = Null THEN AtNull ELSE NextOf(0), SIGPOLL)
    /\ astray' = (astray \/ sd_siglist = Null)

\* The urgent signal takes the place of SIGPOLL for who asked for it, whatever has
\* happened, unless there is more than a message in a band.
Signals(p, e) ==
    IF sd_siglist[p] \cap e = {} THEN {}
    ELSE IF {"S_BANDURG", "S_RDBAND"} \subseteq sd_siglist[p]
    THEN {"SIGURG"} \cup (IF (sd_siglist[p] \cap e) \ {"S_RDBAND"} # {}
                          THEN {"SIGPOLL"} ELSE {})
    ELSE {"SIGPOLL"}

Walk(w) ==
    LET p == cur[w]
    IN /\ p \in Listed /\ ~astray
       /\ told' = [told EXCEPT ![w] = @ \cup ({p} \X Signals(p, evs[w]))]
       /\ cur' = [cur EXCEPT ![w] = NextOf(p)]
       /\ UNCHANGED <<evs, rest, changed, astray, lists, stream, pollers>>

----------------------------------------------------------------------------
(* poll                                                                    *)

POLLERRHUP == {"POLLERR", "POLLHUP"}

\* lis_poll_bits, but for what is linked and for bands downstream.
Bits ==
    IF "STRDERR" \in sd_flag THEN {"POLLERR"}
    ELSE IF "STRHUP" \in sd_flag THEN {"POLLHUP"}
    ELSE (IF full THEN {} ELSE {"POLLOUT"})
         \cup (IF q = <<>> THEN {}
               ELSE CASE q[1] = "M_PCPROTO" -> {"POLLPRI"}
                      [] q[1] = "M_DATA"    -> {"POLLIN", "POLLRDNORM"}
                      [] q[1] = "band"      -> {"POLLIN", "POLLRDBAND"}
                      [] q[1] = "M_SIG"     -> {"POLLIN", "POLLMSG"})

\* lis_poll_2_1: on the wait queue first, ...
PollWait(p, ev) ==
    /\ pc[p] = "idle" /\ pc' = [pc EXCEPT ![p] = "waiting"]
    /\ want' = [want EXCEPT ![p] = ev \cup POLLERRHUP]
    /\ UNCHANGED <<lists, walks, stream>>

\* ... then the events are looked for; testing downstream for room notes the wish.
PollBits(p) ==
    /\ pc[p] \in {"waiting", "woken"}
    /\ pc' = [pc EXCEPT ![p] = IF Bits \cap want[p] # {} THEN "idle" ELSE "asleep"]
    /\ noted' = (noted \/ (full /\ sd_flag = {}))
    /\ UNCHANGED <<want, lists, walks, q, sd_flag, full, wsrv, arrivals, covered>>

\* A poller that is on its way to sleep when it is woken does not.
OnQueue == {p \in Poller : pc[p] \in {"waiting", "asleep", "woken"}}
WakeUpPoll == pc' = [p \in Poller |-> IF pc[p] = "asleep" THEN "woken" ELSE pc[p]]

----------------------------------------------------------------------------
(* lis_process_rput                                                        *)

Resting(w) == cur[w] = Idle /\ rest[w] = <<>>
Arrives == arrivals < MaxArrival /\ arrivals' = arrivals + 1
Then(w, f) == rest' = [rest EXCEPT ![w] = f]

\* The place that putq gives to a message: high priority, bands, others.
Rank(t) == CASE t = "M_PCPROTO" -> 2 [] t = "band" -> 1 [] OTHER -> 0
Behind(t) == Cardinality({i \in DOMAIN q : Rank(q[i]) >= Rank(t)})
Put(t) == q' = SubSeq(q, 1, Behind(t)) \o <<t>> \o SubSeq(q, Behind(t) + 1, Len(q))

NoSignals == sd_sigflags = {}
Nobody    == sd_sigflags = {} /\ OnQueue = {}

\* Nobody is told of a message that is not the first in the queue.
PutMessage(t) ==
    /\ t \in {"M_DATA", "band", "M_PCPROTO"} /\ t \in Arrival /\ Resting("rput")
    /\ Arrives /\ Len(q) < MaxQueue /\ Put(t)
    /\ covered' = (covered \/ q # <<>>)
    /\ IF Nobody \/ (t # "M_PCPROTO" /\ Behind(t) > 0)
       THEN UNCHANGED walks
       ELSE /\ Then("rput", <<"tell", t>>)
            /\ UNCHANGED <<cur, evs, told, changed, astray>>
    /\ UNCHANGED <<lists, sd_flag, full, noted, wsrv, pollers>>

Events(t) == CASE t = "M_PCPROTO" -> {"S_HIPRI"}
               [] t = "M_DATA"    -> {"S_INPUT", "S_RDNORM"}
               [] t = "band"      -> {"S_INPUT", "S_RDBAND"}
\* (The read queue is locked: what was first still is.)
Tell ==
    /\ cur["rput"] = Idle /\ rest["rput"] # <<>> /\ rest["rput"][1] = "tell"
    /\ Starts("rput", Events(rest["rput"][2]))
    /\ UNCHANGED <<lists, stream, pollers>>

\* lis_check_m_sig: a signal at the front of the queue is taken.
CheckSig(queue) ==
    IF queue # <<>> /\ queue[1] = "M_SIG"
    THEN q' = Tail(queue) /\ Signalusr
    ELSE q' = queue /\ UNCHANGED walks

PutSig == /\ "M_SIG" \in Arrival /\ Resting("rput") /\ Arrives /\ Len(q) < MaxQueue
          /\ CheckSig(SubSeq(q, 1, Behind("M_SIG")) \o <<"M_SIG">>)
          /\ covered' = (covered \/ q # <<>>)
          /\ UNCHANGED <<lists, sd_flag, full, noted, wsrv, pollers>>

\* M_PCSIG is not queued; M_ERROR and M_HANGUP set a flag.
PutState(t) ==
    /\ t \in {"M_PCSIG", "M_ERROR", "M_HANGUP"} \cap Arrival /\ Resting("rput") /\ Arrives
    /\ CASE t = "M_PCSIG"  -> Signalusr /\ UNCHANGED sd_flag
         [] t = "M_ERROR"  -> /\ Starts("rput", {"S_ERROR"})
                              /\ sd_flag' = sd_flag \cup {"STRDERR"}
         [] t = "M_HANGUP" -> /\ Starts("rput", {"S_HANGUP"})
                              /\ sd_flag' = sd_flag \cup {"STRHUP"}
    /\ UNCHANGED <<lists, q, full, noted, wsrv, covered, pollers>>

\* When the walk has come to its end those are woken who are on the wait queue.
RputWakes ==
    /\ cur["rput"] = Idle /\ rest["rput"] = <<"poll">> /\ WakeUpPoll /\ Then("rput", <<>>)
    /\ UNCHANGED <<want, cur, evs, told, changed, astray, lists, stream>>

\* A reader takes the first message, and sees to a signal that follows, the read
\* queue being locked: there is no walk then.
Read == /\ Resting("rput") /\ q # <<>>
        /\ CheckSig(Tail(q)) /\ covered' = (covered /\ q' # <<>>)
        /\ UNCHANGED <<lists, sd_flag, full, noted, wsrv, arrivals, pollers>>

----------------------------------------------------------------------------
(* lis_strwsrv                                                             *)

Fill  == /\ ~full /\ full' = TRUE /\ Arrives
         /\ UNCHANGED <<lists, walks, q, sd_flag, noted, wsrv, covered, pollers>>
Drain == /\ full /\ full' = FALSE /\ wsrv' = (wsrv \/ noted) /\ noted' = FALSE
         /\ UNCHANGED <<lists, walks, q, sd_flag, arrivals, covered, pollers>>

WriteService ==
    /\ wsrv /\ Resting("wsrv") /\ wsrv' = FALSE
    /\ Starts("wsrv", IF full THEN {} ELSE {"S_OUTPUT"})
    /\ noted' = (noted \/ full)
    /\ UNCHANGED <<lists, q, sd_flag, full, arrivals, covered, pollers>>
WsrvWakes ==
    /\ cur["wsrv"] = Idle /\ rest["wsrv"] = <<"poll">> /\ Then("wsrv", <<>>)
    /\ IF full \/ OnQueue = {} THEN UNCHANGED pc ELSE WakeUpPoll
    /\ noted' = (noted \/ (full /\ OnQueue # {}))
    /\ UNCHANGED <<want, cur, evs, told, changed, astray, lists, q, sd_flag, full, wsrv,
                   arrivals, covered>>

----------------------------------------------------------------------------
Next == \/ \E p \in Pid : Unset(p) \/ \E e \in Asks : SetSig(p, e)
        \/ \E w \in Walker : Walk(w)
        \/ \E p \in Poller : PollBits(p) \/ \E ev \in Wants : PollWait(p, ev)
        \/ \E t \in Arrival : PutMessage(t) \/ PutState(t)
        \/ PutSig \/ Tell \/ RputWakes \/ Read
        \/ Fill \/ Drain \/ WriteService \/ WsrvWakes

Spec == Init /\ [][Next]_vars

----------------------------------------------------------------------------
\* Every process gets a signal of what it has asked for, though the test before the
\* walk goes by a summary that is updated in another place and never corrected, and
\* though others come and go while the walk is on: who keeps its node is not passed
\* over.  (What the walk steps on when a node is freed under it is another matter.)
WhoAskedIsTold ==
    ~astray =>
        /\ \A p \in Listed : sd_siglist[p] \subseteq sd_sigflags
        /\ \A w \in Walker : rest[w] = <<"poll">> =>
               \A p \in Listed \ changed[w] :
                   /\ cur[w] = Idle \/ p < cur[w]
                   /\ sd_siglist[p] \cap evs[w] # {}
                   => \E s \in {"SIGURG", "SIGPOLL"} : <<p, s>> \in told[w]

\* No poller sleeps while there is what it waits for, unless that came to light when
\* a message in front of it was read: whoever brings it about goes on to wake it.
\* (lis_process_rput wakes nobody for a message that is not the first, and a reader
\* wakes nobody at all.)
NoPollerForgotten ==
    \A p \in Poller :
        pc[p] = "asleep" /\ Bits \cap want[p] # {} =>
            \/ rest["rput"] # <<>>
            \/ rest["wsrv"] # <<>> \/ wsrv
            \/ covered
=============================================================================
