------------------------------- MODULE MsgUtil -------------------------------
(***************************************************************************)
(* The message utilities of head/msgutl.c: what adjmsg, pullupmsg,         *)
(* msgpullup, linkb and rmvb make of a message, a sequence of blocks with  *)
(* a type and the bytes between b_rptr and b_wptr, none of which is        *)
(* negative in number.  Each loop over b_cont is a fold over the sequence. *)
(* Memory is there; what runs out of it returns before it has changed the  *)
(* message.                                                                *)
(***************************************************************************)
EXTENDS Integers, Sequences, SequencesExt

CONSTANTS
    Type,             \* message types
    MaxBlocks,        \* of a message
    MaxBytes,         \* of a block
    MaxCalls

VARIABLES
    mp,               \* the message
    was,              \* the message before the last call
    call,             \* the last call
    result,           \* the new message of msgpullup
    calls

vars == <<mp, was, call, result, calls>>

\* Byte j of block i is <<i, j>>.
Blocks(i) == UNION {[type : Type, data : {[j \in 1 .. n |-> <<i, j>>]}] : n \in 0 .. MaxBytes}
Message   == UNION {{m \in [1 .. n -> UNION {Blocks(i) : i \in 1 .. n}] :
                         \A i \in 1 .. n : m[i] \in Blocks(i)} : n \in 1 .. MaxBlocks}

NoCall == [name |-> "none", arg |-> 0, rtn |-> 0]

Init == /\ mp \in Message /\ was = mp
        /\ call = NoCall /\ result = <<>> /\ calls = 0

-----------------------------------------------------------------------------
(* Sizes                                                                   *)

Size(b) == Len(b.data)
DropN(b, n) == [b EXCEPT !.data = SubSeq(@, n + 1, Len(@))]
KeepN(b, n) == [b EXCEPT !.data = SubSeq(@, 1, n)]
Lesser(a, b) == IF a < b THEN a ELSE b

\* The blocks at the front of one type: their number and size.
SameType(m) ==
    FoldLeft(LAMBDA acc, b : IF acc.on /\ b.type = m[1].type
                             THEN [acc EXCEPT !.n = @ + 1, !.size = @ + Size(b)]
                             ELSE [acc EXCEPT !.on = FALSE],
             [on |-> TRUE, n |-> 0, size |-> 0], m)
xmsgsize(m) == SameType(m).size

\* The blocks at the back of one type: where they start, and their size.
tmsgsize(m) ==
    FoldLeft(LAMBDA acc, b :
                 IF b.type = acc.type
                 THEN [acc EXCEPT !.at = @ + 1, !.size = @ + Size(b)]
                 ELSE [type |-> b.type, at |-> acc.at + 1, first |-> acc.at + 1,
                       size |-> Size(b)],
             [type |-> m[1].type, at |-> 0, first |-> 1, size |-> 0], m)

-----------------------------------------------------------------------------
(* lis_adjmsg: [rtn, mp]                                                   *)

\* From the front, block by block until length is used up.
NotLess(length, n) == length
Less(length, n)    == length - n
TrimHead(m, length) ==
    FoldLeft(LAMBDA acc, b :
                 IF acc.done THEN [acc EXCEPT !.mp = Append(@, b)]
                 ELSE IF Size(b) > acc.length
                 THEN [acc EXCEPT !.mp = Append(@, DropN(b, acc.length)), !.done = TRUE]
                 ELSE [mp |-> Append(acc.mp, DropN(b, Size(b))),
                       length |-> Less(acc.length, Size(b)),
                       done |-> acc.length = Size(b)],
             [mp |-> <<>>, length |-> length, done |-> FALSE], m).mp

\* At the back, length bytes are left alone first.
TrimTail(m, length) ==
    FoldLeft(LAMBDA acc, b :
                 IF acc.length <= 0 THEN [acc EXCEPT !.mp = Append(@, DropN(b, Size(b)))]
                 ELSE [mp |-> Append(acc.mp, KeepN(b, Lesser(Size(b), acc.length))),
                       length |-> acc.length - Size(b)],
             [mp |-> <<>>, length |-> length], m).mp

adjmsg(m, length) ==
    LET t == tmsgsize(m)
    IN  IF length >= 0
        THEN IF length > xmsgsize(m) THEN [rtn |-> 0, mp |-> m]
             ELSE [rtn |-> 1, mp |-> TrimHead(m, length)]
        ELSE IF length + t.size < 0 THEN [rtn |-> 0, mp |-> m]
             ELSE [rtn |-> 1,
                   mp |-> SubSeq(m, 1, t.first - 1)
                          \o TrimTail(SubSeq(m, t.first, Len(m)), length + t.size)]

-----------------------------------------------------------------------------
(* lis_pullupmsg: [rtn, mp]; aligned tells whether b_rptr of the first     *)
(* block is                                                                *)

\* Bytes move to the new block until it has length of them; a block other than
\* the first that is empty then is taken out and freed.
Gather(m, length) ==
    FoldLeft(LAMBDA acc, b :
                 LET n    == Lesser(Size(b), acc.length)
                     rest == DropN(b, n)
                 IN  IF acc.length = 0 \/ acc.stop \/ b.type # m[1].type
                     THEN [acc EXCEPT !.stop = TRUE, !.mp = Append(@, b)]
                     ELSE [data |-> acc.data \o SubSeq(b.data, 1, n),
                           length |-> acc.length - n, stop |-> FALSE,
                           mp |-> IF acc.mp # <<>> /\ Size(rest) = 0 THEN acc.mp
                                  ELSE Append(acc.mp, rest)],
             [data |-> <<>>, length |-> length, stop |-> FALSE, mp |-> <<>>], m)

Wanted(m, length)  == IF length < Size(m[1]) THEN Size(m[1]) ELSE length
pullupmsg(m, length, aligned) ==
    LET all  == IF length = -1 THEN xmsgsize(m) ELSE length
        got  == Gather(m, Wanted(m, all))
    IN  IF length < -1 \/ all > xmsgsize(m) THEN [rtn |-> 0, mp |-> m]
        ELSE IF all = 0 \/ (all <= Size(m[1]) /\ aligned) THEN [rtn |-> 1, mp |-> m]
        ELSE [rtn |-> 1, mp |-> [got.mp EXCEPT ![1].data = got.data]]

-----------------------------------------------------------------------------
(* lis_msgpullup: the new message, or <<>> for NULL                        *)

\* The first len bytes, then what is left of the block they end in; at counts
\* the blocks that are done.
LeftOver(b, n) == IF n < Size(b) THEN <<DropN(b, n)>> ELSE <<>>
CopyFirst(m, len) ==
    FoldLeft(LAMBDA acc, b :
                 LET n == Lesser(Size(b), acc.len)
                 IN  IF acc.len = 0 \/ acc.stop \/ b.type # m[1].type
                     THEN [acc EXCEPT !.stop = TRUE]
                     ELSE [data |-> acc.data \o SubSeq(b.data, 1, n), at |-> acc.at + 1,
                           len |-> acc.len - n, left |-> LeftOver(b, n), stop |-> FALSE],
             [data |-> <<>>, at |-> 0, len |-> len, left |-> <<>>, stop |-> FALSE], m)

msgpullup(m, len) ==
    LET c == CopyFirst(m, IF len < 0 THEN xmsgsize(m) ELSE len)
    IN  IF c.len > 0 THEN <<>>
        ELSE <<[m[1] EXCEPT !.data = c.data]>> \o c.left \o SubSeq(m, c.at + 1, Len(m))

-----------------------------------------------------------------------------
(* Calls                                                                   *)

Call(name, arg, rtn, m, new) ==
    /\ calls < MaxCalls /\ calls' = calls + 1
    /\ was' = mp /\ mp' = m
    /\ call' = [name |-> name, arg |-> arg, rtn |-> rtn] /\ result' = new

Lengths == 0 .. MaxBlocks * MaxBytes + 1

Adjmsg == \E length \in Lengths \cup {-n : n \in Lengths} :
    LET r == adjmsg(mp, length) IN Call("adjmsg", length, r.rtn, r.mp, <<>>)
Pullupmsg == \E length \in Lengths \cup {-1}, aligned \in BOOLEAN :
    LET r == pullupmsg(mp, length, aligned)
    IN  Call("pullupmsg", length, r.rtn, r.mp, <<>>)
Msgpullup == \E len \in Lengths \cup {-1} : Call("msgpullup", len, 1, mp, msgpullup(mp, len))

\* lis_rmvb, of a block other than the only one: that block in result.
Rmvb == \E i \in DOMAIN mp :
    /\ Len(mp) > 1
    /\ Call("rmvb", i, 1, RemoveAt(mp, i), <<mp[i]>>)

Next == Adjmsg \/ Pullupmsg \/ Msgpullup \/ Rmvb

Spec == Init /\ [][Next]_vars

-----------------------------------------------------------------------------
(* Properties                                                              *)

\* The bytes of a message, each with its type, and those its first or its last
\* blocks of one type hold.
Bytes(m)   == FlattenSeq([i \in DOMAIN m |-> [j \in DOMAIN m[i].data |->
                                                  <<m[i].type, m[i].data[j]>>]])
OneType(m) == \A i, j \in DOMAIN m : m[i].type = m[j].type
Longest(ms) == CHOOSE m \in ms : \A n \in ms : Len(m) >= Len(n)
HeadOf(m) == Longest({p \in {SubSeq(m, 1, n) : n \in 0 .. Len(m)} : OneType(p)})
TailOf(m)  == Longest({p \in {SubSeq(m, n, Len(m)) : n \in 1 .. Len(m) + 1} : OneType(p)})
NBytes(m) == Len(Bytes(m))

\* adjmsg "trim[s] abs(len) bytes from a message", at its head or its tail, or
\* does nothing when these are not all of one type; it removes no block.
Trims ==
    call.name = "adjmsg" =>
        LET k == call.arg
            b == Bytes(was)
        IN  IF call.rtn = 0
            THEN mp = was /\ (k > NBytes(HeadOf(was)) \/ -k > NBytes(TailOf(was)))
            ELSE /\ Bytes(mp) = IF k >= 0 THEN SubSeq(b, k + 1, Len(b))
                                ELSE SubSeq(b, 1, Len(b) + k)
                 /\ Len(mp) = Len(was) /\ \A i \in DOMAIN mp : mp[i].type = was[i].type

\* pullupmsg and msgpullup leave the bytes and their types as they are and have
\* the first block hold as many as asked for, when so many are of one type.
Pulled(m, len) ==
    LET n == IF len = -1 THEN NBytes(HeadOf(was)) ELSE len
    IN  Bytes(m) = Bytes(was) /\ Size(m[1]) >= n
PullsUp ==
    /\ call.name = "pullupmsg" =>
           IF call.rtn = 0 THEN mp = was /\ call.arg > NBytes(HeadOf(was))
           ELSE Pulled(mp, call.arg) /\ Size(mp[1]) >= Size(was[1])
    /\ call.name = "msgpullup" =>
           IF result = <<>> THEN call.arg > NBytes(HeadOf(was))
           ELSE Pulled(result, call.arg)

MessageIntact == Trims /\ PullsUp
=============================================================================
