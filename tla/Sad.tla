--------------------------------- MODULE Sad ---------------------------------
(***************************************************************************)
(* The administrative driver (drivers/str/sad.c) and the copy dialogues of *)
(* its ioctls with the stream head (lis_strdoioctl): the driver asks for   *)
(* data with M_COPYIN and M_COPYOUT, the head answers with M_IOCDATA, and  *)
(* ioc_state says which answer the driver waits for.                       *)
(*                                                                         *)
(* The head gives a dialogue up without a word to the driver when the user *)
(* cannot be copied from or to.  Every open of a minor runs sad_open.      *)
(* What SAD_SAP and SAD_GAP do to the table is in Autopush.                *)
(***************************************************************************)
EXTENDS Integers, FiniteSets

CONSTANTS Minor,       \* minors, each with the stream that is open on it
          Process, MaxOpen

VARIABLES
    rq,          \* minors that have a queue
    ioc_state,   \* minor -> the answer the driver waits for
    users,       \* minor -> processes that have it open
    head,        \* minor -> what the stream head has to do: "idle", or the request
    cmd,         \* minor -> the command of the ioctl under way
    result,      \* minor -> how the last ioctl ended
    abandoned,   \* minors on which a dialogue was given up since the last open
    disturbed,   \* minors that were opened during a dialogue
    opens

vars == <<rq, ioc_state, users, head, cmd, result, abandoned, disturbed, opens>>

Cmd == {"SAD_SAP", "SAD_GAP", "SAD_VML"}

Init == /\ rq = {} /\ ioc_state = [m \in Minor |-> "NONE"]
        /\ users = [m \in Minor |-> {}] /\ head = [m \in Minor |-> "idle"]
        /\ cmd = [m \in Minor |-> "none"] /\ result = [m \in Minor |-> "none"]
        /\ abandoned = {} /\ disturbed = {} /\ opens = 0

----------------------------------------------------------------------------
(* sad_open, of a minor or of the first free one but 0, and sad_close.     *)
sad_open(p, m) ==
    /\ opens < MaxOpen /\ opens' = opens + 1
    /\ p \notin users[m]
    /\ rq' = rq \cup {m}
    /\ ioc_state' = [ioc_state EXCEPT ![m] = "NONE"]
    /\ users' = [users EXCEPT ![m] = @ \cup {p}]
    /\ abandoned' = abandoned \ {m}
    /\ disturbed' = IF head[m] = "idle" THEN disturbed ELSE disturbed \cup {m}
    /\ UNCHANGED <<head, cmd, result>>

FreeMinors == Minor \ (rq \cup {0})
CloneOpen(p) == /\ FreeMinors # {}
                /\ sad_open(p, CHOOSE m \in FreeMinors : \A n \in FreeMinors : m <= n)

Close(p, m) ==
    /\ p \in users[m] /\ head[m] = "idle"
    /\ users' = [users EXCEPT ![m] = @ \ {p}]
    /\ rq' = IF users[m] = {p} THEN rq \ {m} ELSE rq     \* sad_close
    /\ UNCHANGED <<ioc_state, head, cmd, result, abandoned, disturbed, opens>>

----------------------------------------------------------------------------
(* An ioctl: lis_strdoioctl sends it, sad_do_ioctl asks for the argument.  *)
Ends(m, r) == /\ head' = [head EXCEPT ![m] = "idle"]
              /\ cmd' = [cmd EXCEPT ![m] = "none"]
              /\ result' = [result EXCEPT ![m] = r]
              /\ disturbed' = disturbed \ {m}

Asks(m, what, s) == /\ head' = [head EXCEPT ![m] = what]
                    /\ ioc_state' = [ioc_state EXCEPT ![m] = s]
                    /\ UNCHANGED result

First(c) == CASE c = "SAD_SAP" -> "SAP_IN"
              [] c = "SAD_GAP" -> "GAP_IN"
              [] c = "SAD_VML" -> "VML_IN1"

Busy(m) == ioc_state[m] # "NONE"

\* Refused: by anyone but root, or in the midst of another dialogue.
Ioctl(p, m, c, root) ==
    /\ p \in users[m] /\ head[m] = "idle"
    /\ \/ /\ Busy(m)
          /\ Ends(m, "busy") /\ UNCHANGED ioc_state
       \/ /\ ~Busy(m) /\ c = "SAD_SAP" /\ ~root
          /\ Ends(m, "EACCES") /\ UNCHANGED ioc_state
       \/ /\ ~Busy(m) /\ (c = "SAD_SAP" => root)
          /\ Asks(m, "M_COPYIN", First(c))
          /\ cmd' = [cmd EXCEPT ![m] = c]
          /\ UNCHANGED disturbed
    /\ UNCHANGED <<rq, users, abandoned, opens>>

\* The copy to or from the user fails: the head returns the error and sends
\* nothing.
CopyFails(m) ==
    /\ head[m] # "idle"
    /\ Ends(m, "EFAULT")
    /\ abandoned' = abandoned \cup {m}
    /\ UNCHANGED <<rq, ioc_state, users, opens>>

\* No block for the data: M_IOCDATA says so, and sad_iocdata ends the ioctl
\* without looking at its state.
NoBlock(m) ==
    /\ head[m] = "M_COPYIN"
    /\ Ends(m, "ENOMEM")
    /\ abandoned' = abandoned \cup {m}
    /\ UNCHANGED <<rq, ioc_state, users, opens>>

\* sad_iocdata of a copy that went well.  The table may refuse what it is told.
After == [SAP_IN |-> "NONE", GAP_IN |-> "GAP_OUT", GAP_OUT |-> "NONE",
          VML_IN1 |-> "VML_IN2", VML_IN2 |-> "NONE"]
Acked(m)   == ioc_state' = [ioc_state EXCEPT ![m] = "NONE"] /\ Ends(m, "acked")
RefusedAhead(m) == /\ ioc_state' = [ioc_state EXCEPT ![m] = After[@]]    \* mutant
                   /\ Ends(m, "refused")
Refused(m) == ioc_state' = [ioc_state EXCEPT ![m] = "NONE"] /\ Ends(m, "refused")
GoesOn(m, what) == /\ Asks(m, what, After[ioc_state[m]])
                   /\ UNCHANGED <<cmd, disturbed>>
sad_iocdata(m) ==
    /\ head[m] # "idle"
    /\ CASE ioc_state[m] = "SAP_IN"             -> Acked(m) \/ Refused(m)
         [] ioc_state[m] = "GAP_IN"             -> GoesOn(m, "M_COPYOUT") \/ Refused(m)
         [] ioc_state[m] = "GAP_OUT"            -> Acked(m)
         [] ioc_state[m] = "VML_IN1"            -> GoesOn(m, "M_COPYIN") \/ Refused(m)
         [] ioc_state[m] = "VML_IN2"            -> Acked(m)
         [] OTHER -> Ends(m, "unexpected") /\ UNCHANGED ioc_state
    /\ UNCHANGED <<rq, users, abandoned, opens>>

Next == \/ \E p \in Process :
              \/ CloneOpen(p)
              \/ \E m \in Minor : \/ sad_open(p, m) \/ Close(p, m)
                                  \/ \E c \in Cmd, root \in BOOLEAN : Ioctl(p, m, c, root)
        \/ \E m \in Minor : CopyFails(m) \/ NoBlock(m) \/ sad_iocdata(m)

Spec == Init /\ [][Next]_vars

----------------------------------------------------------------------------
\* The stages at which the driver and the head may be, in step.
InStep(m) ==
    \/ head[m] = "idle" /\ ioc_state[m] = "NONE"
    \/ head[m] = "M_COPYIN" /\ \/ cmd[m] = "SAD_SAP" /\ ioc_state[m] = "SAP_IN"
                               \/ cmd[m] = "SAD_GAP" /\ ioc_state[m] = "GAP_IN"
                               \/ cmd[m] = "SAD_VML" /\ ioc_state[m] \in {"VML_IN1", "VML_IN2"}
    \/ head[m] = "M_COPYOUT" /\ cmd[m] = "SAD_GAP" /\ ioc_state[m] = "GAP_OUT"

\* Driver and head agree on where the dialogue is, unless the head gave one up or
\* the minor was opened in the midst of one; so an ioctl is refused as busy, or an
\* answer is unexpected, on such a minor only.
DialogueInStep ==
    \A m \in Minor : \/ InStep(m) \/ m \in abandoned \cup disturbed
=============================================================================
