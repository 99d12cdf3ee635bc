------------------------------ MODULE Counted ------------------------------
(***************************************************************************)
(* What a reference count promises: an object exists from its creation     *)
(* until nobody holds it any more, and whoever wants to hold it must do so *)
(* while somebody else does, or find it in a table of living objects.      *)
(*                                                                         *)
(* The promise is void for an object that has been "abandoned", and an     *)
(* object that nobody holds may be left lying about ("leaked"): who        *)
(* implements the count says when either may happen.                       *)
(***************************************************************************)
CONSTANTS Object, Holder

VARIABLES
  life,      \* life[o]: "unborn", "live", "dead" or "abandoned"
  holders    \* holders[o]: who holds a living o

Init == /\ life = [o \in Object |-> "unborn"]
        /\ holders = [o \in Object |-> {}]

Create(o, u) == /\ life[o] = "unborn"
                /\ life' = [life EXCEPT ![o] = "live"]
                /\ holders' = [holders EXCEPT ![o] = {u}]

Acquire(o, u) == /\ life[o] = "live"
                 /\ holders[o] # {}
                 /\ u \notin holders[o]
                 /\ holders' = [holders EXCEPT ![o] = @ \cup {u}]
                 /\ UNCHANGED life

Release(o, u) == /\ life[o] = "live"
                 /\ u \in holders[o]
                 /\ holders' = [holders EXCEPT ![o] = @ \ {u}]
                 /\ UNCHANGED life

Destroy(o, u) == /\ life[o] = "live"
                 /\ holders[o] = {u}
                 /\ life' = [life EXCEPT ![o] = "dead"]
                 /\ holders' = [holders EXCEPT ![o] = {}]

Abandon(o) == /\ life[o] # "abandoned"
              /\ life' = [life EXCEPT ![o] = "abandoned"]
              /\ holders' = [holders EXCEPT ![o] = {}]

Next == \E o \in Object :
          \/ Abandon(o)
          \/ \E u \in Holder : \/ Create(o, u) \/ Acquire(o, u)
                               \/ Release(o, u) \/ Destroy(o, u)

Spec == Init /\ [][Next]_<<life, holders>>
=============================================================================
