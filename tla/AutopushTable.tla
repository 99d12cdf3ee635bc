---------------------------- MODULE AutopushTable ----------------------------
(***************************************************************************)
(* What the autopush configuration of a driver is to those who use it: for *)
(* every minor device, no list or the list of modules to push.             *)
(***************************************************************************)
EXTENDS Naturals, Sequences

CONSTANTS Minor, Mod, Lists, NoList

VARIABLE config

Init == config = [n \in Minor |-> NoList]

Changed == {n \in Minor : config'[n] # config[n]}

\* Only what has no list is given one, and the same one everywhere.
Configure == \A m, n \in Changed : config[n] = NoList /\ config'[m] = config'[n]

\* The list of one minor, and of those that share it, is given up.
Unconfigure == \A m, n \in Changed : config[m] = config[n] /\ config'[n] = NoList

\* A module goes away, and leaves the lists.
Forget == \E m \in Mod : \A n \in Changed :
             config[n] # NoList /\ config'[n] = SelectSeq(config[n], LAMBDA x : x # m)

ForgetAll == \A n \in Minor : config'[n] = NoList

Next == /\ config' \in [Minor -> Lists \cup {NoList}]
        /\ Configure \/ Unconfigure \/ Forget \/ ForgetAll

Spec == Init /\ [][Next]_config
=============================================================================
