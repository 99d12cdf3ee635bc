------------------------------- MODULE MCRead -------------------------------
(* Instances of StreamRead for TLC: three of the nine pairs of read options *)
(* show every branch that looks at them.                                    *)
EXTENDS StreamRead
CONSTANTS r1, r2
ReadKinds == [r \in {r1, r2} |-> IF r = r1 THEN {"read"} ELSE {"getmsg", "gethipri"}]
RdOpts == {[mode |-> "RNORM", proto |-> "RPROTDAT"], [mode |-> "RMSGD", proto |-> "RPROTNORM"],
           [mode |-> "RMSGN", proto |-> "both"]}
=============================================================================
