------------------------------- MODULE MCFlow -------------------------------
(* Instances of FlowControl for TLC.                                        *)
EXTENDS FlowControl

\* FLUSHDATA of the whole queue, and FLUSHALL of band 1.
SomeFlushes == {<<-1, FALSE>>, <<1, TRUE>>}
=============================================================================
