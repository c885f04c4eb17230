----------------------------- MODULE MCExecutor -----------------------------
(* Instances of Executor.                                                  *)
EXTENDS Executor

OneCall == <<"t1">>
ThreeCalls == <<"t1", "t2", "t3">>

Sleeping == [parts |-> {"timer"}, all |-> TRUE]
Waiting == [parts |-> {"event"}, all |-> TRUE]
Joined == [parts |-> {"timer", "event"}, all |-> TRUE]
Selected == [parts |-> {"timer", "event"}, all |-> FALSE]

Simple == {Sleeping, Waiting}
Join == {Joined}
Select == {Selected}
Event == {Waiting}
=============================================================================
