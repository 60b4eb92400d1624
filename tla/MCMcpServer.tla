---------------------------- MODULE MCMcpServer ----------------------------
(* Two operator processes, one of them of an older build, and four sessions. *)
EXTENDS McpServer

MCBuild == [p \in Processes |-> IF p = "cron" THEN 1 ELSE 2]
MCBuildAlike == [p \in Processes |-> 1]

Bare(kind) == [kind |-> kind, msgs |-> <<>>]
One(id, method) == [kind |-> "frame", msgs |-> <<[id |-> id, method |-> method]>>]
Batch(msgs) == [kind |-> "frame", msgs |-> msgs]
MCScripts ==
    {<<One(1, "tool"), Bare("undecodable"), One(2, "tool")>>,
     <<Bare("undecodable"), Bare("garbled"), Bare("undecodable"), Batch(<<>>), Bare("blank"), One(1, "simple")>>,
     <<Bare("undecodable"), Bare("undecodable"), One(1, "simple")>>,
     <<Batch(<<[id |-> 1, method |-> "bad argument"], [id |-> 0, method |-> "tool"],
               [id |-> 2, method |-> "unknown tool"], [id |-> 0, method |-> "not an object"]>>),
       One(0, "simple"), One(3, "bad parameters"), One(4, "unknown method")>>}
MCToolScripts == {<<One(1, "tool")>>}
=============================================================================
