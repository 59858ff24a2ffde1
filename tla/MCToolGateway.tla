---------------------------- MODULE MCToolGateway ----------------------------
(* Small instances of ToolGateway for TLC: local tools (read, and run, which *)
(* the rules find risky or guards doubtful), and remote ones of two servers  *)
(* of which one name is offered by both and one is also local.               *)
EXTENDS ToolGateway

MCTools == {"read", "run", "fetch", "drop"}
MCLocal == {"read", "run"}
MCServers == <<"filesystem", "bash">>
MCLists == [filesystem |-> {"read", "fetch"}, bash |-> {"fetch", "drop"}]
MCRuling == [read |-> "plain", run |-> "risky", fetch |-> "plain", drop |-> "forbidden"]
MCLocalView == [read |-> "allow", run |-> "allow", fetch |-> "review", drop |-> "allow"]
=============================================================================
