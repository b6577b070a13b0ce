------------------------------- MODULE MCPrograms ------------------------------
(* hmsrv as a daemon and the configuration memory of the example node.  The two *)
(* programs share nothing, so each is checked alone: program is the one that    *)
(* runs.                                                                        *)
EXTENDS Daemon, NodeConfig

VARIABLE program

vars == <<program, daemonVars, memVars>>

Init ==
    /\ program \in {"hmsrv", "hnode"}
    /\ DaemonInit
    /\ MemInit

Next ==
    /\ UNCHANGED program
    /\ \/ program = "hmsrv" /\ DaemonNext /\ UNCHANGED memVars
       \/ program = "hnode" /\ MemNext /\ UNCHANGED daemonVars

Spec == Init /\ [][Next]_vars /\ DaemonFairness

AddressesDef == {0, 4096, 5632, 33280, 33536, 33792, 41472}
================================================================================
