--------------------------- MODULE MCInstanceLock ---------------------------
(* Three processes of one host, the third with the PID of the first, and     *)
(* one process of another host that has that PID as well.                   *)
EXTENDS InstanceLock

CONSTANTS p1, p2, p3, p4

MCProcesses == {p1, p2, p3, p4}
MCPidOf == [p \in MCProcesses |-> IF p = p2 THEN 2 ELSE 1]
MCHostOf == [p \in MCProcesses |-> IF p = p4 THEN "elsewhere" ELSE "here"]
=============================================================================
