---------------------------- MODULE MCProcesses ----------------------------
(* Small instances of the process table: three ids, one or two execve      *)
(* calls for each process.                                                 *)
EXTENDS Processes

MCAllTargets == {AnyChild, 0, 2}
MCAny == {AnyChild}
=============================================================================
