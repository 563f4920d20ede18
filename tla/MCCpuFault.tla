---------------------------- MODULE MCCpuFault ----------------------------
(* Two threads on one local-memory object with one possible swap object.  *)
(* A thread makes one or two faults or vm_access calls. A pass of a     *)
(* fault may fail as long as the environment is failing, so a fault can  *)
(* run its loop any number of times while the other thread, the shrinker *)
(* and the invalidator act in between.                                    *)
EXTENDS CpuFault

CONSTANTS t1, t2, o1, o2, s1, s2

(* two faults or accesses for each thread *)
MCMaxFaultsTwo == [t \in {t1, t2} |-> 2]

(* one fault or access for each thread *)
MCMaxFaultsOne == [t \in {t1, t2} |-> 1]

=============================================================================
