-------------------------- MODULE MCMachineSetReuse --------------------------
(* Instances of MachineSetReuse for TLC.                                   *)
EXTENDS MachineSetReuse, TLC

CONSTANTS ms1, ms2, ms3, m1, m2, small, big

(* m2 belongs to the second MachineSet, when there is one.                 *)
SetOfMachine == [m \in Machines |-> IF m = m2 /\ ms2 \in MachineSets THEN ms2 ELSE ms1]

(* The third MachineSet is of the second type.                             *)
TypeOfSet == [ms \in MachineSets |-> IF ms = ms3 THEN big ELSE small]

(* The MachineSets' own replicas: none, or one of ms1.                     *)
BaseZero == [ms \in MachineSets |-> 0]
BaseOne == [ms \in MachineSets |-> IF ms = ms1 THEN 1 ELSE 0]

(* Machines of the one MachineSet are interchangeable, and AppWrappers are.*)
Symmetry == Permutations(Machines) \cup Permutations(AppWrappers)
=============================================================================
