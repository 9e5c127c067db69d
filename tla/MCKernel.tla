------------------------------ MODULE MCKernel ------------------------------
EXTENDS KernelRefines, TLC

Symmetry == Permutations(Threads) \cup Permutations(Tasks)
              \cup Permutations(Mutexes) \cup Permutations(Procs)
=============================================================================
