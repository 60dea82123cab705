---------------------------- MODULE MCDockerHost ----------------------------
\* Pools and ids are interchangeable: the run checks safety only.
EXTENDS DockerHost

Symmetry == Permutations(Pools) \cup Permutations(PoolIDs)
=============================================================================
