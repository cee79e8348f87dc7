-------------------------- MODULE MCSamplerRecovery --------------------------
\* Instances of SamplerRecovery for TLC.  Sampler processes are interchangeable;
\* the symmetry is used only where no liveness property is checked.
EXTENDS SamplerRecovery, TLC

Symmetry == Permutations(Samplers)
=============================================================================
