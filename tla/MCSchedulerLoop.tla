-------------------------- MODULE MCSchedulerLoop --------------------------
EXTENDS SchedulerLoop, TLC

CONSTANTS p, q

PromptSymmetry == Permutations(Prompts)
=============================================================================
