------------------------------ MODULE MCReplay ------------------------------
\* Replay for TLC: traces of up to MaxSteps steps; the contract's Nat is bounded by it.
EXTENDS Replay
=============================================================================
