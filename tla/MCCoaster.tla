------------------------------ MODULE MCCoaster ------------------------------
EXTENDS Coaster, TLC

\* Trains are alike.
TrainSymmetry == Permutations(Train)
=============================================================================
