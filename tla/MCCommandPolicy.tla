--------------------------- MODULE MCCommandPolicy ---------------------------
\* Instances of CommandPolicy for TLC. Liveness is checked, so no symmetry.
EXTENDS CommandPolicy
=============================================================================
