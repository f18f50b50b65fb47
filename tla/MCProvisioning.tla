--------------------------- MODULE MCProvisioning ----------------------------
\* Instances of Provisioning for TLC. Liveness is checked, so no symmetry.
EXTENDS Provisioning
=============================================================================
