--------------------------- MODULE MCSshAuthority ---------------------------
\* An instance of SshAuthority for TLC.
EXTENDS SshAuthority, TLC

Symmetry == Permutations(Keys) \cup Permutations(Sessions) \cup Permutations(Entries)
=============================================================================
