---------------------------- MODULE MCEnrollment ----------------------------
\* Small instance of Enrollment for TLC; the hosts are model values.
EXTENDS Enrollment
=============================================================================
