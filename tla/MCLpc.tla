------------------------------- MODULE MCLpc -------------------------------
\* Instances of Lpc for TLC.
EXTENDS Lpc
=============================================================================
