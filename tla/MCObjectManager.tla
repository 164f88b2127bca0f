-------------------------- MODULE MCObjectManager --------------------------
\* Instances of ObjectManager for TLC.
EXTENDS ObjectManager, TLC
=============================================================================
