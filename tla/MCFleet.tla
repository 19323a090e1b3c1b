------------------------------ MODULE MCFleet -------------------------------
EXTENDS Fleet
=============================================================================
