------------------------------ MODULE MCProbe ------------------------------
EXTENDS Probe
=============================================================================
