------------------------------ MODULE MCRunLife ------------------------------
EXTENDS RunLife
MCEarlySteps == <<"research">>
=============================================================================
