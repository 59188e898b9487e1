------------------------------ MODULE MCStream ------------------------------
EXTENDS StreamApp
CONSTANTS A, B

MCHosts == {A, B}
AAgain == [h \in MCHosts |-> IF h = A THEN 2 ELSE 1]
=============================================================================
