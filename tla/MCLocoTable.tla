----------------------------- MODULE MCLocoTable -----------------------------
EXTENDS LocoTable

\* Two locos and the address that a careless client makes of a negative
\* number: three addresses for the two slots of the run.
MCCabs == {-5, 3, 4}
=============================================================================
