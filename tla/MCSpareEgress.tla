---------------------------- MODULE MCSpareEgress ----------------------------
EXTENDS SpareEgress
=============================================================================
