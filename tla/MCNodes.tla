------------------------------- MODULE MCNodes -------------------------------
\* An instance of Nodes for TLC: one identity and its process.
EXTENDS Nodes

CONSTANTS i1, shell, screen

Mine == [d \in Daemons |-> i1]
=============================================================================
