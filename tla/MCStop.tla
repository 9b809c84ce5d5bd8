------------------------------- MODULE MCStop -------------------------------
\* One sender and one address: a STOP and the contacts row that comes after it.
EXTENDS Outbound

CONSTANTS w1, a1, tool

Kept == {<<tool, a1>>}
=============================================================================
