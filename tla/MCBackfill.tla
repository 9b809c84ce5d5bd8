------------------------------ MODULE MCBackfill ------------------------------
\* A local export of three pages under a cap of two, and nothing that fails.
EXTENDS Backfill
=============================================================================
