------------------------------- MODULE MCIngest -------------------------------
\* One document, one worker that dies once: what a retry makes of its encounter.
EXTENDS Ingest
=============================================================================
