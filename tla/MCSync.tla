-------------------------------- MODULE MCSync --------------------------------
\* The fetcher on a short chain, for model checking.
EXTENDS Sync

=============================================================================
