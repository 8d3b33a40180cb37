--------------------------- MODULE MCIndexerSnapshot ---------------------------
EXTENDS IndexerSnapshot

\* Two logs of two channels that (block, tx, log) order and (block, log, tx)
\* order put the other way round when they share a block.
MCLogs == {[tx |-> 0, li |-> 1, ch |-> 1], [tx |-> 1, li |-> 0, ch |-> 2]}
=============================================================================
