-------------------------- MODULE MCConcurrentEdits --------------------------
\* Every pair of concurrent edits of every document over two letters.
EXTENDS ConcurrentEdits

MCChar == {1, 2}
===============================================================================
