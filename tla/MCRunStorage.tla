--------------------------- MODULE MCRunStorage ---------------------------
EXTENDS RunStorage

\* An empty run, runs that are just too full for a commitment, and just not.
MCFillers ==
  [bytes : {0, 1, ByteCap - 10, ByteCap - 9}, entries : {0}] \cup [bytes : {0}, entries : {1, 2, EntryCap - 2}]
===========================================================================
