--------------------------- MODULE MCMaintenance ---------------------------
EXTENDS Maintenance

\* Two finished runs, one of them legacy; and a migrated run beside an unfinished one.
MCRoots == {<<"legacy", "current">>, <<"migrated", "active">>}
===========================================================================
