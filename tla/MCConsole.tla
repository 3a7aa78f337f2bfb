------------------------------ MODULE MCConsole ------------------------------
EXTENDS Console
MCViews   == DOMAIN ViewOf
MCChanges == [v \in MCViews |-> IF v = "monitoring" THEN 1 ELSE 2]
MCOpens   == [v \in MCViews |-> IF v = "keys" THEN 3 ELSE 2]
=============================================================================
