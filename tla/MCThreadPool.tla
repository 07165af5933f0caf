---------------------------- MODULE MCThreadPool ----------------------------
EXTENDS ThreadPool

MCThreads == Worker \cup {shell}
MCBase == [t \in MCThreads |-> IF t = shell THEN 20 ELSE 10]
=============================================================================
