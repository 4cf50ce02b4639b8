-------------------------- MODULE MCCaloTransport ---------------------------
\* Instances of CaloTransport: two threads that count as master, so that the
\* once-flag has something to do, and a worker.
EXTENDS CaloTransport

TwoMasters == {"master", "main"}
AllThreads == TwoMasters \cup {"worker"}
=============================================================================
