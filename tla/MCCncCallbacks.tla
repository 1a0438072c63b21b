--------------------------- MODULE MCCncCallbacks ---------------------------
(* The IO thread and the main thread are the producers.                     *)
EXTENDS CncCallbacks

MCProducers == {Io, Main}
AllOperations == DOMAIN Script
=============================================================================
