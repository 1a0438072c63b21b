---------------------------- MODULE MCCncStream ----------------------------
(* Small programs for checking CncStream: with RxBufferSize = 5 a short    *)
(* line and a long one fit in the receive buffer together, no third one.   *)
EXTENDS CncStream

short == [kind |-> "cut", size |-> 1]
long  == [kind |-> "cut", size |-> 2]
bad   == [kind |-> "bad", size |-> 1]
tool  == [kind |-> "toolChange", size |-> 1]

\* A job that needs several refills, one the machine rejects, one with M6.
MCPrograms == { <<short, long, short>>, <<short, bad, short>>,
                <<short, tool, long>> }
MCPlainPrograms == { <<short, long, short>> }
MCToolPrograms == { <<tool, short, short>> }
=============================================================================
