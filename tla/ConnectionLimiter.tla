------------------------- MODULE ConnectionLimiter -------------------------
(***************************************************************************)
(* What the TCP side of the server promises, without its tasks, channels   *)
(* and semaphore: at most MaxConnections connections are in service at a   *)
(* time, a connection is admitted at most once, one that has left never    *)
(* comes back, and once the gate is closed nothing more is admitted.       *)
(* TcpWorkers implements this specification.                               *)
(***************************************************************************)
EXTENDS Naturals, FiniteSets

CONSTANTS Conns, MaxConnections

VARIABLES
    inService,  \* connections that hold one of the MaxConnections permits
    gone,       \* connections the server is done with, served or not
    open        \* FALSE once no connection can be admitted any more

limiterVars == <<inService, gone, open>>

LimiterInit ==
    /\ inService = {}
    /\ gone = {}
    /\ open = TRUE

Admit(c) ==
    /\ open
    /\ c \notin inService \cup gone
    /\ Cardinality(inService) < MaxConnections
    /\ inService' = inService \cup {c}
    /\ UNCHANGED gone
    /\ UNCHANGED open

Leave(c) ==
    /\ c \in inService
    /\ inService' = inService \ {c}
    /\ gone' = gone \cup {c}
    /\ UNCHANGED open

(* Connections that were never admitted are turned away, and the gate may  *)
(* close with them.                                                        *)
TurnAway(S) ==
    /\ S \cap (inService \cup gone) = {}
    /\ gone' = gone \cup S
    /\ open' \in {open, FALSE}
    /\ UNCHANGED inService

LimiterNext ==
    \/ \E c \in Conns : Admit(c) \/ Leave(c)
    \/ \E S \in SUBSET Conns : TurnAway(S)

LimiterSpec == LimiterInit /\ [][LimiterNext]_limiterVars

=============================================================================
