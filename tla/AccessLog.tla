----------------------------- MODULE AccessLog ------------------------------
(***************************************************************************)
(* What a log of requests promises: a response is entered when it is over, *)
(* once; entries are shown in the order they were made; nothing is shown   *)
(* that was not entered.  Once the log is closed nothing more is shown,    *)
(* while responses may still end.                                          *)
(***************************************************************************)
EXTENDS Naturals, Sequences, SequencesExt

CONSTANT Responses

VARIABLES
    entries,  \* the responses entered, in order
    lines,    \* those shown
    open      \* the log is still written

accessVars == <<entries, lines, open>>

AccessInit ==
    /\ entries = <<>>
    /\ lines = <<>>
    /\ open \in BOOLEAN

Enter(r) ==
    /\ r \notin ToSet(entries)
    /\ entries' = Append(entries, r)
    /\ UNCHANGED <<lines, open>>

Show ==
    /\ open
    /\ \E n \in Len(lines) + 1 .. Len(entries) : lines' = SubSeq(entries, 1, n)
    /\ UNCHANGED <<entries, open>>

Close ==
    /\ open
    /\ open' = FALSE
    /\ UNCHANGED <<entries, lines>>

AccessNext == (\E r \in Responses : Enter(r)) \/ Show \/ Close

AccessSpec == AccessInit /\ [][AccessNext]_accessVars

=============================================================================
