--------------------------- MODULE MCVersionReload ---------------------------
(* Instances of VersionReload for TLC.                                     *)
EXTENDS VersionReload

(* The scripts have one of the bodies and the pages poll; or the site is   *)
(* gone, and its 404 page does not.                                        *)
MCSites ==
    {[polls |-> Pages, body |-> [x \in Scripts |-> c]] : c \in Bodies}
        \cup {[polls |-> {}, body |-> [x \in Scripts |-> Absent]]}

=============================================================================
