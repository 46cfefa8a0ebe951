------------------------------ MODULE MCShell ------------------------------
(***************************************************************************)
(* Shell for TLC.  "a" stands for a name of 27 characters and "a..." for a  *)
(* longer one that begins with it: strncpy stores both as "a".  The other   *)
(* names fit.                                                              *)
(***************************************************************************)
EXTENDS Shell

MCTruncated == [n \in Name \cup {".", ".."} |-> IF n = "a..." THEN "a" ELSE n]

Relative(n) == [abs |-> FALSE, comps |-> <<n>>]

MCPath ==
  {Relative(n) : n \in Name \cup {".."}} \cup {[abs |-> TRUE, comps |-> <<>>]}
    \cup {[abs |-> TRUE, comps |-> <<"a", "b">>]}
=============================================================================
