-------------------------------- MODULE MCKey --------------------------------
(***************************************************************************)
(* Instances of Key for model checking: one or two writers, two cpus.      *)
(***************************************************************************)
EXTENDS Key

CONSTANTS v, w, c1, c2, p1, p2

OneWriter == {w}
TwoWriters == {v, w}
TwoCpus == {c1, c2}
TwoPasswords == {p1, p2}
=============================================================================
