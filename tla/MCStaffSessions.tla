--------------------------- MODULE MCStaffSessions ----------------------------
(* Small instances of StaffSessions; m1 is an admin and set up beforehand. *)
EXTENDS StaffSessions, TLC

CONSTANTS m1, m2

\* Sessions and requests are alike; the members are not.
Symmetry == Permutations(Sessions) \cup Permutations(Requests)
===============================================================================
