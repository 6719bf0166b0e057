--------------------------- MODULE MCStaffProfiles ----------------------------
(* Small instances of StaffProfiles; m1 is set up beforehand. *)
EXTENDS StaffProfiles, TLC

CONSTANTS m1, m2

\* The members are told apart by Founders.
Symmetry == Permutations(Emails) \cup Permutations(Photos)
            \cup Permutations(Registrations) \cup Permutations(Requests)
===============================================================================
