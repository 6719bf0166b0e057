CONSTANTS
    Jobs = {j1, j2}
    Users = {u1}
    Nobody = Nobody
    Staff = {s1}
    Posters = {p1}
    DbFails = FALSE

SPECIFICATION LiveSpec

PROPERTIES
    DueJobsClose
