\* Two clients that want the same login, with two passwords, and two requests
\* each: every overlap of two coroutines.
SPECIFICATION Spec
CONSTANTS
  Players = {p1, p2}
  Logins = {l1}
  Passwords = {w1, w2}
  UniqueLogin = FALSE
  ExperienceParses = FALSE
  MaxJobs = 2
SYMMETRY Symmetry
INVARIANTS TypeOK IdentityIntact UserProven
PROPERTIES IdentityStays AnsweredOnce
\* Clients connect once and send MaxJobs requests; then all may be at rest.
CHECK_DEADLOCK FALSE
