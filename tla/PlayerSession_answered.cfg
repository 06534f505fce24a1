\* One client with three requests under way.
SPECIFICATION FairSpec
CONSTANTS
  Players = {p1}
  Logins = {l1}
  Passwords = {w1}
  UniqueLogin = TRUE
  ExperienceParses = TRUE
  MaxJobs = 3
PROPERTIES WorkGoesOn AllAnswered
\* Clients connect once and send MaxJobs requests; then all may be at rest.
CHECK_DEADLOCK FALSE
