SPECIFICATION Spec
CONSTANTS
    x1 = x1
    x2 = x2
    n1 = n1
    n2 = n2
    e1 = e1
    e2 = e2
    e3 = e3
    None = None
    Registrations = {g1, g2}
    Deliveries = {d1, d2, d3}
    ExternalIds = {x1, x2}
    Usernames = {n1, n2}
    Events = {e1, e2, e3}
    Instants = {1, 2, 3}
    Profiles <- Applicants
    Decisions <- Verdicts
    Orders = {"CLOSED"}
INVARIANTS TypeOK BaselineIsNewest TrailExplainsBaseline AnswersMatchTrail OnePlayerPerKey
SYMMETRY Symmetry
