SPECIFICATION Spec
CONSTANTS
    id1 = id1
    id2 = id2
    Conns = {c1, c2}
    Ids = {id1, id2}
    Requests <- MCRequests
    StoreFaults = {"rejected", "unacked"}
SYMMETRY MCConnSymmetry
INVARIANTS
    StoredJobsAreValid
    AnswersAreTrue
PROPERTIES
    ChangesAreAuthorized
