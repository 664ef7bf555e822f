\* Violated: see the finding of the same name.
CONSTANTS
    Endpoints = {e1, e2}
    NoEndpoint = NoEndpoint
    MaxDatagrams = 4
    MaxDuplicates = 0
SYMMETRY Symmetry
SPECIFICATION Spec
INVARIANT
    ReplyToRequester
CHECK_DEADLOCK FALSE
