SPECIFICATION Spec
CONSTANTS
    Records = {r1, r2, r3}
    NoRecord = NoRecord
SYMMETRY RecordSymmetry
INVARIANTS TypeOK AcceptedIffGrounded PlansAreCarriedOut TargetsFirst EveryItemIsWritten
