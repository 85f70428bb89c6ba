CONSTANTS
    Job = {j1, j2, j3}
    NoJob = NoJob
    Capacity = 4
SPECIFICATION RingSpec
PROPERTY DequeSpec
