\* A ring of three bytes filled past its cap and drained two at a time by both tasks, under fairness.
CONSTANTS
    Cap = 3
    Chunk = 2
    MaxSend = 2
    MaxOffered = 5
SPECIFICATION RingFairSpec
INVARIANT StreamIntact
PROPERTY Drained
