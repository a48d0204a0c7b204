CONSTANTS
    Coroutine = {q1, q2, q3}
    Threshold = 2
    Nobody = Nobody
SPECIFICATION FairHealthSpec
PROPERTY RecordingEnds
