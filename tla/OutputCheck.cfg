SPECIFICATION TextSpec
CONSTANTS
    Visible = {"a"}
    MaxEntered = 3
    MaxPrinted = 5
    MaxOutput = 4
INVARIANTS
    ExactOutputPasses
    PassedMeansSameBody
CHECK_DEADLOCK FALSE
