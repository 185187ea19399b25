SPECIFICATION Spec
CONSTANTS
    Input <- MCInput
    MinInt <- MCMinInt
    MaxReceived = 2
CHECK_DEADLOCK FALSE
INVARIANT
    NoCollapse
