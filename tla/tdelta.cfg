\* The scans before and after the text gets longer or shorter.
CONSTANTS
    Starts = {40, 3580, 86380}
    Period = 10
    Times = 6
    ValSize = 40
SPECIFICATION Spec
CHECK_DEADLOCK FALSE
INVARIANT TextIsUptime
