CONSTANT Answers = {TRUE, FALSE}
SPECIFICATION FairSpec
INVARIANTS FailureJustified
PROPERTY CheckEnds
CHECK_DEADLOCK FALSE
