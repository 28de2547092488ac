SPECIFICATION FairSpec
CONSTANTS
 MaxOpens = 2
PROPERTY LiveResumes
CHECK_DEADLOCK FALSE
