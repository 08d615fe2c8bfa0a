SPECIFICATION FairSpec
CONSTANTS
    Servers = {p}
    Reads = {robot, human}
    EntityOf <- OneEntity
    Humans = {human}
    Entities = {e}
    EntityRows = {e}
    QueueSize = 1
    BatchSize = 1
    MaxEdits = 1
PROPERTY RobotsDoNotUnarchive
CHECK_DEADLOCK FALSE
