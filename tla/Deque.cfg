SPECIFICATION FairSpec
CONSTANTS
    Thieves = {s1, s2}
    Capacity = 1
    MaxTasks = 3
PROPERTIES
    ImplementsWorkDeque
    PushedIsTaken
