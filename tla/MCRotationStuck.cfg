SPECIFICATION FairRotation
CONSTANTS
    a = a
    b = b
    c = c
    Scrapable = {a, b, c}
    Slots = 2
    HeadSlots = 1
    GapSlots = 0
    QuarantineAt = 1
    Fates <- UnstampedOf
    Slow = {b}
    Watched = c
CHECK_DEADLOCK FALSE
PROPERTIES
    Rotates
