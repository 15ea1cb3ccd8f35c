SPECIFICATION FairSpec
CONSTANTS
    Session = {s1, s2}
    Caller = {c1, c2}
    Path = {p1}
    Listable = {p1}
    MaxConcurrent = 1
    MaxChanges = 1
    None = None
INVARIANTS
    SlotsAreHeld
    OwnListing
    ReadsAreListed
PROPERTIES
    CallsEnd
    SlotsComeBack
