SPECIFICATION FairGroupSpec
CONSTANTS
    Members = {m1, m2, m3}
    Null = null
INVARIANT MembersSound
PROPERTIES CallsReturn
