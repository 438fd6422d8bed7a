SPECIFICATION Spec
CONSTANTS
    NoValue = NoValue
    MaxRegistrations = 2
    MaxObjects = 2
INVARIANTS CodecIdTellsLaw TagsAreCanonical
PROPERTY RegistrationCompletes
CHECK_DEADLOCK FALSE
