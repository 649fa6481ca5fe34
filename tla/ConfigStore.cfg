SPECIFICATION Spec
CONSTANTS
    c1 = c1
    c2 = c2
    Callers <- MCCallers
    MaxCalls = 4
    MaxDevices = 2
INVARIANTS
    StoredIdentityWorks
PROPERTIES
    WgSuccessIsStored
    LicenseSuccessIsStored
    StoredWgIsKept
CHECK_DEADLOCK FALSE
