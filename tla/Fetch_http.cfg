SPECIFICATION Spec
CONSTANTS
    BUFMAX = 4
    HDRLEN = 2
    TIMEOUT = 3
    HTTP_TIMEOUT = 1
    MaxBody = 6
    DiskFaults <- MCDiskFaults
INVARIANT
    AnyProtocolExact
