SPECIFICATION DnsSpec
CONSTANTS
    a = a
    b = b
    c = c
    long = long
    ip1 = ip1
    ip2 = ip2
    HostNames <- MCHostNames
    LongHosts <- MCLongHosts
    Addresses <- MCAddresses
    NoHost = NoHost
    NoAddress = NoAddress
    DNS_MAXENTRIES = 2
    DNS_CACHETIME = 1
    StartTime = 2
    MaxTime = 5
SYMMETRY Symmetry
INVARIANTS
    AnswersLatest
    EvictsOldest
    NoNeedlessLookup
