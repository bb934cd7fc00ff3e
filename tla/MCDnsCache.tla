------------------------------ MODULE MCDnsCache ------------------------------
(* Two slots for three cacheable names and one that is too long, and a     *)
(* clock that runs past the lifetime of an entry twice.                    *)
EXTENDS DnsCache, TLC

CONSTANTS a, b, c, long, ip1, ip2

MCHostNames == {a, b, c, long}
MCLongHosts == {long}
MCAddresses == {ip1, ip2}

Symmetry == Permutations({a, b, c}) \cup Permutations(MCAddresses)
=============================================================================
