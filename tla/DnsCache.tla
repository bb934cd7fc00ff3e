------------------------------- MODULE DnsCache -------------------------------
(***************************************************************************)
(* The table of resolved host names (dnscache.c) and the only code that    *)
(* uses it, the DNS step of loadfile_buff(): ask the table, resolve the    *)
(* name if it does not know it, and add the answer.  Resolving takes time, *)
(* and a name may resolve to another address each time.                    *)
(***************************************************************************)
EXTENDS Integers, FiniteSets

CONSTANTS
    HostNames,        \* names, up to the case of letters (strcasecmp)
    LongHosts,        \* those longer than DNS_MAXHOSTLEN
    Addresses,
    NoHost,           \* the name in a slot never written
    NoAddress,
    DNS_MAXENTRIES,   \* slots of the table
    DNS_CACHETIME,    \* seconds an entry may be used
    StartTime,        \* time(NULL) when the program starts
    MaxTime           \* bound on the clock

ASSUME DnsAssumption ==
    /\ IsFiniteSet(HostNames) /\ LongHosts \subseteq HostNames
    /\ NoHost \notin HostNames /\ NoAddress \notin Addresses
    /\ DNS_MAXENTRIES \in Nat \ {0}
    /\ DNS_CACHETIME \in Nat
    /\ StartTime \in Nat /\ StartTime > DNS_CACHETIME
    /\ MaxTime \in Nat

VARIABLES
    table,      \* dnscache_table
    now,        \* time(NULL)
    resolving,  \* the name sent to the resolver, if any
    ipaddr,     \* the address the last load was given
    resolved    \* ghost: the last answer of the resolver for each name

dnsvars == <<table, now, resolving, ipaddr, resolved>>

Slots == 0 .. DNS_MAXENTRIES - 1

Entry == [host : HostNames \cup {NoHost}, addr : Addresses \cup {NoAddress},
          inserttime : Nat]
Answer == [addr : Addresses \cup {NoAddress}, time : Nat]

\* The table is a static array of zero bytes.
DnsInit ==
    /\ table = [x \in Slots |->
                  [host |-> NoHost, addr |-> NoAddress, inserttime |-> 0]]
    /\ now = StartTime
    /\ resolving = NoHost
    /\ ipaddr = NoAddress
    /\ resolved = [h \in HostNames |-> [addr |-> NoAddress, time |-> 0]]

-----------------------------------------------------------------------------
ExpiredNever(x) == FALSE   \* a mistaken version
Expired(x) == table[x].inserttime < now - DNS_CACHETIME

\* The slots that answer for host.
Hits(host) == {x \in Slots : ~Expired(x) /\ table[x].host = host}

\* The slots dnscache_add() may write: the one that knows host, or else the
\* first of the oldest ones.
Known(host) == {x \in Slots : table[x].inserttime > 0 /\ table[x].host = host}
Oldest == {x \in Slots :
             \A y \in Slots : table[x].inserttime <= table[y].inserttime}
First(S) == {x \in S : \A y \in S : x <= y}

BestSlotsNewest(host) ==   \* a mistaken version
    IF Known(host) # {} THEN First(Known(host))
    ELSE First({x \in Slots :
                  \A y \in Slots : table[x].inserttime >= table[y].inserttime})

BestSlots(host) ==
    IF Known(host) # {} THEN First(Known(host)) ELSE First(Oldest)

Stamp(host, addr, time) == [host |-> host, addr |-> addr, inserttime |-> time]

NeverRefreshed(host, addr) ==   \* a mistaken version
    IF host \in LongHosts \/ Known(host) # {} THEN UNCHANGED table
    ELSE \E x \in BestSlots(host) :
           table' = [table EXCEPT ![x] = Stamp(host, addr, now)]

dnscache_add(host, addr) ==
    IF host \in LongHosts THEN UNCHANGED table
    ELSE \E x \in BestSlots(host) :
           table' = [table EXCEPT ![x] = Stamp(host, addr, now)]

-----------------------------------------------------------------------------
\* A load needs the address of host: from the table, or from the resolver.
AskHit(host) ==
    /\ resolving = NoHost
    /\ \E x \in First(Hits(host)) : ipaddr' = table[x].addr
    /\ UNCHANGED <<table, now, resolving, resolved>>

AskMiss(host) ==
    /\ resolving = NoHost /\ Hits(host) = {}
    /\ resolving' = host
    /\ UNCHANGED <<table, now, ipaddr, resolved>>

Lookup(addr) ==
    /\ resolving # NoHost
    /\ dnscache_add(resolving, addr)
    /\ resolved' = [resolved EXCEPT ![resolving] = [addr |-> addr, time |-> now]]
    /\ resolving' = NoHost
    /\ ipaddr' = addr
    /\ UNCHANGED now

LookupFails ==
    /\ resolving # NoHost
    /\ resolving' = NoHost
    /\ UNCHANGED <<table, now, ipaddr, resolved>>

\* The clock is assumed never to be set back.
Tick ==
    /\ \E t \in (now + 1) .. MaxTime : now' = t
    /\ UNCHANGED <<table, resolving, ipaddr, resolved>>

DnsNext ==
    \/ \E host \in HostNames : AskHit(host) \/ AskMiss(host)
    \/ \E addr \in Addresses : Lookup(addr)
    \/ LookupFails
    \/ Tick

DnsSpec == DnsInit /\ [][DnsNext]_dnsvars
-----------------------------------------------------------------------------
(* Properties.                                                             *)

\* The shapes of the variables; nothing is stamped later than now.
DnsTypeOK ==
    /\ table \in [Slots -> Entry]
    /\ now \in Nat /\ now >= StartTime
    /\ resolving \in HostNames \cup {NoHost}
    /\ ipaddr \in Addresses \cup {NoAddress}
    /\ resolved \in [HostNames -> Answer]
    /\ \A x \in Slots : table[x].inserttime <= now
    /\ \A h \in HostNames : resolved[h].time <= now

\* Asking is unambiguous: a name is in one slot at most, so an old address
\* cannot come back once the slot of the new one has expired or was reused.
HostOnce ==
    \A x, y \in Slots :
        table[x].host = table[y].host /\ table[x].host # NoHost => x = y

\* What dnscache_ask() answers is what the resolver said last about that very
\* name, at most DNS_CACHETIME seconds ago.
AnswersLatest ==
    \A h \in HostNames : \A x \in Hits(h) :
        /\ table[x].addr = resolved[h].addr
        /\ resolved[h].addr # NoAddress
        /\ resolved[h].time >= now - DNS_CACHETIME

\* A name is only ever pushed out by names resolved no earlier.
EvictsOldest ==
    \A h \in HostNames \ LongHosts :
        \/ \E x \in Slots : table[x].host = h
        \/ \A x \in Slots : table[x].inserttime >= resolved[h].time

\* What the table is for: a name resolved at most DNS_CACHETIME seconds ago is
\* not looked up again unless DNS_MAXENTRIES other names have been resolved
\* since then.
Recent(h) == {g \in HostNames \ {h} : resolved[g].time >= resolved[h].time}

NoNeedlessLookup ==
    \A h \in HostNames \ LongHosts :
        resolved[h].addr # NoAddress
          /\ resolved[h].time >= now - DNS_CACHETIME
          /\ Cardinality(Recent(h)) < DNS_MAXENTRIES
        => Hits(h) # {}
=============================================================================
