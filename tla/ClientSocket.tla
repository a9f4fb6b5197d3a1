---------------------------- MODULE ClientSocket ----------------------------
(***************************************************************************)
(* Creating and destroying a client (driver/client.c 83-208): a client     *)
(* block, an address list from getaddrinfo and a descriptor are acquired   *)
(* one after the other, each library call may fail, and what was acquired  *)
(* must be given back.  A server binds to an address of the list, any      *)
(* other client is only given a socket and an address.                     *)
(*                                                                         *)
(* The block is the client itself; its buffer is HttpBuffer's, and         *)
(* WebClient puts the two together.                                        *)
(***************************************************************************)
EXTENDS Integers, Sequences, FiniteSets

CONSTANTS
    Descriptors,   \* the descriptors the process may have
    Hosts,         \* conf->host: among "NULL", "localhost", "v4", "v6", "name"
    MaxAddrs       \* bound on the addresses getaddrinfo finds for a name

ASSUME ConfAssumption == /\ Hosts \subseteq {"NULL", "localhost", "v4", "v6", "name"}
                         /\ MaxAddrs \in Nat \ {0}

Families == {"inet", "inet6"}
Configs == [server : BOOLEAN, port : BOOLEAN, host : Hosts, domain : Families \cup {"unspec"}]
NoSocket == -1
EADDRINUSE == 98

VARIABLES
    block,      \* is the client block allocated?
    info,       \* is the address list allocated?
    fds,        \* the open descriptors: their family and what they are bound to
    step,       \* where webdriverCreateClient is
    conf,       \* what it was asked for
    domain,     \* its local: the family it still looks for
    addrs,      \* the families of the addresses in the list
    node,       \* the address looked at, 0 for none
    fd,         \* its local: the socket opened last
    stat,       \* its local: the result of bind
    addr,       \* addr__
    sock,       \* sock__ of the client the caller has
    holds,      \* has the caller a client?
    answer,     \* what the last webdriverCreateClient returned
    tried,      \* history: the addresses bind was called on
    unbound     \* history: how many calls answered that bind failed

vars == <<block, info, fds, step, conf, domain, addrs, node, fd, stat, addr,
          sock, holds, answer, tried, unbound>>

NoAddr == [family |-> "unspec", from |-> 0]
NoConf == [server |-> FALSE, port |-> FALSE, host |-> "NULL", domain |-> "unspec"]

Init ==
    /\ block = FALSE /\ info = FALSE
    /\ fds = [d \in {} |-> NoAddr]
    /\ step = "idle"
    /\ conf = NoConf /\ domain = "unspec"
    /\ addrs = <<>> /\ node = 0
    /\ fd = NoSocket /\ stat = 0
    /\ addr = NoAddr /\ sock = NoSocket
    /\ holds = FALSE /\ answer = "none"
    /\ tried = {} /\ unbound = 0

(* The name's literal form, the default of NULL and "localhost" (102-103) *)
Literal(c) == IF c.host \in {"NULL", "localhost"}
              THEN IF c.domain = "inet6" THEN "v6" ELSE "v4"
              ELSE c.host

(* What getaddrinfo may find: a literal stands for itself *)
AddrLists(host) ==
    CASE host = "v4" -> {<<"inet">>}
      [] host = "v6" -> {<<"inet6">>}
      [] OTHER -> UNION {[1..n -> Families] : n \in 1..MaxAddrs}

(* The call ends and the caller gets r *)
Answer(r) == step' = "idle" /\ answer' = r

(* webdriverDealloc(client) *)
Dealloc == block' = FALSE

(* The call ends with an error and without a client *)
GiveUp(r) == Dealloc /\ Answer(r)

(* Mutant of Closed: the descriptor stays open *)
ClosedNot(d) == fds

(* The descriptors once d is opened, or closed *)
Opened(d, a) == [x \in DOMAIN fds \cup {d} |-> IF x = d THEN a ELSE fds[x]]
Closed(d) == [x \in DOMAIN fds \ {d} |-> fds[x]]

---------------------------------------------------------------------------
CreateClient(c) ==
    /\ step = "idle" /\ ~holds
    /\ conf' = c /\ domain' = c.domain
    /\ addrs' = <<>> /\ node' = 0 /\ fd' = NoSocket /\ stat' = 0 /\ tried' = {}
    /\ addr' = NoAddr
    /\ \/ Answer("EOMEM") /\ UNCHANGED block
       \/ /\ block' = TRUE
          /\ step' = IF ~c.server /\ c.port THEN "connect" ELSE "resolve"
          /\ UNCHANGED answer
    /\ UNCHANGED <<info, fds, sock, holds, unbound>>

(* 118-123: getaddrinfo *)
Resolve ==
    /\ step = "resolve"
    /\ \/ /\ GiveUp("ADDRINFO")
          /\ UNCHANGED <<info, addrs, node>>
       \/ /\ addrs' \in AddrLists(Literal(conf))
          /\ info' = TRUE /\ node' = 1
          /\ step' = "try"
          /\ UNCHANGED <<block, answer>>
    /\ UNCHANGED <<fds, conf, domain, fd, stat, addr, sock, holds, tried, unbound>>

(* 128-135: the first address of the family, looked for from the head of   *)
(* the list; without one any family will do, from the head again           *)
Matching == {i \in 1..Len(addrs) : addrs[i] = domain}
First(s) == CHOOSE i \in s : \A j \in s : i <= j

(* Mutant of Candidate: the family asked for is not looked for *)
CandidateAny == node

Candidate == IF domain = "unspec" THEN node
             ELSE IF Matching = {} THEN 1 ELSE First(Matching)
LooksFor == IF Matching = {} THEN "unspec" ELSE domain

(* 137-144 *)
SocketFails ==
    /\ step = "try"
    /\ domain' = LooksFor /\ node' = Candidate
    /\ info' = FALSE /\ GiveUp("EOSOCK")
    /\ UNCHANGED <<fds, conf, addrs, fd, stat, addr, sock, holds, tried, unbound>>

(* 146-148.  bind is told that an address has sizeof (struct sockaddr)     *)
(* bytes, too few for AF_INET6, which it refuses.                          *)
BindResults(family) ==
    IF ~conf.server THEN {[stat |-> stat, errno |-> "none"]}
    ELSE {[stat |-> -1, errno |-> e] : e \in {"EADDRINUSE", "EINVAL"}}
         \cup (IF family = "inet" THEN {[stat |-> 0, errno |-> "none"]} ELSE {})

(* Mutant of LeavesLoop: errno is what is compared with EADDRINUSE *)
LeavesLoopByErrno(r) == r.stat = 0 \/ r.errno # "EADDRINUSE"

(* 149: bind returns 0 or -1, and it is that which is compared *)
LeavesLoop(r) == r.stat = 0 \/ r.stat # EADDRINUSE

(* 136-157: one turn of the loop, with a socket.  Otherwise the socket is  *)
(* closed, its result being the new stat, and the next address is due.     *)
TryAddress ==
    /\ step = "try"
    /\ domain' = LooksFor
    /\ \E d \in Descriptors \ DOMAIN fds, r \in BindResults(addrs[Candidate]) :
          LET opened == [family |-> addrs[Candidate],
                         from |-> IF conf.server /\ r.stat = 0 THEN Candidate ELSE 0]
          IN /\ fd' = d
             /\ tried' = IF conf.server THEN tried \cup {Candidate} ELSE tried
             /\ IF LeavesLoop(r)
                THEN /\ stat' = r.stat /\ node' = Candidate
                     /\ fds' = Opened(d, opened)
                     /\ step' = "finish"
                ELSE /\ stat' \in {0, -1}
                     /\ node' = IF Candidate < Len(addrs) THEN Candidate + 1 ELSE 0
                     /\ step' = IF Candidate < Len(addrs) THEN "try" ELSE "finish"
                     /\ UNCHANGED fds
    /\ UNCHANGED <<block, info, conf, addrs, addr, sock, holds, answer, unbound>>

(* Mutant of Recorded: the head of the list is recorded *)
RecordedHead == [family |-> addrs[1], from |-> 1]

(* 162-163: the address the loop stopped at, if any *)
Recorded == IF node # 0 THEN [family |-> addrs[node], from |-> node] ELSE addr

(* 159-173 and the end: a socket that could not be bound stays open *)
Finish ==
    /\ step = "finish"
    /\ addr' = Recorded
    /\ info' = FALSE
    /\ \/ /\ stat # 0
          /\ GiveUp("EOBIND") /\ unbound' = unbound + 1
          /\ UNCHANGED <<sock, holds>>
       \/ /\ stat = 0
          /\ sock' = fd /\ holds' = TRUE
          /\ Answer("CLIENT")
          /\ UNCHANGED <<block, unbound>>
    /\ UNCHANGED <<fds, conf, domain, addrs, node, fd, stat, tried>>

(* Mutant of SocketFamily: no family is not taken for AF_INET *)
SocketFamilyAsked == domain

(* 180-181 *)
SocketFamily == IF domain = "inet6" THEN "inet6" ELSE "inet"

(* setsockaddr and setsockaddr6: inet_pton leaves the address as it was,   *)
(* zero, when the host is no literal of the family                         *)
SetSockAddr(family) ==
    [family |-> family,
     from |-> IF Literal(conf) = (IF family = "inet6" THEN "v6" ELSE "v4") THEN 1 ELSE 0]

(* 177-197: a client with a port needs no list *)
Connect ==
    /\ step = "connect"
    /\ addr' = SetSockAddr(SocketFamily) /\ domain' = SocketFamily
    /\ \/ GiveUp("EOSOCK") /\ UNCHANGED <<fds, fd, sock, holds>>
       \/ \E d \in Descriptors \ DOMAIN fds :
             /\ fd' = d /\ sock' = d /\ holds' = TRUE
             /\ fds' = Opened(d, [family |-> SocketFamily, from |-> 0])
             /\ Answer("CLIENT") /\ UNCHANGED block
    /\ UNCHANGED <<info, conf, addrs, node, stat, tried, unbound>>

(* webdriverDestroyClient, but for the buffer *)
DestroyClient ==
    /\ step = "idle" /\ holds
    /\ fds' = Closed(sock) /\ Dealloc
    /\ holds' = FALSE /\ sock' = NoSocket
    /\ UNCHANGED <<info, step, conf, domain, addrs, node, fd, stat, addr, answer,
                   tried, unbound>>

---------------------------------------------------------------------------
(* What the running webdriverCreateClient does next *)
Continue == Resolve \/ SocketFails \/ TryAddress \/ Finish \/ Connect

Next ==
    \/ \E c \in Configs : CreateClient(c)
    \/ Continue
    \/ DestroyClient

Spec == Init /\ [][Next]_vars

(* A call that has started runs on: the library calls it makes return *)
FairSpec == Spec /\ WF_vars(Continue)

---------------------------------------------------------------------------
TypeOK ==
    /\ block \in BOOLEAN /\ info \in BOOLEAN /\ holds \in BOOLEAN
    /\ DOMAIN fds \subseteq Descriptors
    /\ \A d \in DOMAIN fds : fds[d].family \in Families /\ fds[d].from \in 0..MaxAddrs
    /\ step \in {"idle", "connect", "resolve", "try", "finish"}
    /\ conf \in Configs \cup {NoConf} /\ domain \in Families \cup {"unspec"}
    /\ addrs \in UNION {[1..n -> Families] : n \in 0..MaxAddrs}
    /\ node \in 0..Len(addrs) /\ fd \in Descriptors \cup {NoSocket}
    /\ sock \in Descriptors \cup {NoSocket}
    /\ stat \in {0, -1}

(* Between calls the client block is allocated exactly while the caller    *)
(* has a client, and no address list is: every error path frees what was   *)
(* allocated before it (client.c:118-123, 137-144, 163-172, 186-191).      *)
MemoryGivenBack == step = "idle" => (block <=> holds) /\ ~info

(* Between calls the open descriptors are the client's own, and one for    *)
(* each call that answered EOBIND, which alone forgets its socket.         *)
DescriptorsAccounted ==
    step = "idle" => Cardinality(DOMAIN fds) = unbound + (IF holds THEN 1 ELSE 0)

(* However creation ends, what was acquired is given back *)
ResourcesAccounted == MemoryGivenBack /\ DescriptorsAccounted

(* The client's address and its socket are of one family, and a server's   *)
(* socket is bound to the address it records (client.c:137-161, 181-186).  *)
AddressIsSockets ==
    holds => /\ sock \in DOMAIN fds
             /\ addr.family = fds[sock].family
             /\ conf.server => addr.from = fds[sock].from /\ addr.from # 0

(* A family that was asked for is the one the client gets, unless the list *)
(* has no address of it (client.c:128-135).                                *)
DomainHonoured ==
    holds /\ conf.domain # "unspec" =>
        \/ addr.family = conf.domain
        \/ addrs # <<>> /\ \A i \in 1..Len(addrs) : addrs[i] # conf.domain

(* webdriverCreateClient answers: the loop over the addresses ends         *)
(* (client.c:127-157).                                                     *)
CreateAnswers == (step # "idle") ~> (step = "idle")
============================================================================
