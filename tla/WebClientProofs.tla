-------------------------- MODULE WebClientProofs --------------------------
(***************************************************************************)
(* Creating a client gives back what it acquired, and the client's address *)
(* is its socket's, for every set of descriptors and of hosts and every    *)
(* length of the lists getaddrinfo finds.  The client as a whole takes the *)
(* steps of its socket and of its buffer, and between clients nothing is   *)
(* kept.                                                                   *)
(***************************************************************************)
EXTENDS WebClient, FiniteSetTheorems, SequenceTheorems, WellFoundedInduction, TLAPS

USE ConfAssumption

(* Where a call is: what it holds, and that the first turn of the loop,    *)
(* which looks for the family asked for, is the only one                   *)
Progress ==
    /\ step # "idle" => block /\ ~holds
    /\ info <=> step \in {"try", "finish"}
    /\ step \in {"connect", "resolve", "try"} => stat = 0 /\ domain = conf.domain
    /\ step = "connect" => ~conf.server
    /\ step = "try" => node \in 1..Len(addrs)
AddressFound ==
    /\ node \in 1..Len(addrs) /\ fd \in DOMAIN fds
    /\ fds[fd].family = addrs[node]
    /\ conf.server /\ stat = 0 => fds[fd].from = node
    /\ conf.domain # "unspec" =>
          \/ addrs[node] = conf.domain
          \/ \A i \in 1..Len(addrs) : addrs[i] # conf.domain
Chosen == step = "finish" => AddressFound

(* The open descriptors: a client's, or the one a call is about to keep or *)
(* to forget, and those forgotten                                          *)
Kept == IF holds \/ step = "finish" THEN 1 ELSE 0
Counted ==
    /\ IsFiniteSet(DOMAIN fds) /\ unbound \in Nat
    /\ Cardinality(DOMAIN fds) = unbound + Kept
ClientInv ==
    /\ TypeOK
    /\ Progress /\ Chosen
    /\ MemoryGivenBack /\ Counted
    /\ AddressIsSockets /\ DomainHonoured

---------------------------------------------------------------------------
(* Lists of addresses *)

(* A list given by its places is as long as there are places *)
LEMMA ListLength ==
    ASSUME NEW n \in Nat, NEW list \in [1..n -> Families]
    PROVE  Len(list) = n
<1>1. list \in Seq(Families)
  BY SeqDef
<1> DEFINE k == Len(list)
<1>2. 1..n = 1..k /\ k \in Nat
  BY <1>1, LenProperties
<1> HIDE DEF k
<1>3. \A i \in Nat : i \in 1..n <=> i \in 1..k
  BY <1>2
<1>4. k = n
  BY ONLY <1>2, <1>3, n \in Nat
<1> QED BY <1>4 DEF k

(* The lists the model's type allows are those of some length *)
LEMMA ListType ==
    ASSUME NEW list
    PROVE  list \in UNION {[1..n -> Families] : n \in 0..MaxAddrs} <=>
               \E n \in 0..MaxAddrs : list \in [1..n -> Families]
<1> QED OBVIOUS

(* What getaddrinfo finds is a list of at least one address *)
LEMMA FoundList ==
    ASSUME NEW host, NEW list \in AddrLists(host)
    PROVE  \E n \in 1..MaxAddrs : list \in [1..n -> Families]
<1>1. 1 \in 1..MaxAddrs
  OBVIOUS
<1>2. CASE host = "v4"
  <2>1. list = <<"inet">>
    BY <1>2 DEF AddrLists
  <2>2. list \in [1..1 -> Families]
    BY <2>1 DEF Families
  <2> QED BY <1>1, <2>2
<1>3. CASE host = "v6"
  <2>1. list = <<"inet6">>
    BY <1>3 DEF AddrLists
  <2>2. list \in [1..1 -> Families]
    BY <2>1 DEF Families
  <2> QED BY <1>1, <2>2
<1>4. CASE host # "v4" /\ host # "v6"
  <2>1. list \in UNION {[1..n -> Families] : n \in 1..MaxAddrs}
    BY <1>4 DEF AddrLists
  <2> QED BY <2>1
<1> QED BY <1>2, <1>3, <1>4

(* A set of places that is not empty has a first *)
LEMMA FirstIsLeast ==
    ASSUME NEW s \in SUBSET Nat, s # {}
    PROVE  First(s) \in s /\ \A j \in s : First(s) <= j
<1>1. PICK i \in s : \A j \in s : ~(<<j, i>> \in OpToRel(<, Nat))
  BY NatLessThanWellFounded, WFMin
<1>2. ASSUME NEW j \in s PROVE i <= j
  <2>1. i \in Nat /\ j \in Nat /\ ~(<<j, i>> \in OpToRel(<, Nat))
    BY <1>1
  <2>2. j < i => <<j, i>> \in OpToRel(<, Nat)
    BY <2>1, Zenon DEF OpToRel
  <2>3. ~(j < i)
    BY <2>1, <2>2, Zenon
  <2>4. i \in Nat /\ j \in Nat
    OBVIOUS
  <2> QED BY ONLY <2>3, <2>4
<1> QED BY <1>2 DEF First

(* The address that is looked at is one of the list; it is of the family   *)
(* looked for, or none is                                                  *)
LEMMA CandidateFits ==
    ASSUME node \in 1..Len(addrs), Len(addrs) \in Nat
    PROVE  /\ Candidate \in 1..Len(addrs)
           /\ domain # "unspec" =>
                 \/ addrs[Candidate] = domain
                 \/ \A i \in 1..Len(addrs) : addrs[i] # domain
<1>1. CASE domain = "unspec"
  BY <1>1 DEF Candidate
<1>2. CASE domain # "unspec" /\ Matching = {}
  BY <1>2 DEF Candidate, Matching
<1>3. CASE domain # "unspec" /\ Matching # {}
  <2>1. Matching \in SUBSET Nat
    BY DEF Matching
  <2>2. First(Matching) \in Matching
    BY <1>3, <2>1, FirstIsLeast
  <2>3. Candidate = First(Matching)
    BY <1>3 DEF Candidate
  <2> QED BY <2>2, <2>3 DEF Matching
<1> QED BY <1>1, <1>2, <1>3

---------------------------------------------------------------------------
(* The open descriptors *)

LEMMA OpensOne ==
    ASSUME TypeOK, Counted, NEW d \in Descriptors \ DOMAIN fds,
           NEW family \in Families, NEW from \in 0..MaxAddrs,
           fds' = Opened(d, [family |-> family, from |-> from])
    PROVE  /\ d \in DOMAIN fds' /\ fds'[d].family = family /\ fds'[d].from = from
           /\ DOMAIN fds' \subseteq Descriptors
           /\ \A x \in DOMAIN fds' : fds'[x].family \in Families /\ fds'[x].from \in 0..MaxAddrs
           /\ IsFiniteSet(DOMAIN fds')
           /\ Cardinality(DOMAIN fds') = Cardinality(DOMAIN fds) + 1
<1>1. DOMAIN fds' = DOMAIN fds \cup {d} /\ d \notin DOMAIN fds
  BY DEF Opened
<1>2. \A x \in DOMAIN fds' : fds'[x] = IF x = d THEN [family |-> family, from |-> from] ELSE fds[x]
  BY <1>1 DEF Opened
<1>3. IsFiniteSet(DOMAIN fds') /\ Cardinality(DOMAIN fds') = Cardinality(DOMAIN fds) + 1
  BY <1>1, FS_AddElement DEF Counted
<1>4. d \in DOMAIN fds' /\ DOMAIN fds' \subseteq Descriptors
  BY <1>1 DEF TypeOK
<1>5. fds'[d].family = family /\ fds'[d].from = from
  BY <1>2, <1>4
<1>6. \A x \in DOMAIN fds' : fds'[x].family \in Families /\ fds'[x].from \in 0..MaxAddrs
  BY <1>1, <1>2, <1>5 DEF TypeOK
<1> QED BY <1>3, <1>4, <1>5, <1>6

LEMMA ClosesOne ==
    ASSUME TypeOK, Counted, NEW d \in DOMAIN fds, fds' = Closed(d)
    PROVE  /\ DOMAIN fds' \subseteq Descriptors
           /\ \A x \in DOMAIN fds' : fds'[x].family \in Families /\ fds'[x].from \in 0..MaxAddrs
           /\ IsFiniteSet(DOMAIN fds')
           /\ Cardinality(DOMAIN fds') = Cardinality(DOMAIN fds) - 1
<1>1. DOMAIN fds' = DOMAIN fds \ {d}
  BY DEF Closed
<1>2. \A x \in DOMAIN fds' : fds'[x] = fds[x]
  BY <1>1 DEF Closed
<1>3. IsFiniteSet(DOMAIN fds') /\ Cardinality(DOMAIN fds') = Cardinality(DOMAIN fds) - 1
  BY <1>1, FS_RemoveElement DEF Counted
<1> QED BY <1>1, <1>2, <1>3 DEF TypeOK

(* A step that opens and closes nothing, and forgets nothing *)
LEMMA SameCount ==
    ASSUME Counted, fds' = fds, unbound' = unbound,
           (holds' \/ step' = "finish") <=> (holds \/ step = "finish")
    PROVE  Counted'
<1>1. Kept' = Kept
  BY DEF Kept
<1> QED BY <1>1 DEF Counted

(* The two ways out of an address list: no list, or one of some length *)
LEMMA Lengths ==
    ASSUME TypeOK
    PROVE  /\ Len(addrs) \in 0..MaxAddrs
           /\ addrs \in [1..Len(addrs) -> Families]
<1>1. PICK n \in 0..MaxAddrs : addrs \in [1..n -> Families]
  BY ListType DEF TypeOK
<1>2. Len(addrs) = n
  BY <1>1, ListLength
<1> QED BY <1>1, <1>2

---------------------------------------------------------------------------
(* The steps *)

LEMMA ClientInitially == Init => ClientInv
<1> SUFFICES ASSUME Init PROVE ClientInv
  OBVIOUS
<1>1. DOMAIN fds = {}
  BY DEF Init
<1>2. IsFiniteSet({}) /\ Cardinality({}) = 0
  BY FS_EmptySet
<1>3. Counted
  <2>1. ~holds /\ step # "finish" /\ unbound = 0
    BY DEF Init
  <2> QED BY <1>1, <1>2, <2>1 DEF Counted, Kept
<1>4. addrs \in [1..0 -> Families] /\ Len(addrs) = 0
  <2>1. addrs = <<>>
    BY DEF Init
  <2> QED BY <2>1
<1>5. TypeOK
  <2>1. addrs \in UNION {[1..n -> Families] : n \in 0..MaxAddrs}
    BY <1>4, ListType
  <2>2. DOMAIN fds \subseteq Descriptors
        /\ \A d \in DOMAIN fds : fds[d].family \in Families /\ fds[d].from \in 0..MaxAddrs
    BY <1>1
  <2>3. node \in 0..Len(addrs) /\ stat \in {0, -1} /\ fd = NoSocket /\ sock = NoSocket
    BY <1>4 DEF Init
  <2>4. /\ block = FALSE /\ info = FALSE /\ holds = FALSE /\ step = "idle"
        /\ conf = NoConf /\ domain = "unspec"
    BY DEF Init
  <2> QED BY <2>1, <2>2, <2>3, <2>4, Zenon DEF TypeOK
<1>6. step = "idle" /\ ~block /\ ~info /\ ~holds
  BY DEF Init
<1> QED BY ONLY <1>3, <1>5, <1>6 DEF ClientInv, Progress, Chosen, MemoryGivenBack,
                                     AddressIsSockets, DomainHonoured

LEMMA CreateStep ==
    ASSUME ClientInv, NEW c \in Configs, CreateClient(c)
    PROVE  ClientInv'
<1>1. /\ step = "idle" /\ ~holds /\ ~info /\ ~block
      /\ fds' = fds /\ unbound' = unbound /\ holds' = holds /\ info' = info /\ sock' = sock
      /\ conf' = c /\ domain' = c.domain /\ addrs' = <<>> /\ node' = 0
      /\ fd' = NoSocket /\ stat' = 0
  BY DEF CreateClient, ClientInv, Progress, MemoryGivenBack
<1>2. \/ step' = "idle" /\ block' = block
      \/ block' = TRUE /\ step' = "resolve"
      \/ block' = TRUE /\ step' = "connect" /\ ~c.server
  BY DEF CreateClient, Answer
<1>3. Counted'
  <2>1. (holds' \/ step' = "finish") <=> (holds \/ step = "finish")
    BY <1>1, <1>2
  <2> QED BY <1>1, <2>1, SameCount DEF ClientInv
<1>4. TypeOK'
  <2>1. <<>> \in [1..0 -> Families] /\ Len(<<>>) = 0
    OBVIOUS
  <2>2. addrs' \in UNION {[1..n -> Families] : n \in 0..MaxAddrs} /\ node' \in 0..Len(addrs')
    BY <1>1, <2>1
  <2>3. c.domain \in Families \cup {"unspec"}
    BY DEF Configs
  <2> QED BY <1>1, <1>2, <2>2, <2>3 DEF TypeOK, ClientInv
<1>5. Progress' /\ Chosen' /\ MemoryGivenBack' /\ AddressIsSockets' /\ DomainHonoured'
  BY <1>1, <1>2 DEF Progress, Chosen, MemoryGivenBack, AddressIsSockets, DomainHonoured
<1> QED BY <1>3, <1>4, <1>5 DEF ClientInv

LEMMA ResolveStep ==
    ASSUME ClientInv, Resolve
    PROVE  ClientInv'
<1>1. /\ step = "resolve" /\ ~holds /\ ~info /\ block /\ stat = 0 /\ domain = conf.domain
      /\ UNCHANGED <<fds, conf, domain, fd, stat, addr, sock, holds, tried, unbound>>
  BY DEF Resolve, ClientInv, Progress
<1>2. \/ step' = "idle" /\ block' = FALSE /\ UNCHANGED <<info, addrs, node>>
      \/ /\ addrs' \in AddrLists(Literal(conf))
         /\ info' = TRUE /\ node' = 1 /\ step' = "try" /\ block' = block
  BY DEF Resolve, GiveUp, Answer, Dealloc
<1>3. Counted'
  <2>1. (holds' \/ step' = "finish") <=> (holds \/ step = "finish")
    BY <1>1, <1>2
  <2> QED BY <1>1, <2>1, SameCount DEF ClientInv
<1>4. CASE step' = "idle"
  <2>1. TypeOK'
    BY <1>1, <1>2, <1>4 DEF TypeOK, ClientInv
  <2> QED BY <1>1, <1>2, <1>3, <1>4, <2>1
          DEF ClientInv, Progress, Chosen, MemoryGivenBack, AddressIsSockets, DomainHonoured
<1>5. CASE step' = "try"
  <2>1. PICK n \in 1..MaxAddrs : addrs' \in [1..n -> Families]
    BY <1>2, <1>5, FoundList
  <2>2. n \in Nat /\ n \in 0..MaxAddrs /\ 1 \in 0..n /\ 1 \in 1..n
    OBVIOUS
  <2>3. Len(addrs') = n
    BY <2>1, <2>2, ListLength
  <2>4. addrs' \in UNION {[1..k -> Families] : k \in 0..MaxAddrs}
    BY <2>1, <2>2
  <2>5. node' \in 0..Len(addrs') /\ node' \in 1..Len(addrs')
    BY <1>2, <1>5, <2>2, <2>3
  <2>6. TypeOK'
    BY <1>1, <1>2, <1>5, <2>4, <2>5 DEF TypeOK, ClientInv
  <2> QED BY <1>1, <1>2, <1>3, <1>5, <2>5, <2>6
          DEF ClientInv, Progress, Chosen, MemoryGivenBack, AddressIsSockets, DomainHonoured
<1> QED BY <1>2, <1>4, <1>5

LEMMA SocketFailsStep ==
    ASSUME ClientInv, SocketFails
    PROVE  ClientInv'
<1>1. /\ step = "try" /\ ~holds /\ node \in 1..Len(addrs)
      /\ domain' = LooksFor /\ node' = Candidate
      /\ info' = FALSE /\ block' = FALSE /\ step' = "idle"
      /\ UNCHANGED <<fds, conf, addrs, fd, stat, addr, sock, holds, tried, unbound>>
  BY DEF SocketFails, GiveUp, Answer, Dealloc, ClientInv, Progress
<1>2. Counted'
  <2>1. (holds' \/ step' = "finish") <=> (holds \/ step = "finish")
    BY <1>1
  <2> QED BY <1>1, <2>1, SameCount DEF ClientInv
<1>3. TypeOK'
  <2>1. Len(addrs) \in Nat
    BY Lengths DEF ClientInv
  <2>2. Candidate \in 1..Len(addrs)
    BY <1>1, <2>1, CandidateFits
  <2>3. node' \in 0..Len(addrs')
    BY <1>1, <2>1, <2>2
  <2>4. domain' \in Families \cup {"unspec"}
    BY <1>1 DEF LooksFor, TypeOK, ClientInv
  <2> QED BY <1>1, <2>3, <2>4 DEF TypeOK, ClientInv
<1> QED BY <1>1, <1>2, <1>3 DEF ClientInv, Progress, Chosen, MemoryGivenBack, AddressIsSockets,
                                DomainHonoured

(* The first turn of the loop is the last: bind answers 0 or -1, and       *)
(* neither is EADDRINUSE                                                   *)
LEMMA TryStep ==
    ASSUME ClientInv, TryAddress
    PROVE  ClientInv'
<1>1. /\ step = "try" /\ ~holds /\ info /\ block /\ stat = 0 /\ domain = conf.domain
      /\ node \in 1..Len(addrs) /\ domain' = LooksFor
      /\ UNCHANGED <<block, info, conf, addrs, addr, sock, holds, unbound>>
  BY DEF TryAddress, ClientInv, Progress
<1>2. Len(addrs) \in 0..MaxAddrs /\ addrs \in [1..Len(addrs) -> Families]
  BY Lengths DEF ClientInv
<1>3. /\ Candidate \in 1..Len(addrs)
      /\ conf.domain # "unspec" =>
             \/ addrs[Candidate] = conf.domain
             \/ \A i \in 1..Len(addrs) : addrs[i] # conf.domain
  BY <1>1, <1>2, CandidateFits
<1>4. addrs[Candidate] \in Families /\ Candidate \in 0..MaxAddrs /\ 0 \in 0..MaxAddrs
  BY <1>2, <1>3
<1>5. PICK d \in Descriptors \ DOMAIN fds, r \in BindResults(addrs[Candidate]) :
         LET opened == [family |-> addrs[Candidate],
                        from |-> IF conf.server /\ r.stat = 0 THEN Candidate ELSE 0]
         IN /\ fd' = d
            /\ IF LeavesLoop(r)
               THEN /\ stat' = r.stat /\ node' = Candidate
                    /\ fds' = Opened(d, opened)
                    /\ step' = "finish"
               ELSE /\ stat' \in {0, -1}
                    /\ node' = IF Candidate < Len(addrs) THEN Candidate + 1 ELSE 0
                    /\ step' = IF Candidate < Len(addrs) THEN "try" ELSE "finish"
                    /\ UNCHANGED fds
  BY DEF TryAddress
<1>6. r.stat \in {0, -1}
  BY <1>1 DEF BindResults
<1>7. LeavesLoop(r)
  BY <1>6 DEF LeavesLoop, EADDRINUSE
<1> DEFINE from == IF conf.server /\ r.stat = 0 THEN Candidate ELSE 0
<1>8. /\ fd' = d /\ stat' = r.stat /\ node' = Candidate /\ step' = "finish"
      /\ fds' = Opened(d, [family |-> addrs[Candidate], from |-> from])
  BY <1>5, <1>7
<1>9. from \in 0..MaxAddrs
  BY <1>4
<1>10. /\ fd' \in DOMAIN fds' /\ fds'[fd'].family = addrs[Candidate] /\ fds'[fd'].from = from
       /\ DOMAIN fds' \subseteq Descriptors
       /\ \A x \in DOMAIN fds' : fds'[x].family \in Families /\ fds'[x].from \in 0..MaxAddrs
       /\ IsFiniteSet(DOMAIN fds')
       /\ Cardinality(DOMAIN fds') = Cardinality(DOMAIN fds) + 1
  BY <1>4, <1>5, <1>8, <1>9, OpensOne DEF ClientInv
<1>11. Counted'
  <2>1. Kept = 0 /\ Kept' = 1
    BY <1>1, <1>8 DEF Kept
  <2>2. unbound' = unbound /\ unbound \in Nat /\ Cardinality(DOMAIN fds) = unbound + Kept
    BY <1>1 DEF ClientInv, Counted
  <2> QED BY <1>10, <2>1, <2>2 DEF Counted
<1>12. TypeOK'
  <2>1. node' \in 0..Len(addrs')
    BY <1>1, <1>2, <1>3, <1>8
  <2>2. domain' \in Families \cup {"unspec"}
    BY <1>1 DEF LooksFor, TypeOK, ClientInv
  <2>3. stat' \in {0, -1} /\ fd' \in Descriptors \cup {NoSocket}
    BY <1>5, <1>6, <1>8
  <2> QED BY <1>1, <1>8, <1>10, <2>1, <2>2, <2>3 DEF TypeOK, ClientInv
<1>13. Chosen'
  <2>1. conf.server /\ stat' = 0 => from = Candidate
    BY <1>8
  <2> QED BY <1>1, <1>3, <1>8, <1>10, <2>1 DEF Chosen, AddressFound
<1>14. Progress' /\ MemoryGivenBack' /\ AddressIsSockets' /\ DomainHonoured'
  BY <1>1, <1>8 DEF Progress, MemoryGivenBack, AddressIsSockets, DomainHonoured
<1> QED BY <1>11, <1>12, <1>13, <1>14 DEF ClientInv

(* The end of the loop: the client has the address the loop chose, or is   *)
(* given up and its socket forgotten                                       *)
LEMMA FinishStep ==
    ASSUME ClientInv, Finish
    PROVE  ClientInv'
<1>1. /\ step = "finish" /\ ~holds /\ block /\ AddressFound
      /\ addr' = Recorded /\ info' = FALSE /\ step' = "idle"
      /\ UNCHANGED <<fds, conf, domain, addrs, node, fd, stat, tried>>
  BY DEF Finish, GiveUp, Answer, ClientInv, Progress, Chosen
<1>2. Cardinality(DOMAIN fds) = unbound + 1 /\ unbound \in Nat /\ IsFiniteSet(DOMAIN fds)
  BY <1>1 DEF ClientInv, Counted, Kept
<1>3. addr'.family = addrs[node] /\ addr'.from = node /\ node # 0 /\ Len(addrs) \in Nat
  <2>1. Len(addrs) \in Nat
    BY Lengths DEF ClientInv
  <2>2. node # 0
    BY <1>1, <2>1 DEF AddressFound
  <2> QED BY <1>1, <2>1, <2>2 DEF Recorded
<1>4. CASE stat # 0
  <2>1. block' = FALSE /\ unbound' = unbound + 1 /\ UNCHANGED <<sock, holds>>
    BY <1>4 DEF Finish, GiveUp, Dealloc
  <2>2. TypeOK'
    BY <1>1, <2>1 DEF TypeOK, ClientInv
  <2>3. Counted'
    <3>1. Kept' = 0
      BY <1>1, <2>1 DEF Kept
    <3> QED BY <1>1, <1>2, <2>1, <3>1 DEF Counted
  <2> QED BY <1>1, <2>1, <2>2, <2>3
          DEF ClientInv, Progress, Chosen, MemoryGivenBack, AddressIsSockets, DomainHonoured
<1>5. CASE stat = 0
  <2>1. sock' = fd /\ holds' = TRUE /\ UNCHANGED <<block, unbound>>
    BY <1>5 DEF Finish
  <2>2. TypeOK'
    BY <1>1, <2>1 DEF TypeOK, ClientInv
  <2>3. Counted'
    <3>1. Kept' = 1
      BY <2>1 DEF Kept
    <3> QED BY <1>1, <1>2, <2>1, <3>1 DEF Counted
  <2>4. AddressIsSockets'
    BY <1>1, <1>3, <1>5, <2>1 DEF AddressIsSockets, AddressFound
  <2>5. DomainHonoured'
    <3>1. addrs # <<>>
      BY <1>1, <1>3 DEF AddressFound
    <3> QED BY <1>1, <1>3, <3>1 DEF DomainHonoured, AddressFound
  <2> QED BY <1>1, <2>1, <2>2, <2>3, <2>4, <2>5 DEF ClientInv, Progress, Chosen, MemoryGivenBack
<1> QED BY <1>4, <1>5

LEMMA ConnectStep ==
    ASSUME ClientInv, Connect
    PROVE  ClientInv'
<1>1. /\ step = "connect" /\ ~holds /\ ~info /\ block /\ ~conf.server /\ domain = conf.domain
      /\ addr'.family = SocketFamily /\ domain' = SocketFamily
      /\ UNCHANGED <<info, conf, addrs, node, stat, tried, unbound>> /\ step' = "idle"
  BY DEF Connect, GiveUp, Answer, ClientInv, Progress, SetSockAddr
<1>2. SocketFamily \in Families /\ (domain \in Families => SocketFamily = domain)
  BY DEF SocketFamily, Families
<1>3. conf.domain # "unspec" => SocketFamily = conf.domain
  <2>1. domain \in Families \cup {"unspec"}
    BY DEF ClientInv, TypeOK
  <2> QED BY <1>1, <1>2, <2>1
<1>4. CASE block' = FALSE /\ UNCHANGED <<fds, fd, sock, holds>>
  <2>1. Counted'
    <3>1. (holds' \/ step' = "finish") <=> (holds \/ step = "finish")
      BY <1>1, <1>4
    <3> QED BY <1>1, <1>4, <3>1, SameCount DEF ClientInv
  <2>2. TypeOK'
    BY <1>1, <1>2, <1>4 DEF TypeOK, ClientInv
  <2> QED BY <1>1, <1>4, <2>1, <2>2
          DEF ClientInv, Progress, Chosen, MemoryGivenBack, AddressIsSockets, DomainHonoured
<1>5. ASSUME NEW d \in Descriptors \ DOMAIN fds,
             fd' = d, sock' = d, holds' = TRUE, block' = block,
             fds' = Opened(d, [family |-> SocketFamily, from |-> 0])
      PROVE  ClientInv'
  <2>1. 0 \in 0..MaxAddrs
    OBVIOUS
  <2>2. /\ d \in DOMAIN fds' /\ fds'[d].family = SocketFamily
        /\ DOMAIN fds' \subseteq Descriptors
        /\ \A x \in DOMAIN fds' : fds'[x].family \in Families /\ fds'[x].from \in 0..MaxAddrs
        /\ IsFiniteSet(DOMAIN fds')
        /\ Cardinality(DOMAIN fds') = Cardinality(DOMAIN fds) + 1
    BY <1>2, <1>5, <2>1, OpensOne DEF ClientInv
  <2>3. Counted'
    <3>1. Kept = 0 /\ Kept' = 1
      BY <1>1, <1>5 DEF Kept
    <3>2. unbound' = unbound /\ unbound \in Nat /\ Cardinality(DOMAIN fds) = unbound + Kept
      BY <1>1 DEF ClientInv, Counted
    <3> QED BY <2>2, <3>1, <3>2 DEF Counted
  <2>4. TypeOK'
    BY <1>1, <1>2, <1>5, <2>2 DEF TypeOK, ClientInv
  <2>5. AddressIsSockets' /\ DomainHonoured'
    BY <1>1, <1>3, <1>5, <2>2 DEF AddressIsSockets, DomainHonoured
  <2> QED BY <1>1, <1>5, <2>3, <2>4, <2>5 DEF ClientInv, Progress, Chosen, MemoryGivenBack
<1> QED BY <1>4, <1>5 DEF Connect, GiveUp, Dealloc

LEMMA DestroyStep ==
    ASSUME ClientInv, DestroyClient
    PROVE  ClientInv'
<1>1. /\ step = "idle" /\ holds /\ ~info /\ sock \in DOMAIN fds
      /\ fds' = Closed(sock) /\ block' = FALSE /\ holds' = FALSE /\ sock' = NoSocket
      /\ UNCHANGED <<info, step, conf, domain, addrs, node, fd, stat, addr, answer, tried, unbound>>
  BY DEF DestroyClient, Dealloc, ClientInv, MemoryGivenBack, AddressIsSockets
<1>2. /\ DOMAIN fds' \subseteq Descriptors
      /\ \A x \in DOMAIN fds' : fds'[x].family \in Families /\ fds'[x].from \in 0..MaxAddrs
      /\ IsFiniteSet(DOMAIN fds')
      /\ Cardinality(DOMAIN fds') = Cardinality(DOMAIN fds) - 1
  BY <1>1, ClosesOne DEF ClientInv
<1>3. Counted'
  <2>1. Kept = 1 /\ Kept' = 0
    BY <1>1 DEF Kept
  <2>2. unbound' = unbound /\ unbound \in Nat /\ Cardinality(DOMAIN fds) = unbound + Kept
    BY <1>1 DEF ClientInv, Counted
  <2> QED BY <1>2, <2>1, <2>2 DEF Counted
<1>4. TypeOK'
  BY <1>1, <1>2 DEF TypeOK, ClientInv
<1> QED BY <1>1, <1>3, <1>4
    DEF ClientInv, Progress, Chosen, MemoryGivenBack, AddressIsSockets, DomainHonoured

---------------------------------------------------------------------------
LEMMA ClientStep == ClientInv /\ [Next]_vars => ClientInv'
<1> SUFFICES ASSUME ClientInv, [Next]_vars PROVE ClientInv'
  OBVIOUS
<1>1. CASE UNCHANGED vars
  BY <1>1 DEF vars, ClientInv, TypeOK, Progress, Chosen, AddressFound, MemoryGivenBack, Counted,
              Kept, AddressIsSockets, DomainHonoured
<1>2. CASE Next
  BY <1>2, CreateStep, ResolveStep, SocketFailsStep, TryStep, FinishStep, ConnectStep,
     DestroyStep, Zenon DEF Next, Continue
<1> QED BY <1>1, <1>2

LEMMA ClientAlways == Spec => []ClientInv
<1> QED BY ClientInitially, ClientStep, PTL DEF Spec

(* The loop stays within the address list, whatever it finds there         *)
(* (client.c:127-157)                                                      *)
THEOREM TypeCorrect == Spec => []TypeOK
<1>1. ClientInv => TypeOK
  BY DEF ClientInv
<1> QED BY <1>1, ClientAlways, PTL

(* However creating a client ends, the block and the list are given back,  *)
(* and the only descriptors left are the client's and one for each answer  *)
(* that bind failed (client.c:118-123, 137-144, 159-173, 186-191)          *)
THEOREM ResourcesGivenBack == Spec => []ResourcesAccounted
<1>1. ClientInv => ResourcesAccounted
  <2> SUFFICES ASSUME ClientInv PROVE ResourcesAccounted
    OBVIOUS
  <2>1. DescriptorsAccounted
    BY DEF ClientInv, Counted, Kept, DescriptorsAccounted
  <2> QED BY <2>1 DEF ClientInv, ResourcesAccounted
<1> QED BY <1>1, ClientAlways, PTL

(* The address a client has is its socket's, and a server's is the one it  *)
(* is bound to, wherever in the list that stands (client.c:128-163)        *)
THEOREM AddressMatchesSocket == Spec => []AddressIsSockets
<1>1. ClientInv => AddressIsSockets
  BY DEF ClientInv
<1> QED BY <1>1, ClientAlways, PTL

(* A client gets the family that was asked for if the list has it          *)
(* (client.c:128-135)                                                      *)
THEOREM FamilyHonoured == Spec => []DomainHonoured
<1>1. ClientInv => DomainHonoured
  BY DEF ClientInv
<1> QED BY <1>1, ClientAlways, PTL

(* The steps that webdriverCreateClient has still before it.  bind's       *)
(* result is never EADDRINUSE, so that no address is tried after the first *)
CreateStepsLeft ==
    CASE step = "resolve" -> 3
      [] step = "try" -> 2
      [] step \in {"finish", "connect"} -> 1
      [] step = "idle" -> 0

CloserToClient ==
    step # "idle" => CreateStepsLeft \in Nat /\ CreateStepsLeft' < CreateStepsLeft

(* Every step of webdriverCreateClient takes it closer to its answer: at   *)
(* most three follow the allocation, however many addresses are listed and *)
(* whatever bind answers (client.c:118-173, 177-197).                      *)
THEOREM CreateDescends == Spec => [][CloserToClient]_vars
<1>1. ClientInv /\ [Next]_vars => [CloserToClient]_vars
  <2> SUFFICES ASSUME ClientInv, Next, step # "idle"
               PROVE  CreateStepsLeft \in Nat /\ CreateStepsLeft' < CreateStepsLeft
    BY DEF CloserToClient
  <2>1. CASE Resolve
    <3>1. step = "resolve" /\ step' \in {"try", "idle"}
      BY <2>1 DEF Resolve, GiveUp, Answer
    <3> QED BY <3>1 DEF CreateStepsLeft
  <2>2. CASE SocketFails
    <3>1. step = "try" /\ step' = "idle"
      BY <2>2 DEF SocketFails, GiveUp, Answer
    <3> QED BY <3>1 DEF CreateStepsLeft
  <2>3. CASE TryAddress
    <3>1. step = "try" /\ stat = 0
      BY <2>3 DEF TryAddress, ClientInv, Progress
    <3>2. \A f : \A r \in BindResults(f) : LeavesLoop(r)
      BY <3>1 DEF BindResults, LeavesLoop, EADDRINUSE
    <3>3. step' = "finish"
      BY <2>3, <3>2 DEF TryAddress
    <3> QED BY <3>1, <3>3 DEF CreateStepsLeft
  <2>4. CASE Finish
    <3>1. step = "finish" /\ step' = "idle"
      BY <2>4 DEF Finish, GiveUp, Answer
    <3> QED BY <3>1 DEF CreateStepsLeft
  <2>5. CASE Connect
    <3>1. step = "connect" /\ step' = "idle"
      BY <2>5 DEF Connect, GiveUp, Answer
    <3> QED BY <3>1 DEF CreateStepsLeft
  <2> QED BY <2>1, <2>2, <2>3, <2>4, <2>5 DEF Next, Continue, CreateClient, DestroyClient
<1> QED BY <1>1, ClientAlways, PTL DEF Spec

---------------------------------------------------------------------------
(* What the buffer's flag and blocks are, in every state; and that a       *)
(* caller without a client has no buffer and is in no call of the buffer   *)
TogetherInv ==
    /\ Buffer!FlagMeansHeap /\ Buffer!HeapAccounted
    /\ ~holds => pc = "idle" /\ buf = "none" /\ ~malloc /\ bufsize = 0 /\ bufc = 0

(* A step of the buffer keeps its flag and its blocks together *)
LEMMA BlocksStep ==
    ASSUME Buffer!FlagMeansHeap, Buffer!HeapAccounted, Buffer!Next
    PROVE  Buffer!FlagMeansHeap' /\ Buffer!HeapAccounted'
<1> USE DEF Buffer!FlagMeansHeap, Buffer!HeapAccounted, Buffer!CanFree
<1>a. ASSUME UNCHANGED <<buf, live, malloc, blocks, lost>>
      PROVE  Buffer!FlagMeansHeap' /\ Buffer!HeapAccounted'
  BY <1>a
<1>1. CASE Buffer!Unsetbuf
  <2>1. /\ buf' = "none" /\ malloc' = FALSE /\ lost' = lost
        /\ blocks' = IF buf # "none" /\ malloc THEN blocks - 1 ELSE blocks
        /\ buf # "none" /\ malloc => live
    BY <1>1, Zenon DEF Buffer!Unsetbuf, Buffer!Emptied, Buffer!Owned
  <2>2. blocks' = 0 /\ lost' = 0
    BY <2>1
  <2> QED BY <2>1, <2>2
<1>2. ASSUME NEW n, Buffer!SetbufGiven(n)
      PROVE  Buffer!FlagMeansHeap' /\ Buffer!HeapAccounted'
  BY <1>2 DEF Buffer!SetbufGiven
<1>3. ASSUME NEW n, Buffer!SetbufAlloc(n)
      PROVE  Buffer!FlagMeansHeap' /\ Buffer!HeapAccounted'
  <2>1. /\ buf = "none" /\ buf' = "heap" /\ live' = TRUE /\ malloc' = TRUE
        /\ blocks' = blocks + 1 /\ lost' = lost
    BY <1>3, Zenon DEF Buffer!SetbufAlloc
  <2> QED BY <2>1
<1>4. CASE Buffer!SetbufTaken \/ Buffer!FreedTwice \/ Buffer!Show
  BY <1>4, <1>a DEF Buffer!SetbufTaken, Buffer!FreedTwice, Buffer!Show, Buffer!Wild, Buffer!memory
<1>5. CASE Buffer!SetbufFails
  BY <1>5, <1>a DEF Buffer!SetbufFails
<1>6. ASSUME NEW m, Buffer!BadMethod(m) \/ \E c \in CmdLens : Buffer!SetHttpCmd(m, c)
      PROVE  Buffer!FlagMeansHeap' /\ Buffer!HeapAccounted'
  BY <1>6, <1>a DEF Buffer!BadMethod, Buffer!SetHttpCmd, Buffer!StartLine, Buffer!Wild, Buffer!memory
<1>7. ASSUME NEW f, NEW v, Buffer!AddHttpHeader(f, v)
      PROVE  Buffer!FlagMeansHeap' /\ Buffer!HeapAccounted'
  BY <1>7, <1>a DEF Buffer!AddHttpHeader, Buffer!StartLine, Buffer!memory
<1>8. ASSUME NEW n, Buffer!RawHttpHeader(n) \/ Buffer!RawOutside(n)
      PROVE  Buffer!FlagMeansHeap' /\ Buffer!HeapAccounted'
  BY <1>8, <1>a DEF Buffer!RawHttpHeader, Buffer!RawOutside, Buffer!Wild, Buffer!memory
<1>9. CASE Buffer!GrowBlock
  <2>1. /\ malloc /\ live /\ UNCHANGED <<buf, malloc, blocks>>
        /\ \/ live' = live /\ lost' = lost
           \/ live' = FALSE /\ lost' = lost + 1
    BY <1>9, Zenon DEF Buffer!GrowBlock
  <2>2. buf = "heap"
    BY <2>1
  <2>3. blocks = 1 /\ lost = 0
    BY <2>1, <2>2
  <2>4. CASE live' = live /\ lost' = lost
    BY <1>a, <2>1, <2>4
  <2>5. CASE live' = FALSE /\ lost' = lost + 1
    <3>1. buf' = "heap" /\ ~(live') /\ blocks' = 1 /\ lost' = 1 /\ malloc'
      BY <2>1, <2>2, <2>3, <2>5
    <3>2. Buffer!CanFree' = 0
      BY <3>1
    <3>3. blocks' = Buffer!CanFree' + lost'
      BY ONLY <3>1, <3>2
    <3> QED BY <3>1, <3>3
  <2> QED BY <2>1, <2>4, <2>5
<1>10. CASE \/ Buffer!CopyString \/ Buffer!StringTooLong \/ Buffer!AppendDelim
            \/ Buffer!DelimTooLong \/ Buffer!PastTable \/ Buffer!WriteOutside
            \/ Buffer!GrowNotOwn \/ Buffer!GrowRefused \/ Buffer!GrowFreed \/ Buffer!Return
  <2>1. CASE Buffer!CopyString \/ Buffer!AppendDelim
    BY <1>a, <2>1, Zenon DEF Buffer!CopyString, Buffer!AppendDelim
  <2>2. CASE UNCHANGED Buffer!memory
    BY <1>a, <2>2 DEF Buffer!memory
  <2>3. CASE \/ Buffer!StringTooLong \/ Buffer!DelimTooLong \/ Buffer!PastTable \/ Buffer!WriteOutside
             \/ Buffer!GrowNotOwn \/ Buffer!GrowRefused \/ Buffer!GrowFreed \/ Buffer!Return
    BY <2>2, <2>3 DEF Buffer!StringTooLong, Buffer!DelimTooLong, Buffer!PastTable, Buffer!WriteOutside,
                      Buffer!GrowNotOwn, Buffer!GrowRefused, Buffer!GrowFreed, Buffer!Return, Buffer!Wild
  <2> QED BY <1>10, <2>1, <2>3
<1> QED BY <1>1, <1>2, <1>3, <1>4, <1>5, <1>6, <1>7, <1>8, <1>9, <1>10, Zenon DEF Buffer!Next, Buffer!Continue

(* Each step of the client is one of its socket and one of its buffer, or  *)
(* leaves them alone                                                       *)
LEMMA ClientSteps ==
    ASSUME [WebNext]_allVars
    PROVE  [Next]_vars /\ [Buffer!Next]_(Buffer!vars)
<1>0. UNCHANGED bufferVars => UNCHANGED Buffer!vars
  BY DEF bufferVars, Buffer!vars
<1>1. CASE UNCHANGED allVars
  BY <1>0, <1>1 DEF allVars
<1>2. CASE Create
  BY <1>0, <1>2 DEF Create, Next
<1>3. CASE UseBuffer
  BY <1>3 DEF UseBuffer
<1>4. CASE Destroy
  BY <1>4 DEF Destroy, Next, Buffer!Next
<1> QED BY <1>1, <1>2, <1>3, <1>4 DEF WebNext

LEMMA TogetherStep == TogetherInv /\ [WebNext]_allVars => TogetherInv'
<1> SUFFICES ASSUME TogetherInv, [WebNext]_allVars PROVE TogetherInv'
  OBVIOUS
<1>1. Buffer!FlagMeansHeap' /\ Buffer!HeapAccounted'
  <2>1. CASE Buffer!Next
    BY <2>1, BlocksStep DEF TogetherInv
  <2>2. CASE UNCHANGED Buffer!vars
    BY <2>2 DEF Buffer!vars, TogetherInv, Buffer!FlagMeansHeap, Buffer!HeapAccounted, Buffer!CanFree
  <2> QED BY <2>1, <2>2, ClientSteps
<1>2. ~(holds') => pc' = "idle" /\ buf' = "none" /\ ~(malloc') /\ bufsize' = 0 /\ bufc' = 0
  <2>1. CASE UNCHANGED allVars
    BY <2>1 DEF allVars, vars, bufferVars, TogetherInv
  <2>2. CASE Create
    <3>1. pc = "idle" /\ UNCHANGED bufferVars /\ (holds => holds')
      BY <2>2 DEF Create, CreateClient, Continue, Resolve, SocketFails, TryAddress, Finish, Connect
    <3> QED BY <3>1 DEF bufferVars, TogetherInv
  <2>3. CASE UseBuffer
    BY <2>3 DEF UseBuffer, vars
  <2>4. CASE Destroy
    BY <2>4 DEF Destroy, vars, Buffer!Unsetbuf, Buffer!Emptied
  <2> QED BY <2>1, <2>2, <2>3, <2>4 DEF WebNext
<1> QED BY <1>1, <1>2 DEF TogetherInv

LEMMA TogetherAlways == WebSpec => []TogetherInv
<1>1. WebInit => TogetherInv
  <2> SUFFICES ASSUME WebInit PROVE TogetherInv
    OBVIOUS
  <2>1. /\ pc = "idle" /\ buf = "none" /\ ~malloc
        /\ bufsize = 0 /\ bufc = 0 /\ blocks = 0 /\ lost = 0
    BY Zenon DEF WebInit, Buffer!Init
  <2>2. Buffer!FlagMeansHeap
    BY <2>1 DEF Buffer!FlagMeansHeap
  <2>3. Buffer!HeapAccounted
    BY <2>1, <2>2 DEF Buffer!HeapAccounted, Buffer!CanFree
  <2> QED BY <2>1, <2>2, <2>3, Zenon DEF TogetherInv
<1> QED BY <1>1, TogetherStep, PTL DEF WebSpec

(* A client behaves as a client of ClientSocket and as a request buffer of *)
(* HttpBuffer: what is proved of either holds of it (client.h:83-92).      *)
THEOREM ClientIsBoth == WebSpec => Spec /\ Buffer!Spec
<1>1. WebInit => Init /\ Buffer!Init
  BY DEF WebInit
<1>2. [WebNext]_allVars => [Next]_vars /\ [Buffer!Next]_(Buffer!vars)
  BY ClientSteps
<1> QED BY <1>1, <1>2, PTL DEF WebSpec, Spec, Buffer!Spec

(* A caller without a client holds nothing, whatever the client before did *)
(* with its buffer (client.c:3-13, 83-207, 251-260).                       *)
THEOREM NothingIsKept == WebSpec => []NothingWithoutClient
<1>1. ClientInv /\ TogetherInv /\ ResourcesAccounted => NothingWithoutClient
  <2> SUFFICES ASSUME ClientInv, TogetherInv, ResourcesAccounted, ~holds
               PROVE  NothingWithoutClient
    BY DEF NothingWithoutClient
  <2>1. buf = "none" /\ ~malloc /\ bufsize = 0 /\ bufc = 0
    BY Zenon DEF TogetherInv
  <2>2. blocks = 0 /\ lost = 0
    BY <2>1 DEF TogetherInv, Buffer!HeapAccounted, Buffer!CanFree
  <2>3. step = "idle" => ~block /\ ~info
    BY DEF ResourcesAccounted, MemoryGivenBack
  <2>4. step = "idle" => Cardinality(DOMAIN fds) = unbound
    BY DEF ClientInv, Counted, Kept
  <2> QED BY <2>1, <2>2, <2>3, <2>4, Zenon DEF NothingWithoutClient
<1> QED BY <1>1, TogetherAlways, ClientIsBoth, ClientAlways, ResourcesGivenBack, PTL
=============================================================================
