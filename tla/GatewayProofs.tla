----------------------------- MODULE GatewayProofs -----------------------------
(***************************************************************************)
(* Proofs about gateways.  Of Federation, for any facilities, also those   *)
(* that list each other: where a name leads, at what sites copies stand    *)
(* and what the topology shows.  Of InventoryCache, for any number of      *)
(* requests and upstreams and any times to live: its types, that ledger,   *)
(* upstreams and published inventory stay in step, how old an inventory    *)
(* may be that is served, and that nothing is rebuilt before it expired.   *)
(***************************************************************************)
EXTENDS Federation, InventoryCache, SequenceTheorems, TLAPS

SitesUsed(f) == {SiteOf[f][x] : x \in Systems[f]}
Label == Facility \cup (UNION {Systems[f] : f \in Facility}) \cup (UNION {SitesUsed(f) : f \in Facility})
Name == Seq(Label)

\* Where the prefixes of a name lead a request that is asked of f.
Stop(f, id, n) == IF n = 0 THEN f ELSE id[n]

\* A name that leads from f, gateway by gateway, to what its owner has.
Leads(f, id, owner) ==
    /\ f \in Facility /\ id \in Name /\ Len(id) > 0
    /\ \A n \in 1 .. Len(id) - 1 : id[n] \in Upstreams[Stop(f, id, n - 1)]
    /\ owner = Stop(f, id, Len(id) - 1) /\ id[Len(id)] \in Systems[owner]

\* What a facility may publish.
ListOK(f, list) ==
    /\ \A s \in list.sites : s \in Name /\ Len(s) > 0
    /\ \A r \in list.resources : Leads(f, r.id, r.owner)

ListsRead ==
    /\ has = [f \in Facility |-> has[f]] /\ \A f \in Facility : has[f] \subseteq Systems[f]
    /\ cache = [f \in Facility |-> [u \in Upstreams[f] |-> cache[f][u]]]
    /\ \A f \in Facility : \A u \in Upstreams[f] : ListOK(u, cache[f][u])

OnTheWay == \A q \in requests : Leads(q.at, q.id, q.owner)

\* A node is shown for the resource of a facility that was swept before.
NodesSwept ==
    /\ position \in 1 .. Len(Swept) + 2
    /\ \A n \in nodes : /\ n.owner = n.via /\ Len(n.id) = 1 /\ n.site[1] = n.via
                        /\ \E p \in DOMAIN Swept : p < position /\ n.via = Swept[p]
    /\ \A m, n \in nodes : m.via = n.via /\ m.id[1] = n.id[1] => m = n

NodesAt(s) == {n \in nodes : n.site = s}

\* The counts are kept node by node, the statuses rolled up in the end.
SitesCounted ==
    /\ \A n \in nodes : n.site \in DOMAIN sites
    /\ \A s \in DOMAIN sites :
         /\ sites[s] = [systems |-> sites[s].systems, connected |-> sites[s].connected, status |-> sites[s].status]
         /\ sites[s].systems = Cardinality(NodesAt(s)) /\ (sites[s].connected <=> NodesAt(s) # {})
         /\ position = Len(Swept) + 2 => sites[s].status = RollUp({n.status : n \in NodesAt(s)})

FedIInv == ListsRead /\ OnTheWay /\ NodesSwept /\ SitesCounted

-----------------------------------------------------------------------------
(* Names.                                                                  *)

LEMMA Labels ==
    \A f \in Facility : /\ f \in Label
                        /\ \A x \in Systems[f] : x \in Label /\ SiteOf[f][x] \in Label
<1> SUFFICES ASSUME NEW f \in Facility PROVE f \in Label /\ \A x \in Systems[f] : x \in Label /\ SiteOf[f][x] \in Label
  OBVIOUS
<1>1. f \in Label
  BY DEF Label
<1>2. ASSUME NEW x \in Systems[f] PROVE x \in Label
  BY <1>2 DEF Label
<1>3. ASSUME NEW x \in Systems[f] PROVE SiteOf[f][x] \in Label
  <2>1. SiteOf[f][x] \in SitesUsed(f)
    BY <1>3 DEF SitesUsed
  <2>2. SitesUsed(f) \subseteq UNION {SitesUsed(g) : g \in Facility}
    OBVIOUS
  <2> QED BY <2>1, <2>2 DEF Label
<1> QED BY <1>1, <1>2, <1>3

LEMMA LocalName == \A x \in Label : Local(x) \in Name /\ Len(Local(x)) = 1 /\ Local(x)[1] = x
BY DEF Local, Name

LEMMA NsName ==
    ASSUME NEW u \in Label, NEW id \in Name
    PROVE  /\ Ns(u, id) \in Name /\ Len(Ns(u, id)) = Len(id) + 1
           /\ Ns(u, id)[1] = u /\ \A n \in 1 .. Len(id) : Ns(u, id)[n + 1] = id[n]
<1>1. <<u>> \in Seq(Label) /\ Len(<<u>>) = 1 /\ <<u>>[1] = u /\ Len(id) \in Nat
  BY DEF Name
<1>2. /\ Ns(u, id) \in Name /\ Len(Ns(u, id)) = Len(id) + 1
      /\ \A n \in 1 .. Len(id) + 1 : Ns(u, id)[n] = IF n <= 1 THEN <<u>>[n] ELSE id[n - 1]
  BY <1>1, ConcatProperties DEF Ns, Name
<1> QED BY <1>1, <1>2

\* The name of a facility's own resource leads to it.
LEMMA LeadsOwn ==
    ASSUME NEW f \in Facility, NEW x \in Systems[f]
    PROVE  Leads(f, Local(x), f)
BY Labels, LocalName DEF Leads, Stop

\* A prefix more leads there from one gateway further out.
LEMMA LeadsNs ==
    ASSUME NEW f \in Facility, NEW u \in Upstreams[f], NEW id, NEW owner, Leads(u, id, owner)
    PROVE  Leads(f, Ns(u, id), owner)
<1> DEFINE more == Ns(u, id)
<1>1. id \in Name /\ Len(id) \in Nat /\ Len(id) > 0 /\ u \in Label
  BY Labels DEF Leads, Name
<1>2. /\ more \in Name /\ Len(more) = Len(id) + 1
      /\ more[1] = u /\ \A n \in 1 .. Len(id) : more[n + 1] = id[n]
  BY <1>1, NsName
<1> HIDE DEF more
<1>3. \A n \in 1 .. Len(id) : Stop(f, more, n) = Stop(u, id, n - 1)
  <2> SUFFICES ASSUME NEW n \in 1 .. Len(id) PROVE more[n] = IF n - 1 = 0 THEN u ELSE id[n - 1]
    BY <1>1 DEF Stop
  <2>1. CASE n = 1
    BY <1>2, <2>1
  <2>2. CASE n # 1
    <3>1. n - 1 \in 1 .. Len(id) /\ (n - 1) + 1 = n
      BY <1>1, <2>2
    <3>2. more[(n - 1) + 1] = id[n - 1]
      BY <1>2, <3>1
    <3> QED BY <2>2, <3>1, <3>2
  <2> QED BY <2>1, <2>2
<1>4. ASSUME NEW n \in 1 .. Len(more) - 1 PROVE more[n] \in Upstreams[Stop(f, more, n - 1)]
  <2>1. n \in 1 .. Len(id)
    BY <1>1, <1>2, <1>4
  <2>2. CASE n = 1
    BY <1>2, <2>2 DEF Stop
  <2>3. CASE n # 1
    <3>1. n - 1 \in 1 .. Len(id) - 1 /\ n - 1 \in 1 .. Len(id) /\ (n - 1) + 1 = n
      BY <1>1, <2>1, <2>3
    <3>2. more[n] = id[n - 1] /\ Stop(f, more, n - 1) = Stop(u, id, (n - 1) - 1)
      BY <1>2, <1>3, <3>1
    <3>3. id[n - 1] \in Upstreams[Stop(u, id, (n - 1) - 1)]
      BY <3>1 DEF Leads
    <3> QED BY <3>2, <3>3
  <2> QED BY <2>2, <2>3
<1>5. owner = Stop(f, more, Len(more) - 1) /\ more[Len(more)] \in Systems[owner]
  <2>1. Len(id) \in 1 .. Len(id) /\ Len(more) - 1 = Len(id)
    BY <1>1, <1>2
  <2>2. Stop(f, more, Len(more) - 1) = Stop(u, id, Len(id) - 1) /\ more[Len(more)] = id[Len(id)]
    BY <1>2, <1>3, <2>1
  <2> QED BY <2>2 DEF Leads
<1> QED BY <1>1, <1>2, <1>4, <1>5 DEF Leads, more

\* What has several parts leads on, to one upstream, and the rest leads further
\* from there.
LEMMA LeadsOn ==
    ASSUME NEW f, NEW id, NEW owner, Leads(f, id, owner), Len(id) # 1
    PROVE  /\ id[1] \in Upstreams[f] /\ NextHop(f, id) = {id[1]}
           /\ Leads(id[1], Split(id).rest, owner)
<1> DEFINE rest == Tail(id)
           u == id[1]
<1>1. id \in Seq(Label) /\ Len(id) \in Nat /\ Len(id) > 1 /\ id # <<>> /\ f \in Facility
  <2>1. id \in Seq(Label) /\ Len(id) > 0 /\ f \in Facility
    BY DEF Leads, Name
  <2>2. Len(id) \in Nat /\ id # <<>>
    BY <2>1
  <2>3. \A n \in Nat : n > 0 /\ n # 1 => n > 1
    OBVIOUS
  <2> QED BY <2>1, <2>2, <2>3, Zenon
<1>2. /\ rest \in Name /\ Len(rest) = Len(id) - 1
      /\ \A n \in 1 .. Len(rest) : rest[n] = id[n + 1]
  BY <1>1, HeadTailProperties DEF Name
<1>3. Split(id).rest = rest /\ Split(id).prefix = SubSeq(id, 1, 1)
  BY <1>1 DEF Split
<1>4. SubSeq(id, 1, 1) = <<u>>
  <2>1. \A n \in 1 .. 1 : id[n] \in Label
    BY <1>1
  <2>2. /\ SubSeq(id, 1, 1) \in Seq(Label) /\ Len(SubSeq(id, 1, 1)) = 1
        /\ \A n \in 1 .. 1 : SubSeq(id, 1, 1)[n] = id[n]
    BY <2>1, SubSeqProperties
  <2>3. <<u>> \in Seq(Label) /\ Len(<<u>>) = 1 /\ <<u>>[1] = u
    BY <2>1
  <2>4. SubSeq(id, 1, 1)[1] = id[1]
    BY <2>2
  <2>5. Len(SubSeq(id, 1, 1)) = Len(<<u>>) /\ \A n \in 1 .. Len(SubSeq(id, 1, 1)) : SubSeq(id, 1, 1)[n] = <<u>>[n]
    BY <2>2, <2>3, <2>4
  <2> QED BY <2>2, <2>3, <2>5, SeqEqual, Zenon
<1>5. u \in Upstreams[f]
  BY <1>1 DEF Leads, Stop
<1>6. NextHop(f, id) = {u}
  BY <1>3, <1>4, <1>5 DEF NextHop
<1> HIDE DEF rest
<1>7. \A n \in 0 .. Len(rest) : Stop(u, rest, n) = Stop(f, id, n + 1)
  BY <1>1, <1>2 DEF Stop
<1>8. ASSUME NEW n \in 1 .. Len(rest) - 1 PROVE rest[n] \in Upstreams[Stop(u, rest, n - 1)]
  <2>1. n + 1 \in 1 .. Len(id) - 1 /\ n - 1 \in 0 .. Len(rest) /\ (n - 1) + 1 = n /\ (n + 1) - 1 = n
    BY <1>1, <1>2, <1>8
  <2>2. rest[n] = id[n + 1] /\ Stop(u, rest, n - 1) = Stop(f, id, n)
    BY <1>1, <1>2, <1>7, <2>1
  <2>3. id[n + 1] \in Upstreams[Stop(f, id, (n + 1) - 1)]
    BY <2>1 DEF Leads
  <2> QED BY <2>1, <2>2, <2>3
<1>9. owner = Stop(u, rest, Len(rest) - 1) /\ rest[Len(rest)] \in Systems[owner]
  <2>1. Len(rest) - 1 \in 0 .. Len(rest) /\ (Len(rest) - 1) + 1 = Len(id) - 1 /\ Len(rest) \in 1 .. Len(rest) /\ Len(rest) + 1 = Len(id)
    BY <1>1, <1>2
  <2>2. Stop(u, rest, Len(rest) - 1) = Stop(f, id, Len(id) - 1) /\ rest[Len(rest)] = id[Len(id)]
    BY <1>2, <1>7, <2>1
  <2> QED BY <2>2 DEF Leads
<1>10. u \in Facility
  BY <1>1, <1>5, UpstreamsAssumption
<1> QED BY <1>1, <1>2, <1>3, <1>5, <1>6, <1>8, <1>9, <1>10 DEF Leads, rest

LEMMA LeadsHome ==
    ASSUME NEW f, NEW id, NEW owner, Leads(f, id, owner), Len(id) = 1
    PROVE  owner = f /\ id[1] \in Systems[f]
BY DEF Leads, Stop

-----------------------------------------------------------------------------
(* What is published.                                                      *)

\* The names of what a facility publishes lead to the owners, and only its own
\* resources have names without a prefix.
LEMMA PublishedLeads ==
    ASSUME ListsRead, NEW f \in Facility
    PROVE  /\ ListOK(f, Published(f))
           /\ \A r \in Published(f).resources : Len(r.id) > 1 \/ r \in Own(f)
<1> DEFINE list == Published(f)
<1>1. \A x \in has[f] : x \in Systems[f]
  BY DEF ListsRead
<1>2. ASSUME NEW r \in Own(f) PROVE Leads(f, r.id, r.owner)
  BY <1>1, <1>2, LeadsOwn DEF Own
<1>3. ASSUME NEW u \in Upstreams[f], NEW r \in Copies(u, cache[f][u])
      PROVE  Leads(f, r.id, r.owner) /\ Len(r.id) > 1
  <2>1. PICK c \in cache[f][u].resources : r.id = Ns(u, c.id) /\ r.owner = c.owner
    BY <1>3 DEF Copies
  <2>2. Leads(u, c.id, c.owner)
    BY <2>1 DEF ListsRead, ListOK
  <2>3. u \in Label /\ c.id \in Name /\ Len(c.id) \in Nat /\ Len(c.id) > 0
    BY <2>2, Labels DEF Leads, Name
  <2>4. Len(r.id) = Len(c.id) + 1
    BY <2>1, <2>3, NsName
  <2> QED BY <2>1, <2>2, <2>3, <2>4, LeadsNs
<1>4. ASSUME NEW s \in OwnSites(f) PROVE s \in Name /\ Len(s) > 0
  BY <1>4, Labels, LocalName DEF OwnSites
<1>5. ASSUME NEW u \in Upstreams[f], NEW s \in SitesOf(u, cache[f][u])
      PROVE  Ns(u, s) \in Name /\ Len(Ns(u, s)) > 0
  <2>1. u \in Label
    BY UpstreamsAssumption, Labels
  <2>2. s \in Name
    BY <1>5, <2>1, LocalName DEF SitesOf, ListsRead, ListOK
  <2>3. Len(s) \in Nat
    BY <2>2 DEF Name
  <2> QED BY <2>1, <2>2, <2>3, NsName
<1>6. \A r \in list.resources : r \in Own(f) \/ \E u \in Upstreams[f] : r \in Copies(u, cache[f][u])
  BY DEF Published
<1>7. \A s \in list.sites : s \in OwnSites(f) \/ \E u \in Upstreams[f] : \E t \in SitesOf(u, cache[f][u]) : s = Ns(u, t)
  BY DEF Published
<1> HIDE DEF list
<1>8. ListOK(f, list)
  BY <1>2, <1>3, <1>4, <1>5, <1>6, <1>7 DEF ListOK
<1> QED BY <1>3, <1>6, <1>8 DEF list

LEMMA CopiesStand ==
    ASSUME ListsRead, NEW f \in Facility, NEW r \in Published(f).resources
    PROVE  r.site \in Published(f).sites /\ (Len(r.id) > 1 => Head(r.site) = Head(r.id) /\ Len(r.site) > 1)
<1>1. CASE r \in Own(f)
  <2>1. PICK x \in has[f] : r.id = Local(x) /\ r.site = Local(SiteOf[f][x])
    BY <1>1 DEF Own
  <2>2. x \in Systems[f]
    BY DEF ListsRead
  <2>3. Len(r.id) = 1 /\ r.site \in OwnSites(f)
    BY <2>1, <2>2, Labels, LocalName DEF OwnSites
  <2> QED BY <2>3 DEF Published
<1>2. ASSUME NEW u \in Upstreams[f], r \in Copies(u, cache[f][u])
      PROVE  r.site \in Published(f).sites /\ Head(r.site) = Head(r.id) /\ Len(r.site) > 1
  <2> DEFINE list == cache[f][u]
  <2>1. PICK c \in list.resources : r.id = Ns(u, c.id) /\ r.site = MergedSite(u, c, list)
    BY <1>2 DEF Copies
  <2>2. PICK s \in SitesOf(u, list) : r.site = Ns(u, s)
    <3>1. c.site \in list.sites => c.site \in SitesOf(u, list)
      BY DEF SitesOf
    <3>2. SitesOf(u, list) # {}
      BY DEF SitesOf
    <3>3. (CHOOSE s \in SitesOf(u, list) : TRUE) \in SitesOf(u, list)
      BY <3>2
    <3> HIDE DEF list
    <3> QED BY <2>1, <3>1, <3>3 DEF MergedSite
  <2>3. r.site \in Published(f).sites
    BY <2>2 DEF Published
  <2>4. u \in Label /\ c.id \in Name /\ s \in Name /\ Len(s) \in Nat /\ Len(s) > 0 /\ Len(c.id) \in Nat
    <3>1. u \in Label
      BY UpstreamsAssumption, Labels
    <3>2. s \in Name /\ Len(s) > 0
      <4>1. \A t \in list.sites : t \in Name /\ Len(t) > 0
        BY DEF ListsRead, ListOK
      <4>2. s = Local(u) \/ s \in list.sites
        BY <2>2 DEF SitesOf
      <4>3. Local(u) \in Name /\ Len(Local(u)) > 0
        BY <3>1, LocalName
      <4> QED BY <4>1, <4>2, <4>3
    <3>3. c.id \in Name
      BY <2>1 DEF ListsRead, ListOK, Leads
    <3> QED BY <3>1, <3>2, <3>3 DEF Name
  <2>5. /\ Len(r.site) = Len(s) + 1 /\ r.site[1] = u /\ r.id[1] = u
        /\ r.site \in Name /\ r.id \in Name
    BY <2>1, <2>2, <2>4, NsName
  <2>6. Head(r.site) = r.site[1] /\ Head(r.id) = r.id[1]
    BY <2>5 DEF Name
  <2> QED BY <2>3, <2>4, <2>5, <2>6
<1>3. r \in Own(f) \/ \E u \in Upstreams[f] : r \in Copies(u, cache[f][u])
  BY DEF Published
<1> QED BY <1>1, <1>2, <1>3

-----------------------------------------------------------------------------
(* The steps.                                                              *)

LEMMA FedInitially == FedInit => FedIInv
<1> SUFFICES ASSUME FedInit PROVE FedIInv
  OBVIOUS
<1>1. ListsRead
  BY DEF FedInit, ListsRead, ListOK, Unread
<1>2. OnTheWay
  BY DEF FedInit, OnTheWay
<1>3. NodesSwept
  BY SweptOnce DEF FedInit, NodesSwept
<1>4. SitesCounted
  BY DEF FedInit, SitesCounted
<1> QED BY <1>1, <1>2, <1>3, <1>4 DEF FedIInv

\* The sweep is not disturbed by what does not touch it.
LEMMA TopologyStays ==
    ASSUME FedIInv, UNCHANGED topology
    PROVE  (NodesSwept /\ SitesCounted)'
<1>1. NodesSwept'
  BY DEF FedIInv, NodesSwept, topology
<1>2. SitesCounted'
  BY DEF FedIInv, SitesCounted, NodesAt, topology
<1> QED BY <1>1, <1>2

LEMMA ListsStay ==
    ASSUME FedIInv, UNCHANGED <<has, cache>>
    PROVE  ListsRead'
BY DEF FedIInv, ListsRead

LEMMA ChangeStep ==
    ASSUME FedIInv, NEW f \in Facility, NEW x \in Systems[f], Change(f, x)
    PROVE  FedIInv'
<1>1. has' = [g \in Facility |-> IF g = f THEN (IF x \in has[f] THEN has[f] \ {x} ELSE has[f] \cup {x}) ELSE has[g]]
  BY DEF FedIInv, ListsRead, Change
<1>2. ListsRead'
  <2>1. has' = [g \in Facility |-> has'[g]] /\ \A g \in Facility : has'[g] \subseteq Systems[g]
    BY <1>1 DEF FedIInv, ListsRead
  <2>2. cache' = cache
    BY DEF Change
  <2> QED BY <2>1, <2>2 DEF FedIInv, ListsRead
<1>3. OnTheWay'
  BY DEF FedIInv, OnTheWay, Change
<1> QED BY <1>2, <1>3, TopologyStays DEF FedIInv, Change

LEMMA FedRefreshStep ==
    ASSUME FedIInv, NEW f \in Facility, NEW u \in Upstreams[f], NEW s \in BOOLEAN, NEW r \in BOOLEAN, Refresh(f, u, s, r)
    PROVE  FedIInv'
<1> DEFINE list == [sites |-> IF s THEN Published(u).sites ELSE {}, resources |-> IF r THEN Published(u).resources ELSE {}]
<1>1. ListOK(u, list)
  BY UpstreamsAssumption, PublishedLeads DEF FedIInv, ListOK
<1>2. cache' = [cache EXCEPT ![f][u] = list]
  BY DEF Refresh
<1> HIDE DEF list
<1>3. cache' = [g \in Facility |-> [v \in Upstreams[g] |-> IF g = f /\ v = u THEN list ELSE cache[g][v]]]
  BY <1>2 DEF FedIInv, ListsRead
<1>4. ListsRead'
  <2>1. \A g \in Facility : \A v \in Upstreams[g] : cache'[g][v] = IF g = f /\ v = u THEN list ELSE cache[g][v]
    BY <1>3
  <2>2. cache' = [g \in Facility |-> [v \in Upstreams[g] |-> cache'[g][v]]]
    BY <1>3
  <2>3. \A g \in Facility : \A v \in Upstreams[g] : ListOK(v, cache'[g][v])
    BY <1>1, <2>1 DEF FedIInv, ListsRead
  <2>4. has' = has
    BY DEF Refresh
  <2> QED BY <2>2, <2>3, <2>4 DEF FedIInv, ListsRead
<1>5. OnTheWay'
  BY DEF FedIInv, OnTheWay, Refresh
<1> QED BY <1>4, <1>5, TopologyStays DEF FedIInv, Refresh

LEMMA RequestStep ==
    ASSUME FedIInv,
           \/ \E f \in Facility : \E r \in Published(f).resources : Ask(f, r)
           \/ \E q \in requests : Forward(q) \/ Answer(q)
    PROVE  FedIInv'
<1>1. UNCHANGED <<has, cache, topology>>
  BY DEF Ask, Forward, Answer
<1>2. CASE \E f \in Facility : \E r \in Published(f).resources : Ask(f, r)
  <2>0. PICK f \in Facility : \E r \in Published(f).resources : Ask(f, r)
    BY <1>2
  <2>1. PICK r \in Published(f).resources : Ask(f, r)
    BY <2>0
  <2>2. Leads(f, r.id, r.owner)
    BY PublishedLeads DEF FedIInv, ListOK
  <2>3. OnTheWay'
    BY <2>1, <2>2 DEF Ask, OnTheWay
  <2> QED BY <1>1, <2>3, TopologyStays, ListsStay DEF FedIInv
<1>3. CASE \E q \in requests : Forward(q)
  <2>1. PICK q \in requests : Forward(q)
    BY <1>3
  <2>2. Leads(q.at, q.id, q.owner)
    BY DEF FedIInv, OnTheWay
  <2>3. PICK u \in NextHop(q.at, q.id) : requests' = {[at |-> u, id |-> Split(q.id).rest, owner |-> q.owner]}
    BY <2>1 DEF Forward
  <2>4. Len(q.id) # 1
    BY <2>2, <2>3 DEF NextHop, Split
  <2>5. Leads(u, Split(q.id).rest, q.owner)
    BY <2>2, <2>3, <2>4, LeadsOn
  <2>6. OnTheWay'
    BY <2>3, <2>5 DEF OnTheWay
  <2> QED BY <1>1, <2>6, TopologyStays, ListsStay DEF FedIInv
<1>4. CASE \E q \in requests : Answer(q)
  <2>1. OnTheWay'
    BY <1>4 DEF FedIInv, OnTheWay, Answer
  <2> QED BY <1>1, <2>1, TopologyStays, ListsStay DEF FedIInv
<1> QED BY <1>2, <1>3, <1>4

\* The node of a resource on the page.
Shown(f, r, list, s) == [via |-> f, id |-> r.id, owner |-> r.owner, site |-> Place(f, r, list), status |-> s]

\* A facility is swept, of which nothing is shown yet.
LEMMA FetchedStep ==
    ASSUME FedIInv, position <= Len(Swept), NEW f, f = Swept[position],
           NEW list, NEW connected \in BOOLEAN, connected \/ list.resources = {},
           \A r \in list.resources : Len(r.id) > 1 \/ r \in Own(f),
           Fetched(f, list, connected)
    PROVE  FedIInv'
<1> DEFINE own == ShownOf(f, list)
           here == {<<f, s>> : s \in SweptSites(f, list)}
<1>1. PICK status \in [own -> Reported] :
         LET new == {Shown(f, r, list, status[r]) : r \in own}
             At(s) == {n \in new : n.site = s} IN
         /\ nodes' = nodes \cup new
         /\ sites' = [s \in DOMAIN sites \cup here |->
                       IF s \in here THEN [systems |-> Cardinality(At(s)), connected |-> connected /\ At(s) # {}, status |-> "UNKNOWN"]
                       ELSE sites[s]]
  BY DEF Fetched, Shown
<1> DEFINE new == {Shown(f, r, list, status[r]) : r \in own}
           At(s) == {n \in new : n.site = s}
<1>2. position' = position + 1 /\ UNCHANGED <<has, cache, requests>>
  BY DEF Fetched
<1>3. position \in 1 .. Len(Swept) /\ Len(Swept) \in Nat /\ position \in DOMAIN Swept
  BY SweptOnce DEF FedIInv, NodesSwept
<1>4. (\A s \in here : s[1] = f) /\ \A r : Place(f, r, list) \in here
  <2>1. SweptSites(f, list) # {}
    BY DEF SweptSites
  <2>2. (CHOOSE s \in SweptSites(f, list) : TRUE) \in SweptSites(f, list)
    BY <2>1
  <2> QED BY <2>2 DEF Place
<1>5. \A r \in own : \E x : r.id = Local(x) /\ r.owner = f /\ r = [id |-> Local(x), site |-> Local(SiteOf[f][x]), owner |-> f]
  BY DEF Own, Consolidated, ShownOf
<1>6. \A n \in new : \E r \in own : n = Shown(f, r, list, status[r])
  OBVIOUS
<1>7. \A n \in new : n.via = f /\ n.owner = f /\ Len(n.id) = 1 /\ n.site \in here
  BY <1>4, <1>5, <1>6 DEF Shown, Local
<1>8. \A m, n \in new : m.id[1] = n.id[1] => m = n
  <2> SUFFICES ASSUME NEW m \in new, NEW n \in new, m.id[1] = n.id[1] PROVE m = n
    OBVIOUS
  <2>1. PICK r \in own : m = Shown(f, r, list, status[r])
    BY <1>6
  <2>2. PICK q \in own : n = Shown(f, q, list, status[q])
    BY <1>6
  <2>3. r.id[1] = q.id[1]
    BY <2>1, <2>2 DEF Shown
  <2>4. r = q
    BY <1>5, <2>3 DEF Local
  <2> QED BY <2>1, <2>2, <2>4
<1>9. nodes' = nodes \cup new
  BY <1>1
<1>10. /\ DOMAIN sites' = DOMAIN sites \cup here
       /\ \A s \in here : sites'[s] = [systems |-> Cardinality(At(s)), connected |-> connected /\ At(s) # {}, status |-> "UNKNOWN"]
       /\ \A s \in DOMAIN sites \ here : sites'[s] = sites[s]
  BY <1>1
<1>11. ~connected => new = {}
  BY DEF ShownOf
<1> HIDE DEF own, here, new
<1>12. \A n \in nodes : n.via # f /\ n.site \notin here
  <2> SUFFICES ASSUME NEW n \in nodes PROVE n.via # f
    BY <1>4 DEF FedIInv, NodesSwept
  <2>1. PICK p \in DOMAIN Swept : p < position /\ n.via = Swept[p]
    BY DEF FedIInv, NodesSwept
  <2>2. p # position
    BY <1>3, <2>1, SweptOnce
  <2> QED BY <1>3, <2>1, <2>2, SweptOnce
<1>13. NodesSwept'
  <2>1. position' \in 1 .. Len(Swept) + 2
    BY <1>2, <1>3
  <2>2. ASSUME NEW n \in nodes'
        PROVE  /\ n.owner = n.via /\ Len(n.id) = 1 /\ n.site[1] = n.via
               /\ \E p \in DOMAIN Swept : p < position' /\ n.via = Swept[p]
    <3>1. CASE n \in nodes
      <4>1. PICK p \in DOMAIN Swept : p < position /\ n.via = Swept[p]
        BY <3>1 DEF FedIInv, NodesSwept
      <4>2. p < position'
        BY <1>2, <1>3, <4>1, SweptOnce
      <4> QED BY <3>1, <4>1, <4>2 DEF FedIInv, NodesSwept
    <3>2. CASE n \in new
      BY <1>2, <1>3, <1>4, <1>7, <3>2
    <3> QED BY <1>9, <2>2, <3>1, <3>2
  <2>3. \A m, n \in nodes' : m.via = n.via /\ m.id[1] = n.id[1] => m = n
    BY <1>7, <1>8, <1>9, <1>12 DEF FedIInv, NodesSwept
  <2> QED BY <2>1, <2>2, <2>3 DEF NodesSwept
<1>14. /\ \A s \in here : NodesAt(s)' = At(s)
       /\ \A s \in DOMAIN sites \ here : NodesAt(s)' = NodesAt(s)
  BY <1>7, <1>9, <1>12 DEF NodesAt
<1>15. SitesCounted'
  <2>1. \A n \in nodes' : n.site \in DOMAIN sites'
    BY <1>7, <1>9, <1>10 DEF FedIInv, SitesCounted
  <2>2. position' # Len(Swept) + 2
    BY <1>2, <1>3
  <2>3. ASSUME NEW s \in here
        PROVE  /\ sites'[s] = [systems |-> sites'[s].systems, connected |-> sites'[s].connected, status |-> sites'[s].status]
               /\ sites'[s].systems = Cardinality(NodesAt(s)') /\ (sites'[s].connected <=> NodesAt(s)' # {})
    <3> DEFINE shown == connected /\ At(s) # {}
    <3>1. shown <=> At(s) # {}
      BY <1>11
    <3> HIDE DEF At
    <3>2. sites'[s] = [systems |-> Cardinality(At(s)), connected |-> shown, status |-> "UNKNOWN"]
      BY <1>10
    <3>3. NodesAt(s)' = At(s)
      BY <1>14
    <3> HIDE DEF shown
    <3>4. sites'[s].systems = Cardinality(At(s)) /\ sites'[s].connected = shown
      BY <3>2
    <3> QED BY <3>1, <3>2, <3>3, <3>4
  <2>4. ASSUME NEW s \in DOMAIN sites \ here
        PROVE  /\ sites'[s] = [systems |-> sites'[s].systems, connected |-> sites'[s].connected, status |-> sites'[s].status]
               /\ sites'[s].systems = Cardinality(NodesAt(s)') /\ (sites'[s].connected <=> NodesAt(s)' # {})
    BY <1>10, <1>14 DEF FedIInv, SitesCounted
  <2> QED BY <1>10, <2>1, <2>2, <2>3, <2>4 DEF SitesCounted
<1>16. OnTheWay'
  BY <1>2 DEF FedIInv, OnTheWay
<1> QED BY <1>2, <1>13, <1>15, <1>16, ListsStay DEF FedIInv

LEMMA FetchStep ==
    ASSUME FedIInv, (\E s, r \in BOOLEAN : Fetch(s, r)) \/ FetchFails
    PROVE  FedIInv'
<1> DEFINE f == Swept[position]
<1>1. position <= Len(Swept) /\ f \in Facility
  <2>1. position <= Len(Swept)
    BY DEF Fetch, FetchFails
  <2>2. position \in 1 .. Len(Swept) + 2 /\ Swept \in Seq(Facility)
    BY SweptOnce DEF FedIInv, NodesSwept
  <2> QED BY <2>1, <2>2
<1>2. ASSUME NEW s \in BOOLEAN, NEW r \in BOOLEAN, Fetch(s, r) PROVE FedIInv'
  <2> DEFINE list == [sites |-> IF s THEN Published(f).sites ELSE {}, resources |-> IF r THEN Published(f).resources ELSE {}]
  <2>1. Fetched(f, list, TRUE)
    BY <1>2 DEF Fetch
  <2>2. \A q \in list.resources : Len(q.id) > 1 \/ q \in Own(f)
    BY <1>1, PublishedLeads DEF FedIInv
  <2> HIDE DEF list, f
  <2>3. f = Swept[position]
    BY DEF f
  <2> QED BY <1>1, <2>1, <2>2, <2>3, FetchedStep
<1>3. CASE FetchFails
  <2>1. Fetched(f, Unread, FALSE) /\ Unread.resources = {}
    BY <1>3 DEF FetchFails, Unread
  <2> HIDE DEF f
  <2>2. f = Swept[position]
    BY DEF f
  <2> QED BY <1>1, <2>1, <2>2, FetchedStep
<1> QED BY <1>2, <1>3

LEMMA WriteStep ==
    ASSUME FedIInv, Write
    PROVE  FedIInv'
<1>1. /\ position = Len(Swept) + 1 /\ position' = position + 1 /\ UNCHANGED <<has, cache, requests, nodes>>
      /\ sites' = [s \in DOMAIN sites |-> [sites[s] EXCEPT !.status = RollUp({n.status : n \in NodesAt(s)})]]
  BY DEF Write, NodesAt
<1>2. Len(Swept) \in Nat /\ DOMAIN Swept = 1 .. Len(Swept)
  BY SweptOnce
<1>3. NodesSwept'
  <2>1. position' \in 1 .. Len(Swept) + 2
    BY <1>1, <1>2
  <2>2. \A p \in DOMAIN Swept : p < position => p < position'
    BY <1>1, <1>2
  <2> QED BY <1>1, <2>1, <2>2 DEF FedIInv, NodesSwept
<1>4. \A s : NodesAt(s)' = NodesAt(s)
  BY <1>1 DEF NodesAt
<1>5. ASSUME NEW s \in DOMAIN sites
      PROVE  /\ sites'[s] = [systems |-> sites'[s].systems, connected |-> sites'[s].connected, status |-> sites'[s].status]
             /\ sites'[s].systems = sites[s].systems /\ sites'[s].connected = sites[s].connected
             /\ sites'[s].status = RollUp({n.status : n \in NodesAt(s)})
  <2> DEFINE rolled == RollUp({n.status : n \in NodesAt(s)})
  <2>1. sites'[s] = [sites[s] EXCEPT !.status = rolled]
    BY <1>1
  <2>2. sites[s] = [systems |-> sites[s].systems, connected |-> sites[s].connected, status |-> sites[s].status]
    BY DEF FedIInv, SitesCounted
  <2> HIDE DEF rolled
  <2>3. [sites[s] EXCEPT !.status = rolled] = [systems |-> sites[s].systems, connected |-> sites[s].connected, status |-> rolled]
    BY <2>2
  <2>4. sites'[s] = [systems |-> sites[s].systems, connected |-> sites[s].connected, status |-> rolled]
    BY <2>1, <2>3
  <2> QED BY <2>4 DEF rolled
<1>6. SitesCounted'
  BY <1>1, <1>4, <1>5 DEF FedIInv, SitesCounted
<1>7. OnTheWay'
  BY <1>1 DEF FedIInv, OnTheWay
<1> QED BY <1>1, <1>3, <1>6, <1>7, ListsStay DEF FedIInv

LEMMA SweepAgainStep ==
    ASSUME FedIInv, SweepAgain
    PROVE  FedIInv'
<1>1. position' = 1 /\ nodes' = {} /\ DOMAIN sites' = {} /\ UNCHANGED <<has, cache, requests>>
  BY DEF SweepAgain
<1>2. NodesSwept' /\ SitesCounted'
  BY <1>1, SweptOnce DEF NodesSwept, SitesCounted
<1>3. OnTheWay'
  BY <1>1 DEF FedIInv, OnTheWay
<1> QED BY <1>1, <1>2, <1>3, ListsStay DEF FedIInv

LEMMA FedInductive == FedIInv /\ [FedNext]_fedVars => FedIInv'
<1> SUFFICES ASSUME FedIInv, [FedNext]_fedVars PROVE FedIInv'
  OBVIOUS
<1>1. ASSUME NEW f \in Facility, NEW x \in Systems[f], Change(f, x) PROVE FedIInv'
  BY <1>1, ChangeStep
<1>2. ASSUME NEW f \in Facility, NEW u \in Upstreams[f], NEW s \in BOOLEAN, NEW r \in BOOLEAN, Refresh(f, u, s, r) PROVE FedIInv'
  BY <1>2, FedRefreshStep
<1>3. CASE (\E f \in Facility : \E r \in Published(f).resources : Ask(f, r)) \/ \E q \in requests : Forward(q) \/ Answer(q)
  BY <1>3, RequestStep
<1>4. CASE (\E s, r \in BOOLEAN : Fetch(s, r)) \/ FetchFails
  BY <1>4, FetchStep
<1>5. CASE Write
  BY <1>5, WriteStep
<1>6. CASE SweepAgain
  BY <1>6, SweepAgainStep
<1>7. CASE UNCHANGED fedVars
  <2>1. UNCHANGED <<has, cache>> /\ UNCHANGED topology /\ requests' = requests
    BY <1>7 DEF fedVars
  <2>2. OnTheWay'
    BY <2>1 DEF FedIInv, OnTheWay
  <2> QED BY <2>1, <2>2, ListsStay, TopologyStays DEF FedIInv
<1> QED BY <1>1, <1>2, <1>3, <1>4, <1>5, <1>6, <1>7 DEF FedNext

LEMMA FedInvariance == FedSpec => []FedIInv
BY FedInitially, FedInductive, PTL DEF FedSpec

-----------------------------------------------------------------------------
(* The theorems.                                                           *)

\* A request that is forwarded no further is at the owner of the resource, under
\* its name there, through any gateways and however old their lists are
\* (gateway.py split_id, ns, Gateway.merge_into).
THEOREM RequestReachesOwnerAlways == FedSpec => []RequestReachesOwner
<1>1. ASSUME FedIInv PROVE RequestReachesOwner
  <2> SUFFICES ASSUME NEW q \in requests, NextHop(q.at, q.id) = {}
               PROVE  q.at = q.owner /\ Len(q.id) = 1 /\ q.id[1] \in Systems[q.owner]
    BY DEF RequestReachesOwner
  <2>1. Leads(q.at, q.id, q.owner)
    BY <1>1 DEF FedIInv, OnTheWay
  <2>2. Len(q.id) = 1
    BY <2>1, LeadsOn
  <2> QED BY <2>1, <2>2, LeadsHome
<1> QED BY <1>1, FedInvariance, PTL

\* A copy stands at a published site of its upstream, whichever lists could be
\* read (gateway.py Gateway.merge_into).
THEOREM CopiesHaveSitesAlways == FedSpec => []CopiesHaveSites
<1>1. ASSUME FedIInv PROVE CopiesHaveSites
  BY <1>1, CopiesStand DEF FedIInv, CopiesHaveSites
<1> QED BY <1>1, FedInvariance, PTL

\* No system is in the topology twice or under another facility, whatever the
\* gateways publish of it (aggregate.py build).
THEOREM ShownOnceAlways == FedSpec => []ShownOnce
<1>1. ASSUME FedIInv PROVE ShownOnce
  BY <1>1 DEF FedIInv, NodesSwept, ShownOnce
<1> QED BY <1>1, FedInvariance, PTL

\* A written topology counts every system at its site, and the status of a site
\* follows what is at it, UP where nothing is known to be wrong (aggregate.py
\* build).
THEOREM SitesAgreeAlways == FedSpec => []SitesAgree
<1>1. ASSUME FedIInv PROVE SitesAgree
  <2> SUFFICES ASSUME position = Len(Swept) + 2, NEW s \in DOMAIN sites
               PROVE  /\ sites[s].systems = Cardinality(NodesAt(s)) /\ (sites[s].connected <=> NodesAt(s) # {})
                      /\ sites[s].status = "UNKNOWN" <=> NodesAt(s) = {}
                      /\ sites[s].status = "DOWN" <=> (\E n \in NodesAt(s) : n.status \in {"DOWN"})
                                                       /\ \A n \in NodesAt(s) : n.status = "DOWN"
                      /\ sites[s].status = "UP" <=> /\ NodesAt(s) # {}
                                                    /\ ~\E n \in NodesAt(s) : n.status \in {"DOWN", "DEGRADED"}
    BY <1>1 DEF FedIInv, SitesCounted, SitesAgree, NodesAt
  <2> DEFINE statuses == {n.status : n \in NodesAt(s)}
  <2>1. /\ sites[s].systems = Cardinality(NodesAt(s)) /\ (sites[s].connected <=> NodesAt(s) # {})
        /\ sites[s].status = RollUp(statuses)
    BY <1>1 DEF FedIInv, SitesCounted
  <2>2. /\ \A n \in NodesAt(s) : n.status \in statuses
        /\ \A t \in statuses : \E n \in NodesAt(s) : n.status = t
    OBVIOUS
  <2> HIDE DEF statuses
  <2>3. RollUp(statuses) = "UNKNOWN" <=> statuses = {}
    BY DEF RollUp
  <2>4. RollUp(statuses) = "DOWN" <=> statuses = {"DOWN"}
    BY DEF RollUp
  <2>5. RollUp(statuses) = "UP" <=> statuses # {} /\ statuses \cap {"DOWN", "DEGRADED"} = {}
    BY DEF RollUp
  <2> QED BY <2>1, <2>2, <2>3, <2>4, <2>5
<1> QED BY <1>1, FedInvariance, PTL

-----------------------------------------------------------------------------
(* The cache of the inventory.                                             *)

Working == {"fetching", "observed", "refreshing"}

\* The request that works is the one that has the lock, and it took the lock
\* when the inventory had expired.
LockHeld ==
    /\ lock # None => request[lock] \in Working /\ ~Fresh
    /\ \A r \in Request : request[r] \in Working => lock = r

\* Until a rebuild observes, the ledger is in step with what is published; then
\* it is with what is being built.
LedgerFollows ==
    /\ (lock = None \/ request[lock] = "fetching") /\ inv # None /\ ~behind => ledger = inv.own \/ inv.own = 0
    /\ lock # None /\ request[lock] = "observed" => draft.own = ledger
    /\ lock # None /\ request[lock] = "refreshing" => draft.own \in {0, ledger}

\* Until a rebuild visits the upstreams, they are in step with what is published;
\* the incidents of an upstream are never of a later read than its resources.
UpstreamsFollow ==
    /\ (lock = None \/ request[lock] \in {"fetching", "observed"}) /\ inv # None /\ ~behind =>
          \A u \in Upstream : inv.up[u] = gw[u].resources
    /\ \A u \in Upstream : gw[u].incidents <= gw[u].resources /\ gw[u].resources <= builds

\* The age of an inventory is its own, or was set when a build failed.
AgeIsKnown ==
    inv # None => \/ inv.built = inv.made
                  \/ failedAt # None /\ inv.built = failedAt - InvTTL + Grace

\* What is published before a merge that failed is fresh again only when a later
\* build failed.
KeptIsKnown == behind /\ Fresh => failedAt # None /\ inv.built = failedAt - InvTTL + Grace

Follows == LockHeld /\ LedgerFollows /\ UpstreamsFollow /\ AgeIsKnown /\ KeptIsKnown

IInv == TypeOK /\ Follows

USE NoneAssumption, TimeAssumption DEF Working

-----------------------------------------------------------------------------
LEMMA Initially == Init => IInv
<1> SUFFICES ASSUME Init PROVE IInv
  OBVIOUS
<1>1. TypeOK
  <2>1. [u \in Upstream |-> Unvisited] \in [Upstream -> Held]
    BY DEF Unvisited, Held
  <2>2. queue \in Seq(Request) /\ draft \in Draft
    BY DEF Init, NoDraft, Draft
  <2>3. behind \in BOOLEAN
    BY DEF Init
  <2>4. clock \in 0 .. MaxTime /\ ledger \in 0 .. builds
    BY DEF Init
  <2> QED BY <2>1, <2>2, <2>3, <2>4 DEF Init, TypeOK
<1>2. Follows
  BY DEF Init, Follows, LockHeld, LedgerFollows, UpstreamsFollow, AgeIsKnown, KeptIsKnown, Fresh, Unvisited
<1> QED BY <1>1, <1>2 DEF IInv

\* What the record types mean for the fields.
LEMMA InvFields == ASSUME TypeOK, inv # None
                   PROVE  /\ inv \in Inventory /\ inv.built \in Int /\ inv.made \in Int /\ inv.own \in Nat
                          /\ inv.up \in [Upstream -> Nat]
BY DEF TypeOK, Inventory

LEMMA GwFields == ASSUME TypeOK, NEW u \in Upstream
                  PROVE  gw[u] \in Held /\ gw[u].incidents \in Nat /\ gw[u].resources \in Nat
BY DEF TypeOK, Held

LEMMA HolderIn == ASSUME TypeOK, lock # None PROVE lock \in Request
BY DEF TypeOK


LEMMA TickStep ==
    ASSUME IInv, Tick
    PROVE  IInv'
<1>1. TypeOK'
  BY DEF IInv, TypeOK, Tick, caching, building
<1>2. Follows'
  BY InvFields, HolderIn DEF IInv, TypeOK, Follows, LockHeld, LedgerFollows, UpstreamsFollow, AgeIsKnown, KeptIsKnown,
     Tick, Fresh, caching, building
<1> QED BY <1>1, <1>2 DEF IInv

LEMMA ReadCachedStep ==
    ASSUME IInv, NEW r \in Request, ReadCached(r)
    PROVE  IInv'
<1>1. TypeOK'
  BY DEF IInv, TypeOK, ReadCached, Goes, caching, building
<1>2. Follows'
  BY InvFields, HolderIn DEF IInv, TypeOK, Follows, LockHeld, LedgerFollows, UpstreamsFollow, AgeIsKnown, KeptIsKnown,
     ReadCached, Goes, Fresh, caching, building
<1> QED BY <1>1, <1>2 DEF IInv

LEMMA TakeLockStep ==
    ASSUME IInv, NEW r \in Request, TakeLock(r)
    PROVE  IInv'
<1>1. TypeOK'
  BY DEF IInv, TypeOK, TakeLock, Begin, Goes, caching, building
<1>2. LockHeld' /\ LedgerFollows' /\ AgeIsKnown' /\ KeptIsKnown'
  BY InvFields, HolderIn DEF IInv, TypeOK, Follows, LockHeld, LedgerFollows, AgeIsKnown, KeptIsKnown,
     TakeLock, Begin, Goes, Fresh, caching, building
<1>3. UpstreamsFollow'
  <2>1. builds \in Nat /\ builds <= builds' /\ builds' \in Nat /\ UNCHANGED <<gw, inv, behind>> /\ (lock' = None => lock = None)
    BY DEF IInv, TypeOK, TakeLock, Begin, Goes, caching, building
  <2>2. lock' # None => lock = None
    BY DEF TakeLock, Begin, Goes, caching, building
  <2>3. \A u \in Upstream : gw[u].incidents \in Nat /\ gw[u].resources \in Nat
    BY GwFields DEF IInv
  <2> QED BY <2>1, <2>2, <2>3 DEF IInv, Follows, UpstreamsFollow
<1> QED BY <1>1, <1>2, <1>3 DEF IInv, Follows

LEMMA AwaitLockStep ==
    ASSUME IInv, NEW r \in Request, AwaitLock(r)
    PROVE  IInv'
<1>1. TypeOK'
  BY DEF IInv, TypeOK, AwaitLock, Goes, caching, building
<1>2. Follows'
  BY InvFields, HolderIn DEF IInv, TypeOK, Follows, LockHeld, LedgerFollows, UpstreamsFollow, AgeIsKnown, KeptIsKnown,
     AwaitLock, Goes, Fresh, caching, building
<1> QED BY <1>1, <1>2 DEF IInv

LEMMA WakeStep ==
    ASSUME IInv, Wake
    PROVE  IInv'
<1>0. Head(queue) \in Request /\ Tail(queue) \in Seq(Request)
  BY HeadTailProperties DEF IInv, TypeOK, Wake
<1>1. TypeOK'
  BY <1>0 DEF IInv, TypeOK, Wake, Begin, Goes, caching, building
<1>2. LockHeld' /\ LedgerFollows' /\ AgeIsKnown' /\ KeptIsKnown'
  BY <1>0, InvFields, HolderIn DEF IInv, TypeOK, Follows, LockHeld, LedgerFollows, AgeIsKnown, KeptIsKnown,
     Wake, Begin, Goes, Fresh, caching, building
<1>3. UpstreamsFollow'
  <2>1. builds \in Nat /\ builds <= builds' /\ builds' \in Nat /\ UNCHANGED <<gw, inv, behind>> /\ (lock' = None => lock = None)
    BY DEF IInv, TypeOK, Wake, Begin, Goes, caching, building
  <2>2. lock' # None => lock = None
    BY DEF Wake, Begin, Goes, caching, building
  <2>3. \A u \in Upstream : gw[u].incidents \in Nat /\ gw[u].resources \in Nat
    BY GwFields DEF IInv
  <2> QED BY <2>1, <2>2, <2>3 DEF IInv, Follows, UpstreamsFollow
<1> QED BY <1>1, <1>2, <1>3 DEF IInv, Follows

LEMMA ObserveStep ==
    ASSUME IInv, Observe
    PROVE  IInv'
<1>1. TypeOK'
  BY DEF IInv, TypeOK, Observe, Goes, Draft, caching, building
<1>2. Follows'
  BY InvFields, HolderIn DEF IInv, TypeOK, Follows, LockHeld, LedgerFollows, UpstreamsFollow, AgeIsKnown, KeptIsKnown,
     Observe, Goes, Fresh, Draft, caching, building
<1> QED BY <1>1, <1>2 DEF IInv

LEMMA AssembleStep ==
    ASSUME IInv, Assemble
    PROVE  IInv'
<1>1. TypeOK'
  BY DEF IInv, TypeOK, Assemble, Goes, Draft, caching, building
<1>2. Follows'
  BY InvFields, HolderIn DEF IInv, TypeOK, Follows, LockHeld, LedgerFollows, UpstreamsFollow, AgeIsKnown, KeptIsKnown,
     Assemble, Goes, Fresh, Draft, caching, building
<1> QED BY <1>1, <1>2 DEF IInv

LEMMA KeepPreviousStep ==
    ASSUME IInv, KeepPrevious
    PROVE  IInv'
<1>1. TypeOK'
  <2>1. inv \in Inventory
    BY InvFields DEF IInv, KeepPrevious
  <2>2. inv' \in Inventory
    <3>1. clock - InvTTL + Grace \in Int
      BY DEF IInv, TypeOK
    <3> DEFINE built == clock - InvTTL + Grace
    <3> HIDE DEF built
    <3>2. inv' = [inv EXCEPT !.built = built]
      BY DEF KeepPrevious, built
    <3> QED BY <2>1, <3>1, <3>2 DEF Inventory, built
  <2> QED BY <2>2, HolderIn DEF IInv, TypeOK, KeepPrevious, Leave, Goes, building
<1>2. Follows'
  BY InvFields, HolderIn DEF IInv, TypeOK, Follows, LockHeld, LedgerFollows, UpstreamsFollow, AgeIsKnown, KeptIsKnown,
     KeepPrevious, Leave, Goes, Fresh, Inventory, caching, building
<1> QED BY <1>1, <1>2 DEF IInv

LEMMA StartEmptyStep ==
    ASSUME IInv, StartEmpty
    PROVE  IInv'
<1>1. TypeOK'
  BY DEF IInv, TypeOK, StartEmpty, Goes, Draft, caching, building
<1>2. Follows'
  BY InvFields, HolderIn DEF IInv, TypeOK, Follows, LockHeld, LedgerFollows, UpstreamsFollow, AgeIsKnown, KeptIsKnown,
     StartEmpty, Goes, Fresh, Draft, caching, building
<1> QED BY <1>1, <1>2 DEF IInv

LEMMA VisitStep ==
    ASSUME IInv, NEW u \in Upstream, NEW data \in Held,
           data.incidents <= data.resources, data.resources <= builds, Visit(u, data)
    PROVE  IInv'
<1>1. TypeOK'
  BY DEF IInv, TypeOK, Visit, caching, building
<1>2. Follows'
  BY InvFields, HolderIn DEF IInv, TypeOK, Follows, LockHeld, LedgerFollows, UpstreamsFollow, AgeIsKnown, KeptIsKnown,
     Visit, Held, Fresh, caching, building
<1> QED BY <1>1, <1>2 DEF IInv

LEMMA MergeFailsStep ==
    ASSUME IInv, MergeFails
    PROVE  IInv'
<1>1. TypeOK'
  BY DEF IInv, TypeOK, MergeFails, Merged, Leave, Goes, Draft, NoDraft, caching, building
<1>2. Follows'
  BY InvFields, HolderIn DEF IInv, TypeOK, Follows, LockHeld, LedgerFollows, UpstreamsFollow, AgeIsKnown, KeptIsKnown,
     MergeFails, Merged, Leave, Goes, Fresh, caching, building
<1> QED BY <1>1, <1>2 DEF IInv

LEMMA PublishStep ==
    ASSUME IInv, Publish
    PROVE  IInv'
<1>1. TypeOK'
  <2>1. [u \in Upstream |-> gw[u].resources] \in [Upstream -> Nat]
    BY DEF IInv, TypeOK, Held
  <2>2. draft.made \in Int /\ draft.own \in Nat
    BY DEF IInv, TypeOK, Draft
  <2>3. inv' \in Inventory
    BY <2>1, <2>2 DEF Publish, Inventory
  <2>4. draft' \in Draft
    BY DEF Publish, Draft, NoDraft
  <2>5. behind' \in BOOLEAN
    BY DEF Publish
  <2> QED BY <2>3, <2>4, <2>5, HolderIn DEF IInv, TypeOK, Publish, Merged, Leave, Goes
<1>2. Follows'
  BY InvFields, HolderIn DEF IInv, TypeOK, Follows, LockHeld, LedgerFollows, UpstreamsFollow, AgeIsKnown, KeptIsKnown,
     Publish, Merged, Leave, Goes, Fresh, caching, building
<1> QED BY <1>1, <1>2 DEF IInv

-----------------------------------------------------------------------------
LEMMA RefreshStep ==
    ASSUME IInv, NEW u \in Upstream, NEW malformed \in BOOLEAN,
           RefreshSkipped(u) \/ RefreshFails(u) \/ RefreshOk(u, malformed) \/ RefreshTorn(u, malformed)
    PROVE  IInv'
<1> DEFINE ok == [resources |-> builds, incidents |-> builds, error |-> FALSE, malformed |-> malformed, at |-> clock]
           fails == [gw[u] EXCEPT !.error = TRUE, !.at = clock]
           torn == [gw[u] EXCEPT !.resources = builds, !.malformed = malformed, !.error = TRUE, !.at = clock]
<1>1. /\ gw[u] \in Held /\ builds \in Nat /\ clock \in Int
      /\ gw[u].incidents <= gw[u].resources /\ gw[u].resources <= builds
  BY DEF IInv, TypeOK, Follows, UpstreamsFollow
<1>2. CASE RefreshSkipped(u)
  BY <1>1, <1>2, VisitStep DEF RefreshSkipped
<1>3. CASE RefreshOk(u, malformed)
  <2>1. ok \in Held /\ ok.incidents <= ok.resources /\ ok.resources <= builds /\ Visit(u, ok)
    BY <1>1, <1>3 DEF RefreshOk, Held
  <2> HIDE DEF ok
  <2> QED BY <2>1, VisitStep
<1>4. CASE RefreshFails(u)
  <2>1. fails \in Held /\ fails.incidents <= fails.resources /\ fails.resources <= builds /\ Visit(u, fails)
    BY <1>1, <1>4 DEF RefreshFails, Held
  <2> HIDE DEF fails
  <2> QED BY <2>1, VisitStep
<1>5. CASE RefreshTorn(u, malformed)
  <2>1. torn \in Held /\ torn.incidents = gw[u].incidents /\ torn.resources = builds /\ Visit(u, torn)
    BY <1>1, <1>5 DEF RefreshTorn, Held
  <2>2. torn.incidents <= torn.resources /\ torn.resources <= builds
    BY <1>1, <2>1, GwFields DEF IInv
  <2> HIDE DEF torn
  <2> QED BY <2>1, <2>2, VisitStep
<1> QED BY <1>2, <1>3, <1>4, <1>5

LEMMA Inductive == IInv /\ [Next]_vars => IInv'
<1> SUFFICES ASSUME IInv, [Next]_vars PROVE IInv'
  OBVIOUS
<1>1. CASE Tick
  BY <1>1, TickStep
<1>2. ASSUME NEW r \in Request, ReadCached(r) \/ TakeLock(r) \/ AwaitLock(r) PROVE IInv'
  BY <1>2, ReadCachedStep, TakeLockStep, AwaitLockStep
<1>3. CASE Wake
  BY <1>3, WakeStep
<1>4. CASE Build
  <2>1. CASE Observe \/ Assemble \/ KeepPrevious \/ StartEmpty \/ MergeFails \/ Publish
    BY <2>1, ObserveStep, AssembleStep, KeepPreviousStep, StartEmptyStep, MergeFailsStep, PublishStep
  <2>2. ASSUME NEW u \in Upstream,
               \/ RefreshSkipped(u) \/ RefreshFails(u)
               \/ \E malformed \in BOOLEAN : RefreshOk(u, malformed) \/ RefreshTorn(u, malformed)
        PROVE  IInv'
    <3>1. PICK malformed \in BOOLEAN :
             RefreshSkipped(u) \/ RefreshFails(u) \/ RefreshOk(u, malformed) \/ RefreshTorn(u, malformed)
      BY <2>2
    <3> QED BY <3>1, RefreshStep
  <2> QED BY <1>4, <2>1, <2>2 DEF Build
<1>5. CASE UNCHANGED vars
  <2>1. TypeOK'
    BY <1>5 DEF vars, caching, building, IInv, TypeOK
  <2>2. Follows'
    BY <1>5 DEF vars, caching, building, IInv, Follows, LockHeld, LedgerFollows, UpstreamsFollow, AgeIsKnown, KeptIsKnown, Fresh
  <2> QED BY <2>1, <2>2 DEF IInv
<1> QED BY <1>1, <1>2, <1>3, <1>4, <1>5 DEF Next

LEMMA Invariance == Spec => []IInv
BY Initially, Inductive, PTL DEF Spec

\* Every reachable state is well typed.
THEOREM TypeCorrect == Spec => []TypeOK
<1>1. IInv => TypeOK
  BY DEF IInv
<1> QED BY <1>1, Invariance, PTL

\* What was published before a merge that failed is served only in a grace period.
LEMMA KeptInGrace == ASSUME IInv, behind, Fresh PROVE InGrace
<1>1. TypeOK /\ inv # None /\ clock - inv.built < InvTTL
  BY DEF IInv, Fresh
<1>2. failedAt # None /\ inv.built = failedAt - InvTTL + Grace
  BY DEF IInv, Follows, KeptIsKnown
<1>3. clock \in Int /\ failedAt \in Int
  BY <1>1, <1>2 DEF TypeOK
<1> QED BY <1>1, <1>2, <1>3 DEF InGrace

\* Published resources and their history belong together, but for a grace period
\* (runtime.py Runtime.inventory, inventory.py InventoryBuilder.build).
THEOREM LedgerInStepAlways == Spec => []LedgerInStep
<1>1. IInv => LedgerInStep
  BY KeptInGrace DEF IInv, Follows, LedgerFollows, LedgerInStep
<1> QED BY <1>1, Invariance, PTL

\* No incident of an upstream is of a later read than its published resources,
\* but for a grace period (gateway.py Gateway.refresh, merge_into and incidents).
THEOREM IncidentsNotAheadAlways == Spec => []IncidentsNotAhead
<1>1. ASSUME IInv, lock = None, inv # None, NEW u \in Upstream, ~behind
      PROVE  gw[u].incidents <= inv.up[u] /\ inv.up[u] = gw[u].resources
  BY <1>1 DEF IInv, Follows, UpstreamsFollow
<1>2. IInv => IncidentsNotAhead
  BY <1>1, KeptInGrace DEF IncidentsNotAhead
<1> QED BY <1>2, Invariance, PTL

\* No inventory outlives its time, but for the grace period of a build that
\* failed (runtime.py Runtime.inventory).
THEOREM StaleIsExcusedAlways == Spec => []StaleIsExcused
<1>1. ASSUME IInv, Fresh PROVE clock - inv.made < InvTTL \/ InGrace
  <2>1. inv # None /\ clock - inv.built < InvTTL
    BY <1>1 DEF Fresh
  <2>2. TypeOK
    BY <1>1 DEF IInv
  <2>3. inv.built \in Int /\ inv.made \in Int /\ clock \in Int
    BY <2>1, <2>2, InvFields DEF TypeOK
  <2>4. CASE inv.built = inv.made
    BY <2>1, <2>4
  <2>5. CASE failedAt # None /\ inv.built = failedAt - InvTTL + Grace
    <3>1. failedAt \in Int
      BY <2>2, <2>5 DEF TypeOK
    <3> QED BY <2>1, <2>3, <2>5, <3>1 DEF InGrace
  <2> QED BY <1>1, <2>1, <2>4, <2>5 DEF IInv, Follows, AgeIsKnown
<1>2. IInv => StaleIsExcused
  BY <1>1 DEF StaleIsExcused
<1> QED BY <1>2, Invariance, PTL

\* Nothing is rebuilt before it has expired, however many requests wait
\* (runtime.py Runtime.inventory).
THEOREM ReplacesExpiredAlways == Spec => ReplacesExpired
<1>1. ASSUME IInv, Next, inv' # inv PROVE ~Fresh
  <2>1. lock # None
    BY <1>1 DEF Next, Tick, ReadCached, TakeLock, AwaitLock, Wake, Begin, Build, Observe, Assemble, KeepPrevious,
       StartEmpty, RefreshSkipped, RefreshFails, RefreshOk, RefreshTorn, Visit, MergeFails, Merged, Publish, caching
  <2> QED BY <1>1, <2>1 DEF IInv, Follows, LockHeld
<1>2. IInv /\ [Next]_vars => [inv' # inv => ~Fresh]_vars
  BY <1>1
<1> QED BY <1>2, Invariance, PTL DEF Spec, ReplacesExpired
=============================================================================
